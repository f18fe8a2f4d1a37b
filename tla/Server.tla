------------------------------- MODULE Server --------------------------------
(***************************************************************************)
(* cmd/server: run and shutdownAll, with the Vault client they own.        *)
(*                                                                         *)
(* main is the program counter of run: the boot steps, the select on       *)
(* serverErr and quit, the four stages of shutdownAll and the deferred     *)
(* close of the Dgraph connection.  Requests run in goroutines of their    *)
(* own for as long as they like; a verified one leaves a touch behind that *)
(* nobody waits for.                                                       *)
(***************************************************************************)
EXTENDS VaultClient

CONSTANTS
    HttpRequest, GrpcRequest,  \* requests being served
    Timeout                    \* cfg.Server.ShutdownTimeout

ASSUME TimeoutAssumption == Timeout \in Nat

VARIABLES
    main,      \* the program counter of run
    conn,      \* the Dgraph connection
    http,      \* the goroutine of httpServer.ListenAndServe
    grpc,      \* the goroutine of grpcSrv.Serve
    drain,     \* the goroutine of grpcSrv.GracefulStop
    request,   \* what became of each request
    touching,  \* the requests whose touch is still running
    signalled, \* a signal waits in quit
    ctx,       \* what is left of shutdownAll's context
    elapsed    \* history: the ticks since a shutdown began, up to Late

serverVars == <<main, conn, http, grpc, drain, request, touching, signalled,
                ctx, elapsed>>
vars == <<vaultVars, serverVars>>

Request == HttpRequest \cup GrpcRequest

BootSteps == {"login", "config", "signer", "dgraph", "schema", "listen"}

StopStages == {"http", "grpc", "vault", "close"}

\* Bound: a shutdown that has taken this long is late, however long it takes.
Late == Timeout + CallMax + 1

-----------------------------------------------------------------------------
Init ==
    /\ VaultInit
    /\ main = "login"
    /\ conn = "none"
    /\ http = "none"
    /\ grpc = "none"
    /\ drain = "none"
    /\ request = [r \in Request |-> "idle"]
    /\ touching = {}
    /\ signalled = FALSE
    /\ ctx = Timeout
    /\ elapsed = 0

\* Steps of run that leave the servers alone.
ServersUnchanged ==
    UNCHANGED <<http, grpc, drain, request, touching, signalled, ctx, elapsed>>

-----------------------------------------------------------------------------
(* Boot. *)

\* Vault answers the login, and the renewal of the token begins.
BootLogin ==
    /\ main = "login"
    /\ main' = "config"
    /\ Login
    /\ UNCHANGED conn /\ ServersUnchanged

\* No credentials, or vault.New fails: there is nothing to release.
BootLoginFails ==
    /\ main = "login"
    /\ main' = "exited"
    /\ UNCHANGED <<vaultVars, conn>> /\ ServersUnchanged

\* config.Load, the signer, dgraph.New and the three schemas.
BootStep ==
    /\ \/ main = "config" /\ main' = "signer" /\ UNCHANGED conn
       \/ main = "signer" /\ main' = "dgraph" /\ UNCHANGED conn
       \/ main = "dgraph" /\ main' = "schema" /\ conn' = "open"
       \/ main = "schema" /\ main' = "listen" /\ UNCHANGED conn
    /\ UNCHANGED vaultVars /\ ServersUnchanged

\* Any of them fails: vaultClient.Shutdown(), and the error is returned.
BootFails ==
    /\ main \in BootSteps \ {"login"}
    /\ main' = "vault"
    /\ Shutdown
    /\ UNCHANGED conn /\ ServersUnchanged

\* net.Listen for gRPC succeeds, and both servers' goroutines start.
BootServe ==
    /\ main = "listen"
    /\ main' = "serve"
    /\ http' = "started"
    /\ grpc' = "started"
    /\ UNCHANGED <<vaultVars, conn, drain, request, touching, signalled, ctx,
                   elapsed>>

\* A signal before signal.Notify kills the process.
BootKilled ==
    /\ main \in BootSteps
    /\ main' = "exited"
    /\ UNCHANGED <<vaultVars, conn>> /\ ServersUnchanged

-----------------------------------------------------------------------------
(* The servers and their requests. *)

HttpListens ==
    /\ http = "started"
    /\ http' = "serving"
    /\ UNCHANGED <<vaultVars, main, conn, grpc, drain, request, touching,
                   signalled, ctx, elapsed>>

GrpcServes ==
    /\ grpc = "started"
    /\ grpc' = "serving"
    /\ UNCHANGED <<vaultVars, main, conn, http, drain, request, touching,
                   signalled, ctx, elapsed>>

\* The listener fails, at the start or later: the error is in serverErr.
HttpFails ==
    /\ http \in {"started", "serving"}
    /\ http' = "failed"
    /\ UNCHANGED <<vaultVars, main, conn, grpc, drain, request, touching,
                   signalled, ctx, elapsed>>

GrpcFails ==
    /\ grpc \in {"started", "serving"}
    /\ grpc' = "failed"
    /\ UNCHANGED <<vaultVars, main, conn, http, drain, request, touching,
                   signalled, ctx, elapsed>>

\* A request arrives at a server that accepts.
Begin(r) ==
    /\ request[r] = "idle"
    /\ r \in HttpRequest => http = "serving"
    /\ r \in GrpcRequest => grpc = "serving"
    /\ request' = [request EXCEPT ![r] = "running"]
    /\ UNCHANGED <<vaultVars, main, conn, http, grpc, drain, touching,
                   signalled, ctx, elapsed>>

\* The handler returns; a verified one has started a touch.
End(r) ==
    /\ request[r] # "idle"
    /\ request' = [request EXCEPT ![r] = "idle"]
    /\ touching' \in {touching, touching \cup {r}}
    /\ UNCHANGED <<vaultVars, main, conn, http, grpc, drain, signalled, ctx,
                   elapsed>>

TouchEnds(r) ==
    /\ r \in touching
    /\ touching' = touching \ {r}
    /\ UNCHANGED <<vaultVars, main, conn, http, grpc, drain, request,
                   signalled, ctx, elapsed>>

-----------------------------------------------------------------------------
(* Shutdown. *)

\* The channel quit holds one signal and drops the others.
Signal ==
    /\ main \notin BootSteps
    /\ ~signalled
    /\ signalled' = TRUE
    /\ UNCHANGED <<vaultVars, main, conn, http, grpc, drain, request,
                   touching, ctx, elapsed>>

Closed(server) == IF server = "failed" THEN "failed" ELSE "closed"

\* The select wakes up: shutdownAll starts the context and the goroutine of
\* GracefulStop, and httpServer.Shutdown closes the HTTP listeners.
BeginShutdown ==
    /\ main = "serve"
    /\ signalled \/ "failed" \in {http, grpc}
    /\ main' = "http"
    /\ ctx' = Timeout
    /\ drain' = "spawned"
    /\ http' = Closed(http)
    /\ UNCHANGED <<vaultVars, conn, grpc, request, touching, signalled,
                   elapsed>>

HttpQuiet == \A r \in HttpRequest : request[r] = "idle"
GrpcQuiet == \A r \in GrpcRequest : request[r] = "idle"

\* GracefulStop: no new calls ...
DrainBegins ==
    /\ drain = "spawned"
    /\ drain' = "draining"
    /\ grpc' = Closed(grpc)
    /\ UNCHANGED <<vaultVars, main, conn, http, request, touching, signalled,
                   ctx, elapsed>>

\* ... and it returns when the last one has: close(grpcDone).
DrainEnds ==
    /\ drain = "draining"
    /\ GrpcQuiet
    /\ drain' = "done"
    /\ UNCHANGED <<vaultVars, main, conn, http, grpc, request, touching,
                   signalled, ctx, elapsed>>

\* Faulty variant: the context that is passed has no deadline.
HttpDone_NoDeadline == HttpQuiet

\* httpServer.Shutdown(ctx) returns: no request is left, or ctx is done.
HttpDone == HttpQuiet \/ ctx = 0

HttpStopped ==
    /\ main = "http"
    /\ HttpDone
    /\ main' = "grpc"
    /\ UNCHANGED <<vaultVars, conn, http, grpc, drain, request, touching,
                   signalled, ctx, elapsed>>

\* The select finds grpcDone closed, and Shutdown of the Vault client begins.
GrpcStopped ==
    /\ main = "grpc"
    /\ drain = "done"
    /\ main' = "vault"
    /\ Shutdown
    /\ UNCHANGED <<conn, http, grpc, drain, request, touching, signalled, ctx,
                   elapsed>>

\* Faulty variant: a select with a default, which does not wait.
GrpcForced_NoWait ==
    /\ main = "grpc"
    /\ main' = "vault"
    /\ Shutdown
    /\ grpc' = Closed(grpc)
    /\ request' = [r \in Request |->
                      IF r \in GrpcRequest /\ request[r] = "running"
                      THEN "cut" ELSE request[r]]
    /\ UNCHANGED <<conn, http, drain, touching, signalled, ctx, elapsed>>

\* It finds ctx done: Stop cuts the calls off and does not wait for them.
GrpcForced ==
    /\ main = "grpc"
    /\ ctx = 0
    /\ main' = "vault"
    /\ Shutdown
    /\ grpc' = Closed(grpc)
    /\ request' = [r \in Request |->
                      IF r \in GrpcRequest /\ request[r] = "running"
                      THEN "cut" ELSE request[r]]
    /\ UNCHANGED <<conn, http, drain, touching, signalled, ctx, elapsed>>

\* Faulty variant: Shutdown does not wait for the goroutine.
VaultStopped_NoWait ==
    /\ main = "vault"
    /\ main' = "close"
    /\ UNCHANGED <<vaultVars, conn>> /\ ServersUnchanged

\* wg.Wait() returns.
VaultStopped ==
    /\ main = "vault"
    /\ RenewerGone
    /\ main' = "close"
    /\ UNCHANGED <<vaultVars, conn>> /\ ServersUnchanged

\* run returns: the deferred dgraphConn.Close(), and the process ends.
CloseConn ==
    /\ main = "close"
    /\ main' = "exited"
    /\ conn' = IF conn = "open" THEN "closed" ELSE conn
    /\ UNCHANGED vaultVars /\ ServersUnchanged

-----------------------------------------------------------------------------
\* Something that happens before time goes on.
MainDue ==
    \/ main = "http" /\ HttpDone
    \/ main = "grpc" /\ (drain = "done" \/ ctx = 0)
    \/ main = "vault" /\ RenewerGone
    \/ main = "close"
    \/ drain = "spawned"

Tick ==
    /\ ~MainDue
    /\ VaultTick
    /\ ctx' = IF main \in StopStages THEN Less(ctx) ELSE ctx
    /\ elapsed' = IF main \in StopStages /\ elapsed < Late
                  THEN elapsed + 1 ELSE elapsed
    /\ UNCHANGED <<main, conn, http, grpc, drain, request, touching,
                   signalled>>

Boot ==
    \/ BootLogin \/ BootLoginFails \/ BootStep \/ BootFails \/ BootServe

StopStep ==
    \/ BeginShutdown \/ HttpStopped \/ GrpcStopped \/ GrpcForced
    \/ VaultStopped \/ CloseConn

Drain == DrainBegins \/ DrainEnds

Renew == (RenewerStep \/ VaultRenews) /\ UNCHANGED serverVars

Next ==
    /\ main # "exited"
    /\ \/ Boot \/ BootKilled
       \/ HttpListens \/ HttpFails \/ GrpcServes \/ GrpcFails
       \/ \E r \in Request : Begin(r) \/ End(r) \/ TouchEnds(r)
       \/ Signal
       \/ StopStep
       \/ Drain
       \/ Renew
       \/ Tick

Spec == Init /\ [][Next]_vars

\* The goroutines of the process run, and time goes on.  Requests may hang.
Fairness ==
    /\ WF_vars(Boot)
    /\ WF_vars(StopStep)
    /\ WF_vars(Drain)
    /\ WF_vars(RenewerStep /\ UNCHANGED serverVars /\ main # "exited")
    /\ WF_vars(Tick /\ main # "exited")

FairSpec == Spec /\ Fairness

-----------------------------------------------------------------------------
\* Type correctness of the process.
TypeOK ==
    /\ VaultTypeOK
    /\ main \in BootSteps \cup StopStages \cup {"serve", "exited"}
    /\ conn \in {"none", "open", "closed"}
    /\ http \in {"none", "started", "serving", "failed", "closed"}
    /\ grpc \in {"none", "started", "serving", "failed", "closed"}
    /\ drain \in {"none", "spawned", "draining", "done"}
    /\ request \in [Request -> {"idle", "running", "cut"}]
    /\ touching \subseteq Request
    /\ signalled \in BOOLEAN
    /\ ctx \in Nat
    /\ elapsed \in Nat

(***************************************************************************)
(* shutdownAll, "the correct order": the connection is closed only when    *)
(* the token's goroutine has ended, stopCh is closed once at most (closing *)
(* it twice panics) and only when no server accepts any more.              *)
(***************************************************************************)
StopsInOrder ==
    /\ conn = "closed" => RenewerGone
    /\ closes <= 1
    /\ Stopping => {http, grpc} \cap {"started", "serving"} = {}

(***************************************************************************)
(* A graceful shutdown loses no request: a call is cut off, or a handler   *)
(* is left behind when the connection closes or the process ends, only     *)
(* when the context of the shutdown has run out.                           *)
(***************************************************************************)
CutOffOnlyByTimeout ==
    (\E r \in Request : \/ request[r] = "cut"
                        \/ request[r] = "running" /\ Stopping)
        => ctx = 0

(***************************************************************************)
(* However long requests, Vault and its token take, the process is gone    *)
(* within the shutdown timeout and one call of RenewSelf: Shutdown of the  *)
(* Vault client waits for a call that nothing cancels, and for no more.    *)
(***************************************************************************)
ExitBounded == elapsed < Late

(***************************************************************************)
(* A signal or the failure of a server ends the process, even when a       *)
(* request never returns.                                                  *)
(***************************************************************************)
ShutdownEnds ==
    (main = "serve" /\ (signalled \/ "failed" \in {http, grpc}))
        ~> main = "exited"

(***************************************************************************)
(* While the process serves, a token with a lease is never given up: the   *)
(* goroutine calls RenewSelf again, after a failure as after a success.    *)
(***************************************************************************)
RenewalGoesOn ==
    [](main = "serve" /\ lease # 0 =>
          <>(renewer = "call" \/ main # "serve"))
=============================================================================

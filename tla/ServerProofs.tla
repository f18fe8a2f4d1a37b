---------------------------- MODULE ServerProofs -----------------------------
(***************************************************************************)
(* Theorems about Server, for any leases, timeouts and requests.           *)
(***************************************************************************)
EXTENDS Server, TLAPS

-----------------------------------------------------------------------------
(* The types of the process's own variables.                               *)
ProcessTypeOK ==
    /\ main \in BootSteps \cup StopStages \cup {"serve", "exited"}
    /\ conn \in {"none", "open", "closed"}
    /\ http \in {"none", "started", "serving", "failed", "closed"}
    /\ grpc \in {"none", "started", "serving", "failed", "closed"}
    /\ drain \in {"none", "spawned", "draining", "done"}
    /\ request \in [Request -> {"idle", "running", "cut"}]
    /\ touching \subseteq Request
    /\ signalled \in BOOLEAN
    /\ ctx \in Nat
    /\ elapsed \in Nat

LEMMA TypeParts == TypeOK <=> VaultTypeOK /\ ProcessTypeOK
BY DEF TypeOK, ProcessTypeOK

-----------------------------------------------------------------------------
(* The inductive invariant: types, and what ties the parts together.       *)

(* The token and its goroutine: what is left of a token that is renewed in *)
(* time covers the rest of the sleep and a call.                           *)
RenewalInv ==
    /\ renewer = "none" => lease = 0
    /\ renewer = "wait" => failing
    /\ renewer = "call" => timer <= CallMax
    /\ renewer # "call" => granted = 0
    /\ granted # 0 => granted + timer <= left + CallMax
    /\ ~failing /\ LongEnough(lease) =>
          /\ renewer = "sleep" => timer + CallMax < left
          /\ renewer = "call" /\ granted = 0 => timer < left
          /\ renewer = "done" => left > 0

(* What run has started and released when it is where it is.               *)
ReleaseInv ==
    /\ main = "login" => renewer = "none"
    /\ renewer = "none" => main \in {"login", "exited"}
    /\ main \in BootSteps \cup {"serve", "http", "grpc"} => closes = 0
    /\ main \in {"vault", "close"} => closes = 1
    /\ main = "close" => RenewerGone
    /\ closes <= 1
    /\ renewer = "done" => lease = 0 \/ Stopping
    /\ conn = "closed" => main = "exited" /\ RenewerGone

(* Who still accepts and who still runs.                                   *)
ServingInv ==
    /\ main \in BootSteps =>
          /\ http = "none" /\ grpc = "none"
          /\ HttpQuiet /\ GrpcQuiet
    /\ main \in BootSteps \cup {"serve"} => drain = "none"
    /\ main \in {"http", "grpc"} \/ Stopping =>
          http \notin {"started", "serving"}
    /\ drain \in {"draining", "done"} \/ Stopping =>
          grpc \notin {"started", "serving"}
    /\ drain = "done" => GrpcQuiet
    /\ main = "grpc" => HttpQuiet \/ ctx = 0
    /\ Stopping => (HttpQuiet /\ GrpcQuiet) \/ ctx = 0
    /\ (\E r \in Request : request[r] = "cut") => Stopping /\ ctx = 0

(* How long a shutdown has taken, and what it still waits for.             *)
ElapsedInv ==
    /\ main \in BootSteps \cup {"serve"} => elapsed = 0
    /\ main \in {"http", "grpc"} => elapsed + ctx <= Timeout
    /\ main = "vault" /\ renewer = "call" =>
          elapsed + timer <= Timeout + CallMax
    /\ main = "vault" /\ renewer = "sleep" /\ timer = 0 => elapsed <= Timeout
    /\ elapsed <= Timeout + CallMax

Inv ==
    /\ TypeOK
    /\ RenewalInv
    /\ ReleaseInv
    /\ ServingInv
    /\ ElapsedInv

-----------------------------------------------------------------------------
USE LeasesAssumption, TimesAssumption, TimeoutAssumption

(* The sleep is positive and leaves a third of a long lease.               *)
LEMMA SleepIsShort ==
    ASSUME NEW ttl \in Nat
    PROVE  /\ SleepFor(ttl) \in Nat \ {0}
           /\ LongEnough(ttl) => SleepFor(ttl) + 2 * CallMax < ttl
<1>1. /\ (ttl * 2) \div 3 \in Nat
      /\ 3 * ((ttl * 2) \div 3) <= 2 * ttl
  BY Z3
<1>2. QED
  BY <1>1 DEF SleepFor, LongEnough

LEMMA LoopType ==
    ASSUME NEW ttl \in Leases \cup {0}, Loop(ttl)
    PROVE  /\ renewer' \in {"sleep", "done"}
           /\ timer' \in Nat
           /\ renewer' = "sleep" => ttl # 0 /\ timer' = SleepFor(ttl)
                                    /\ timer' > 0
           /\ renewer' = "done" => ttl = 0
<1>1. ttl \in Nat
  OBVIOUS
<1>2. QED
  BY <1>1, SleepIsShort DEF Loop

-----------------------------------------------------------------------------
(* The steps of the Vault client keep its part of the invariant.           *)

LEMMA LoginKeeps ==
    ASSUME VaultTypeOK, RenewalInv, Login
    PROVE  VaultTypeOK' /\ RenewalInv'
<1>1. PICK ttl \in Leases, late \in 0 .. CallMax :
         /\ left' = IF late < ttl THEN ttl - late ELSE 0
         /\ lease' = ttl
         /\ Loop(ttl)
  BY DEF Login
<1>2. /\ ttl \in Nat
      /\ left' \in Nat
  BY <1>1
<1>3. VaultTypeOK'
  BY <1>1, <1>2, LoopType DEF VaultTypeOK, Login
<1>4. RenewalInv'
  BY <1>1, <1>2, LoopType, SleepIsShort
  DEF VaultTypeOK, Login, RenewalInv, LongEnough
<1>5. QED
  BY <1>3, <1>4

LEMMA CallRenewKeeps ==
    ASSUME VaultTypeOK, RenewalInv, CallRenew
    PROVE  VaultTypeOK' /\ RenewalInv'
BY DEF VaultTypeOK, RenewalInv, CallRenew, LongEnough

LEMMA VaultRenewsKeeps ==
    ASSUME VaultTypeOK, RenewalInv, VaultRenews
    PROVE  VaultTypeOK' /\ RenewalInv'
BY DEF VaultTypeOK, RenewalInv, VaultRenews, LongEnough

LEMMA RenewedKeeps ==
    ASSUME VaultTypeOK, RenewalInv, Renewed
    PROVE  VaultTypeOK' /\ RenewalInv'
<1>1. granted \in Leases /\ granted \in Nat /\ Loop(granted)
  BY DEF VaultTypeOK, Renewed
<1>2. VaultTypeOK'
  BY <1>1, LoopType DEF VaultTypeOK, Renewed
<1>3. RenewalInv'
  BY <1>1, LoopType, SleepIsShort
  DEF VaultTypeOK, Renewed, RenewalInv, LongEnough
<1>4. QED
  BY <1>2, <1>3

LEMMA RenewFailsKeeps ==
    ASSUME VaultTypeOK, RenewalInv, RenewFails
    PROVE  VaultTypeOK' /\ RenewalInv'
BY DEF VaultTypeOK, RenewalInv, RenewFails, LongEnough

LEMMA RetryDueKeeps ==
    ASSUME VaultTypeOK, RenewalInv, RetryDue
    PROVE  VaultTypeOK' /\ RenewalInv'
<1>1. lease \in Leases \cup {0} /\ Loop(lease)
  BY DEF VaultTypeOK, RetryDue
<1>2. VaultTypeOK'
  BY <1>1, LoopType DEF VaultTypeOK, RetryDue
<1>3. RenewalInv'
  BY <1>1, LoopType DEF VaultTypeOK, RetryDue, RenewalInv
<1>4. QED
  BY <1>2, <1>3

LEMMA StopSeenKeeps ==
    ASSUME VaultTypeOK, RenewalInv, StopSeen
    PROVE  VaultTypeOK' /\ RenewalInv'
BY DEF VaultTypeOK, RenewalInv, StopSeen, SeesStop, LongEnough

LEMMA ShutdownKeeps ==
    ASSUME VaultTypeOK, RenewalInv, Shutdown
    PROVE  VaultTypeOK' /\ RenewalInv'
BY DEF VaultTypeOK, RenewalInv, Shutdown, LongEnough

(* Time only passes when no token is kept for a goroutine that has ended.  *)
LEMMA VaultTickKeeps ==
    ASSUME VaultTypeOK, RenewalInv, VaultTick,
           renewer = "done" => lease = 0
    PROVE  VaultTypeOK' /\ RenewalInv'
<1>1. VaultTypeOK'
  BY DEF VaultTypeOK, VaultTick, Less
<1>2. RenewalInv'
  BY DEF VaultTypeOK, RenewalInv, VaultTick, RenewerDue, Less, LongEnough
<1>3. QED
  BY <1>1, <1>2
-----------------------------------------------------------------------------
(* A step that leaves the client alone keeps the client's part.            *)
LEMMA VaultUnchangedKeeps ==
    ASSUME VaultTypeOK, RenewalInv, UNCHANGED vaultVars
    PROVE  VaultTypeOK' /\ RenewalInv'
BY DEF VaultTypeOK, RenewalInv, vaultVars, LongEnough

(* The boot steps.                                                         *)
LEMMA BootKeeps ==
    ASSUME Inv, main # "exited", Boot \/ BootKilled
    PROVE  Inv'
<1>1. CASE BootLogin
  <2>1. VaultTypeOK' /\ RenewalInv'
    BY <1>1, LoginKeeps DEF Inv, TypeOK, BootLogin
  <2>2. /\ renewer' \in {"sleep", "done"}
        /\ renewer' = "done" => lease' = 0
    BY <1>1, LoopType DEF BootLogin, Login
  <2>3. ProcessTypeOK' /\ ReleaseInv' /\ ServingInv' /\ ElapsedInv'
    BY <1>1, <2>2
    DEF Inv, TypeOK, ProcessTypeOK, ReleaseInv, ServingInv, ElapsedInv,
        BootLogin, Login, ServersUnchanged, BootSteps, StopStages,
        HttpQuiet, GrpcQuiet, RenewerGone, Stopping
  <2>4. QED
    BY <2>1, <2>3, TypeParts DEF Inv, TypeOK, ProcessTypeOK
<1>2. CASE BootFails
  <2>1. VaultTypeOK' /\ RenewalInv'
    BY <1>2, ShutdownKeeps DEF Inv, TypeOK, BootFails
  <2>2. ProcessTypeOK' /\ ReleaseInv' /\ ServingInv' /\ ElapsedInv'
    BY <1>2
    DEF Inv, TypeOK, VaultTypeOK, ProcessTypeOK, ReleaseInv, ServingInv,
        ElapsedInv, RenewalInv, BootFails, Shutdown, ServersUnchanged, BootSteps,
        StopStages, HttpQuiet, GrpcQuiet, RenewerGone, Stopping
  <2>3. QED
    BY <2>1, <2>2 DEF Inv, TypeOK, ProcessTypeOK
<1>3. CASE BootLoginFails \/ BootStep \/ BootServe \/ BootKilled
  <2>1. VaultTypeOK' /\ RenewalInv'
    BY <1>3, VaultUnchangedKeeps
    DEF Inv, TypeOK, BootLoginFails, BootStep, BootServe, BootKilled
  <2>2. ProcessTypeOK' /\ ReleaseInv' /\ ServingInv' /\ ElapsedInv'
    BY <1>3
    DEF Inv, TypeOK, ProcessTypeOK, ReleaseInv, ServingInv, ElapsedInv,
        BootLoginFails, BootStep, BootServe, BootKilled, vaultVars,
        ServersUnchanged, BootSteps, StopStages, HttpQuiet, GrpcQuiet,
        RenewerGone, Stopping
  <2>3. QED
    BY <2>1, <2>2 DEF Inv, TypeOK, ProcessTypeOK
<1>4. QED
  BY <1>1, <1>2, <1>3 DEF Boot

(* The steps of the servers and their requests.                            *)
LEMMA ServersKeep ==
    ASSUME Inv, main # "exited",
           \/ HttpListens \/ HttpFails \/ GrpcServes \/ GrpcFails
           \/ \E r \in Request : Begin(r) \/ End(r) \/ TouchEnds(r)
           \/ Signal
    PROVE  Inv'
<1>1. VaultTypeOK' /\ RenewalInv' /\ UNCHANGED <<vaultVars, main, conn>>
  <2>1. UNCHANGED <<vaultVars, main, conn>>
    BY DEF HttpListens, HttpFails, GrpcServes, GrpcFails, Begin, End,
           TouchEnds, Signal
  <2>2. QED
    BY <2>1, VaultUnchangedKeeps DEF Inv, TypeOK
<1>2. ReleaseInv'
  BY <1>1 DEF Inv, ReleaseInv, vaultVars, RenewerGone, Stopping
<1>3. UNCHANGED <<drain, ctx, elapsed>>
  BY DEF HttpListens, HttpFails, GrpcServes, GrpcFails, Begin, End,
         TouchEnds, Signal
<1>4. ElapsedInv'
  BY <1>1, <1>3 DEF Inv, ElapsedInv, vaultVars
<1>5. ProcessTypeOK' /\ ServingInv'
  <2>1. CASE HttpListens \/ HttpFails \/ GrpcServes \/ GrpcFails \/ Signal
    <3>1. /\ UNCHANGED <<drain, request, touching, ctx, elapsed, main, conn>>
          /\ closes' = closes
          /\ http' \in {http, "serving", "failed"}
          /\ http' # http => http \in {"started", "serving"}
          /\ grpc' \in {grpc, "serving", "failed"}
          /\ grpc' # grpc => grpc \in {"started", "serving"}
          /\ signalled' \in {signalled, TRUE}
      BY <1>1, <2>1
      DEF HttpListens, HttpFails, GrpcServes, GrpcFails, Signal, vaultVars
    <3>2. ProcessTypeOK'
      <4>1. ProcessTypeOK
        BY DEF Inv, TypeOK, ProcessTypeOK
      <4>2. /\ http' \in {"none", "started", "serving", "failed", "closed"}
            /\ grpc' \in {"none", "started", "serving", "failed", "closed"}
            /\ signalled' \in BOOLEAN
        BY <3>1, <4>1 DEF ProcessTypeOK
      <4>3. QED
        BY <3>1, <4>1, <4>2 DEF ProcessTypeOK
    <3>3. UNCHANGED <<HttpQuiet, GrpcQuiet, Stopping>>
      BY <3>1 DEF HttpQuiet, GrpcQuiet, Stopping
    <3>4. ServingInv'
      BY <3>1, <3>3 DEF Inv, ServingInv
    <3>5. QED
      BY <3>2, <3>4
  <2>2. ASSUME NEW r \in Request, Begin(r)
        PROVE  ProcessTypeOK' /\ ServingInv'
    BY <1>1, <2>2
    DEF Inv, TypeOK, ProcessTypeOK, ReleaseInv, ServingInv, Begin, vaultVars,
        HttpQuiet, GrpcQuiet, Stopping, Request, BootSteps
  <2>3. ASSUME NEW r \in Request, End(r) \/ TouchEnds(r)
        PROVE  ProcessTypeOK' /\ ServingInv'
    BY <1>1, <2>3
    DEF Inv, TypeOK, ProcessTypeOK, ReleaseInv, ServingInv, End, TouchEnds,
        vaultVars, HttpQuiet, GrpcQuiet, Stopping, Request, BootSteps
  <2>4. QED
    BY <2>1, <2>2, <2>3
<1>6. QED
  BY <1>1, <1>2, <1>4, <1>5 DEF Inv, TypeOK, ProcessTypeOK

(* The steps of shutdownAll and of GracefulStop.                           *)
LEMMA StopKeeps ==
    ASSUME Inv, main # "exited", StopStep \/ Drain
    PROVE  Inv'
<1>1. CASE GrpcStopped \/ GrpcForced
  <2>1. VaultTypeOK' /\ RenewalInv'
    BY <1>1, ShutdownKeeps DEF Inv, TypeOK, GrpcStopped, GrpcForced
  <2>2. /\ main = "grpc" /\ main' = "vault"
        /\ closes = 0 /\ closes' = 1
        /\ UNCHANGED <<left, lease, renewer, timer, granted, failing>>
        /\ UNCHANGED <<conn, http, ctx, elapsed, drain, signalled, touching>>
    BY <1>1 DEF Inv, ReleaseInv, GrpcStopped, GrpcForced, Shutdown
  <2>3. ReleaseInv' /\ ElapsedInv'
    BY <2>2
    DEF Inv, TypeOK, VaultTypeOK, RenewalInv, ReleaseInv, ElapsedInv,
        RenewerGone, Stopping, BootSteps
  <2>4. ProcessTypeOK' /\ ServingInv'
    <3>1. CASE GrpcStopped
      BY <3>1, <2>2
      DEF Inv, TypeOK, ProcessTypeOK, ServingInv, GrpcStopped, HttpQuiet,
          GrpcQuiet, Stopping, BootSteps, StopStages
    <3>2. CASE GrpcForced
      BY <3>2, <2>2
      DEF Inv, TypeOK, ProcessTypeOK, ServingInv, GrpcForced, HttpQuiet,
          GrpcQuiet, Stopping, BootSteps, StopStages, Closed, Request
    <3>3. QED
      BY <1>1, <3>1, <3>2
  <2>5. QED
    BY <2>1, <2>3, <2>4 DEF Inv, TypeOK, ProcessTypeOK
<1>2. CASE BeginShutdown \/ HttpStopped \/ VaultStopped \/ CloseConn
           \/ DrainBegins \/ DrainEnds
  <2>1. VaultTypeOK' /\ RenewalInv' /\ UNCHANGED vaultVars
    BY <1>2, VaultUnchangedKeeps
    DEF Inv, TypeOK, BeginShutdown, HttpStopped, VaultStopped, CloseConn,
        DrainBegins, DrainEnds
  <2>2. ProcessTypeOK' /\ ReleaseInv' /\ ElapsedInv'
    BY <1>2, <2>1
    DEF Inv, TypeOK, ProcessTypeOK, ReleaseInv, ElapsedInv, vaultVars,
        BeginShutdown, HttpStopped, VaultStopped, CloseConn, DrainBegins,
        DrainEnds, Closed, ServersUnchanged, RenewerGone, Stopping, BootSteps,
        StopStages
  <2>3. ServingInv'
    BY <1>2, <2>1
    DEF Inv, TypeOK, ReleaseInv, ServingInv, vaultVars, BeginShutdown,
        HttpStopped, HttpDone, VaultStopped, CloseConn, DrainBegins, DrainEnds,
        Closed, ServersUnchanged, HttpQuiet, GrpcQuiet, Stopping, BootSteps,
        StopStages
  <2>4. QED
    BY <2>1, <2>2, <2>3 DEF Inv, TypeOK, ProcessTypeOK
<1>3. QED
  BY <1>1, <1>2 DEF StopStep, Drain

(* The steps of the token's goroutine and of Vault.                        *)
LEMMA RenewKeeps ==
    ASSUME Inv, main # "exited", Renew
    PROVE  Inv'
<1>1. VaultTypeOK' /\ RenewalInv'
  BY CallRenewKeeps, VaultRenewsKeeps, RenewedKeeps, RenewFailsKeeps,
     RetryDueKeeps, StopSeenKeeps
  DEF Inv, TypeOK, Renew, RenewerStep
<1>2. UNCHANGED <<serverVars, closes>> /\ renewer \notin {"none", "done"}
  BY DEF Renew, RenewerStep, CallRenew, VaultRenews, Renewed, RenewFails,
         RetryDue, StopSeen, SeesStop
<1>3. ProcessTypeOK' /\ ServingInv'
  BY <1>2
  DEF Inv, TypeOK, ProcessTypeOK, ServingInv, serverVars, HttpQuiet,
      GrpcQuiet, Stopping
<1>4. /\ renewer' # "none"
      /\ renewer' = "done" => lease' = 0 \/ Stopping
      /\ renewer' = "sleep" => timer' > 0
      /\ renewer' = "call" => \/ renewer = "sleep" /\ timer = 0 /\ timer' = CallMax
                              \/ renewer = "call" /\ timer' = timer
  <2>1. CASE Renewed
    <3>1. granted \in Leases /\ Loop(granted) /\ lease' = granted
      BY <2>1 DEF Inv, TypeOK, VaultTypeOK, Renewed
    <3>2. QED
      BY <3>1, LoopType
  <2>2. CASE RetryDue
    <3>1. lease \in Leases \cup {0} /\ Loop(lease) /\ lease' = lease
      BY <2>2 DEF Inv, TypeOK, VaultTypeOK, RetryDue
    <3>2. QED
      BY <3>1, LoopType
  <2>3. CASE CallRenew \/ VaultRenews \/ RenewFails \/ StopSeen
    BY <2>3 DEF CallRenew, VaultRenews, RenewFails, StopSeen, SeesStop
  <2>4. QED
    BY <2>1, <2>2, <2>3 DEF Renew, RenewerStep
<1>5. ReleaseInv'
  BY <1>2, <1>4
  DEF Inv, ReleaseInv, serverVars, RenewerGone, Stopping
<1>6. ElapsedInv'
  BY <1>2, <1>4 DEF Inv, TypeOK, ElapsedInv, serverVars
<1>7. QED
  BY <1>1, <1>3, <1>5, <1>6 DEF Inv, TypeOK, ProcessTypeOK

(* Time goes on.                                                           *)
LEMMA TickKeeps ==
    ASSUME Inv, main # "exited", Tick
    PROVE  Inv'
<1>1. /\ UNCHANGED <<main, conn, http, grpc, drain, request, touching,
                     signalled>>
      /\ UNCHANGED <<lease, renewer, granted, failing, closes>>
      /\ timer' = Less(timer)
  BY DEF Tick, VaultTick
<1>2. renewer = "done" => lease = 0
  BY DEF Inv, TypeOK, ReleaseInv, Tick, MainDue, RenewerGone, Stopping,
         BootSteps, StopStages
<1>3. VaultTypeOK' /\ RenewalInv'
  BY <1>2, VaultTickKeeps DEF Inv, TypeOK, Tick
<1>4. ctx' \in Nat /\ (ctx = 0 => ctx' = 0)
  BY DEF Inv, TypeOK, Tick, Less
<1>5. ProcessTypeOK' /\ ReleaseInv' /\ ServingInv'
  BY <1>1, <1>4
  DEF Inv, TypeOK, ProcessTypeOK, ReleaseInv, ServingInv, Tick, HttpQuiet,
      GrpcQuiet, RenewerGone, Stopping, Late
<1>6. ElapsedInv'
  <2>1. CASE main \in {"http", "grpc"}
    BY <1>1, <2>1
    DEF Inv, TypeOK, ElapsedInv, Tick, MainDue, HttpDone, Less, BootSteps,
        StopStages, Late
  <2>2. CASE main = "vault"
    <3>1. renewer = "call" /\ timer > 0
      BY <2>2
      DEF Inv, TypeOK, VaultTypeOK, ReleaseInv, Tick, VaultTick, MainDue,
          RenewerDue, RenewerGone, SeesStop, Stopping
    <3>2. QED
      BY <1>1, <2>2, <3>1
      DEF Inv, TypeOK, VaultTypeOK, ElapsedInv, Tick, Less, BootSteps,
          StopStages, Late
  <2>3. CASE main \in BootSteps \cup {"serve"}
    BY <1>1, <2>3 DEF Inv, ElapsedInv, Tick, BootSteps, StopStages
  <2>4. QED
    BY <2>1, <2>2, <2>3 DEF Inv, TypeOK, Tick, MainDue, StopStages
<1>7. QED
  BY <1>3, <1>5, <1>6 DEF Inv, TypeOK, ProcessTypeOK

-----------------------------------------------------------------------------
(* Inv is an invariant.                                                    *)

LEMMA InitEstablishes == Init => Inv
<1> SUFFICES ASSUME Init PROVE Inv
  OBVIOUS
<1>1. VaultTypeOK /\ RenewalInv
  BY DEF Init, VaultInit, VaultTypeOK, RenewalInv
<1>2. ProcessTypeOK
  BY DEF Init, ProcessTypeOK, BootSteps
<1>3. ReleaseInv /\ ElapsedInv
  BY DEF Init, VaultInit, ReleaseInv, ElapsedInv, Stopping
<1>4. ServingInv
  BY DEF Init, VaultInit, ServingInv, HttpQuiet, GrpcQuiet, Stopping, Request
<1>5. QED
  BY <1>1, <1>2, <1>3, <1>4 DEF Inv, TypeOK, ProcessTypeOK

LEMMA NextKeeps ==
    ASSUME Inv, [Next]_vars
    PROVE  Inv'
<1>1. CASE Next
  BY <1>1, BootKeeps, ServersKeep, StopKeeps, RenewKeeps, TickKeeps DEF Next
<1>2. CASE UNCHANGED vars
  BY <1>2
  DEF vars, vaultVars, serverVars, Inv, TypeOK, VaultTypeOK, RenewalInv,
      ReleaseInv, ServingInv, ElapsedInv, HttpQuiet, GrpcQuiet, RenewerGone,
      Stopping, LongEnough
<1>3. QED
  BY <1>1, <1>2

LEMMA Invariance == Spec => []Inv
<1>1. QED
  BY InitEstablishes, NextKeeps, PTL DEF Spec

-----------------------------------------------------------------------------
(* The process and its Vault client are well typed in every reachable      *)
(* state.                                                                  *)
THEOREM TypeCorrect == Spec => []TypeOK
<1>1. Inv => TypeOK
  BY DEF Inv
<1>2. QED
  BY <1>1, Invariance, PTL

(* renewToken: whatever leases Vault grants, a token whose lease is long   *)
(* enough for the calls is renewed before it expires.                      *)
THEOREM TokenIsKept == Spec => []TokenKept
<1>1. Inv => TokenKept
  BY DEF Inv, TypeOK, VaultTypeOK, RenewalInv, TokenKept, Lapsed, LongEnough
<1>2. QED
  BY <1>1, Invariance, PTL

(* shutdownAll stops what it stops in its order, and stops it once.        *)
THEOREM StoppedInOrder == Spec => []StopsInOrder
<1>1. Inv => StopsInOrder
  BY DEF Inv, ReleaseInv, ServingInv, StopsInOrder, Stopping
<1>2. QED
  BY <1>1, Invariance, PTL

(* A request is lost to a shutdown only when its timeout has run out.      *)
THEOREM CutOffIsATimeout == Spec => []CutOffOnlyByTimeout
<1>1. Inv => CutOffOnlyByTimeout
  BY DEF Inv, ServingInv, CutOffOnlyByTimeout, HttpQuiet, GrpcQuiet, Request
<1>2. QED
  BY <1>1, Invariance, PTL

(* No shutdown lasts longer than its timeout and one call to Vault.        *)
THEOREM ExitIsBounded == Spec => []ExitBounded
<1>1. Inv => ExitBounded
  BY DEF Inv, TypeOK, ElapsedInv, ExitBounded, Late
<1>2. QED
  BY <1>1, Invariance, PTL
=============================================================================

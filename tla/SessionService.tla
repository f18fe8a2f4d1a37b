--------------------------- MODULE SessionService ---------------------------
(***************************************************************************)
(* The handlers of the session endpoints, running concurrently over the    *)
(* store: SessionService (internal/service/session.go), called through     *)
(* middleware.Authenticate and the HTTP handlers.  The gRPC server calls   *)
(* the same methods.                                                       *)
(*                                                                         *)
(* A handler is a sequence of Dgraph calls with local work in between; one *)
(* action is one call together with the local work up to the next one, so  *)
(* other handlers run between any two calls.  A call may also fail without *)
(* effect (CallFails), be applied while its answer is lost (the second     *)
(* disjunct of Reply), or be cut off by a restart of the server (Restart). *)
(* A slot of Request serves one request after another.                     *)
(***************************************************************************)
EXTENDS SessionStore, Sequences

CONSTANTS
    AccessTTL,   \* SessionConfig.AccessTTL, in ticks
    RefreshTTL,  \* SessionConfig.RefreshTTL, in ticks
    Ops,         \* the endpoints clients use in this instance
    MaxTime,     \* bound: the clock stops there
    MaxFaults,   \* bound: failed calls, lost answers and restarts
    MaxTouches   \* bound: touch goroutines running at once

AllOps == {"login", "serviceLogin", "verify", "refresh", "logout",
           "logoutAll", "listSessions", "revokeSession", "activateContext"}

ASSUME SessionServiceAssumption ==
    /\ AccessTTL \in Nat /\ RefreshTTL \in Nat
    /\ MaxTime \in Nat /\ MaxFaults \in Nat /\ MaxTouches \in Nat
    /\ Ops \subseteq AllOps

VARIABLES
    clock,    \* time.Now(), in ticks
    reqs,     \* the handlers
    held,     \* sessions whose token pair some response delivered
    touches,  \* touch goroutines that have not written yet
    faults    \* faults so far

vars == <<sessions, txn, conflicted, clock, reqs, held, touches, faults>>

-----------------------------------------------------------------------------
Pcs == {"idle", "authenticate", "lookup", "findTarget", "revoke", "mint",
        "create", "rotateRead", "rotateCommit", "readBack", "bulkRead",
        "bulkWrite", "list"}

Answers == {"none", "ok", "denied", "expired", "replayed", "error"}

(* A handler.  before, dead and faulted are history: the sessions stored   *)
(* when the request began, whether the session it presents was revoked by  *)
(* then, and whether a fault hit it.                                       *)
Handler ==
    [op      : AllOps,
     pc      : Pcs,
     token   : SessionId \cup {NoSession},   \* whose token it presents
     target  : SessionId \cup {NoSession},   \* what its next call addresses
     draft   : SessionInput \cup {NoSession},\* the node it will create
     found   : SUBSET SessionId,             \* what its bulk query returned
     listing : Seq(SessionId),
     answer  : Answers,
     before  : SUBSET SessionId,
     dead    : BOOLEAN,
     faulted : BOOLEAN]

Idle ==
    [op |-> "verify", pc |-> "idle", token |-> NoSession,
     target |-> NoSession, draft |-> NoSession, found |-> {},
     listing |-> << >>, answer |-> "none", before |-> {},
     dead |-> FALSE, faulted |-> FALSE]

Init ==
    /\ StoreInit
    /\ clock = 0
    /\ reqs = [r \in Request |-> Idle]
    /\ held = {}
    /\ touches = {}
    /\ faults = 0

At(r, label) == reqs[r].pc = label
Active(r)    == reqs[r].pc # "idle"
TokenOf(r)   == reqs[r].token

(* The response is written: the locals are gone, the answer stays.         *)
Answered(r, a) ==
    [reqs[r] EXCEPT !.pc = "idle", !.answer = a, !.target = NoSession,
                    !.draft = NoSession, !.found = {}]

(* The revocation that follows a replay is best effort: its errors are     *)
(* dropped.  Any other error is an error response.                         *)
FailureAnswer(r) ==
    IF reqs[r].op = "refresh" /\ reqs[r].pc \in {"bulkRead", "bulkWrite"}
    THEN "replayed" ELSE "error"

Failed(r) == [Answered(r, FailureAnswer(r)) EXCEPT !.faulted = TRUE]

Continue(r, next) == reqs' = [reqs EXCEPT ![r] = next]

(* The answer to a call that was applied: it arrives, or is lost.          *)
Reply(r, next) ==
    \/ Continue(r, next) /\ UNCHANGED faults
    \/ /\ faults < MaxFaults
       /\ faults' = faults + 1
       /\ Continue(r, Failed(r))

-----------------------------------------------------------------------------
(* Requests.                                                               *)

(* Bound: a request that may mint starts only while the ids last, so that  *)
(* no handler is ever stuck for want of one.                               *)
Minting ==
    {r \in Request :
        \/ reqs[r].pc \in {"mint", "create"}
        \/ /\ Active(r) /\ ~At(r, "readBack")
           /\ reqs[r].op \in {"refresh", "activateContext"}
           /\ Stores(TokenOf(r)) /\ ~reqs[r].dead}

RoomToMint == Cardinality(Minting) < Cardinality(FreeIds)

(* A handler starts on the token of session t.  A client may present any   *)
(* token it was ever given, an old one included.                           *)
StartOn(r, op, t, tgt, pc) ==
    /\ op \in Ops
    /\ ~Active(r)
    /\ Continue(r, [Idle EXCEPT
           !.op = op, !.pc = pc, !.token = t, !.target = tgt,
           !.before = IF op \in {"refresh", "logoutAll", "listSessions"}
                      THEN DOMAIN sessions ELSE {},
           !.dead = Stores(t) /\ sessions[t].revoked])
    /\ UNCHANGED <<storeVars, clock, held, touches, faults>>

(* What Create is given; its times are read when the tokens are there.     *)
MintInput(kind, u, c, ctx, parent) ==
    [kind |-> kind, user |-> u, client |-> c, context |-> ctx,
     expires |-> 0, refreshExpires |-> 0, lastSeen |-> 0,
     parent |-> parent, decided |-> clock, delay |-> 0]

(* POST /auth/login and /auth/service/token, the credentials accepted.     *)
StartMint(r, op, in) ==
    /\ op \in Ops
    /\ ~Active(r)
    /\ RoomToMint
    /\ Continue(r, [Idle EXCEPT !.op = op, !.pc = "mint", !.draft = in])
    /\ UNCHANGED <<storeVars, clock, held, touches, faults>>

Login(r, u) ==
    StartMint(r, "login", MintInput("user", u, NoName, NoContext, NoSession))

ServiceLogin(r, c) ==
    StartMint(r, "serviceLogin",
              MintInput("service", NoName, c, NoContext, NoSession))

(* POST /auth/refresh is not behind the middleware.                        *)
StartRefresh(r, t) ==
    (Live(t) => RoomToMint) /\ StartOn(r, "refresh", t, NoSession, "lookup")

StartVerify(r, t)    == StartOn(r, "verify", t, NoSession, "authenticate")
StartLogout(r, t)    == StartOn(r, "logout", t, NoSession, "authenticate")
StartLogoutAll(r, t) == StartOn(r, "logoutAll", t, NoSession, "authenticate")
StartList(r, t)      == StartOn(r, "listSessions", t, NoSession,
                                "authenticate")
StartRevoke(r, t, s) == StartOn(r, "revokeSession", t, s, "authenticate")
StartActivate(r, t)  ==
    /\ Live(t) => RoomToMint
    /\ StartOn(r, "activateContext", t, NoSession, "authenticate")

-----------------------------------------------------------------------------
(* lookupAndCheck starts a goroutine that writes the time at which it runs; *)
(* it may lose its 3 seconds and never write.                              *)
SpawnTouch(s) ==
    touches' = IF Cardinality(touches) < MaxTouches
               THEN touches \cup {[session |-> s, since |-> clock]}
               ELSE touches

(* What follows the middleware in each endpoint, up to its first call.     *)
(* AuthService.ActivateContext may refuse the requested context.           *)
UserOnly == {"logoutAll", "listSessions", "activateContext"}

AfterAuthentication(r) ==
    LET go(label) == [reqs[r] EXCEPT !.pc = label]
        op == reqs[r].op
    IN  IF op \in UserOnly /\ sessions[TokenOf(r)].kind # "user"
        THEN {Answered(r, "denied")}
        ELSE CASE op = "verify"          -> {Answered(r, "ok")}
               [] op = "logout"          -> {go("lookup")}
               [] op = "activateContext" -> {go("lookup"),
                                             Answered(r, "denied")}
               [] op = "logoutAll"       -> {go("bulkRead")}
               [] op = "listSessions"    -> {go("list")}
               [] op = "revokeSession"   -> {go("findTarget")}

(* middleware.Authenticate and GET /auth/verify: VerifyToken, that is      *)
(* GetByAccessHash and the check of what it read.                          *)
Authenticate(r) ==
    /\ At(r, "authenticate")
    /\ LET t == TokenOf(r)
       IN  IF Stores(t) /\ IsValid(t, clock)
           THEN /\ SpawnTouch(t)
                /\ \E next \in AfterAuthentication(r) : Continue(r, next)
           ELSE UNCHANGED touches /\ Continue(r, Answered(r, "denied"))
    /\ UNCHANGED <<storeVars, clock, held, faults>>

(* Faulty variant: every rotation starts the refresh window again.         *)
RefreshInput_NewWindow(t) ==
    [kind |-> sessions[t].kind, user |-> NoName, client |-> NoName,
     context |-> NoContext, expires |-> 0,
     refreshExpires |-> Stored(clock + RefreshTTL), lastSeen |-> 0,
     parent |-> t, decided |-> clock, delay |-> 0]

(* What RotateTokens is given: the new pair keeps the family's refresh     *)
(* expiry, and its access expiry is read when the tokens are there.        *)
RefreshInput(t) ==
    [kind |-> sessions[t].kind, user |-> NoName, client |-> NoName,
     context |-> NoContext, expires |-> 0,
     refreshExpires |-> sessions[t].refreshExpires, lastSeen |-> 0,
     parent |-> t, decided |-> clock, delay |-> 0]

(* Faulty variant: a replay is refused and nothing is revoked.             *)
RefreshLookup_RefusesOnly(r) ==
    /\ At(r, "lookup") /\ reqs[r].op = "refresh"
    /\ LET t == TokenOf(r)
       IN  Continue(r,
             IF ~Stores(t) THEN Answered(r, "error")
             ELSE IF sessions[t].revoked THEN Answered(r, "replayed")
             ELSE IF IsRefreshExpired(t, clock) THEN Answered(r, "expired")
             ELSE [reqs[r] EXCEPT !.pc = "mint", !.draft = RefreshInput(t)])
    /\ UNCHANGED <<storeVars, clock, held, touches, faults>>

(* Refresh: GetByRefreshHash and the decisions on what it read.  Its       *)
(* clock reading belongs with the query: an expiry never changes, and      *)
(* whether the session is revoked is asked again before anything is        *)
(* written.                                                                *)
RefreshLookup(r) ==
    /\ At(r, "lookup") /\ reqs[r].op = "refresh"
    /\ LET t == TokenOf(r)
       IN  Continue(r,
             IF ~Stores(t) THEN Answered(r, "error")
             ELSE IF sessions[t].revoked
                  THEN [reqs[r] EXCEPT !.pc = "bulkRead"]
             ELSE IF IsRefreshExpired(t, clock) THEN Answered(r, "expired")
             ELSE [reqs[r] EXCEPT !.pc = "mint", !.draft = RefreshInput(t)])
    /\ UNCHANGED <<storeVars, clock, held, touches, faults>>

(* The tokens are generated, and now := time.Now() is what the expiries    *)
(* are counted from; the repository's own reading for last_seen_at follows *)
(* a moment later.  However long it took since the handler decided to      *)
(* mint, nothing is checked again.                                         *)
Minted(r) ==
    [reqs[r].draft EXCEPT
        !.expires = Stored(clock + AccessTTL),
        !.refreshExpires = IF reqs[r].op = "refresh" THEN @
                           ELSE Stored(clock + RefreshTTL),
        !.lastSeen = Stored(clock),
        !.delay = clock - reqs[r].draft.decided]

Mint(r) ==
    /\ At(r, "mint")
    /\ Continue(r, [reqs[r] EXCEPT
           !.pc = IF reqs[r].op = "refresh" THEN "rotateRead" ELSE "create",
           !.draft = Minted(r)])
    /\ UNCHANGED <<storeVars, clock, held, touches, faults>>

(* Faulty variant: two arguments of the mutation are swapped.              *)
CarriedForward_Swapped(o, in) ==
    [in EXCEPT !.kind = sessions[o].kind, !.user = sessions[o].client,
               !.client = sessions[o].user,
               !.context = sessions[o].context,
               !.lastSeen = Stored(clock)]

(* RotateTokens copies identity and permissions from the node it read in   *)
(* the transaction.                                                        *)
CarriedForward(o, in) ==
    [in EXCEPT !.kind = sessions[o].kind, !.user = sessions[o].user,
               !.client = sessions[o].client,
               !.context = sessions[o].context,
               !.lastSeen = Stored(clock)]

(* Faulty variant: the transaction trusts the lookup before it.            *)
RotateRead_Unchecked(r) ==
    /\ At(r, "rotateRead")
    /\ BeginTxn(r, TokenOf(r))
    /\ Continue(r, [reqs[r] EXCEPT !.pc = "rotateCommit",
                        !.draft = CarriedForward(TokenOf(r), @)])
    /\ UNCHANGED <<sessions, clock, held, touches, faults>>

(* RotateTokens, the query in the transaction: a session revoked since the *)
(* lookup is a replay, and nothing is left open.                           *)
RotateRead(r) ==
    /\ At(r, "rotateRead")
    /\ LET o == TokenOf(r)
       IN  \/ /\ Live(o)
              /\ BeginTxn(r, o)
              /\ Continue(r, [reqs[r] EXCEPT !.pc = "rotateCommit",
                                 !.draft = CarriedForward(o, @)])
           \/ /\ ~Live(o)
              /\ Continue(r, IF Stores(o)
                             THEN [reqs[r] EXCEPT !.pc = "bulkRead",
                                                  !.draft = NoSession]
                             ELSE Answered(r, "error"))
              /\ UNCHANGED <<txn, conflicted>>
    /\ UNCHANGED <<sessions, clock, held, touches, faults>>

(* RotateTokens, the mutation and the commit.                              *)
RotateCommit(r) ==
    /\ At(r, "rotateCommit")
    /\ r \notin conflicted
    /\ FreeIds # {}
    /\ CommitRotation(r, TokenOf(r), FreshId, reqs[r].draft)
    /\ Reply(r, [reqs[r] EXCEPT !.pc = "readBack", !.target = FreshId,
                                !.draft = NoSession])
    /\ UNCHANGED <<clock, held, touches>>

(* Faulty variant: the refused transaction is committed again and again.   *)
RotateAborts_Retries(r) ==
    /\ At(r, "rotateCommit")
    /\ r \in conflicted
    /\ UNCHANGED vars

(* The commit is refused: Refresh sees an error that is not                *)
(* ErrRefreshTokenReplayed and answers 401 "invalid refresh token".        *)
RotateAborts(r) ==
    /\ At(r, "rotateCommit")
    /\ r \in conflicted
    /\ EndTxn(r)
    /\ Continue(r, Answered(r, "error"))
    /\ UNCHANGED <<sessions, clock, held, touches, faults>>

-----------------------------------------------------------------------------
(* SessionRepo.Create, up to the commit of the node.                       *)
Create(r) ==
    /\ At(r, "create")
    /\ FreeIds # {}
    /\ CommitCreate(FreshId, reqs[r].draft)
    /\ Reply(r, [reqs[r] EXCEPT !.pc = "readBack", !.target = FreshId,
                                !.draft = NoSession])
    /\ UNCHANGED <<clock, held, touches>>

(* Faulty variant: the activation's response leaves the tokens out.        *)
ReadBack_LosesTokens(r) ==
    /\ At(r, "readBack")
    /\ held' = held \cup (IF reqs[r].op = "activateContext"
                           THEN {} ELSE {reqs[r].target})
    /\ Continue(r, Answered(r, "ok"))
    /\ UNCHANGED <<storeVars, clock, touches, faults>>

(* The GetByID that ends Create and RotateTokens; then the response hands  *)
(* the token pair to the client.                                           *)
ReadBack(r) ==
    /\ At(r, "readBack")
    /\ held' = held \cup {reqs[r].target}
    /\ Continue(r, Answered(r, "ok"))
    /\ UNCHANGED <<storeVars, clock, touches, faults>>

(* Logout: GetByAccessHash again; validity is not asked for.               *)
LogoutLookup(r) ==
    /\ At(r, "lookup") /\ reqs[r].op = "logout"
    /\ Continue(r, IF Stores(TokenOf(r))
                   THEN [reqs[r] EXCEPT !.pc = "revoke",
                                        !.target = TokenOf(r)]
                   ELSE Answered(r, "ok"))
    /\ UNCHANGED <<storeVars, clock, held, touches, faults>>

(* ActivateContext: GetByAccessHash and IsValid.                           *)
ActivateLookup(r) ==
    /\ At(r, "lookup") /\ reqs[r].op = "activateContext"
    /\ LET t == TokenOf(r)
       IN  Continue(r, IF Stores(t) /\ IsValid(t, clock)
                       THEN [reqs[r] EXCEPT !.pc = "revoke", !.target = t]
                       ELSE Answered(r, "error"))
    /\ UNCHANGED <<storeVars, clock, held, touches, faults>>

(* RevokeSession: GetByID of the path id and the ownership check.  An id   *)
(* that is not a uid is an error, one with no session is not found.        *)
OwnedByCaller(r) ==
    sessions[reqs[r].target].user = sessions[TokenOf(r)].user

(* Faulty variant: whose session it is, is not asked.                      *)
FindTarget_AnyOwner(r) ==
    /\ At(r, "findTarget")
    /\ Continue(r, IF Stores(reqs[r].target)
                   THEN [reqs[r] EXCEPT !.pc = "revoke"]
                   ELSE Answered(r, "denied"))
    /\ UNCHANGED <<storeVars, clock, held, touches, faults>>

FindTarget(r) ==
    /\ At(r, "findTarget")
    /\ Continue(r, IF Stores(reqs[r].target) /\ OwnedByCaller(r)
                   THEN [reqs[r] EXCEPT !.pc = "revoke"]
                   ELSE Answered(r, "denied"))
    /\ UNCHANGED <<storeVars, clock, held, touches, faults>>

(* Revoke, the last call of Logout and RevokeSession.                      *)
Revoke(r) ==
    /\ At(r, "revoke") /\ reqs[r].op \in {"logout", "revokeSession"}
    /\ CommitRevocation(r, {reqs[r].target})
    /\ Reply(r, Answered(r, "ok"))
    /\ UNCHANGED <<clock, held, touches>>

(* Revoke in ActivateContext; Create then mints for the new context, with  *)
(* both expiries counted from now.                                         *)
ActivateRevoke(r) ==
    /\ At(r, "revoke") /\ reqs[r].op = "activateContext"
    /\ CommitRevocation(r, {reqs[r].target})
    /\ \E ctx \in Context :
          LET s == sessions[TokenOf(r)]
          IN  Reply(r, [reqs[r] EXCEPT
                  !.pc = "mint", !.target = NoSession,
                  !.draft = MintInput(s.kind, s.user, s.client, ctx,
                                      TokenOf(r))])
    /\ UNCHANGED <<clock, held, touches>>

(* RevokeAllForUser, called by LogoutAll and by Refresh on a replay: a     *)
(* read-only query, then a mutation of what the query found.               *)
BulkAnswer(r) == IF reqs[r].op = "refresh" THEN "replayed" ELSE "ok"

(* Faulty variant: a query that finds the caller's session revoked takes   *)
(* the work for done.                                                      *)
BulkRead_StopsEarly(r) ==
    /\ At(r, "bulkRead")
    /\ LET S == UnrevokedSessions(sessions[TokenOf(r)].user)
       IN  Continue(r, IF S = {} \/ TokenOf(r) \notin S
                       THEN Answered(r, BulkAnswer(r))
                       ELSE [reqs[r] EXCEPT !.pc = "bulkWrite",
                                            !.found = S])
    /\ UNCHANGED <<storeVars, clock, held, touches, faults>>

BulkRead(r) ==
    /\ At(r, "bulkRead")
    /\ LET S == UnrevokedSessions(sessions[TokenOf(r)].user)
       IN  Continue(r, IF S = {} THEN Answered(r, BulkAnswer(r))
                       ELSE [reqs[r] EXCEPT !.pc = "bulkWrite",
                                            !.found = S])
    /\ UNCHANGED <<storeVars, clock, held, touches, faults>>

(* Faulty variant: the loop keeps the text of its last session only.       *)
BulkWrite_OneSession(r) ==
    /\ At(r, "bulkWrite")
    /\ CommitRevocation(r, {CHOOSE s \in reqs[r].found : TRUE})
    /\ Reply(r, Answered(r, BulkAnswer(r)))
    /\ UNCHANGED <<clock, held, touches>>

BulkWrite(r) ==
    /\ At(r, "bulkWrite")
    /\ CommitRevocation(r, reqs[r].found)
    /\ Reply(r, Answered(r, BulkAnswer(r)))
    /\ UNCHANGED <<clock, held, touches>>

(* ListForUser.                                                            *)
List(r) ==
    /\ At(r, "list")
    /\ \E q \in ByLastSeen(UnrevokedSessions(sessions[TokenOf(r)].user)) :
          Continue(r, [Answered(r, "ok") EXCEPT !.listing = q])
    /\ UNCHANGED <<storeVars, clock, held, touches, faults>>

-----------------------------------------------------------------------------
(* A call that is not applied: a network or Dgraph error, a conflict       *)
(* between two CommitNow mutations, a request context cancelled by the     *)
(* client, no randomness for a token.  An open transaction is discarded.   *)
CallFails(r) ==
    /\ Active(r)
    /\ faults < MaxFaults
    /\ faults' = faults + 1
    /\ EndTxn(r)
    /\ Continue(r, Failed(r))
    /\ UNCHANGED <<sessions, clock, held, touches>>

(* The server stops and starts again: handlers and goroutines are gone,    *)
(* open transactions with them.                                            *)
Restart ==
    /\ faults < MaxFaults
    /\ \E r \in Request : Active(r)
    /\ faults' = faults + 1
    /\ reqs' = [r \in Request |-> IF Active(r) THEN Failed(r) ELSE reqs[r]]
    /\ txn' = [r \in Request |-> {}]
    /\ conflicted' = {}
    /\ touches' = {}
    /\ UNCHANGED <<sessions, clock, held>>

(* The goroutine writes, or its write is lost to an error, a conflict with *)
(* another touch or its timeout.                                           *)
Touch(g) ==
    /\ touches' = touches \ {g}
    /\ \/ \E t \in g.since .. clock : CommitTouch(g.session, Stored(t))
       \/ UNCHANGED storeVars
    /\ UNCHANGED <<clock, reqs, held, faults>>

Tick ==
    /\ clock < MaxTime
    /\ clock' = clock + 1
    /\ UNCHANGED <<storeVars, reqs, held, touches, faults>>

-----------------------------------------------------------------------------
(* A request with a token: one the client was given, or one that names no  *)
(* session.                                                                *)
TokenRequest(r) ==
    \E t \in held \cup {NoSession} :
        \/ StartRefresh(r, t)
        \/ StartVerify(r, t)
        \/ StartLogout(r, t)
        \/ StartLogoutAll(r, t)
        \/ StartList(r, t)
        \/ StartActivate(r, t)
        \/ \E s \in DOMAIN sessions \cup {NoSession} : StartRevoke(r, t, s)

(* A new request.                                                          *)
Arrive(r) ==
    \/ \E u \in User : Login(r, u)
    \/ \E c \in Client : ServiceLogin(r, c)
    \/ TokenRequest(r)

(* The next step of the handler, whatever it is.                           *)
Serve(r) ==
    \/ Authenticate(r)
    \/ RefreshLookup(r) \/ Mint(r) \/ RotateRead(r) \/ RotateCommit(r)
    \/ RotateAborts(r)
    \/ Create(r) \/ ReadBack(r)
    \/ LogoutLookup(r) \/ ActivateLookup(r) \/ FindTarget(r)
    \/ Revoke(r) \/ ActivateRevoke(r)
    \/ BulkRead(r) \/ BulkWrite(r)
    \/ List(r)

(* What happens beside the handlers.                                       *)
Background ==
    \/ \E g \in touches : Touch(g)
    \/ Restart
    \/ Tick

Next ==
    \/ \E r \in Request : Arrive(r) \/ Serve(r) \/ CallFails(r)
    \/ Background

Spec == Init /\ [][Next]_vars

(* A handler that has begun goes on: every Dgraph call returns, with an    *)
(* error if its context ends, and the scheduler runs its goroutine.        *)
FairSpec == Spec /\ \A r \in Request : WF_vars(Serve(r))

-----------------------------------------------------------------------------
(* Every variable has its type.                                            *)
TypeOK ==
    /\ StoreTypeOK
    /\ clock \in Nat
    /\ reqs \in [Request -> Handler]
    /\ held \subseteq DOMAIN sessions
    /\ touches \subseteq [session : SessionId, since : Nat]
    /\ faults \in Nat

(* A request that begins after its session was revoked is never honoured,  *)
(* on any endpoint (Authenticate, Refresh).                                *)
NoUseAfterRevocation ==
    \A r \in Request : reqs[r].dead => reqs[r].answer # "ok"

(* Sessions of r's user that were stored when r began.                     *)
StoredBefore(r) ==
    {s \in reqs[r].before : sessions[s].user = sessions[TokenOf(r)].user}

(* A logout-all that answers 200 has revoked every session its user had    *)
(* when it began, whatever ran meanwhile (RevokeAllForUser).               *)
LogoutAllCovers ==
    \A r \in Request :
        reqs[r].op = "logoutAll" /\ reqs[r].answer = "ok"
        => \A s \in StoredBefore(r) : ~Live(s)

(* A refresh answered as a replay has, unless a call of it failed, revoked *)
(* every session its user had when it began (Refresh).                     *)
ReplayCovers ==
    \A r \in Request :
        reqs[r].answer = "replayed" /\ ~reqs[r].faulted
        => \A s \in StoredBefore(r) : ~Live(s)

(* The device list shows every session its user had when the request began *)
(* that is still live when it is answered, once, and nobody else's         *)
(* (ListForUser).                                                          *)
ListCovers ==
    \A r \in Request :
        reqs[r].op = "listSessions" /\ reqs[r].answer = "ok"
        => LET shown == {reqs[r].listing[i] : i \in DOMAIN reqs[r].listing}
           IN  /\ {s \in StoredBefore(r) : Live(s)} \subseteq shown
               /\ \A s \in shown :
                     sessions[s].user = sessions[TokenOf(r)].user
               /\ Cardinality(shown) = Len(reqs[r].listing)

(* While no call fails, every stored session's tokens are with a client or *)
(* in a handler about to return them: none is live that nobody can revoke  *)
(* by its token (Create, RotateTokens and their read-back).                *)
NoOrphanSession ==
    faults = 0 =>
        \A s \in DOMAIN sessions :
            \/ s \in held
            \/ \E r \in Request : At(r, "readBack") /\ reqs[r].target = s

(* Refresh reads the clock for the expiry check and again for the new      *)
(* access expiry, and stored times are cut to the second: an access token  *)
(* outlives the refresh expiry of its session by at most one access        *)
(* lifetime and the time its own handler took between the two readings.    *)
(* What earlier rotations of the family took does not add up (Refresh,     *)
(* Create).                                                                *)
AccessWindowBounded ==
    \A s \in DOMAIN sessions :
        sessions[s].expires
            <= sessions[s].refreshExpires + AccessTTL + sessions[s].delay

(* A revocation is never undone and what a session stands for never        *)
(* changes, in any interleaving of writers (Revoke, RotateTokens, Touch).  *)
SessionKept(s) ==
    /\ s \in DOMAIN sessions'
    /\ sessions[s].revoked => sessions'[s].revoked
    /\ Identity(sessions'[s]) = Identity(sessions[s])
    /\ sessions'[s].family = sessions[s].family
    /\ sessions'[s].parent = sessions[s].parent

RevocationIsFinal == [][\A s \in DOMAIN sessions : SessionKept(s)]_vars

(* A user's session is only ever revoked by a request of that user         *)
(* (RevokeSession's ownership check, the query of RevokeAllForUser).       *)
RevokedByOwner ==
    [][\A s \in DOMAIN sessions :
          sessions[s].kind = "user" /\ Live(s) /\ sessions'[s].revoked
          => \E r \in Request :
                /\ reqs'[r] # reqs[r]
                /\ Stores(TokenOf(r))
                /\ sessions[TokenOf(r)].user = sessions[s].user]_vars

(* Every request is answered (every handler; fairness of FairSpec).        *)
EveryRequestAnswered ==
    \A r \in Request : Active(r) ~> ~Active(r)

(* A replayed refresh token ends every session its user has at that time   *)
(* (Refresh, RevokeAllForUser).                                            *)
ReplayRevokes ==
    \A r \in Request, s \in SessionId :
        (/\ At(r, "bulkRead") /\ reqs[r].op = "refresh" /\ Live(s)
         /\ sessions[s].user = sessions[TokenOf(r)].user)
        ~> ~Live(s)

-----------------------------------------------------------------------------
(* The lifecycle each session goes through, read off the store.            *)
StatusBar ==
    [s \in SessionId |-> IF ~Stores(s) THEN "none"
                         ELSE IF sessions[s].revoked THEN "revoked"
                         ELSE "live"]
AccountBar ==
    [s \in SessionId |-> IF Stores(s) THEN sessions[s].user ELSE NoName]
SuccessorBar ==
    [s \in SessionId |-> IF Stores(s) THEN sessions[s].replacedBy
                         ELSE NoSession]

Lifecycle == INSTANCE SessionLifecycle WITH
    Account <- User \cup {NoName}, NoAccount <- NoName,
    status <- StatusBar, account <- AccountBar, successor <- SuccessorBar

(* The handlers, running concurrently and failing where they may, keep the *)
(* promises of the repository interface (SessionRepo's operations).        *)
ImplementsLifecycle == Lifecycle!LifecycleSpec

-----------------------------------------------------------------------------
(* The strengthening under which the invariants are inductive: what each   *)
(* handler relies on when it makes its next call.                          *)
DraftFrom(r) ==
    /\ reqs[r].draft \in SessionInput
    /\ reqs[r].draft.parent = TokenOf(r)
    /\ reqs[r].draft.refreshExpires = sessions[TokenOf(r)].refreshExpires

HandlerInv(r) ==
    /\ At(r, "authenticate") =>
          reqs[r].op \notin {"login", "serviceLogin", "refresh"}
    /\ At(r, "findTarget") => reqs[r].op = "revokeSession"
    /\ reqs[r].pc \in {"rotateRead", "rotateCommit", "bulkRead",
                       "bulkWrite", "list"} => Stores(TokenOf(r))
    /\ At(r, "mint") =>
          /\ reqs[r].draft \in SessionInput
          /\ reqs[r].draft.decided <= clock
    /\ At(r, "mint") /\ reqs[r].op = "refresh" =>
          Stores(TokenOf(r)) /\ DraftFrom(r)
    /\ At(r, "rotateRead") => DraftFrom(r)
    /\ At(r, "rotateCommit") =>
          /\ DraftFrom(r)
          /\ txn[r] = {TokenOf(r)}
          /\ Identity(reqs[r].draft) = Identity(sessions[TokenOf(r)])
    /\ At(r, "revoke") /\ reqs[r].op = "activateContext" =>
          /\ Stores(TokenOf(r))
          /\ reqs[r].target = TokenOf(r)
    /\ At(r, "create") => reqs[r].draft \in SessionInput
    /\ At(r, "create") \/ (At(r, "mint") /\ reqs[r].op # "refresh") =>
          LET p == reqs[r].draft.parent
          IN  p # NoSession => Stores(p) /\ sessions[p].revoked
    /\ At(r, "readBack") => Stores(reqs[r].target)

(* The inductive invariant (every handler and store operation).            *)
IInv ==
    /\ TypeOK
    /\ StoreInv
    /\ \A r \in Request : HandlerInv(r)
=============================================================================

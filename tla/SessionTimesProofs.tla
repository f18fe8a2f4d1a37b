-------------------------- MODULE SessionTimesProofs --------------------------
(***************************************************************************)
(* Proofs about the expiry times of sessions: which steps store a session, *)
(* from which input, and what that input was computed from.                *)
(***************************************************************************)
EXTENDS SessionServiceProofs

(* What a step of some handler makes of r's slot.                          *)
Moves(r) ==
    LET t == TokenOf(r)
        h == reqs'[r]
    IN  \/ h = reqs[r]
        \/ h.pc \notin {"lookup", "revoke", "mint", "rotateRead",
                        "rotateCommit", "create"}
        \/ /\ h.pc \in {"lookup", "revoke"}
           /\ h.op = "activateContext" =>
                 /\ h.token = t /\ Stores(t)
                 /\ \/ sessions[t].kind = "user"
                    \/ At(r, "lookup") /\ reqs[r].op = "activateContext"
        \/ /\ h.pc = "mint" /\ h.op = "refresh" /\ Stores(t)
           /\ ~IsRefreshExpired(t, clock)
           /\ h.draft = RefreshInput(t)
        \/ /\ At(r, "mint") /\ h.op = reqs[r].op
           /\ h.pc = IF h.op = "refresh" THEN "rotateRead" ELSE "create"
           /\ h.draft = Minted(r)
        \/ /\ h.pc = "rotateCommit" /\ At(r, "rotateRead")
           /\ h.draft = CarriedForward(t, reqs[r].draft)
        \/ /\ h.pc = "mint" /\ h.op # "refresh"
           /\ \/ \E u \in User : h.draft = MintInput("user", u, NoName,
                                                     NoContext, NoSession)
              \/ \E c \in Client :
                    /\ ServiceLogin(r, c)
                    /\ h.draft = MintInput("service", NoName, c, NoContext,
                                           NoSession)
              \/ /\ At(r, "revoke") /\ reqs[r].op = "activateContext"
                 /\ \E ctx \in Context :
                       h.draft = MintInput(sessions[t].kind, sessions[t].user,
                                           sessions[t].client, ctx, t)

LEMMA ContinueSets ==
    ASSUME IInv, NEW r \in Request, NEW h, Continue(r, h)
    PROVE  /\ reqs'[r] = h
           /\ \A v \in Request \ {r} : reqs'[v] = reqs[v]
BY DEF IInv, TypeOK, Continue

LEMMA ReplySets ==
    ASSUME IInv, NEW r \in Request, NEW h, Reply(r, h)
    PROVE  /\ reqs'[r] = h \/ reqs'[r].pc = "idle"
           /\ \A v \in Request \ {r} : reqs'[v] = reqs[v]
<1>1. Failed(r).pc = "idle"
  BY FailedType DEF IInv
<1>2. QED
  BY <1>1, ContinueSets DEF Reply

(* A new request.                                                          *)
LEMMA ArriveMoves ==
    ASSUME IInv, NEW r \in Request, Arrive(r)
    PROVE  Moves(r) /\ \A v \in Request \ {r} : reqs'[v] = reqs[v]
<1>1. ASSUME NEW op, NEW in, StartMint(r, op, in)
      PROVE  /\ reqs'[r].pc = "mint" /\ reqs'[r].draft = in
             /\ reqs'[r].op = op
             /\ \A v \in Request \ {r} : reqs'[v] = reqs[v]
  <2> DEFINE h == [Idle EXCEPT !.op = op, !.pc = "mint", !.draft = in]
  <2>1. h.pc = "mint" /\ h.draft = in /\ h.op = op
    BY DEF Idle
  <2>2. Continue(r, h)
    BY <1>1 DEF StartMint
  <2> HIDE DEF h
  <2>3. QED
    BY <2>1, <2>2, ContinueSets
<1>2. ASSUME NEW op, NEW t, NEW s, NEW pc, StartOn(r, op, t, s, pc)
      PROVE  /\ reqs'[r].pc = pc /\ reqs'[r].op = op
             /\ \A v \in Request \ {r} : reqs'[v] = reqs[v]
  <2> DEFINE before == IF op \in {"refresh", "logoutAll", "listSessions"}
                       THEN DOMAIN sessions ELSE {}
             dead == Stores(t) /\ sessions[t].revoked
             h == [Idle EXCEPT !.op = op, !.pc = pc, !.token = t,
                      !.target = s, !.before = before, !.dead = dead]
  <2>1. Continue(r, h)
    BY <1>2 DEF StartOn
  <2> HIDE DEF before, dead
  <2>2. h.pc = pc /\ h.op = op
    BY DEF Idle
  <2> HIDE DEF h
  <2>3. QED
    BY <2>1, <2>2, ContinueSets
<1>3. CASE \E u \in User : Login(r, u)
  BY <1>1, <1>3 DEF Login, Moves
<1>4. CASE \E c \in Client : ServiceLogin(r, c)
  <2>1. PICK c \in Client : ServiceLogin(r, c)
    BY <1>4
  <2>2. StartMint(r, "serviceLogin",
                  MintInput("service", NoName, c, NoContext, NoSession))
    BY <2>1 DEF ServiceLogin
  <2>3. QED
    BY <1>1, <2>1, <2>2 DEF Moves
<1>5. CASE TokenRequest(r)
  <2>1. \E op, t, s, pc :
           /\ StartOn(r, op, t, s, pc)
           /\ pc \in {"lookup", "authenticate"}
           /\ pc = "lookup" => op = "refresh"
    BY <1>5 DEF TokenRequest, StartRefresh, StartVerify, StartLogout,
                StartLogoutAll, StartList, StartActivate, StartRevoke
  <2>2. QED
    BY <1>2, <2>1 DEF Moves
<1>6. QED
  BY <1>3, <1>4, <1>5 DEF Arrive

LEMMA AnsweredIsIdle ==
    ASSUME IInv, NEW r \in Request, NEW a
    PROVE  Answered(r, a).pc = "idle"
BY DEF IInv, TypeOK, Handler, Answered

(* The next call of a handler, or its failure.                             *)
LEMMA ServeMoves ==
    ASSUME IInv, NEW r \in Request, Serve(r) \/ CallFails(r)
    PROVE  Moves(r) /\ \A v \in Request \ {r} : reqs'[v] = reqs[v]
<1> DEFINE t == TokenOf(r)
           Done == Moves(r) /\ \A v \in Request \ {r} : reqs'[v] = reqs[v]
<1>0. reqs[r] \in Handler
  BY DEF IInv, TypeOK
<1>1. ASSUME NEW a, Continue(r, Answered(r, a))
      PROVE  Done
  BY <1>1, AnsweredIsIdle, ContinueSets DEF Moves
<1>2. ASSUME NEW h, h.pc \in Pcs \ {"lookup", "revoke", "mint",
                                    "rotateRead", "rotateCommit", "create"},
             Continue(r, h) \/ Reply(r, h)
      PROVE  Done
  BY <1>2, ContinueSets, ReplySets DEF Moves
<1>3. ASSUME NEW a, Reply(r, Answered(r, a))
      PROVE  Done
  <2>1. reqs'[r].pc = "idle" /\ \A v \in Request \ {r} : reqs'[v] = reqs[v]
    BY <1>3, AnsweredIsIdle, ReplySets
  <2>2. QED
    BY <2>1 DEF Moves
<1>4. CASE Authenticate(r)
  <2>1. CASE ~(Stores(t) /\ IsValid(t, clock))
    BY <1>1, <1>4, <2>1 DEF Authenticate
  <2>2. CASE Stores(t) /\ IsValid(t, clock)
    <3>1. PICK next \in AfterAuthentication(r) : Continue(r, next)
      BY <1>4, <2>2 DEF Authenticate
    <3>2. CASE \E a \in Answers : next = Answered(r, a)
      BY <1>1, <3>1, <3>2
    <3>3. CASE \E label \in {"bulkRead", "list", "findTarget"} :
                  next = [reqs[r] EXCEPT !.pc = label]
      <4>1. next.pc \in {"bulkRead", "list", "findTarget"}
        BY <1>0, <3>3 DEF Handler
      <4>2. QED
        BY <1>2, <3>1, <4>1 DEF Pcs
    <3>4. CASE /\ next = [reqs[r] EXCEPT !.pc = "lookup"]
               /\ reqs[r].op = "activateContext" => sessions[t].kind = "user"
      <4>1. next.pc = "lookup" /\ next.op = reqs[r].op /\ next.token = t
        BY <1>0, <3>4 DEF Handler, TokenOf
      <4>2. QED
        BY <2>2, <3>1, <3>4, <4>1, ContinueSets DEF Moves
    <3>5. QED
      <4>1. reqs[r].op \in AllOps \ {"login", "serviceLogin", "refresh"}
        BY <1>0, <1>4 DEF Handler, IInv, HandlerInv, At, Authenticate
      <4>2. \/ \E a \in Answers : next = Answered(r, a)
            \/ \E label \in {"bulkRead", "list", "findTarget"} :
                  next = [reqs[r] EXCEPT !.pc = label]
            \/ /\ next = [reqs[r] EXCEPT !.pc = "lookup"]
               /\ reqs[r].op = "activateContext" => sessions[t].kind = "user"
        BY <4>1 DEF AfterAuthentication, AllOps, UserOnly, Answers
      <4>3. QED
        BY <3>2, <3>3, <3>4, <4>2
  <2>3. QED
    BY <2>1, <2>2
<1>5. CASE RefreshLookup(r)
  <2>1. CASE ~Stores(t)
    BY <1>1, <1>5, <2>1 DEF RefreshLookup
  <2>2. CASE Stores(t) /\ sessions[t].revoked
    <3>1. Continue(r, [reqs[r] EXCEPT !.pc = "bulkRead"])
      BY <1>5, <2>2 DEF RefreshLookup
    <3>2. QED
      BY <1>0, <1>2, <3>1 DEF Handler, Pcs
  <2>3. CASE Stores(t) /\ ~sessions[t].revoked /\ IsRefreshExpired(t, clock)
    BY <1>1, <1>5, <2>3 DEF RefreshLookup
  <2>4. CASE Stores(t) /\ ~sessions[t].revoked /\ ~IsRefreshExpired(t, clock)
    <3> DEFINE h == [reqs[r] EXCEPT !.pc = "mint", !.draft = RefreshInput(t)]
    <3>1. Continue(r, h)
      BY <1>5, <2>4 DEF RefreshLookup
    <3>2. h.pc = "mint" /\ h.draft = RefreshInput(t) /\ h.op = "refresh"
      BY <1>0, <1>5 DEF Handler, RefreshLookup
    <3> HIDE DEF h
    <3>3. QED
      BY <2>4, <3>1, <3>2, ContinueSets DEF Moves
  <2>5. QED
    BY <2>1, <2>2, <2>3, <2>4
<1>6. CASE RotateRead(r)
  <2> DEFINE h == [reqs[r] EXCEPT !.pc = "rotateCommit",
                                  !.draft = CarriedForward(t, @)]
             b == [reqs[r] EXCEPT !.pc = "bulkRead", !.draft = NoSession]
  <2>1. /\ At(r, "rotateRead")
        /\ \/ Continue(r, h)
           \/ Continue(r, b)
           \/ Continue(r, Answered(r, "error"))
    BY <1>6 DEF RotateRead
  <2>2. /\ h.pc = "rotateCommit"
        /\ h.draft = CarriedForward(t, reqs[r].draft)
        /\ b.pc = "bulkRead"
    BY <1>0 DEF Handler
  <2> HIDE DEF h, b
  <2>3. CASE Continue(r, h)
    BY <2>1, <2>2, <2>3, ContinueSets DEF Moves
  <2>4. QED
    BY <1>1, <1>2, <2>1, <2>2, <2>3 DEF Pcs
<1>7. CASE RotateCommit(r) \/ Create(r)
  <2>1. Reply(r, [reqs[r] EXCEPT !.pc = "readBack", !.target = FreshId,
                                 !.draft = NoSession])
    BY <1>7 DEF RotateCommit, Create
  <2>2. QED
    BY <1>0, <1>2, <2>1 DEF Handler, Pcs
<1>8. CASE RotateAborts(r)
  BY <1>1, <1>8 DEF RotateAborts
<1>9. CASE ReadBack(r)
  BY <1>1, <1>9 DEF ReadBack
<1>10. CASE LogoutLookup(r) \/ ActivateLookup(r)
  <2> DEFINE h == [reqs[r] EXCEPT !.pc = "revoke", !.target = t]
  <2>1. h.pc = "revoke" /\ h.op = reqs[r].op /\ h.token = t
    BY <1>0 DEF Handler, TokenOf
  <2>2. CASE Stores(t) /\ Continue(r, h)
    <3>1. At(r, "lookup") /\ reqs[r].op \in {"logout", "activateContext"}
      BY <1>10 DEF LogoutLookup, ActivateLookup
    <3> HIDE DEF h
    <3>2. QED
      BY <2>1, <2>2, <3>1, ContinueSets DEF Moves
  <2>3. CASE \E a \in Answers : Continue(r, Answered(r, a))
    BY <1>1, <2>3
  <2>4. QED
    BY <1>10, <2>2, <2>3 DEF LogoutLookup, ActivateLookup, Answers
<1>11. CASE FindTarget(r)
  <2> DEFINE h == [reqs[r] EXCEPT !.pc = "revoke"]
  <2>1. h.pc = "revoke" /\ h.op = reqs[r].op
    BY <1>0 DEF Handler
  <2>2. reqs[r].op = "revokeSession"
    BY <1>11 DEF IInv, HandlerInv, FindTarget
  <2>3. CASE Continue(r, h)
    <3> HIDE DEF h
    <3>1. QED
      BY <2>1, <2>2, <2>3, ContinueSets DEF Moves
  <2>4. CASE Continue(r, Answered(r, "denied"))
    BY <1>1, <2>4
  <2>5. QED
    BY <1>11, <2>3, <2>4 DEF FindTarget
<1>12. CASE Revoke(r) \/ BulkWrite(r)
  BY <1>3, <1>12 DEF Revoke, BulkWrite
<1>13. CASE ActivateRevoke(r)
  <2>1. /\ At(r, "revoke") /\ reqs[r].op = "activateContext"
        /\ \E ctx \in Context :
              Reply(r, [reqs[r] EXCEPT
                  !.pc = "mint", !.target = NoSession,
                  !.draft = MintInput(sessions[t].kind, sessions[t].user,
                                      sessions[t].client, ctx, t)])
    BY <1>13 DEF ActivateRevoke
  <2>2. PICK ctx \in Context :
           Reply(r, [reqs[r] EXCEPT
               !.pc = "mint", !.target = NoSession,
               !.draft = MintInput(sessions[t].kind, sessions[t].user,
                                   sessions[t].client, ctx, t)])
    BY <2>1
  <2> DEFINE in == MintInput(sessions[t].kind, sessions[t].user,
                             sessions[t].client, ctx, t)
             h == [reqs[r] EXCEPT !.pc = "mint", !.target = NoSession,
                                  !.draft = in]
  <2>3. Reply(r, h)
    BY <2>2
  <2> HIDE DEF in
  <2>4. h.pc = "mint" /\ h.draft = in /\ h.op = "activateContext"
    BY <1>0, <2>1 DEF Handler
  <2> HIDE DEF h
  <2>5. QED
    BY <2>1, <2>3, <2>4, ReplySets DEF Moves, in
<1>14. CASE BulkRead(r)
  <2>1. \/ \E a \in {BulkAnswer(r)} : Continue(r, Answered(r, a))
        \/ \E S : Continue(r, [reqs[r] EXCEPT !.pc = "bulkWrite",
                                              !.found = S])
    BY <1>14 DEF BulkRead
  <2>2. \A S : [reqs[r] EXCEPT !.pc = "bulkWrite", !.found = S].pc
                  = "bulkWrite"
    BY <1>0 DEF Handler
  <2>3. QED
    BY <1>1, <1>2, <2>1, <2>2 DEF Pcs
<1>15. CASE List(r)
  <2>1. \E q : Continue(r, [Answered(r, "ok") EXCEPT !.listing = q])
    BY <1>15 DEF List
  <2>2. \A q : [Answered(r, "ok") EXCEPT !.listing = q].pc = "idle"
    <3>1. Answered(r, "ok") \in Handler /\ Answered(r, "ok").pc = "idle"
      BY AnsweredType DEF IInv, Answers
    <3>2. QED
      BY <3>1 DEF Handler
  <2>3. QED
    BY <1>2, <2>1, <2>2 DEF Pcs
<1>16. CASE CallFails(r)
  <2>1. Failed(r).pc = "idle"
    BY FailedType DEF IInv
  <2>2. QED
    BY <1>2, <1>16, <2>1 DEF CallFails, Pcs
<1>17. CASE Mint(r)
  <2> DEFINE pc == IF reqs[r].op = "refresh" THEN "rotateRead" ELSE "create"
             d == Minted(r)
             h == [reqs[r] EXCEPT !.pc = pc, !.draft = d]
  <2>1. Continue(r, h) /\ At(r, "mint")
    BY <1>17 DEF Mint
  <2> HIDE DEF d
  <2>2. h.pc = pc /\ h.draft = d /\ h.op = reqs[r].op
    BY <1>0 DEF Handler
  <2> HIDE DEF h
  <2>3. QED
    BY <2>1, <2>2, ContinueSets DEF Moves, d
<1>18. QED
  BY <1>4, <1>5, <1>6, <1>7, <1>8, <1>9, <1>10, <1>11, <1>12, <1>13, <1>14,
     <1>15, <1>16, <1>17
  DEF Serve

-----------------------------------------------------------------------------
(* What steps do to the expiry times and owners of stored sessions.        *)

(* The node a step adds for s was written from in.                         *)
MintedFrom(s, in) ==
    /\ sessions'[s].kind = in.kind
    /\ sessions'[s].client = in.client
    /\ sessions'[s].expires = in.expires
    /\ sessions'[s].refreshExpires = in.refreshExpires
    /\ sessions'[s].delay = in.delay

(* r's create begins a family with s, its rotation goes on with one.       *)
Joins(s, r) ==
    \/ At(r, "create") /\ sessions'[s].family = s
    \/ /\ At(r, "rotateCommit")
       /\ sessions'[s].family = sessions[TokenOf(r)].family

(* Nothing but r's create or rotation adds a session, and no step changes  *)
(* when a stored one expires, or what its handler took.                    *)
TimesKept ==
    /\ \A s \in DOMAIN sessions :
          /\ sessions'[s].expires = sessions[s].expires
          /\ sessions'[s].delay = sessions[s].delay
    /\ \A s \in DOMAIN sessions' \ DOMAIN sessions :
          \E r \in Request : Joins(s, r) /\ MintedFrom(s, reqs[r].draft)

LEMMA NewNodeTimes ==
    ASSUME NEW s, NEW in, NEW f, sessions'[s] = NewNode(s, in, f)
    PROVE  MintedFrom(s, in) /\ sessions'[s].family = f
BY DEF NewNode, MintedFrom

LEMMA NextKeepsTimes ==
    ASSUME IInv, [Next]_vars
    PROVE  TimesKept
<1>0. \A s \in DOMAIN sessions : sessions[s] \in Session
  BY DEF IInv, TypeOK, StoreTypeOK
<1>1. CASE UNCHANGED sessions
  BY <1>1 DEF TimesKept
<1>2. ASSUME NEW w, NEW S, CommitRevocation(w, S)
      PROVE  TimesKept
  <2>1. DOMAIN sessions' = DOMAIN sessions
    BY <1>2 DEF CommitRevocation
  <2>2. ASSUME NEW s \in DOMAIN sessions
        PROVE  /\ sessions'[s].expires = sessions[s].expires
               /\ sessions'[s].delay = sessions[s].delay
    <3>1. \/ sessions'[s] = [sessions[s] EXCEPT !.revoked = TRUE]
          \/ sessions'[s] = sessions[s]
      BY <1>2 DEF CommitRevocation
    <3>2. QED
      BY <1>0, <3>1 DEF Session
  <2>3. QED
    BY <2>1, <2>2 DEF TimesKept
<1>3. ASSUME NEW s, NEW at, CommitTouch(s, at)
      PROVE  TimesKept
  <2>1. DOMAIN sessions' = DOMAIN sessions
    BY <1>3 DEF CommitTouch
  <2>2. ASSUME NEW x \in DOMAIN sessions
        PROVE  /\ sessions'[x].expires = sessions[x].expires
               /\ sessions'[x].delay = sessions[x].delay
    <3>1. \/ sessions'[x] = [sessions[x] EXCEPT !.lastSeen = at]
          \/ sessions'[x] = sessions[x]
      BY <1>3 DEF CommitTouch
    <3>2. QED
      BY <1>0, <3>1 DEF Session
  <2>3. QED
    BY <2>1, <2>2 DEF TimesKept
<1>4. ASSUME NEW r \in Request, Create(r)
      PROVE  TimesKept
  <2>1. FreshId \notin DOMAIN sessions /\ CommitCreate(FreshId, reqs[r].draft)
    BY <1>4, FreshIdIsFree DEF Create
  <2> DEFINE n == FreshId
  <2>2. /\ DOMAIN sessions' = DOMAIN sessions \cup {n}
        /\ sessions'[n] = NewNode(n, reqs[r].draft, n)
        /\ \A s \in DOMAIN sessions : sessions'[s] = sessions[s]
    BY <2>1 DEF CommitCreate
  <2> HIDE DEF n
  <2>3. MintedFrom(n, reqs[r].draft) /\ Joins(n, r)
    BY <1>4, <2>2, NewNodeTimes DEF Joins, Create
  <2>4. QED
    BY <2>2, <2>3 DEF TimesKept
<1>5. ASSUME NEW r \in Request, RotateCommit(r)
      PROVE  TimesKept
  <2> DEFINE n == FreshId
             o == TokenOf(r)
  <2>1. /\ n \notin DOMAIN sessions
        /\ CommitRotation(r, o, n, reqs[r].draft)
        /\ o \in DOMAIN sessions
        /\ At(r, "rotateCommit")
    BY <1>5, FreshIdIsFree DEF RotateCommit, IInv, HandlerInv, At, Stores
  <2> HIDE DEF n, o
  <2>2. /\ DOMAIN sessions' = DOMAIN sessions \cup {n}
        /\ sessions'[n] = NewNode(n, reqs[r].draft, sessions[o].family)
    BY <2>1 DEF CommitRotation
  <2>3. ASSUME NEW s \in DOMAIN sessions
        PROVE  /\ sessions'[s].expires = sessions[s].expires
               /\ sessions'[s].delay = sessions[s].delay
    <3>1. CASE s = o
      <4>1. sessions'[o] = [sessions[o] EXCEPT !.revoked = TRUE,
                                               !.replacedBy = n]
        BY <2>1 DEF CommitRotation
      <4>2. QED
        BY <1>0, <3>1, <4>1 DEF Session
    <3>2. CASE s # o
      <4>1. sessions'[s] = sessions[s]
        BY <2>1, <3>2 DEF CommitRotation
      <4>2. QED
        BY <4>1
    <3>3. QED
      BY <3>1, <3>2
  <2>4. MintedFrom(n, reqs[r].draft) /\ Joins(n, r)
    BY <2>1, <2>2, NewNodeTimes DEF Joins, o
  <2>5. QED
    BY <2>1, <2>2, <2>3, <2>4 DEF TimesKept
<1>6. ASSUME NEW r \in Request, Arrive(r) \/ Serve(r) \/ CallFails(r)
      PROVE  TimesKept
  <2>1. ASSUME Arrive(r) PROVE UNCHANGED sessions
    BY <2>1 DEF Arrive, TokenRequest, Login, ServiceLogin, StartMint, StartOn,
                StartRefresh, StartVerify, StartLogout, StartLogoutAll,
                StartList, StartActivate, StartRevoke, storeVars
  <2>2. CASE Create(r)
    BY <1>4, <2>2
  <2>3. CASE RotateCommit(r)
    BY <1>5, <2>3
  <2>4. CASE Revoke(r) \/ ActivateRevoke(r) \/ BulkWrite(r)
    BY <1>2, <2>4 DEF Revoke, ActivateRevoke, BulkWrite
  <2>5. ASSUME \/ Authenticate(r) \/ RefreshLookup(r) \/ Mint(r)
               \/ RotateRead(r) \/ RotateAborts(r) \/ ReadBack(r)
               \/ LogoutLookup(r) \/ ActivateLookup(r) \/ FindTarget(r)
               \/ BulkRead(r) \/ List(r) \/ CallFails(r)
        PROVE  UNCHANGED sessions
    BY <2>5 DEF Authenticate, RefreshLookup, Mint, RotateRead, RotateAborts,
                ReadBack, LogoutLookup, ActivateLookup, FindTarget, BulkRead,
                List, CallFails, storeVars
  <2>6. QED
    BY <1>1, <1>6, <2>1, <2>2, <2>3, <2>4, <2>5 DEF Serve
<1>7. ASSUME NEW g \in touches, Touch(g)
      PROVE  TimesKept
  <2>1. UNCHANGED sessions \/ \E t : CommitTouch(g.session, Stored(t))
    BY <1>7 DEF Touch, storeVars
  <2>2. QED
    BY <1>1, <1>3, <2>1
<1>8. CASE Restart \/ Tick \/ UNCHANGED vars
  BY <1>1, <1>8 DEF Restart, Tick, vars, storeVars
<1>9. QED
  BY <1>6, <1>7, <1>8 DEF Next, Background

(* What any step makes of any slot.                                        *)
LEMMA NextMoves ==
    ASSUME IInv, [Next]_vars, NEW v \in Request
    PROVE  Moves(v)
<1>1. ASSUME reqs'[v] = reqs[v] \/ reqs'[v].pc = "idle"
      PROVE  Moves(v)
  BY <1>1 DEF Moves
<1>2. ASSUME NEW r \in Request, Arrive(r) \/ Serve(r) \/ CallFails(r)
      PROVE  Moves(v)
  <2>1. Moves(r) /\ \A x \in Request \ {r} : reqs'[x] = reqs[x]
    BY <1>2, ArriveMoves, ServeMoves
  <2>2. QED
    BY <1>1, <2>1
<1>3. CASE Restart
  <2>1. Failed(v).pc = "idle"
    BY FailedType DEF IInv
  <2>2. QED
    BY <1>1, <1>3, <2>1 DEF Restart
<1>4. CASE (\E g \in touches : Touch(g)) \/ Tick \/ UNCHANGED vars
  BY <1>1, <1>4 DEF Touch, Tick, vars
<1>5. QED
  BY <1>2, <1>3, <1>4 DEF Next, Background

-----------------------------------------------------------------------------
(* What the inputs of pending creates and rotations satisfy.               *)

(* x expires at most an access lifetime after the refresh expiry it keeps, *)
(* and what its handler took.                                              *)
InWindow(x) == x.expires <= x.refreshExpires + AccessTTL + x.delay

(* A rotation was decided when the refresh expiry it keeps had not passed. *)
RotationInTime(r) ==
    /\ At(r, "mint") /\ reqs[r].op = "refresh" =>
          reqs[r].draft.decided <= reqs[r].draft.refreshExpires
    /\ reqs[r].pc \in {"rotateRead", "rotateCommit"} =>
          InWindow(reqs[r].draft)

(* Only a user's session is exchanged for one with a context.              *)
UserActivates(r) ==
    reqs[r].op = "activateContext" /\ reqs[r].pc \in {"lookup", "revoke"} =>
        Stores(TokenOf(r)) /\ sessions[TokenOf(r)].kind = "user"

HandlerTimes == \A r \in Request : RotationInTime(r) /\ UserActivates(r)

(* A stored time is the time, cut by less than a second.                   *)
LEMMA StoredBounds ==
    ASSUME NEW t \in Int
    PROVE  Stored(t) <= t /\ t < Stored(t) + TicksPerSecond
<1>1. t % TicksPerSecond \in 0 .. (TicksPerSecond - 1)
  BY SessionStoreAssumption
<1>2. QED
  BY <1>1, SessionStoreAssumption DEF Stored

(* What Mint makes of a draft, field by field.                             *)
LEMMA MintedFields ==
    ASSUME IInv, NEW r \in Request, At(r, "mint")
    PROVE  /\ clock \in Nat /\ reqs[r].draft.decided \in Nat
           /\ reqs[r].draft.decided <= clock
           /\ reqs[r].draft.refreshExpires \in Int
           /\ Minted(r).kind = reqs[r].draft.kind
           /\ Minted(r).client = reqs[r].draft.client
           /\ Minted(r).expires = Stored(clock + AccessTTL)
           /\ Minted(r).refreshExpires =
                 IF reqs[r].op = "refresh" THEN reqs[r].draft.refreshExpires
                 ELSE Stored(clock + RefreshTTL)
           /\ Minted(r).delay = clock - reqs[r].draft.decided
<1>1. /\ reqs[r].draft \in SessionInput /\ reqs[r].draft.decided <= clock
      /\ clock \in Nat
  BY DEF IInv, TypeOK, HandlerInv
<1>2. QED
  BY <1>1 DEF Minted, SessionInput

(* The cut times of a mint, between the times they were cut from.          *)
LEMMA MintTimes ==
    ASSUME TypeOK
    PROVE  /\ AccessTTL \in Nat /\ RefreshTTL \in Nat
           /\ Stored(clock + AccessTTL) \in Int
           /\ Stored(clock + RefreshTTL) \in Int
           /\ Stored(clock + AccessTTL) <= clock + AccessTTL
           /\ Stored(clock + RefreshTTL) <= clock + RefreshTTL
           /\ clock + RefreshTTL < Stored(clock + RefreshTTL) + TicksPerSecond
<1>1. /\ clock \in Int /\ AccessTTL \in Nat /\ RefreshTTL \in Nat
      /\ clock + AccessTTL \in Int /\ clock + RefreshTTL \in Int
  BY SessionServiceAssumption DEF TypeOK
<1>2. QED
  BY <1>1, StoredType, StoredBounds

LEMMA NextKeepsHandlerTimes ==
    ASSUME IInv, IInv', StoreGrows, HandlerTimes, [Next]_vars
    PROVE  HandlerTimes'
<1> SUFFICES ASSUME NEW r \in Request
             PROVE  RotationInTime(r)' /\ UserActivates(r)'
  BY DEF HandlerTimes
<1> DEFINE t == TokenOf(r)
           h == reqs'[r]
<1>1. /\ Moves(r) /\ RotationInTime(r) /\ UserActivates(r)
      /\ reqs[r] \in Handler
  BY NextMoves DEF HandlerTimes, IInv, TypeOK
<1>2. RotationInTime(r)'
  <2>1. CASE /\ h.pc = "mint" /\ Stores(t)
             /\ ~IsRefreshExpired(t, clock)
             /\ h.draft = RefreshInput(t)
    <3>1. clock \in Int /\ sessions[t].refreshExpires \in Int
      BY <2>1 DEF IInv, TypeOK, StoreTypeOK, Session, Stores
    <3>2. clock <= sessions[t].refreshExpires
      BY <2>1, <3>1 DEF IsRefreshExpired
    <3>3. /\ h.draft.decided = clock
          /\ h.draft.refreshExpires = sessions[t].refreshExpires
      BY <2>1 DEF RefreshInput
    <3>4. QED
      BY <2>1, <3>2, <3>3 DEF RotationInTime, At
  <2>2. CASE /\ At(r, "mint") /\ h.op = reqs[r].op
             /\ h.pc = IF h.op = "refresh" THEN "rotateRead" ELSE "create"
             /\ h.draft = Minted(r)
    <3>1. CASE h.op = "refresh"
      <4> DEFINE d == reqs[r].draft
                 m == Minted(r)
                 e == Stored(clock + AccessTTL)
      <4>1. /\ clock \in Nat /\ d.decided \in Nat /\ d.refreshExpires \in Int
            /\ m.expires = e /\ m.refreshExpires = d.refreshExpires
            /\ m.delay = clock - d.decided
        BY <2>2, <3>1, MintedFields
      <4>2. d.decided <= d.refreshExpires
        BY <1>1, <2>2, <3>1 DEF RotationInTime
      <4>3. e \in Int /\ e <= clock + AccessTTL /\ AccessTTL \in Nat
        BY MintTimes DEF IInv
      <4> HIDE DEF d, m, e
      <4>4. InWindow(m)
        BY <4>1, <4>2, <4>3 DEF InWindow
      <4>5. QED
        BY <2>2, <3>1, <4>4 DEF RotationInTime, At, m
    <3>2. CASE h.op # "refresh"
      BY <2>2, <3>2 DEF RotationInTime, At
    <3>3. QED
      BY <3>1, <3>2
  <2>3. CASE /\ h.pc = "rotateCommit" /\ At(r, "rotateRead")
             /\ h.draft = CarriedForward(t, reqs[r].draft)
    <3>1. reqs[r].draft \in SessionInput
      BY <2>3 DEF IInv, HandlerInv, DraftFrom
    <3>2. /\ h.draft.expires = reqs[r].draft.expires
          /\ h.draft.refreshExpires = reqs[r].draft.refreshExpires
          /\ h.draft.delay = reqs[r].draft.delay
      BY <2>3, <3>1 DEF CarriedForward, SessionInput
    <3>3. QED
      BY <1>1, <2>3, <3>2 DEF RotationInTime, InWindow, At
  <2>4. CASE \/ h.pc \notin {"mint", "rotateRead", "rotateCommit"}
             \/ h.pc = "mint" /\ h.op # "refresh"
             \/ h = reqs[r]
    BY <1>1, <2>4 DEF RotationInTime, At
  <2>5. QED
    BY <1>1, <2>1, <2>2, <2>3, <2>4 DEF Moves
<1>3. UserActivates(r)'
  <2>1. ASSUME NEW s, Stores(s), sessions[s].kind = "user"
        PROVE  Stores(s)' /\ sessions'[s].kind = "user"
    BY <2>1 DEF StoreGrows, SessionKept, Identity, Stores
  <2>2. CASE h = reqs[r]
    BY <1>1, <2>1, <2>2 DEF UserActivates, TokenOf
  <2>3. CASE /\ h.pc \in {"lookup", "revoke"}
             /\ h.op = "activateContext" =>
                   /\ h.token = t /\ Stores(t)
                   /\ \/ sessions[t].kind = "user"
                      \/ At(r, "lookup") /\ reqs[r].op = "activateContext"
    BY <1>1, <2>1, <2>3 DEF UserActivates, TokenOf, At
  <2>4. CASE h.pc \notin {"lookup", "revoke"}
    BY <2>4 DEF UserActivates
  <2>5. QED
    BY <1>1, <2>2, <2>3, <2>4 DEF Moves
<1>4. QED
  BY <1>2, <1>3

LEMMA InitEstablishesHandlerTimes ==
    ASSUME Init
    PROVE  HandlerTimes
BY DEF Init, HandlerTimes, RotationInTime, UserActivates, Idle, At

LEMMA HandlerTimesInvariant == Spec => []HandlerTimes
<1>1. IInv /\ IInv' /\ HandlerTimes /\ [Next]_vars => HandlerTimes'
  BY NextKeepsInv, NextKeepsHandlerTimes
<1>2. QED
  BY <1>1, InitEstablishesHandlerTimes, Invariance, PTL DEF Spec

-----------------------------------------------------------------------------
(* The access window.                                                      *)

WindowInv ==
    /\ \A s \in DOMAIN sessions : InWindow(sessions[s])
    /\ \A r \in Request : At(r, "create") => InWindow(reqs[r].draft)

(* A pair minted for a new session: the cut of its refresh expiry is paid  *)
(* for by a refresh lifetime of a second or more.                          *)
LEMMA MintedWindow ==
    ASSUME IInv, TicksPerSecond <= RefreshTTL + 1,
           NEW r \in Request, At(r, "mint"), reqs[r].op # "refresh"
    PROVE  InWindow(Minted(r))
<1> DEFINE m == Minted(r)
           e == Stored(clock + AccessTTL)
           f == Stored(clock + RefreshTTL)
           d == reqs[r].draft.decided
<1>1. /\ m.expires = e /\ m.refreshExpires = f /\ m.delay = clock - d
      /\ clock \in Nat /\ d \in Nat /\ d <= clock
  BY MintedFields
<1>2. /\ e \in Int /\ f \in Int /\ AccessTTL \in Nat /\ RefreshTTL \in Nat
      /\ e <= clock + AccessTTL /\ clock + RefreshTTL < f + TicksPerSecond
  BY MintTimes DEF IInv
<1>3. TicksPerSecond \in Nat
  BY SessionStoreAssumption
<1> HIDE DEF m, e, f, d
<1>4. InWindow(m)
  BY <1>1, <1>2, <1>3 DEF InWindow
<1>5. QED
  BY <1>4 DEF m

LEMMA NextKeepsWindow ==
    ASSUME IInv, IInv', HandlerTimes, WindowInv, [Next]_vars,
           TicksPerSecond <= RefreshTTL + 1
    PROVE  WindowInv'
<1>1. ASSUME NEW s \in DOMAIN sessions'
      PROVE  InWindow(sessions'[s])
  <2>1. TimesKept /\ StoreGrows
    BY NextKeepsTimes, NextKeepsInv
  <2>2. CASE s \in DOMAIN sessions
    <3>1. /\ sessions'[s].expires = sessions[s].expires
          /\ sessions'[s].delay = sessions[s].delay
          /\ sessions'[s].refreshExpires = sessions[s].refreshExpires
      BY <2>1, <2>2 DEF TimesKept, StoreGrows, SessionKept, Identity
    <3>2. QED
      BY <2>2, <3>1 DEF WindowInv, InWindow
  <2>3. CASE s \notin DOMAIN sessions
    <3>1. PICK r \in Request : Joins(s, r) /\ MintedFrom(s, reqs[r].draft)
      BY <1>1, <2>1, <2>3 DEF TimesKept
    <3>2. InWindow(reqs[r].draft)
      BY <3>1 DEF WindowInv, HandlerTimes, RotationInTime, Joins, At
    <3>3. QED
      BY <3>1, <3>2 DEF MintedFrom, InWindow
  <2>4. QED
    BY <2>2, <2>3
<1>2. ASSUME NEW r \in Request, At(r, "create")'
      PROVE  InWindow(reqs'[r].draft)
  <2>1. CASE reqs'[r] = reqs[r]
    BY <1>2, <2>1 DEF WindowInv, At
  <2>2. CASE /\ At(r, "mint") /\ reqs[r].op # "refresh"
             /\ reqs'[r].draft = Minted(r)
    BY <2>2, MintedWindow
  <2>3. QED
    BY <1>2, <2>1, <2>2, NextMoves DEF Moves, At
<1>3. QED
  BY <1>1, <1>2 DEF WindowInv, InWindow

(* However far apart Refresh reads the clock for the check and for the new *)
(* expiry, and however often a family is rotated, an access token outlives *)
(* the refresh expiry of its session by at most an access lifetime and the *)
(* time its own handler took between the two, if a refresh lifetime is a   *)
(* second or more (Create, Refresh).                                       *)
THEOREM AccessWindow ==
    ASSUME TicksPerSecond <= RefreshTTL + 1
    PROVE  Spec => []AccessWindowBounded
<1>1. Init => WindowInv
  BY DEF Init, StoreInit, WindowInv, At, Idle
<1>2. IInv /\ IInv' /\ HandlerTimes /\ WindowInv /\ [Next]_vars => WindowInv'
  BY NextKeepsWindow
<1>3. WindowInv => AccessWindowBounded
  BY DEF WindowInv, InWindow, AccessWindowBounded
<1>4. QED
  BY <1>1, <1>2, <1>3, Invariance, HandlerTimesInvariant, PTL DEF Spec
=============================================================================

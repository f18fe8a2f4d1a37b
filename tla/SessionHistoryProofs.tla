------------------------ MODULE SessionHistoryProofs ------------------------
(***************************************************************************)
(* What the answers of SessionService's endpoints promise, proved: that a  *)
(* revoked token is refused, that a logout-all and a replay cover every    *)
(* session there was, that the device list leaves none out and that nobody *)
(* revokes another user's session.  The history of a request is a          *)
(* statement about the stored sessions ss and a handler q, both values, so *)
(* that the same statement serves before and after a step.                 *)
(***************************************************************************)
EXTENDS SessionServiceProofs

(* From ss to tt no session is lost or reopened, and none changes hands.   *)
Grows(ss, tt) ==
    \A s \in DOMAIN ss :
        /\ s \in DOMAIN tt
        /\ ss[s].revoked => tt[s].revoked
        /\ tt[s].user = ss[s].user

(* The endpoint a handler serves, by the call it is at.                    *)
StageOK(q) ==
    /\ q.pc \in {"rotateRead", "rotateCommit"} => q.op = "refresh"
    /\ q.pc \in {"bulkRead", "bulkWrite"} => q.op \in {"refresh", "logoutAll"}
    /\ q.pc = "list" => q.op = "listSessions"
    /\ q.pc \in {"mint", "create", "readBack"} =>
          q.op \in {"login", "serviceLogin", "refresh", "activateContext"}
    /\ q.pc \in {"lookup", "revoke"} =>
          q.op \in {"refresh", "logout", "revokeSession", "activateContext"}
    /\ q.pc # "idle" => q.answer = "none" /\ ~q.faulted

(* The sessions the token's user had when the request began.               *)
Earlier(ss, q) == {s \in q.before : ss[s].user = ss[q.token].user}

(* The request presents the token of a stored session ...                  *)
HasToken(ss, q) == q.token \in DOMAIN ss

(* ... and every session its user had when it began is revoked, but for    *)
(* those in S.                                                             *)
CoversAllBut(ss, q, S) ==
    \A s \in Earlier(ss, q) : s \in S \/ ss[s].revoked

(* What a handler knows of the sessions at its next call.                  *)
RelyOK(ss, q) ==
    /\ q.before \subseteq DOMAIN ss
    /\ q.pc \in {"findTarget", "rotateRead", "rotateCommit", "revoke",
                 "bulkRead", "bulkWrite", "list"} => HasToken(ss, q)
    /\ q.pc = "mint" /\ q.op = "refresh" => HasToken(ss, q)
    /\ q.pc = "revoke" =>
          q.target \in DOMAIN ss /\ ss[q.target].user = ss[q.token].user
    /\ q.pc = "bulkWrite" =>
          /\ q.found \subseteq DOMAIN ss
          /\ \A s \in q.found : ss[s].user = ss[q.token].user
          /\ CoversAllBut(ss, q, q.found)

(* A request whose session was revoked before it began gets no further     *)
(* than the check, or, at refresh, than the revocation of a replay.        *)
DeadOK(ss, q) ==
    q.dead =>
        /\ HasToken(ss, q) /\ ss[q.token].revoked
        /\ q.answer # "ok"
        /\ \/ q.pc \in {"idle", "authenticate"}
           \/ q.op = "refresh" /\ q.pc \in {"lookup", "bulkRead", "bulkWrite"}

Shown(q) == {q.listing[i] : i \in DOMAIN q.listing}

(* What an answer that was given promises.                                 *)
PromiseOK(ss, q) ==
    /\ q.op = "logoutAll" /\ q.answer = "ok" =>
          HasToken(ss, q) /\ CoversAllBut(ss, q, {})
    /\ q.answer = "replayed" /\ ~q.faulted =>
          HasToken(ss, q) /\ CoversAllBut(ss, q, {})
    /\ q.op = "listSessions" /\ q.answer = "ok" =>
          /\ HasToken(ss, q)
          /\ CoversAllBut(ss, q, Shown(q))
          /\ Shown(q) \subseteq DOMAIN ss
          /\ \A s \in Shown(q) : ss[s].user = ss[q.token].user
          /\ Cardinality(Shown(q)) = Len(q.listing)

HistoryOK(ss, q) ==
    StageOK(q) /\ RelyOK(ss, q) /\ DeadOK(ss, q) /\ PromiseOK(ss, q)

History == \A r \in Request : HistoryOK(sessions, reqs[r])

HInv == IInv /\ History

-----------------------------------------------------------------------------
LEMMA GrowsIfKept ==
    ASSUME StoreGrows
    PROVE  Grows(sessions, sessions')
BY DEF StoreGrows, SessionKept, Grows, Identity

(* What was promised stays true: no step reopens a session or hands it to  *)
(* another user.                                                           *)
LEMMA EarlierStays ==
    ASSUME NEW ss, NEW tt, NEW q, Grows(ss, tt), q.before \subseteq DOMAIN ss,
           HasToken(ss, q)
    PROVE  Earlier(tt, q) = Earlier(ss, q)
BY DEF Earlier, Grows, HasToken

LEMMA CoverStays ==
    ASSUME NEW ss, NEW tt, NEW q, NEW S,
           Grows(ss, tt), q.before \subseteq DOMAIN ss, HasToken(ss, q),
           CoversAllBut(ss, q, S)
    PROVE  CoversAllBut(tt, q, S)
<1>1. Earlier(tt, q) = Earlier(ss, q)
  BY EarlierStays
<1> QED
  BY <1>1 DEF CoversAllBut, Grows, Earlier

LEMMA HistoryStays ==
    ASSUME NEW ss, NEW tt, NEW q, Grows(ss, tt), HistoryOK(ss, q)
    PROVE  HistoryOK(tt, q)
<1>1. StageOK(q) /\ RelyOK(ss, q) /\ DeadOK(ss, q) /\ PromiseOK(ss, q)
  BY DEF HistoryOK
<1>2. q.before \subseteq DOMAIN ss
  BY <1>1 DEF RelyOK
<1>3. HasToken(ss, q) => HasToken(tt, q) /\ tt[q.token].user = ss[q.token].user
  BY DEF HasToken, Grows
<1>4. \A S : HasToken(ss, q) /\ CoversAllBut(ss, q, S)
                 => CoversAllBut(tt, q, S)
  BY <1>2, CoverStays
<1>5. \A S : S \subseteq DOMAIN ss =>
          S \subseteq DOMAIN tt /\ \A s \in S : tt[s].user = ss[s].user
  BY DEF Grows
<1>6. RelyOK(tt, q)
  <2>1. q.before \subseteq DOMAIN tt
    BY <1>2, <1>5
  <2>2. q.pc = "revoke" =>
            q.target \in DOMAIN tt /\ tt[q.target].user = tt[q.token].user
    <3>1. q.pc = "revoke" =>
              /\ HasToken(ss, q)
              /\ q.target \in DOMAIN ss
              /\ ss[q.target].user = ss[q.token].user
      BY <1>1 DEF RelyOK
    <3> QED
      BY <1>3, <3>1 DEF Grows
  <2>3. q.pc = "bulkWrite" =>
            /\ q.found \subseteq DOMAIN tt
            /\ \A s \in q.found : tt[s].user = tt[q.token].user
            /\ CoversAllBut(tt, q, q.found)
    <3>1. q.pc = "bulkWrite" =>
              /\ HasToken(ss, q)
              /\ q.found \subseteq DOMAIN ss
              /\ \A s \in q.found : ss[s].user = ss[q.token].user
              /\ CoversAllBut(ss, q, q.found)
      BY <1>1 DEF RelyOK
    <3> QED
      BY <1>3, <1>4, <1>5, <3>1
  <2> QED
    BY <1>1, <1>3, <2>1, <2>2, <2>3 DEF RelyOK
<1>7. DeadOK(tt, q)
  BY <1>1 DEF DeadOK, HasToken, Grows
<1>8. PromiseOK(tt, q)
  <2>1. q.op = "listSessions" /\ q.answer = "ok" =>
            /\ HasToken(tt, q)
            /\ CoversAllBut(tt, q, Shown(q))
            /\ Shown(q) \subseteq DOMAIN tt
            /\ \A s \in Shown(q) : tt[s].user = tt[q.token].user
            /\ Cardinality(Shown(q)) = Len(q.listing)
    <3> HIDE DEF Shown
    <3>1. q.op = "listSessions" /\ q.answer = "ok" =>
            /\ HasToken(ss, q)
            /\ CoversAllBut(ss, q, Shown(q))
            /\ Shown(q) \subseteq DOMAIN ss
            /\ \A s \in Shown(q) : ss[s].user = ss[q.token].user
            /\ Cardinality(Shown(q)) = Len(q.listing)
      BY <1>1 DEF PromiseOK
    <3> QED
      BY <1>3, <1>4, <1>5, <3>1
  <2> QED
    BY <1>1, <1>3, <1>4, <2>1 DEF PromiseOK
<1> QED
  BY <1>1, <1>6, <1>7, <1>8 DEF HistoryOK

-----------------------------------------------------------------------------
(* h is a later state of the request that q is a state of.                 *)
SameRequest(h, q) ==
    h.op = q.op /\ h.token = q.token /\ h.before = q.before /\ h.dead = q.dead

LEMMA AnsweredFields ==
    ASSUME IInv, NEW r \in Request, NEW a
    PROVE  /\ SameRequest(Answered(r, a), reqs[r])
           /\ Answered(r, a).pc = "idle"
           /\ Answered(r, a).answer = a
           /\ Answered(r, a).faulted = reqs[r].faulted
<1>1. reqs[r] \in Handler
  BY DEF IInv, TypeOK
<1> QED
  BY <1>1 DEF Answered, Handler, SameRequest

LEMMA FailedFields ==
    ASSUME IInv, NEW r \in Request
    PROVE  /\ SameRequest(Failed(r), reqs[r])
           /\ Failed(r).pc = "idle"
           /\ Failed(r).answer \in {"error", "replayed"}
           /\ Failed(r).faulted
<1> DEFINE a == FailureAnswer(r)
           h == Answered(r, a)
<1>1. a \in {"error", "replayed"} /\ a \in Answers
  BY DEF FailureAnswer, Answers
<1>2. h \in Handler
  BY <1>1, AnsweredType DEF IInv
<1>3. SameRequest(h, reqs[r]) /\ h.pc = "idle" /\ h.answer = a
  BY AnsweredFields
<1>4. Failed(r) = [h EXCEPT !.faulted = TRUE]
  BY DEF Failed
<1> HIDE DEF a, h
<1> QED
  BY <1>1, <1>2, <1>3, <1>4 DEF Handler, SameRequest

(* A refusal or a failure promises nothing.                                *)
LEMMA RefusedOK ==
    ASSUME NEW ss, NEW q, NEW h, HistoryOK(ss, q), SameRequest(h, q),
           h.pc = "idle",
           \/ h.answer \in {"none", "error", "denied", "expired"}
           \/ h.answer \in {"error", "replayed"} /\ h.faulted
    PROVE  HistoryOK(ss, h)
<1>1. StageOK(h)
  BY DEF StageOK
<1>2. RelyOK(ss, h)
  BY DEF HistoryOK, RelyOK, SameRequest
<1>3. DeadOK(ss, h)
  BY DEF HistoryOK, DeadOK, SameRequest, HasToken
<1>4. PromiseOK(ss, h)
  BY DEF PromiseOK
<1> QED
  BY <1>1, <1>2, <1>3, <1>4 DEF HistoryOK

(* Nor does the success of an endpoint that is neither a logout-all nor a  *)
(* list.                                                                   *)
LEMMA SucceededOK ==
    ASSUME NEW ss, NEW q, NEW h, HistoryOK(ss, q), SameRequest(h, q),
           h.pc = "idle", h.answer = "ok", ~q.dead,
           q.op \notin {"logoutAll", "listSessions"}
    PROVE  HistoryOK(ss, h)
<1>1. StageOK(h)
  BY DEF StageOK
<1>2. RelyOK(ss, h)
  BY DEF HistoryOK, RelyOK, SameRequest
<1>3. DeadOK(ss, h)
  BY DEF DeadOK, SameRequest
<1>4. PromiseOK(ss, h)
  BY DEF PromiseOK, SameRequest
<1> QED
  BY <1>1, <1>2, <1>3, <1>4 DEF HistoryOK

(* What is left to show of a step that leaves its handler as h.            *)
LEMMA HandlerHistory ==
    ASSUME HInv, StoreGrows, NEW r \in Request, NEW h,
           reqs' = [reqs EXCEPT ![r] = h], HistoryOK(sessions', h)
    PROVE  History'
<1>1. Grows(sessions, sessions')
  BY GrowsIfKept
<1>2. \A v \in Request : HistoryOK(sessions, reqs[v])
  BY DEF HInv, History
<1>3. \A v \in Request : HistoryOK(sessions', reqs[v])
  BY <1>1, <1>2, HistoryStays
<1>4. \A v \in Request : reqs'[v] = IF v = r THEN h ELSE reqs[v]
  BY DEF HInv, IInv, TypeOK
<1>5. \A v \in Request : HistoryOK(sessions', reqs'[v])
  BY <1>3, <1>4
<1> QED
  BY <1>5 DEF History

LEMMA RefusedHistory ==
    ASSUME HInv, StoreGrows, NEW r \in Request,
           NEW a \in {"none", "error", "denied", "expired"},
           Continue(r, Answered(r, a))
    PROVE  History'
<1> DEFINE h == Answered(r, a)
<1>1. SameRequest(h, reqs[r]) /\ h.pc = "idle" /\ h.answer = a
  BY AnsweredFields DEF HInv
<1>2. reqs' = [reqs EXCEPT ![r] = h]
  BY DEF Continue
<1> HIDE DEF h
<1>3. HistoryOK(sessions', reqs[r])
  BY GrowsIfKept, HistoryStays DEF HInv, History
<1>4. HistoryOK(sessions', h)
  BY <1>1, <1>3, RefusedOK
<1> QED
  BY <1>2, <1>4, HandlerHistory

LEMMA SucceededHistory ==
    ASSUME HInv, StoreGrows, NEW r \in Request, ~reqs[r].dead,
           reqs[r].op \notin {"logoutAll", "listSessions"},
           Continue(r, Answered(r, "ok"))
    PROVE  History'
<1> DEFINE h == Answered(r, "ok")
<1>1. SameRequest(h, reqs[r]) /\ h.pc = "idle" /\ h.answer = "ok"
  BY AnsweredFields DEF HInv
<1>2. reqs' = [reqs EXCEPT ![r] = h]
  BY DEF Continue
<1> HIDE DEF h
<1>3. HistoryOK(sessions', reqs[r])
  BY GrowsIfKept, HistoryStays DEF HInv, History
<1>4. HistoryOK(sessions', h)
  BY <1>1, <1>3, SucceededOK
<1> QED
  BY <1>2, <1>4, HandlerHistory

LEMMA FailedHistory ==
    ASSUME HInv, StoreGrows, NEW r \in Request, Continue(r, Failed(r))
    PROVE  History'
<1> DEFINE h == Failed(r)
<1>1. /\ SameRequest(h, reqs[r]) /\ h.pc = "idle"
      /\ h.answer \in {"error", "replayed"} /\ h.faulted
  BY FailedFields DEF HInv
<1>2. reqs' = [reqs EXCEPT ![r] = h]
  BY DEF Continue
<1> HIDE DEF h
<1>3. HistoryOK(sessions', reqs[r])
  BY GrowsIfKept, HistoryStays DEF HInv, History
<1>4. HistoryOK(sessions', h)
  BY <1>1, <1>3, RefusedOK
<1> QED
  BY <1>2, <1>4, HandlerHistory

LEMMA ReplyHistory ==
    ASSUME HInv, StoreGrows, NEW r \in Request, NEW h, Reply(r, h),
           HistoryOK(sessions', h)
    PROVE  History'
<1>1. CASE Continue(r, h)
  BY <1>1, HandlerHistory DEF Continue
<1>2. CASE Continue(r, Failed(r))
  BY <1>2, FailedHistory
<1> QED
  BY <1>1, <1>2 DEF Reply

(* A handler that goes on to its next call, knowing what that one needs.   *)
LEMMA GoesOnHistory ==
    ASSUME HInv, StoreGrows, NEW r \in Request, Active(r), NEW h,
           SameRequest(h, reqs[r]), h.answer = reqs[r].answer,
           h.faulted = reqs[r].faulted, h.pc # "idle",
           StageOK(h), RelyOK(sessions', h),
           \/ ~reqs[r].dead
           \/ reqs[r].op = "refresh" /\ h.pc \in {"bulkRead", "bulkWrite"},
           Reply(r, h) \/ Continue(r, h)
    PROVE  History'
<1>1. h.answer = "none"
  BY DEF StageOK
<1>2. HistoryOK(sessions', reqs[r])
  BY GrowsIfKept, HistoryStays DEF HInv, History
<1>3. DeadOK(sessions', h)
  <2>1. DeadOK(sessions', reqs[r])
    BY <1>2 DEF HistoryOK
  <2> QED
    BY <1>1, <2>1 DEF DeadOK, SameRequest, HasToken
<1>4. PromiseOK(sessions', h)
  BY <1>1 DEF PromiseOK
<1>5. HistoryOK(sessions', h)
  BY <1>3, <1>4 DEF HistoryOK
<1>6. CASE Reply(r, h)
  BY <1>5, <1>6, ReplyHistory
<1>7. CASE Continue(r, h)
  BY <1>5, <1>7, HandlerHistory DEF Continue
<1> QED
  BY <1>6, <1>7

-----------------------------------------------------------------------------
(* The handlers' steps, each as History' under the invariant.              *)
LEMMA StartMintHistory ==
    ASSUME HInv, StoreGrows, NEW r \in Request,
           NEW op \in {"login", "serviceLogin"}, NEW in,
           StartMint(r, op, in)
    PROVE  History'
<1> DEFINE h == [Idle EXCEPT !.op = op, !.pc = "mint", !.draft = in]
<1>1. reqs' = [reqs EXCEPT ![r] = h]
  BY DEF StartMint, Continue
<1>2. /\ h.op = op /\ h.pc = "mint" /\ h.answer = "none" /\ h.dead = FALSE
      /\ h.faulted = FALSE /\ h.before = {}
  BY DEF Idle
<1> HIDE DEF h
<1>3. StageOK(h) /\ DeadOK(sessions', h) /\ PromiseOK(sessions', h)
  BY <1>2 DEF StageOK, DeadOK, PromiseOK
<1>4. RelyOK(sessions', h)
  BY <1>2 DEF RelyOK
<1> QED
  BY <1>1, <1>3, <1>4, HandlerHistory DEF HistoryOK

LEMMA StartOnHistory ==
    ASSUME HInv, StoreGrows, NEW r \in Request, NEW op, NEW t, NEW s,
           NEW pc \in {"lookup", "authenticate"},
           pc = "lookup" => op = "refresh",
           StartOn(r, op, t, s, pc)
    PROVE  History'
<1> DEFINE before == IF op \in {"refresh", "logoutAll", "listSessions"}
                     THEN DOMAIN sessions ELSE {}
           dead == Stores(t) /\ sessions[t].revoked
           h == [Idle EXCEPT !.op = op, !.pc = pc, !.token = t,
                    !.target = s, !.before = before, !.dead = dead]
<1>1. reqs' = [reqs EXCEPT ![r] = h] /\ sessions' = sessions
  BY DEF StartOn, Continue, storeVars
<1>2. before \subseteq DOMAIN sessions
  OBVIOUS
<1>3. dead <=> t \in DOMAIN sessions /\ sessions[t].revoked
  BY DEF Stores
<1> HIDE DEF before, dead
<1>4. /\ h.op = op /\ h.pc = pc /\ h.token = t /\ h.before = before
      /\ h.dead = dead /\ h.answer = "none" /\ h.faulted = FALSE
  BY DEF Idle
<1> HIDE DEF h
<1>5. StageOK(h) /\ PromiseOK(sessions', h)
  BY <1>4 DEF StageOK, PromiseOK
<1>6. DeadOK(sessions', h)
  BY <1>1, <1>3, <1>4 DEF DeadOK, HasToken
<1>7. RelyOK(sessions', h)
  BY <1>1, <1>2, <1>4 DEF RelyOK
<1> QED
  BY <1>1, <1>5, <1>6, <1>7, HandlerHistory DEF HistoryOK

LEMMA ArriveHistory ==
    ASSUME HInv, StoreGrows, NEW r \in Request, Arrive(r)
    PROVE  History'
<1>1. ASSUME NEW u \in User, Login(r, u)
      PROVE  History'
  BY <1>1, StartMintHistory DEF Login
<1>2. ASSUME NEW c \in Client, ServiceLogin(r, c)
      PROVE  History'
  BY <1>2, StartMintHistory DEF ServiceLogin
<1>3. ASSUME NEW t \in held \cup {NoSession},
             \/ StartRefresh(r, t) \/ StartVerify(r, t) \/ StartLogout(r, t)
             \/ StartLogoutAll(r, t) \/ StartList(r, t)
             \/ StartActivate(r, t)
             \/ \E s \in DOMAIN sessions \cup {NoSession} :
                   StartRevoke(r, t, s)
      PROVE  History'
  <2>1. \E op, s : \E pc \in {"lookup", "authenticate"} :
           (pc = "lookup" => op = "refresh") /\ StartOn(r, op, t, s, pc)
    BY <1>3 DEF StartRefresh, StartVerify, StartLogout, StartLogoutAll,
                StartList, StartActivate, StartRevoke
  <2> QED
    BY <2>1, StartOnHistory
<1> QED
  BY <1>1, <1>2, <1>3 DEF Arrive, TokenRequest

LEMMA AuthenticateHistory ==
    ASSUME HInv, StoreGrows, NEW r \in Request, Authenticate(r)
    PROVE  History'
<1> DEFINE t == TokenOf(r)
<1>1. /\ reqs[r] \in Handler /\ reqs[r].pc = "authenticate" /\ Active(r)
      /\ sessions' = sessions
  BY DEF HInv, IInv, TypeOK, Authenticate, At, Active, storeVars
<1>2. HistoryOK(sessions, reqs[r])
  BY DEF HInv, History
<1>3. CASE Stores(t) /\ IsValid(t, clock)
  <2>1. PICK next \in AfterAuthentication(r) : Continue(r, next)
    BY <1>3 DEF Authenticate
  <2>2. ~reqs[r].dead
    BY <1>2, <1>3 DEF HistoryOK, DeadOK, IsValid, TokenOf
  <2>3. HasToken(sessions, reqs[r])
    BY <1>3 DEF HasToken, Stores, TokenOf
  <2>4. CASE next = Answered(r, "denied")
    BY <2>1, <2>4, RefusedHistory
  <2>5. CASE next = Answered(r, "ok") /\ reqs[r].op = "verify"
    BY <2>1, <2>2, <2>5, SucceededHistory
  <2>6. ASSUME NEW label \in {"lookup", "bulkRead", "list", "findTarget"},
               next = [reqs[r] EXCEPT !.pc = label],
               label = "lookup" => reqs[r].op \in {"logout", "activateContext"},
               label = "bulkRead" => reqs[r].op = "logoutAll",
               label = "list" => reqs[r].op = "listSessions"
        PROVE  History'
    <3>1. /\ SameRequest(next, reqs[r]) /\ next.pc = label
          /\ next.answer = reqs[r].answer /\ next.faulted = reqs[r].faulted
      BY <1>1, <2>6 DEF Handler, SameRequest
    <3>2. reqs[r].answer = "none" /\ ~reqs[r].faulted
      BY <1>1, <1>2 DEF HistoryOK, StageOK
    <3>3. StageOK(next)
      BY <2>6, <3>1, <3>2 DEF StageOK, SameRequest
    <3>4. RelyOK(sessions', next)
      BY <1>1, <1>2, <2>3, <3>1
         DEF HistoryOK, RelyOK, SameRequest, HasToken
    <3> QED
      BY <1>1, <2>1, <2>2, <3>1, <3>3, <3>4, GoesOnHistory
  <2>7. \/ next = Answered(r, "denied")
        \/ next = Answered(r, "ok") /\ reqs[r].op = "verify"
        \/ \E label \in {"lookup", "bulkRead", "list", "findTarget"} :
              /\ next = [reqs[r] EXCEPT !.pc = label]
              /\ label = "lookup" =>
                    reqs[r].op \in {"logout", "activateContext"}
              /\ label = "bulkRead" => reqs[r].op = "logoutAll"
              /\ label = "list" => reqs[r].op = "listSessions"
    <3>1. reqs[r].op \in AllOps \ {"login", "serviceLogin", "refresh"}
      BY <1>1 DEF Handler, HInv, IInv, HandlerInv, At
    <3> QED
      BY <2>1, <3>1 DEF AfterAuthentication, AllOps
  <2> QED
    BY <2>4, <2>5, <2>6, <2>7
<1>4. CASE ~(Stores(t) /\ IsValid(t, clock))
  BY <1>4, RefusedHistory DEF Authenticate
<1> QED
  BY <1>3, <1>4

LEMMA RefreshLookupHistory ==
    ASSUME HInv, StoreGrows, NEW r \in Request, RefreshLookup(r)
    PROVE  History'
<1> DEFINE t == TokenOf(r)
<1>1. /\ reqs[r] \in Handler /\ reqs[r].pc = "lookup" /\ Active(r)
      /\ reqs[r].op = "refresh" /\ sessions' = sessions
  BY DEF HInv, IInv, TypeOK, RefreshLookup, At, Active, storeVars
<1>2. HistoryOK(sessions, reqs[r])
  BY DEF HInv, History
<1>3. reqs[r].answer = "none" /\ ~reqs[r].faulted
  BY <1>1, <1>2 DEF HistoryOK, StageOK
<1>4. ASSUME NEW h, Continue(r, h), Stores(t),
             h.pc \in {"bulkRead", "mint"},
             h.pc = "mint" => ~sessions[t].revoked,
             SameRequest(h, reqs[r]), h.answer = reqs[r].answer,
             h.faulted = reqs[r].faulted
      PROVE  History'
  <2>1. StageOK(h)
    BY <1>1, <1>3, <1>4 DEF StageOK, SameRequest
  <2>2. RelyOK(sessions', h)
    BY <1>1, <1>2, <1>4
       DEF HistoryOK, RelyOK, SameRequest, HasToken, Stores, TokenOf
  <2>3. ~reqs[r].dead \/ h.pc = "bulkRead"
    BY <1>2, <1>4 DEF HistoryOK, DeadOK, TokenOf
  <2> QED
    BY <1>1, <1>4, <2>1, <2>2, <2>3, GoesOnHistory
<1>5. CASE \E a \in {"error", "expired"} : Continue(r, Answered(r, a))
  BY <1>5, RefusedHistory
<1>6. CASE Stores(t) /\ Continue(r, [reqs[r] EXCEPT !.pc = "bulkRead"])
  <2> DEFINE h == [reqs[r] EXCEPT !.pc = "bulkRead"]
  <2>1. /\ SameRequest(h, reqs[r]) /\ h.pc = "bulkRead"
        /\ h.answer = reqs[r].answer /\ h.faulted = reqs[r].faulted
    BY <1>1 DEF Handler, SameRequest
  <2> HIDE DEF h
  <2>2. Continue(r, h) /\ Stores(t)
    BY <1>6 DEF h
  <2> QED
    BY <1>4, <2>1, <2>2
<1>7. CASE /\ Stores(t) /\ ~sessions[t].revoked
           /\ Continue(r, [reqs[r] EXCEPT !.pc = "mint",
                                          !.draft = RefreshInput(t)])
  <2> DEFINE h == [reqs[r] EXCEPT !.pc = "mint", !.draft = RefreshInput(t)]
  <2>1. /\ SameRequest(h, reqs[r]) /\ h.pc = "mint"
        /\ h.answer = reqs[r].answer /\ h.faulted = reqs[r].faulted
    BY <1>1 DEF Handler, SameRequest
  <2> HIDE DEF h
  <2>2. Continue(r, h) /\ Stores(t) /\ ~sessions[t].revoked
    BY <1>7 DEF h
  <2> QED
    BY <1>4, <2>1, <2>2
<1> QED
  BY <1>5, <1>6, <1>7 DEF RefreshLookup

LEMMA MintHistory ==
    ASSUME HInv, StoreGrows, NEW r \in Request, Mint(r)
    PROVE  History'
<1> DEFINE pc == IF reqs[r].op = "refresh" THEN "rotateRead" ELSE "create"
           d == Minted(r)
           h == [reqs[r] EXCEPT !.pc = pc, !.draft = d]
<1>1. /\ reqs[r] \in Handler /\ reqs[r].pc = "mint" /\ Active(r)
      /\ Continue(r, h) /\ sessions' = sessions
  BY DEF HInv, IInv, TypeOK, Mint, At, Active, storeVars
<1>2. HistoryOK(sessions, reqs[r])
  BY DEF HInv, History
<1>3. /\ reqs[r].answer = "none" /\ ~reqs[r].faulted /\ ~reqs[r].dead
      /\ reqs[r].before \subseteq DOMAIN sessions
      /\ reqs[r].op = "refresh" => HasToken(sessions, reqs[r])
      /\ reqs[r].op \in {"login", "serviceLogin", "refresh",
                         "activateContext"}
  BY <1>1, <1>2 DEF HistoryOK, StageOK, DeadOK, RelyOK
<1> HIDE DEF d
<1>4. /\ SameRequest(h, reqs[r]) /\ h.pc = pc
      /\ h.answer = reqs[r].answer /\ h.faulted = reqs[r].faulted
  BY <1>1 DEF Handler, SameRequest
<1> HIDE DEF h
<1>5. StageOK(h)
  BY <1>3, <1>4 DEF StageOK, SameRequest
<1>6. RelyOK(sessions', h)
  BY <1>1, <1>3, <1>4 DEF RelyOK, SameRequest, HasToken
<1> QED
  BY <1>1, <1>3, <1>4, <1>5, <1>6, GoesOnHistory

LEMMA RotateReadHistory ==
    ASSUME HInv, StoreGrows, NEW r \in Request, RotateRead(r)
    PROVE  History'
<1> DEFINE o == TokenOf(r)
<1>1. /\ reqs[r] \in Handler /\ reqs[r].pc = "rotateRead" /\ Active(r)
      /\ sessions' = sessions
  BY DEF HInv, IInv, TypeOK, RotateRead, At, Active
<1>2. HistoryOK(sessions, reqs[r])
  BY DEF HInv, History
<1>3. /\ reqs[r].answer = "none" /\ ~reqs[r].faulted
      /\ reqs[r].op = "refresh" /\ ~reqs[r].dead
      /\ reqs[r].before \subseteq DOMAIN sessions
      /\ HasToken(sessions, reqs[r])
  BY <1>1, <1>2 DEF HistoryOK, StageOK, DeadOK, RelyOK
<1>4. ASSUME NEW h, Continue(r, h), h.pc \in {"bulkRead", "rotateCommit"},
             SameRequest(h, reqs[r]), h.answer = reqs[r].answer,
             h.faulted = reqs[r].faulted
      PROVE  History'
  <2>1. StageOK(h)
    BY <1>1, <1>3, <1>4 DEF StageOK, SameRequest
  <2>2. RelyOK(sessions', h)
    BY <1>1, <1>3, <1>4 DEF RelyOK, SameRequest, HasToken
  <2> QED
    BY <1>1, <1>3, <1>4, <2>1, <2>2, GoesOnHistory
<1>5. CASE Continue(r, [reqs[r] EXCEPT !.pc = "rotateCommit",
                                       !.draft = CarriedForward(o, @)])
  <2> DEFINE h == [reqs[r] EXCEPT !.pc = "rotateCommit",
                                  !.draft = CarriedForward(o, @)]
  <2>1. /\ SameRequest(h, reqs[r]) /\ h.pc = "rotateCommit"
        /\ h.answer = reqs[r].answer /\ h.faulted = reqs[r].faulted
    BY <1>1 DEF Handler, SameRequest
  <2> HIDE DEF h
  <2>2. Continue(r, h)
    BY <1>5 DEF h
  <2> QED
    BY <1>4, <2>1, <2>2
<1>6. CASE Continue(r, [reqs[r] EXCEPT !.pc = "bulkRead",
                                       !.draft = NoSession])
  <2> DEFINE h == [reqs[r] EXCEPT !.pc = "bulkRead", !.draft = NoSession]
  <2>1. /\ SameRequest(h, reqs[r]) /\ h.pc = "bulkRead"
        /\ h.answer = reqs[r].answer /\ h.faulted = reqs[r].faulted
    BY <1>1 DEF Handler, SameRequest
  <2> HIDE DEF h
  <2>2. Continue(r, h)
    BY <1>6 DEF h
  <2> QED
    BY <1>4, <2>1, <2>2
<1>7. CASE Continue(r, Answered(r, "error"))
  BY <1>7, RefusedHistory
<1> QED
  BY <1>5, <1>6, <1>7 DEF RotateRead

(* Create and RotateTokens, once they have committed the new session.      *)
LEMMA MintedHistory ==
    ASSUME HInv, StoreGrows, NEW r \in Request,
           RotateCommit(r) \/ Create(r)
    PROVE  History'
<1> DEFINE h == [reqs[r] EXCEPT !.pc = "readBack", !.target = FreshId,
                                !.draft = NoSession]
<1>1. /\ reqs[r] \in Handler /\ reqs[r].pc \in {"rotateCommit", "create"}
      /\ Active(r) /\ Reply(r, h)
  BY DEF HInv, IInv, TypeOK, RotateCommit, Create, At, Active
<1>2. /\ SameRequest(h, reqs[r]) /\ h.pc = "readBack"
      /\ h.answer = reqs[r].answer /\ h.faulted = reqs[r].faulted
  BY <1>1 DEF Handler, SameRequest
<1> HIDE DEF h
<1>3. HistoryOK(sessions', reqs[r])
  BY GrowsIfKept, HistoryStays DEF HInv, History
<1>4. StageOK(h)
  BY <1>1, <1>2, <1>3 DEF HistoryOK, StageOK, SameRequest
<1>5. RelyOK(sessions', h)
  BY <1>2, <1>3 DEF HistoryOK, RelyOK, SameRequest
<1>6. ~reqs[r].dead
  BY <1>1, <1>3 DEF HistoryOK, DeadOK
<1> QED
  BY <1>1, <1>2, <1>4, <1>5, <1>6, GoesOnHistory

LEMMA ReadBackHistory ==
    ASSUME HInv, StoreGrows, NEW r \in Request, ReadBack(r)
    PROVE  History'
<1>1. reqs[r].pc = "readBack" /\ Continue(r, Answered(r, "ok"))
  BY DEF ReadBack, At
<1>2. HistoryOK(sessions, reqs[r])
  BY DEF HInv, History
<1>3. ~reqs[r].dead /\ reqs[r].op \notin {"logoutAll", "listSessions"}
  BY <1>1, <1>2 DEF HistoryOK, DeadOK, StageOK
<1> QED
  BY <1>1, <1>3, SucceededHistory

(* Logout, ActivateContext and RevokeSession revoke a session of the user  *)
(* the token is of.                                                        *)
LEMMA ToRevokeHistory ==
    ASSUME HInv, StoreGrows, NEW r \in Request,
           LogoutLookup(r) \/ ActivateLookup(r) \/ FindTarget(r)
    PROVE  History'
<1> DEFINE t == TokenOf(r)
<1>1. /\ reqs[r] \in Handler /\ reqs[r].pc \in {"lookup", "findTarget"}
      /\ Active(r) /\ sessions' = sessions
  BY DEF HInv, IInv, TypeOK, LogoutLookup, ActivateLookup, FindTarget, At,
         Active, storeVars
<1>2. HistoryOK(sessions, reqs[r])
  BY DEF HInv, History
<1>3. /\ reqs[r].op \in {"logout", "activateContext", "revokeSession"}
      /\ reqs[r].pc = "lookup" => reqs[r].op # "revokeSession"
  BY DEF HInv, IInv, HandlerInv, LogoutLookup, ActivateLookup, FindTarget, At
<1>4. reqs[r].answer = "none" /\ ~reqs[r].faulted /\ ~reqs[r].dead
  BY <1>1, <1>2, <1>3 DEF HistoryOK, StageOK, DeadOK
<1>5. ASSUME NEW h, Continue(r, h), SameRequest(h, reqs[r]),
             h.pc = "revoke", h.answer = reqs[r].answer,
             h.faulted = reqs[r].faulted,
             t \in DOMAIN sessions, h.target \in DOMAIN sessions,
             sessions[h.target].user = sessions[t].user
      PROVE  History'
  <2>1. StageOK(h)
    BY <1>3, <1>4, <1>5 DEF StageOK, SameRequest
  <2>2. RelyOK(sessions', h)
    BY <1>1, <1>2, <1>5
       DEF HistoryOK, RelyOK, SameRequest, HasToken, TokenOf
  <2> QED
    BY <1>1, <1>4, <1>5, <2>1, <2>2, GoesOnHistory
<1>6. CASE /\ t \in DOMAIN sessions
           /\ Continue(r, [reqs[r] EXCEPT !.pc = "revoke", !.target = t])
  <2> DEFINE h == [reqs[r] EXCEPT !.pc = "revoke", !.target = t]
  <2>1. /\ SameRequest(h, reqs[r]) /\ h.pc = "revoke" /\ h.target = t
        /\ h.answer = reqs[r].answer /\ h.faulted = reqs[r].faulted
    BY <1>1 DEF Handler, SameRequest
  <2> HIDE DEF h
  <2>2. Continue(r, h) /\ t \in DOMAIN sessions
    BY <1>6 DEF h
  <2> QED
    BY <1>5, <2>1, <2>2
<1>7. CASE /\ FindTarget(r) /\ reqs[r].target \in DOMAIN sessions
           /\ OwnedByCaller(r)
           /\ Continue(r, [reqs[r] EXCEPT !.pc = "revoke"])
  <2> DEFINE h == [reqs[r] EXCEPT !.pc = "revoke"]
  <2>1. /\ SameRequest(h, reqs[r]) /\ h.pc = "revoke"
        /\ h.target = reqs[r].target
        /\ h.answer = reqs[r].answer /\ h.faulted = reqs[r].faulted
    BY <1>1 DEF Handler, SameRequest
  <2> HIDE DEF h
  <2>2. Continue(r, h)
    BY <1>7 DEF h
  <2>3. t \in DOMAIN sessions
    BY <1>2, <1>7 DEF HistoryOK, RelyOK, HasToken, FindTarget, At, TokenOf
  <2>4. sessions[h.target].user = sessions[t].user
    BY <1>7, <2>1 DEF OwnedByCaller
  <2> QED
    BY <1>5, <1>7, <2>1, <2>2, <2>3, <2>4
<1>8. CASE \E a \in {"error", "denied"} : Continue(r, Answered(r, a))
  BY <1>8, RefusedHistory
<1>9. CASE Continue(r, Answered(r, "ok")) /\ LogoutLookup(r)
  <2>1. reqs[r].op = "logout"
    BY <1>9 DEF LogoutLookup
  <2> QED
    BY <1>4, <1>9, <2>1, SucceededHistory
<1> QED
  BY <1>6, <1>7, <1>8, <1>9 DEF LogoutLookup, ActivateLookup, FindTarget,
                               Stores

LEMMA RevokeHistory ==
    ASSUME HInv, StoreGrows, NEW r \in Request, Revoke(r)
    PROVE  History'
<1> DEFINE h == Answered(r, "ok")
<1>1. /\ reqs[r].pc = "revoke" /\ reqs[r].op \in {"logout", "revokeSession"}
      /\ Reply(r, h)
  BY DEF Revoke, At
<1>2. SameRequest(h, reqs[r]) /\ h.pc = "idle" /\ h.answer = "ok"
  BY AnsweredFields DEF HInv
<1> HIDE DEF h
<1>3. HistoryOK(sessions', reqs[r])
  BY GrowsIfKept, HistoryStays DEF HInv, History
<1>4. ~reqs[r].dead
  BY <1>1, <1>3 DEF HistoryOK, DeadOK
<1>5. HistoryOK(sessions', h)
  BY <1>1, <1>2, <1>3, <1>4, SucceededOK
<1> QED
  BY <1>1, <1>5, ReplyHistory

LEMMA ActivateRevokeHistory ==
    ASSUME HInv, StoreGrows, NEW r \in Request, ActivateRevoke(r)
    PROVE  History'
<1>1. /\ reqs[r] \in Handler /\ reqs[r].pc = "revoke" /\ Active(r)
      /\ reqs[r].op = "activateContext"
  BY DEF HInv, IInv, TypeOK, ActivateRevoke, At, Active
<1>2. PICK d : Reply(r, [reqs[r] EXCEPT !.pc = "mint",
                                        !.target = NoSession, !.draft = d])
  BY DEF ActivateRevoke
<1> DEFINE h == [reqs[r] EXCEPT !.pc = "mint", !.target = NoSession,
                                !.draft = d]
<1>3. /\ SameRequest(h, reqs[r]) /\ h.pc = "mint"
      /\ h.answer = reqs[r].answer /\ h.faulted = reqs[r].faulted
  BY <1>1 DEF Handler, SameRequest
<1>4. Reply(r, h)
  BY <1>2
<1> HIDE DEF h
<1>5. HistoryOK(sessions', reqs[r])
  BY GrowsIfKept, HistoryStays DEF HInv, History
<1>6. StageOK(h)
  BY <1>1, <1>3, <1>5 DEF HistoryOK, StageOK, SameRequest
<1>7. RelyOK(sessions', h)
  BY <1>1, <1>3, <1>5 DEF HistoryOK, RelyOK, SameRequest
<1>8. ~reqs[r].dead
  BY <1>1, <1>5 DEF HistoryOK, DeadOK
<1> QED
  BY <1>1, <1>3, <1>4, <1>6, <1>7, <1>8, GoesOnHistory

(* The answer of a bulk revocation, once nothing is left to revoke of what *)
(* there was when it began.                                                *)
LEMMA BulkAnswered ==
    ASSUME HInv, NEW r \in Request, NEW ss, HistoryOK(ss, reqs[r]),
           reqs[r].pc \in {"bulkRead", "bulkWrite"},
           CoversAllBut(ss, reqs[r], {})
    PROVE  HistoryOK(ss, Answered(r, BulkAnswer(r)))
<1> DEFINE q == reqs[r]
           h == Answered(r, BulkAnswer(r))
<1>1. /\ SameRequest(h, q) /\ h.pc = "idle" /\ h.answer = BulkAnswer(r)
      /\ h.faulted = q.faulted
  BY AnsweredFields DEF HInv
<1>2. BulkAnswer(r) = IF q.op = "refresh" THEN "replayed" ELSE "ok"
  BY DEF BulkAnswer
<1> HIDE DEF h
<1>3. q.op \in {"refresh", "logoutAll"} /\ HasToken(ss, q)
  BY DEF HistoryOK, StageOK, RelyOK
<1>4. HasToken(ss, h)
  BY <1>1, <1>3 DEF SameRequest, HasToken
<1>5. CoversAllBut(ss, h, {})
  BY <1>1 DEF CoversAllBut, Earlier, SameRequest
<1>6. StageOK(h)
  BY <1>1 DEF StageOK
<1>7. RelyOK(ss, h)
  BY <1>1 DEF HistoryOK, RelyOK, SameRequest
<1>8. DeadOK(ss, h)
  BY <1>1, <1>2, <1>3 DEF HistoryOK, DeadOK, SameRequest, HasToken
<1>9. PromiseOK(ss, h)
  BY <1>1, <1>3, <1>4, <1>5 DEF PromiseOK, SameRequest
<1> QED
  BY <1>6, <1>7, <1>8, <1>9 DEF HistoryOK, h

LEMMA BulkReadHistory ==
    ASSUME HInv, StoreGrows, NEW r \in Request, BulkRead(r)
    PROVE  History'
<1> DEFINE S == UnrevokedSessions(sessions[TokenOf(r)].user)
<1>1. /\ reqs[r] \in Handler /\ reqs[r].pc = "bulkRead" /\ Active(r)
      /\ sessions' = sessions
  BY DEF HInv, IInv, TypeOK, BulkRead, At, Active, storeVars
<1>2. HistoryOK(sessions, reqs[r])
  BY DEF HInv, History
<1>3. /\ reqs[r].answer = "none" /\ ~reqs[r].faulted
      /\ reqs[r].op \in {"refresh", "logoutAll"}
      /\ ~reqs[r].dead \/ reqs[r].op = "refresh"
      /\ reqs[r].before \subseteq DOMAIN sessions
      /\ HasToken(sessions, reqs[r])
  BY <1>1, <1>2 DEF HistoryOK, StageOK, DeadOK, RelyOK
<1>4. S = {s \in DOMAIN sessions :
              sessions[s].user = sessions[reqs[r].token].user
                  /\ ~sessions[s].revoked}
  BY DEF UnrevokedSessions, TokenOf
<1>5. CoversAllBut(sessions, reqs[r], S)
  BY <1>3, <1>4 DEF CoversAllBut, Earlier
<1>6. \/ S = {} /\ Continue(r, Answered(r, BulkAnswer(r)))
      \/ Continue(r, [reqs[r] EXCEPT !.pc = "bulkWrite", !.found = S])
  BY DEF BulkRead
<1> HIDE DEF S
<1>7. CASE S = {} /\ Continue(r, Answered(r, BulkAnswer(r)))
  <2>1. HistoryOK(sessions', Answered(r, BulkAnswer(r)))
    BY <1>1, <1>2, <1>5, <1>7, BulkAnswered
  <2> QED
    BY <1>7, <2>1, HandlerHistory DEF Continue
<1>8. CASE Continue(r, [reqs[r] EXCEPT !.pc = "bulkWrite", !.found = S])
  <2> DEFINE h == [reqs[r] EXCEPT !.pc = "bulkWrite", !.found = S]
  <2>1. /\ SameRequest(h, reqs[r]) /\ h.pc = "bulkWrite" /\ h.found = S
        /\ h.answer = reqs[r].answer /\ h.faulted = reqs[r].faulted
    BY <1>1 DEF Handler, SameRequest
  <2> HIDE DEF h
  <2>2. Continue(r, h)
    BY <1>8 DEF h
  <2>3. StageOK(h)
    BY <1>3, <2>1 DEF StageOK, SameRequest
  <2>4. CoversAllBut(sessions, h, S)
    BY <1>5, <2>1 DEF CoversAllBut, Earlier, SameRequest
  <2>5. RelyOK(sessions', h)
    BY <1>1, <1>3, <1>4, <2>1, <2>4 DEF RelyOK, SameRequest, HasToken
  <2> QED
    BY <1>1, <1>3, <2>1, <2>2, <2>3, <2>5, GoesOnHistory
<1> QED
  BY <1>6, <1>7, <1>8

LEMMA BulkWriteHistory ==
    ASSUME HInv, StoreGrows, NEW r \in Request, BulkWrite(r)
    PROVE  History'
<1> DEFINE S == reqs[r].found
<1>1. /\ reqs[r].pc = "bulkWrite" /\ CommitRevocation(r, S)
      /\ Reply(r, Answered(r, BulkAnswer(r)))
  BY DEF BulkWrite, At
<1>2. HistoryOK(sessions', reqs[r])
  BY GrowsIfKept, HistoryStays DEF HInv, History
<1>3. /\ reqs[r].before \subseteq DOMAIN sessions'
      /\ CoversAllBut(sessions', reqs[r], S)
  BY <1>1, <1>2 DEF HistoryOK, RelyOK
<1>4. \A s \in DOMAIN sessions' : s \in S => sessions'[s].revoked
  <2>1. \A s \in S \cap DOMAIN sessions : sessions'[s].revoked
    BY <1>1, RevocationKeepsStore DEF HInv, IInv, TypeOK
  <2>2. DOMAIN sessions' = DOMAIN sessions
    BY <1>1 DEF CommitRevocation
  <2> QED
    BY <2>1, <2>2
<1> HIDE DEF S
<1>5. CoversAllBut(sessions', reqs[r], {})
  BY <1>3, <1>4 DEF CoversAllBut, Earlier
<1>6. HistoryOK(sessions', Answered(r, BulkAnswer(r)))
  BY <1>1, <1>2, <1>5, BulkAnswered
<1> QED
  BY <1>1, <1>6, ReplyHistory

(* An order of a finite set shows each of its members once.                *)
LEMMA OrderShowsAll ==
    ASSUME IInv, NEW S, S \subseteq DOMAIN sessions,
           NEW q \in ByLastSeen(S)
    PROVE  /\ {q[i] : i \in DOMAIN q} = S
           /\ Len(q) = Cardinality(S)
<1> DEFINE n == Cardinality(S)
<1>1. IsFiniteSet(S)
  BY SessionStoreAssumption, FS_Subset DEF IInv, TypeOK, StoreTypeOK
<1>2. n \in Nat
  BY <1>1, FS_CardinalityType
<1>3. /\ q \in [1 .. n -> S]
      /\ \A i, j \in 1 .. n : i < j => q[i] # q[j]
  BY DEF ByLastSeen
<1> HIDE DEF n
<1>4. q \in Injection(1 .. n, S)
  <2>1. \A i, j \in 1 .. n : q[i] = q[j] => i = j
    BY <1>2, <1>3
  <2> QED
    BY <1>3, <2>1 DEF Injection, IsInjective
<1>5. Cardinality(1 .. n) = n
  BY <1>2, FS_Interval
<1>6. q \in Surjection(1 .. n, S)
  BY <1>1, <1>4, <1>5, FS_Injection DEF n
<1>7. \A s \in S : \E i \in 1 .. n : q[i] = s
  BY <1>6 DEF Surjection
<1>8. DOMAIN q = 1 .. n
  BY <1>3
<1>9. Len(q) = n
  BY <1>2, <1>8, <1>3
<1> QED
  BY <1>3, <1>7, <1>8, <1>9 DEF n

LEMMA ListHistory ==
    ASSUME HInv, StoreGrows, NEW r \in Request, List(r)
    PROVE  History'
<1> DEFINE S == UnrevokedSessions(sessions[TokenOf(r)].user)
<1>1. /\ reqs[r] \in Handler /\ reqs[r].pc = "list" /\ sessions' = sessions
  BY DEF HInv, IInv, TypeOK, List, At, storeVars
<1>2. PICK q \in ByLastSeen(S) :
         Continue(r, [Answered(r, "ok") EXCEPT !.listing = q])
  BY DEF List
<1>3. HistoryOK(sessions, reqs[r])
  BY DEF HInv, History
<1>4. /\ reqs[r].op = "listSessions" /\ ~reqs[r].dead
      /\ reqs[r].before \subseteq DOMAIN sessions
      /\ HasToken(sessions, reqs[r])
  BY <1>1, <1>3 DEF HistoryOK, StageOK, DeadOK, RelyOK
<1>5. S = {s \in DOMAIN sessions :
              sessions[s].user = sessions[reqs[r].token].user
                  /\ ~sessions[s].revoked}
  BY DEF UnrevokedSessions, TokenOf
<1>6. {q[i] : i \in DOMAIN q} = S /\ Len(q) = Cardinality(S)
  BY <1>5, OrderShowsAll DEF HInv
<1> DEFINE a == Answered(r, "ok")
           h == [a EXCEPT !.listing = q]
<1>7. a \in Handler /\ SameRequest(a, reqs[r]) /\ a.pc = "idle"
          /\ a.answer = "ok"
  BY AnsweredFields, AnsweredType DEF HInv, IInv, Answers
<1>8. Continue(r, h)
  BY <1>2
<1> HIDE DEF a
<1>9. /\ SameRequest(h, reqs[r]) /\ h.pc = "idle" /\ h.answer = "ok"
      /\ h.listing = q
  BY <1>7 DEF Handler, SameRequest
<1> HIDE DEF h, S
<1>10. Shown(h) = S /\ Cardinality(Shown(h)) = Len(h.listing)
  BY <1>6, <1>9 DEF Shown
<1>11. CoversAllBut(sessions, h, S)
  BY <1>4, <1>5, <1>9 DEF CoversAllBut, Earlier, SameRequest
<1>12. StageOK(h) /\ DeadOK(sessions, h)
  BY <1>4, <1>9 DEF StageOK, DeadOK, SameRequest
<1>13. RelyOK(sessions, h)
  BY <1>4, <1>9 DEF RelyOK, SameRequest
<1>14. PromiseOK(sessions, h)
  <2>1. h.op = "listSessions" /\ HasToken(sessions, h)
    BY <1>4, <1>9 DEF SameRequest, HasToken
  <2>2. \A s \in S : sessions[s].user = sessions[h.token].user
    BY <1>5, <1>9 DEF SameRequest
  <2>3. S \subseteq DOMAIN sessions
    BY <1>5
  <2> QED
    BY <1>9, <1>10, <1>11, <2>1, <2>2, <2>3 DEF PromiseOK
<1>15. HistoryOK(sessions', h)
  BY <1>1, <1>12, <1>13, <1>14 DEF HistoryOK
<1> QED
  BY <1>8, <1>15, HandlerHistory DEF Continue

LEMMA RestartHistory ==
    ASSUME HInv, Restart
    PROVE  History'
<1> SUFFICES ASSUME NEW r \in Request
             PROVE  HistoryOK(sessions', reqs'[r])
  BY DEF History
<1>1. sessions' = sessions
  BY DEF Restart
<1>2. HistoryOK(sessions, reqs[r])
  BY DEF HInv, History
<1>3. reqs'[r] = IF Active(r) THEN Failed(r) ELSE reqs[r]
  BY DEF Restart
<1>4. HistoryOK(sessions, Failed(r))
  <2> DEFINE h == Failed(r)
  <2>1. /\ SameRequest(h, reqs[r]) /\ h.pc = "idle"
        /\ h.answer \in {"error", "replayed"} /\ h.faulted
    BY FailedFields DEF HInv
  <2> HIDE DEF h
  <2>2. HistoryOK(sessions, h)
    BY <1>2, <2>1, RefusedOK
  <2> QED
    BY <2>2 DEF h
<1> QED
  BY <1>1, <1>2, <1>3, <1>4

LEMMA SameHandlersHistory ==
    ASSUME HInv, StoreGrows, UNCHANGED reqs
    PROVE  History'
<1>1. \A r \in Request : HistoryOK(sessions', reqs[r])
  BY GrowsIfKept, HistoryStays DEF HInv, History
<1> QED
  BY <1>1 DEF History

LEMMA NextKeepsHistory ==
    ASSUME HInv, [Next]_vars
    PROVE  HInv' /\ StoreGrows
<1>1. IInv' /\ StoreGrows
  BY NextKeepsInv DEF HInv
<1>2. CASE UNCHANGED vars
  BY <1>1, <1>2, SameHandlersHistory DEF HInv, vars
<1>3. ASSUME NEW r \in Request, Arrive(r)
      PROVE  History'
  BY <1>1, <1>3, ArriveHistory
<1>4. ASSUME NEW r \in Request, Serve(r)
      PROVE  History'
  <2>1. CASE RotateAborts(r)
    BY <1>1, <2>1, RefusedHistory DEF RotateAborts
  <2> QED
    BY <1>1, <1>4, <2>1, AuthenticateHistory, RefreshLookupHistory,
       MintHistory, RotateReadHistory, MintedHistory, ReadBackHistory,
       ToRevokeHistory, RevokeHistory, ActivateRevokeHistory, BulkReadHistory,
       BulkWriteHistory, ListHistory
       DEF Serve
<1>5. ASSUME NEW r \in Request, CallFails(r)
      PROVE  History'
  BY <1>1, <1>5, FailedHistory DEF CallFails
<1>6. CASE Background
  <2>1. CASE Restart
    BY <1>1, <2>1, RestartHistory DEF HInv
  <2>2. CASE UNCHANGED reqs
    BY <1>1, <2>2, SameHandlersHistory DEF HInv
  <2> QED
    BY <1>6, <2>1, <2>2 DEF Background, Touch, Tick
<1> QED
  BY <1>1, <1>2, <1>3, <1>4, <1>5, <1>6 DEF Next, HInv

(* The inductive invariant with the requests' history.                     *)
THEOREM HistoryInvariance == Spec => []HInv
<1>1. Init => HInv
  <2> SUFFICES ASSUME Init
               PROVE  HInv
    OBVIOUS
  <2>1. IInv
    BY InitEstablishesInv
  <2>2. \A r \in Request : reqs[r] = Idle
    BY DEF Init
  <2>3. HistoryOK(sessions, Idle)
    <3>1. StageOK(Idle) /\ RelyOK(sessions, Idle)
      BY DEF StageOK, RelyOK, Idle
    <3>2. DeadOK(sessions, Idle) /\ PromiseOK(sessions, Idle)
      BY DEF DeadOK, PromiseOK, Idle
    <3> QED
      BY <3>1, <3>2 DEF HistoryOK
  <2> QED
    BY <2>1, <2>2, <2>3 DEF HInv, History
<1>2. HInv /\ [Next]_vars => HInv'
  BY NextKeepsHistory
<1> QED
  BY <1>1, <1>2, PTL DEF Spec

(* No endpoint honours a request that begins after its session was revoked *)
(* (Authenticate, Refresh).                                                *)
THEOREM RevokedTokensAreRefused == Spec => []NoUseAfterRevocation
<1>1. HInv => NoUseAfterRevocation
  BY DEF HInv, History, HistoryOK, DeadOK, NoUseAfterRevocation
<1> QED
  BY <1>1, HistoryInvariance, PTL

LEMMA CoveredMeansRevoked ==
    ASSUME NEW r, CoversAllBut(sessions, reqs[r], {})
    PROVE  \A s \in StoredBefore(r) : ~Live(s)
BY DEF CoversAllBut, Earlier, StoredBefore, TokenOf, Live

(* A logout-all that answers 200 has revoked every session its user had    *)
(* when it began: what a racing refresh has revoked itself, its query need *)
(* not find (RevokeAllForUser).                                            *)
THEOREM LogoutAllIsComplete == Spec => []LogoutAllCovers
<1>1. HInv => LogoutAllCovers
  <2> SUFFICES ASSUME HInv, NEW r \in Request,
                      reqs[r].op = "logoutAll", reqs[r].answer = "ok"
               PROVE  \A s \in StoredBefore(r) : ~Live(s)
    BY DEF LogoutAllCovers
  <2>1. CoversAllBut(sessions, reqs[r], {})
    BY DEF HInv, History, HistoryOK, PromiseOK
  <2> QED
    BY <2>1, CoveredMeansRevoked
<1> QED
  BY <1>1, HistoryInvariance, PTL

(* So has a refresh answered as a replay, unless one of its calls failed   *)
(* (Refresh).                                                              *)
THEOREM ReplayIsComplete == Spec => []ReplayCovers
<1>1. HInv => ReplayCovers
  <2> SUFFICES ASSUME HInv, NEW r \in Request,
                      reqs[r].answer = "replayed", ~reqs[r].faulted
               PROVE  \A s \in StoredBefore(r) : ~Live(s)
    BY DEF ReplayCovers
  <2>1. CoversAllBut(sessions, reqs[r], {})
    BY DEF HInv, History, HistoryOK, PromiseOK
  <2> QED
    BY <2>1, CoveredMeansRevoked
<1> QED
  BY <1>1, HistoryInvariance, PTL

(* The device list leaves out no session that its user had and still has,  *)
(* repeats none and shows nobody else's (ListForUser).                     *)
THEOREM ListIsComplete == Spec => []ListCovers
<1>1. HInv => ListCovers
  <2> SUFFICES ASSUME HInv, NEW r \in Request,
                      reqs[r].op = "listSessions", reqs[r].answer = "ok"
               PROVE  /\ {s \in StoredBefore(r) : Live(s)} \subseteq
                            Shown(reqs[r])
                      /\ \A s \in Shown(reqs[r]) :
                            sessions[s].user = sessions[TokenOf(r)].user
                      /\ Cardinality(Shown(reqs[r])) = Len(reqs[r].listing)
    BY DEF ListCovers, Shown
  <2> HIDE DEF Shown
  <2>1. /\ CoversAllBut(sessions, reqs[r], Shown(reqs[r]))
        /\ \A s \in Shown(reqs[r]) :
              sessions[s].user = sessions[reqs[r].token].user
        /\ Cardinality(Shown(reqs[r])) = Len(reqs[r].listing)
    BY DEF HInv, History, HistoryOK, PromiseOK
  <2>2. {s \in StoredBefore(r) : Live(s)} \subseteq Shown(reqs[r])
    BY <2>1 DEF CoversAllBut, Earlier, StoredBefore, TokenOf, Live
  <2> QED
    BY <2>1, <2>2 DEF TokenOf
<1> QED
  BY <1>1, HistoryInvariance, PTL

-----------------------------------------------------------------------------
(* A step revokes no session, but for some of the user whose token handler *)
(* r presents, and then r moves.                                           *)
RevokesOnlyOwn(r) ==
    \A s \in DOMAIN sessions :
        ~sessions[s].revoked /\ sessions'[s].revoked =>
            /\ TokenOf(r) \in DOMAIN sessions
            /\ sessions[s].user = sessions[TokenOf(r)].user
            /\ reqs'[r] # reqs[r]

LEMMA NothingRevoked ==
    ASSUME NEW r,
           \A s \in DOMAIN sessions : sessions'[s].revoked = sessions[s].revoked
    PROVE  RevokesOnlyOwn(r)
BY DEF RevokesOnlyOwn

LEMMA ReplyMoves ==
    ASSUME IInv, NEW r \in Request, NEW h, Reply(r, h), h.pc # reqs[r].pc,
           Active(r)
    PROVE  reqs'[r] # reqs[r]
<1>1. reqs' = [reqs EXCEPT ![r] = h] \/ reqs' = [reqs EXCEPT ![r] = Failed(r)]
  BY DEF Reply, Continue
<1>2. reqs'[r] = h \/ reqs'[r] = Failed(r)
  BY <1>1 DEF IInv, TypeOK
<1>3. Failed(r).pc # reqs[r].pc
  BY FailedFields DEF Active
<1> QED
  BY <1>2, <1>3

LEMMA RevocationRevokesOwn ==
    ASSUME HInv, NEW r \in Request, NEW S, CommitRevocation(r, S),
           NEW h, Reply(r, h), h.pc # reqs[r].pc, Active(r),
           HasToken(sessions, reqs[r]),
           \A s \in S : sessions[s].user = sessions[reqs[r].token].user
    PROVE  RevokesOnlyOwn(r)
<1>1. reqs'[r] # reqs[r]
  BY ReplyMoves DEF HInv
<1>2. \A s \in DOMAIN sessions \ S : sessions'[s] = sessions[s]
  BY DEF CommitRevocation
<1> QED
  BY <1>1, <1>2 DEF RevokesOnlyOwn, HasToken, TokenOf

LEMMA ServeRevokesOwn ==
    ASSUME HInv, NEW r \in Request, Serve(r)
    PROVE  RevokesOnlyOwn(r)
<1>1. HistoryOK(sessions, reqs[r]) /\ reqs[r] \in Handler
  BY DEF HInv, History, IInv, TypeOK
<1>2. CASE UNCHANGED sessions
  BY <1>2, NothingRevoked
<1>3. CASE Revoke(r)
  <2> DEFINE h == Answered(r, "ok")
  <2>1. /\ CommitRevocation(r, {reqs[r].target}) /\ Reply(r, h)
        /\ reqs[r].pc = "revoke"
    BY <1>3 DEF Revoke, At
  <2>2. h.pc = "idle"
    BY AnsweredFields DEF HInv
  <2>3. /\ HasToken(sessions, reqs[r])
        /\ sessions[reqs[r].target].user = sessions[reqs[r].token].user
    BY <1>1, <2>1 DEF HistoryOK, RelyOK
  <2> HIDE DEF h
  <2> QED
    BY <2>1, <2>2, <2>3, RevocationRevokesOwn DEF Active
<1>4. CASE ActivateRevoke(r)
  <2>1. PICK d : Reply(r, [reqs[r] EXCEPT !.pc = "mint",
                                          !.target = NoSession, !.draft = d])
    BY <1>4 DEF ActivateRevoke
  <2> DEFINE h == [reqs[r] EXCEPT !.pc = "mint", !.target = NoSession,
                                  !.draft = d]
  <2>2. CommitRevocation(r, {reqs[r].target}) /\ reqs[r].pc = "revoke"
    BY <1>4 DEF ActivateRevoke, At
  <2>3. h.pc = "mint" /\ Reply(r, h)
    BY <1>1, <2>1 DEF Handler
  <2>4. /\ HasToken(sessions, reqs[r])
        /\ sessions[reqs[r].target].user = sessions[reqs[r].token].user
    BY <1>1, <2>2 DEF HistoryOK, RelyOK
  <2> HIDE DEF h
  <2> QED
    BY <2>2, <2>3, <2>4, RevocationRevokesOwn DEF Active
<1>5. CASE BulkWrite(r)
  <2> DEFINE h == Answered(r, BulkAnswer(r))
             S == reqs[r].found
  <2>1. CommitRevocation(r, S) /\ Reply(r, h) /\ reqs[r].pc = "bulkWrite"
    BY <1>5 DEF BulkWrite, At
  <2>2. h.pc = "idle"
    BY AnsweredFields DEF HInv
  <2>3. /\ HasToken(sessions, reqs[r])
        /\ \A s \in S : sessions[s].user = sessions[reqs[r].token].user
    BY <1>1, <2>1 DEF HistoryOK, RelyOK
  <2> HIDE DEF h, S
  <2> QED
    BY <2>1, <2>2, <2>3, RevocationRevokesOwn DEF Active
<1>6. CASE RotateCommit(r)
  <2> DEFINE h == [reqs[r] EXCEPT !.pc = "readBack", !.target = FreshId,
                                  !.draft = NoSession]
             o == TokenOf(r)
             n == FreshId
  <2>1. /\ reqs[r].pc = "rotateCommit" /\ FreeIds # {} /\ Reply(r, h)
        /\ CommitRotation(r, o, n, reqs[r].draft)
    BY <1>6 DEF RotateCommit, At
  <2>2. h.pc = "readBack"
    BY <1>1 DEF Handler
  <2>3. n \notin DOMAIN sessions
    BY <2>1, FreshIdIsFree
  <2> HIDE DEF h, n
  <2>4. \A s \in DOMAIN sessions \ {o} : sessions'[s] = sessions[s]
    BY <2>1, <2>3 DEF CommitRotation
  <2>5. o \in DOMAIN sessions
    BY <1>1, <2>1 DEF HistoryOK, RelyOK, HasToken, TokenOf
  <2>6. reqs'[r] # reqs[r]
    BY <2>1, <2>2, ReplyMoves DEF HInv, Active
  <2> QED
    BY <2>4, <2>5, <2>6 DEF RevokesOnlyOwn
<1>7. CASE Create(r)
  <2>1. FreeIds # {} /\ CommitCreate(FreshId, reqs[r].draft)
    BY <1>7 DEF Create
  <2>2. \A s \in DOMAIN sessions : sessions'[s] = sessions[s]
    BY <2>1, FreshIdIsFree DEF CommitCreate
  <2> QED
    BY <2>2, NothingRevoked
<1> QED
  BY <1>2, <1>3, <1>4, <1>5, <1>6, <1>7
     DEF Serve, Authenticate, RefreshLookup, Mint, RotateRead, RotateAborts,
         ReadBack, LogoutLookup, ActivateLookup, FindTarget, BulkRead, List,
         storeVars

(* Nobody revokes a session of another user, by any endpoint and whatever  *)
(* ran between the ownership check and the mutation (RevokeSession,        *)
(* RevokeAllForUser).                                                      *)
THEOREM OnlyOwnersRevoke == Spec => RevokedByOwner
<1> DEFINE Owned(s) ==
               sessions[s].kind = "user" /\ Live(s) /\ sessions'[s].revoked
               => \E r \in Request :
                     /\ reqs'[r] # reqs[r]
                     /\ Stores(TokenOf(r))
                     /\ sessions[TokenOf(r)].user = sessions[s].user
<1>1. ASSUME NEW r \in Request, RevokesOnlyOwn(r)
      PROVE  \A s \in DOMAIN sessions : Owned(s)
  BY <1>1 DEF RevokesOnlyOwn, Live, Stores
<1>2. ASSUME \A s \in DOMAIN sessions :
                 sessions'[s].revoked = sessions[s].revoked
      PROVE  \A s \in DOMAIN sessions : Owned(s)
  BY <1>2 DEF Live
<1>3. ASSUME HInv, Next
      PROVE  \A s \in DOMAIN sessions : Owned(s)
  <2> HIDE DEF Owned
  <2>1. ASSUME NEW r \in Request, Serve(r)
        PROVE  \A s \in DOMAIN sessions : Owned(s)
    BY <1>1, <1>3, <2>1, ServeRevokesOwn
  <2>2. ASSUME NEW r \in Request, Arrive(r) \/ CallFails(r)
        PROVE  \A s \in DOMAIN sessions : Owned(s)
    <3>1. UNCHANGED sessions
      BY <2>2 DEF Arrive, CallFails, Login, ServiceLogin, StartMint,
                  TokenRequest, StartRefresh, StartVerify, StartLogout,
                  StartLogoutAll, StartList, StartActivate, StartRevoke,
                  StartOn, storeVars
    <3> QED
      BY <1>2, <3>1
  <2>3. ASSUME NEW g \in touches, Touch(g)
        PROVE  \A s \in DOMAIN sessions : Owned(s)
    <3>1. CASE UNCHANGED storeVars
      BY <1>2, <3>1 DEF storeVars
    <3>2. ASSUME NEW t, CommitTouch(g.session, Stored(t))
          PROVE  \A s \in DOMAIN sessions :
                     sessions'[s].revoked = sessions[s].revoked
      <4> SUFFICES ASSUME NEW s \in DOMAIN sessions
                   PROVE  sessions'[s].revoked = sessions[s].revoked
        OBVIOUS
      <4>1. sessions[s] \in Session
        BY <1>3 DEF HInv, IInv, TypeOK, StoreTypeOK
      <4>2. \/ sessions'[s] = sessions[s]
            \/ sessions'[s] = [sessions[s] EXCEPT !.lastSeen = Stored(t)]
        BY <3>2 DEF CommitTouch
      <4> QED
        BY <4>1, <4>2 DEF Session
    <3> QED
      BY <1>2, <2>3, <3>1, <3>2 DEF Touch
  <2>4. CASE Restart \/ Tick
    <3>1. UNCHANGED sessions
      BY <2>4 DEF Restart, Tick, storeVars
    <3> QED
      BY <1>2, <3>1
  <2> QED
    BY <1>3, <2>1, <2>2, <2>3, <2>4 DEF Next, Background
<1>4. HInv /\ [Next]_vars => [\A s \in DOMAIN sessions : Owned(s)]_vars
  <2> HIDE DEF Owned
  <2> QED
    BY <1>3
<1> QED
  BY <1>4, HistoryInvariance, PTL DEF Spec, RevokedByOwner

-----------------------------------------------------------------------------
(* A session is with its client, or with the handler that will return it.  *)
Delivered(s) ==
    s \in held \/ \E r \in Request : At(r, "readBack") /\ reqs[r].target = s

(* No handler at its read-back moves.                                      *)
ReadBacksStay == \A r \in Request : reqs'[r] = reqs[r] \/ ~At(r, "readBack")

LEMMA DeliveredStays ==
    ASSUME NEW s, Delivered(s), held \subseteq held', ReadBacksStay
    PROVE  Delivered(s)'
BY DEF Delivered, ReadBacksStay, At

LEMMA OneMoves ==
    ASSUME IInv, NEW r \in Request, ~At(r, "readBack"), NEW h,
           reqs' = [reqs EXCEPT ![r] = h]
    PROVE  ReadBacksStay
<1>1. \A v \in Request : v # r => reqs'[v] = reqs[v]
  BY DEF IInv, TypeOK
<1> QED
  BY <1>1 DEF ReadBacksStay

(* Create and the rotation leave the new session with their handler.       *)
LEMMA MintedIsDelivered ==
    ASSUME IInv, NEW r \in Request, RotateCommit(r) \/ Create(r),
           UNCHANGED faults, \A s \in DOMAIN sessions : Delivered(s)
    PROVE  \A s \in DOMAIN sessions' : Delivered(s)'
<1> DEFINE n == FreshId
           h == [reqs[r] EXCEPT !.pc = "readBack", !.target = n,
                                !.draft = NoSession]
<1>1. /\ reqs[r] \in Handler /\ ~At(r, "readBack") /\ Reply(r, h)
      /\ held' = held /\ faults \in Nat
      /\ DOMAIN sessions' = DOMAIN sessions \cup {n}
  BY DEF IInv, TypeOK, RotateCommit, Create, At, CommitRotation, CommitCreate
<1>2. h.pc = "readBack" /\ h.target = n
  BY <1>1 DEF Handler
<1> HIDE DEF h, n
<1>3. reqs' = [reqs EXCEPT ![r] = h]
  BY <1>1 DEF Reply, Continue
<1>4. reqs'[r] = h
  BY <1>3 DEF IInv, TypeOK
<1>5. \A s : s = n => Delivered(s)'
  BY <1>2, <1>4 DEF Delivered, At
<1>6. \A s \in DOMAIN sessions : Delivered(s)'
  <2>1. ReadBacksStay
    BY <1>1, <1>3, OneMoves
  <2> QED
    BY <1>1, <2>1, DeliveredStays
<1> QED
  BY <1>1, <1>5, <1>6

LEMMA ReadBackDelivers ==
    ASSUME IInv, NEW r \in Request, ReadBack(r),
           \A s \in DOMAIN sessions : Delivered(s)
    PROVE  \A s \in DOMAIN sessions' : Delivered(s)'
<1>1. /\ sessions' = sessions /\ held' = held \cup {reqs[r].target}
      /\ reqs' = [reqs EXCEPT ![r] = Answered(r, "ok")]
  BY DEF ReadBack, Continue, storeVars
<1>2. \A v \in Request : v # r => reqs'[v] = reqs[v]
  BY <1>1 DEF IInv, TypeOK
<1> QED
  BY <1>1, <1>2 DEF Delivered, At

(* Every other step of a handler starts elsewhere and mints nothing.       *)
LEMMA ServesElsewhere ==
    ASSUME IInv, NEW r \in Request, Serve(r), UNCHANGED faults,
           ~RotateCommit(r), ~Create(r), ~ReadBack(r)
    PROVE  ReadBacksStay /\ DOMAIN sessions' = DOMAIN sessions /\ held' = held
<1>1. ~At(r, "readBack") /\ held' = held
  BY DEF Serve, At, Authenticate, RefreshLookup, Mint, RotateRead,
         RotateAborts,
         LogoutLookup, ActivateLookup, FindTarget, Revoke, ActivateRevoke,
         BulkRead, BulkWrite, List
<1>2. DOMAIN sessions' = DOMAIN sessions
  BY DEF Serve, Authenticate, RefreshLookup, Mint, RotateRead, RotateAborts,
         LogoutLookup, ActivateLookup, FindTarget, Revoke, ActivateRevoke,
         BulkRead, BulkWrite, List, CommitRevocation, storeVars
<1>3. \E h : reqs' = [reqs EXCEPT ![r] = h]
  BY DEF Serve, Authenticate, RefreshLookup, Mint, RotateRead, RotateAborts,
         LogoutLookup, ActivateLookup, FindTarget, Revoke, ActivateRevoke,
         BulkRead, BulkWrite, List, Reply, Continue
<1> QED
  BY <1>1, <1>2, <1>3, OneMoves

LEMMA NextOrphansNone ==
    ASSUME IInv, NoOrphanSession, Next
    PROVE  NoOrphanSession'
<1> DEFINE AllDelivered == \A s \in DOMAIN sessions : Delivered(s)
<1>1. NoOrphanSession <=> (faults = 0 => AllDelivered)
  BY DEF NoOrphanSession, Delivered
<1>2. NoOrphanSession' <=> (faults' = 0 => AllDelivered')
  BY DEF NoOrphanSession, Delivered
<1> SUFFICES ASSUME faults' = 0
             PROVE  AllDelivered'
  BY <1>2
<1>3. faults \in Nat
  BY DEF IInv, TypeOK
<1>4. ASSUME UNCHANGED faults, ReadBacksStay, held' = held,
             DOMAIN sessions' = DOMAIN sessions
      PROVE  AllDelivered'
  BY <1>1, <1>4, DeliveredStays
<1>5. ASSUME NEW r \in Request, Arrive(r)
      PROVE  AllDelivered'
  <2>1. /\ ~Active(r) /\ held' = held /\ faults' = faults
        /\ sessions' = sessions
    BY <1>5 DEF Arrive, Login, ServiceLogin, StartMint, TokenRequest,
                StartRefresh, StartVerify, StartLogout, StartLogoutAll,
                StartList, StartActivate, StartRevoke, StartOn, storeVars
  <2>2. \E h : reqs' = [reqs EXCEPT ![r] = h]
    BY <1>5 DEF Arrive, Login, ServiceLogin, StartMint, TokenRequest,
                StartRefresh, StartVerify, StartLogout, StartLogoutAll,
                StartList, StartActivate, StartRevoke, StartOn, Continue
  <2>3. ReadBacksStay
    BY <2>1, <2>2, OneMoves DEF Active, At
  <2> QED
    BY <1>4, <2>1, <2>3
<1>6. ASSUME NEW r \in Request, Serve(r)
      PROVE  AllDelivered'
  <2>1. faults' = faults
    <3>1. faults' = faults \/ faults' = faults + 1
      BY <1>6 DEF Serve, Authenticate, RefreshLookup, Mint, RotateRead,
                  RotateCommit, RotateAborts, Create, ReadBack, LogoutLookup,
                  ActivateLookup, FindTarget, Revoke, ActivateRevoke,
                  BulkRead, BulkWrite, List, Reply
    <3> QED
      BY <1>3, <3>1
  <2>2. CASE RotateCommit(r) \/ Create(r)
    BY <1>1, <2>1, <2>2, MintedIsDelivered
  <2>3. CASE ReadBack(r)
    BY <1>1, <2>1, <2>3, ReadBackDelivers
  <2>4. CASE ~RotateCommit(r) /\ ~Create(r) /\ ~ReadBack(r)
    BY <1>4, <1>6, <2>1, <2>4, ServesElsewhere
  <2> QED
    BY <2>2, <2>3, <2>4
<1>7. ASSUME NEW r \in Request, CallFails(r)
      PROVE  FALSE
  BY <1>3, <1>7 DEF CallFails
<1>8. CASE Background
  <2>1. ~Restart
    BY <1>3 DEF Restart
  <2>2. /\ reqs' = reqs /\ held' = held /\ faults' = faults
        /\ DOMAIN sessions' = DOMAIN sessions
    BY <1>8, <2>1 DEF Background, Touch, Tick, CommitTouch, storeVars
  <2> QED
    BY <1>4, <2>2 DEF ReadBacksStay
<1> QED
  BY <1>5, <1>6, <1>7, <1>8 DEF Next

(* While no call fails, no session is live whose tokens nobody has         *)
(* (Create, RotateTokens and their read-back).                             *)
THEOREM NothingIsOrphaned == Spec => []NoOrphanSession
<1>1. Init => NoOrphanSession
  BY DEF Init, StoreInit, NoOrphanSession
<1>2. IInv /\ NoOrphanSession /\ [Next]_vars => NoOrphanSession'
  <2>1. NoOrphanSession /\ UNCHANGED vars => NoOrphanSession'
    BY DEF NoOrphanSession, vars, At
  <2> QED
    BY <2>1, NextOrphansNone
<1> QED
  BY <1>1, <1>2, Invariance, PTL DEF Spec
=============================================================================

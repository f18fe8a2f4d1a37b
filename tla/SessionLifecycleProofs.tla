----------------------- MODULE SessionLifecycleProofs -----------------------
(***************************************************************************)
(* SessionService implements SessionLifecycle: each commit of a handler is *)
(* one operation of the lifecycle, on what the store says of the sessions, *)
(* and every other step leaves that alone.                                 *)
(***************************************************************************)
EXTENDS SessionHistoryProofs

(* What the lifecycle reads off the store.                                 *)
Bars == <<StatusBar, AccountBar, SuccessorBar>>

(* A step that opens, revokes, replaces and reassigns nothing.             *)
LEMMA SameBars ==
    ASSUME DOMAIN sessions' = DOMAIN sessions,
           \A s \in DOMAIN sessions :
               /\ sessions'[s].revoked = sessions[s].revoked
               /\ sessions'[s].user = sessions[s].user
               /\ sessions'[s].replacedBy = sessions[s].replacedBy
    PROVE  UNCHANGED Bars
<1>1. StatusBar' = StatusBar
  BY DEF StatusBar, Stores
<1>2. AccountBar' = AccountBar
  BY DEF AccountBar, Stores
<1>3. SuccessorBar' = SuccessorBar
  BY DEF SuccessorBar, Stores
<1> QED
  BY <1>1, <1>2, <1>3 DEF Bars

(* SessionRepo.Create opens a session.                                     *)
LEMMA CreateOpens ==
    ASSUME NEW n \in SessionId, n \notin DOMAIN sessions,
           NEW in \in SessionInput, CommitCreate(n, in)
    PROVE  Lifecycle!Open(n, in.user)
<1> DEFINE x == NewNode(n, in, n)
<1>1. ~x.revoked /\ x.user = in.user /\ x.replacedBy = NoSession
  BY DEF NewNode
<1>2. /\ DOMAIN sessions' = DOMAIN sessions \cup {n}
      /\ sessions'[n] = x
      /\ \A s \in DOMAIN sessions : sessions'[s] = sessions[s]
  BY DEF CommitCreate
<1> HIDE DEF x
<1>3. StatusBar[n] = "none"
  BY DEF StatusBar, Stores
<1>4. StatusBar' = [StatusBar EXCEPT ![n] = "live"]
  BY <1>1, <1>2 DEF StatusBar, Stores
<1>5. AccountBar' = [AccountBar EXCEPT ![n] = in.user]
  BY <1>1, <1>2 DEF AccountBar, Stores
<1>6. SuccessorBar' = SuccessorBar
  BY <1>1, <1>2 DEF SuccessorBar, Stores
<1> QED
  BY <1>3, <1>4, <1>5, <1>6 DEF Lifecycle!Open

(* SessionRepo.RotateTokens replaces a live session of the same user.      *)
LEMMA RotationReplaces ==
    ASSUME StoreTypeOK, NEW w, NEW o, Live(o),
           NEW n \in SessionId, n \notin DOMAIN sessions,
           NEW in \in SessionInput, in.user = sessions[o].user,
           CommitRotation(w, o, n, in)
    PROVE  o \in SessionId /\ Lifecycle!Replace(o, n)
<1> DEFINE x == NewNode(n, in, sessions[o].family)
           y == [sessions[o] EXCEPT !.revoked = TRUE, !.replacedBy = n]
<1>1. ~x.revoked /\ x.user = sessions[o].user /\ x.replacedBy = NoSession
  BY DEF NewNode
<1>2. o \in DOMAIN sessions /\ o \in SessionId /\ sessions[o] \in Session
      /\ o # n
  BY DEF Live, Stores, StoreTypeOK
<1>3. y.revoked /\ y.user = sessions[o].user /\ y.replacedBy = n
  BY <1>2 DEF Session
<1>4. /\ DOMAIN sessions' = DOMAIN sessions \cup {n}
      /\ sessions'[n] = x /\ sessions'[o] = y
      /\ \A s \in DOMAIN sessions \ {o} : sessions'[s] = sessions[s]
  BY <1>2 DEF CommitRotation
<1> HIDE DEF x, y
<1>5. StatusBar[o] = "live" /\ StatusBar[n] = "none"
  BY <1>2 DEF StatusBar, Live, Stores
<1>6. StatusBar' = [StatusBar EXCEPT ![o] = "revoked", ![n] = "live"]
  BY <1>1, <1>2, <1>3, <1>4 DEF StatusBar, Stores
<1>7. AccountBar[o] = sessions[o].user
  BY <1>2 DEF AccountBar, Stores
<1>8. AccountBar' = [AccountBar EXCEPT ![n] = AccountBar[o]]
  BY <1>1, <1>2, <1>3, <1>4, <1>7 DEF AccountBar, Stores
<1>9. SuccessorBar' = [SuccessorBar EXCEPT ![o] = n]
  BY <1>1, <1>2, <1>3, <1>4 DEF SuccessorBar, Stores
<1> QED
  BY <1>2, <1>5, <1>6, <1>8, <1>9 DEF Lifecycle!Replace

(* Revoke and RevokeAllForUser end sessions of one user.                   *)
LEMMA RevocationEnds ==
    ASSUME StoreTypeOK, NEW w, NEW S, S \subseteq DOMAIN sessions, NEW u,
           \A s \in S : sessions[s].user = u,
           CommitRevocation(w, S)
    PROVE  S \in SUBSET SessionId /\ Lifecycle!End(S)
<1>1. S \in SUBSET SessionId /\ DOMAIN sessions \subseteq SessionId
  BY DEF StoreTypeOK
<1>2. \A s \in S : StatusBar[s] # "none" /\ AccountBar[s] = u
  BY <1>1 DEF StatusBar, AccountBar, Stores
<1>3. /\ DOMAIN sessions' = DOMAIN sessions
      /\ \A s \in DOMAIN sessions :
            /\ sessions'[s].revoked = (s \in S \/ sessions[s].revoked)
            /\ sessions'[s].user = sessions[s].user
            /\ sessions'[s].replacedBy = sessions[s].replacedBy
  <2>1. DOMAIN sessions' = DOMAIN sessions
    BY DEF CommitRevocation
  <2>2. ASSUME NEW s \in DOMAIN sessions
        PROVE  /\ sessions'[s].revoked = (s \in S \/ sessions[s].revoked)
               /\ sessions'[s].user = sessions[s].user
               /\ sessions'[s].replacedBy = sessions[s].replacedBy
    <3>1. sessions[s] \in Session
      BY DEF StoreTypeOK
    <3>2. sessions'[s] = IF s \in S THEN [sessions[s] EXCEPT !.revoked = TRUE]
                         ELSE sessions[s]
      BY DEF CommitRevocation
    <3> QED
      BY <3>1, <3>2 DEF Session
  <2> QED
    BY <2>1, <2>2
<1>4. StatusBar' = [s \in SessionId |->
                       IF s \in S THEN "revoked" ELSE StatusBar[s]]
  BY <1>1, <1>3 DEF StatusBar, Stores
<1>5. AccountBar' = AccountBar
  BY <1>3 DEF AccountBar, Stores
<1>6. SuccessorBar' = SuccessorBar
  BY <1>3 DEF SuccessorBar, Stores
<1> QED
  BY <1>1, <1>2, <1>4, <1>5, <1>6 DEF Lifecycle!End

-----------------------------------------------------------------------------
LEMMA RevokeEnds ==
    ASSUME HInv, NEW r \in Request,
           Revoke(r) \/ ActivateRevoke(r) \/ BulkWrite(r)
    PROVE  \E S \in SUBSET SessionId : Lifecycle!End(S)
<1>1. /\ StoreTypeOK
      /\ RelyOK(sessions, reqs[r])
  BY DEF HInv, IInv, TypeOK, History, HistoryOK
<1>2. PICK S \in {{reqs[r].target}, reqs[r].found} :
         /\ CommitRevocation(r, S)
         /\ S \subseteq DOMAIN sessions
         /\ \A s \in S : sessions[s].user = sessions[reqs[r].token].user
  <2>1. CASE BulkWrite(r)
    <3>1. reqs[r].pc = "bulkWrite" /\ CommitRevocation(r, reqs[r].found)
      BY <2>1 DEF BulkWrite, At
    <3>2. /\ reqs[r].found \subseteq DOMAIN sessions
          /\ \A s \in reqs[r].found :
                sessions[s].user = sessions[reqs[r].token].user
      BY <1>1, <3>1 DEF RelyOK
    <3> QED
      BY <3>1, <3>2
  <2>2. CASE Revoke(r) \/ ActivateRevoke(r)
    <3>1. reqs[r].pc = "revoke" /\ CommitRevocation(r, {reqs[r].target})
      BY <2>2 DEF Revoke, ActivateRevoke, At
    <3>2. /\ reqs[r].target \in DOMAIN sessions
          /\ sessions[reqs[r].target].user = sessions[reqs[r].token].user
      BY <1>1, <3>1 DEF RelyOK
    <3> QED
      BY <3>1, <3>2
  <2> QED
    BY <2>1, <2>2
<1> QED
  BY <1>1, <1>2, RevocationEnds

LEMMA RotateCommitReplaces ==
    ASSUME HInv, NEW r \in Request, RotateCommit(r)
    PROVE  \E o, n \in SessionId : Lifecycle!Replace(o, n)
<1> DEFINE o == TokenOf(r)
           d == reqs[r].draft
           n == FreshId
<1>1. /\ r \notin conflicted /\ FreeIds # {} /\ CommitRotation(r, o, n, d)
      /\ At(r, "rotateCommit")
  BY DEF RotateCommit
<1>2. /\ StoreTypeOK /\ OpenTxnSeesLive /\ HandlerInv(r)
  BY DEF HInv, IInv, TypeOK, StoreInv
<1>3. /\ txn[r] = {o} /\ d \in SessionInput
      /\ Identity(d) = Identity(sessions[o])
  BY <1>1, <1>2 DEF HandlerInv, DraftFrom
<1>4. Live(o)
  BY <1>1, <1>2, <1>3 DEF OpenTxnSeesLive
<1>5. d.user = sessions[o].user
  BY <1>3 DEF Identity
<1>6. n \in SessionId /\ n \notin DOMAIN sessions
  BY <1>1, FreshIdIsFree
<1> HIDE DEF o, d, n
<1> QED
  BY <1>1, <1>2, <1>3, <1>4, <1>5, <1>6, RotationReplaces

LEMMA CreateStepOpens ==
    ASSUME HInv, NEW r \in Request, Create(r)
    PROVE  \E s \in SessionId, a \in User \cup {NoName} : Lifecycle!Open(s, a)
<1> DEFINE d == reqs[r].draft
           n == FreshId
<1>1. FreeIds # {} /\ CommitCreate(n, d) /\ At(r, "create")
  BY DEF Create
<1>2. d \in SessionInput
  BY <1>1 DEF HInv, IInv, HandlerInv
<1>3. n \in SessionId /\ n \notin DOMAIN sessions
  BY <1>1, FreshIdIsFree
<1> HIDE DEF d, n
<1>4. Lifecycle!Open(n, d.user)
  BY <1>1, <1>2, <1>3, CreateOpens
<1>5. d.user \in User \cup {NoName}
  BY <1>2 DEF SessionInput
<1> QED
  BY <1>3, <1>4, <1>5

LEMMA TouchStutters ==
    ASSUME HInv, NEW g \in touches, Touch(g)
    PROVE  UNCHANGED Bars
<1>1. CASE UNCHANGED storeVars
  BY <1>1, SameBars DEF storeVars
<1>2. ASSUME NEW t, CommitTouch(g.session, Stored(t))
      PROVE  UNCHANGED Bars
  <2>1. DOMAIN sessions' = DOMAIN sessions
    BY <1>2 DEF CommitTouch
  <2>2. ASSUME NEW s \in DOMAIN sessions
        PROVE  /\ sessions'[s].revoked = sessions[s].revoked
               /\ sessions'[s].user = sessions[s].user
               /\ sessions'[s].replacedBy = sessions[s].replacedBy
    <3>1. sessions[s] \in Session
      BY DEF HInv, IInv, TypeOK, StoreTypeOK
    <3>2. \/ sessions'[s] = sessions[s]
          \/ sessions'[s] = [sessions[s] EXCEPT !.lastSeen = Stored(t)]
      BY <1>2 DEF CommitTouch
    <3> QED
      BY <3>1, <3>2 DEF Session
  <2> QED
    BY <2>1, <2>2, SameBars
<1> QED
  BY <1>1, <1>2 DEF Touch

(* Every step of the handlers is one operation of the lifecycle or changes *)
(* nothing it can see.                                                     *)
LEMMA StepIsLifecycleStep ==
    ASSUME HInv, [Next]_vars
    PROVE  Lifecycle!LifecycleNext \/ UNCHANGED Bars
<1>1. CASE UNCHANGED sessions
  BY <1>1, SameBars
<1>2. ASSUME NEW r \in Request, Serve(r)
      PROVE  Lifecycle!LifecycleNext \/ UNCHANGED Bars
  <2>1. CASE Create(r)
    BY <2>1, CreateStepOpens DEF Lifecycle!LifecycleNext
  <2>2. CASE RotateCommit(r)
    BY <2>2, RotateCommitReplaces DEF Lifecycle!LifecycleNext
  <2>3. CASE Revoke(r) \/ ActivateRevoke(r) \/ BulkWrite(r)
    BY <2>3, RevokeEnds DEF Lifecycle!LifecycleNext
  <2> QED
    BY <1>1, <1>2, <2>1, <2>2, <2>3
       DEF Serve, Authenticate, RefreshLookup, Mint, RotateRead, RotateAborts,
           ReadBack, LogoutLookup, ActivateLookup, FindTarget, BulkRead,
           List, storeVars
<1>3. ASSUME NEW r \in Request, Arrive(r) \/ CallFails(r)
      PROVE  UNCHANGED sessions
  BY <1>3 DEF Arrive, CallFails, Login, ServiceLogin, StartMint,
              TokenRequest, StartRefresh, StartVerify, StartLogout,
              StartLogoutAll, StartList, StartActivate, StartRevoke,
              StartOn, storeVars
<1>4. CASE Background
  <2>1. CASE Restart \/ Tick
    BY <1>1, <2>1 DEF Restart, Tick, storeVars
  <2> QED
    BY <1>4, <2>1, TouchStutters DEF Background
<1>5. CASE UNCHANGED vars
  BY <1>1, <1>5 DEF vars
<1> QED
  BY <1>1, <1>2, <1>3, <1>4, <1>5 DEF Next

(* The handlers, running concurrently and failing where they may, keep the *)
(* promises of the repository interface (SessionRepo's operations).        *)
THEOREM HandlersImplementLifecycle == Spec => ImplementsLifecycle
<1>1. Init => Lifecycle!LifecycleInit
  <2> SUFFICES ASSUME Init
               PROVE  Lifecycle!LifecycleInit
    OBVIOUS
  <2>1. DOMAIN sessions = {}
    BY DEF Init, StoreInit
  <2> QED
    BY <2>1 DEF Lifecycle!LifecycleInit, StatusBar, AccountBar, SuccessorBar,
                Stores
<1>2. HInv /\ [Next]_vars => [Lifecycle!LifecycleNext]_(Lifecycle!lifecycleVars)
  BY StepIsLifecycleStep DEF Bars, Lifecycle!lifecycleVars
<1> QED
  BY <1>1, <1>2, HistoryInvariance, PTL
     DEF Spec, ImplementsLifecycle, Lifecycle!LifecycleSpec
=============================================================================

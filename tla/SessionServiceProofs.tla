------------------------ MODULE SessionServiceProofs ------------------------
(***************************************************************************)
(* Proofs, for every number of sessions, users, clients and handlers, of   *)
(* the invariants of SessionService that hold whatever fails.  The lemmas  *)
(* say what each operation of the store keeps; the theorem then needs, of  *)
(* each handler step, which of them it performs and what its handler knew. *)
(***************************************************************************)
EXTENDS SessionService, FiniteSetTheorems, TLAPS

(* No step loses a session, reopens one or changes what it stands for.     *)
StoreGrows == \A s \in DOMAIN sessions : SessionKept(s)

(* The id that stands for no session is none.                              *)
LEMMA NoSessionIsNoId == NoSession \notin SessionId
BY SessionStoreAssumption

(* A new node has its type.                                                *)
LEMMA NewNodeType ==
    ASSUME NEW s \in SessionId, NEW in \in SessionInput,
           NEW f \in SessionId
    PROVE  /\ NewNode(s, in, f) \in Session
           /\ ~NewNode(s, in, f).revoked
           /\ NewNode(s, in, f).family = f
           /\ NewNode(s, in, f).parent = in.parent
BY DEF NewNode, Session, SessionInput

(* While ids are free, the one minted next is one of them.                 *)
LEMMA FreshIdIsFree ==
    ASSUME FreeIds # {}
    PROVE  FreshId \in SessionId /\ FreshId \notin DOMAIN sessions
BY DEF FreeIds, FreshId

(* SessionRepo.Create keeps the store's invariants.                        *)
LEMMA CreateKeepsStore ==
    ASSUME StoreTypeOK, StoreInv,
           NEW n \in SessionId, n \notin DOMAIN sessions,
           NEW in \in SessionInput,
           in.parent # NoSession =>
               Stores(in.parent) /\ sessions[in.parent].revoked,
           CommitCreate(n, in)
    PROVE  StoreTypeOK' /\ StoreInv' /\ StoreGrows /\ n \in DOMAIN sessions'
<1> DEFINE node == NewNode(n, in, n)
<1>1. /\ node \in Session /\ ~node.revoked /\ node.family = n
      /\ node.parent = in.parent
  BY NewNodeType
<1>2. /\ DOMAIN sessions' = DOMAIN sessions \cup {n}
      /\ sessions'[n] = node
      /\ \A s \in DOMAIN sessions : sessions'[s] = sessions[s]
      /\ txn' = txn /\ conflicted' = conflicted
      /\ sessions' = [x \in DOMAIN sessions' |-> sessions'[x]]
  BY DEF CommitCreate
<1> HIDE DEF node
<1>3. StoreTypeOK'
  BY <1>1, <1>2 DEF StoreTypeOK
<1>4. StoreGrows
  BY <1>2 DEF StoreGrows, SessionKept
<1>5. FamiliesStored'
  BY <1>1, <1>2 DEF StoreInv, FamiliesStored
<1>6. OpenTxnSeesLive'
  BY <1>2 DEF StoreInv, OpenTxnSeesLive, Live, Stores
<1>7. ReplacedIsRevoked'
  BY <1>1, <1>2 DEF StoreInv, ReplacedIsRevoked, Stores
<1>8. RotatedAtMostOnce' /\ RotationCarriesIdentity'
  <2>1. ASSUME NEW s \in DOMAIN sessions', NEW p \in DOMAIN sessions',
               RotatedFrom(s, p)'
        PROVE  /\ s \in DOMAIN sessions /\ p \in DOMAIN sessions
               /\ RotatedFrom(s, p)
    <3>1. p # NoSession
      BY <1>2, NoSessionIsNoId DEF StoreTypeOK
    <3>2. s # n
      <4>1. SUFFICES ASSUME s = n PROVE FALSE
        OBVIOUS
      <4>2. p = in.parent /\ p \in DOMAIN sessions
        BY <1>1, <1>2, <2>1, <3>1, <4>1 DEF RotatedFrom, Stores
      <4>3. sessions[p].family = n
        BY <1>1, <1>2, <2>1, <4>1, <4>2 DEF RotatedFrom
      <4>4. QED
        BY <4>2, <4>3 DEF StoreInv, FamiliesStored
    <3>3. s \in DOMAIN sessions /\ sessions[s].parent = p
      BY <1>2, <2>1, <3>2 DEF RotatedFrom
    <3>4. p \in DOMAIN sessions
      BY <3>1, <3>3 DEF StoreInv, ReplacedIsRevoked
    <3>5. QED
      BY <1>2, <2>1, <3>3, <3>4 DEF RotatedFrom
  <2>2. QED
    BY <1>2, <2>1
    DEF StoreInv, RotatedAtMostOnce, RotationCarriesIdentity
<1>9. OneLivePerFamily'
  BY <1>1, <1>2 DEF StoreInv, OneLivePerFamily, FamiliesStored, Live, Stores
<1>10. QED
  BY <1>2, <1>3, <1>4, <1>5, <1>6, <1>7, <1>8, <1>9 DEF StoreInv

(* What a commit does to the open transactions keeps the two in step: one  *)
(* that is still free to commit has had none of its sessions revoked.      *)
LEMMA CommitOverSeesLive ==
    ASSUME StoreTypeOK, StoreInv, NEW w \in Request, NEW S,
           CommitOver(w, S), StoreGrows,
           \A s \in DOMAIN sessions \ S :
               sessions'[s].revoked = sessions[s].revoked
    PROVE  /\ OpenTxnSeesLive'
           /\ txn' \in [Request -> SUBSET SessionId]
           /\ conflicted' \subseteq Request
BY DEF StoreTypeOK, StoreInv, OpenTxnSeesLive, CommitOver, StoreGrows,
       SessionKept, Live, Stores

(* Revoke and the mutation of RevokeAllForUser keep the store's invariants.*)
LEMMA RevocationKeepsStore ==
    ASSUME StoreTypeOK, StoreInv, NEW w \in Request, NEW S,
           CommitRevocation(w, S)
    PROVE  /\ StoreTypeOK' /\ StoreInv' /\ StoreGrows
           /\ \A s \in S \cap DOMAIN sessions : sessions'[s].revoked
<1>1. /\ DOMAIN sessions' = DOMAIN sessions
      /\ sessions' = [x \in DOMAIN sessions' |-> sessions'[x]]
  BY DEF CommitRevocation
<1>2. ASSUME NEW s \in DOMAIN sessions
      PROVE  /\ sessions'[s] \in Session
             /\ s \in S => sessions'[s].revoked
             /\ s \notin S => sessions'[s] = sessions[s]
             /\ sessions[s].revoked => sessions'[s].revoked
             /\ sessions'[s].family = sessions[s].family
             /\ sessions'[s].parent = sessions[s].parent
             /\ sessions'[s].replacedBy = sessions[s].replacedBy
             /\ Identity(sessions'[s]) = Identity(sessions[s])
  <2>1. sessions[s] \in Session
    BY DEF StoreTypeOK
  <2>2. CASE s \in S
    <3>1. sessions'[s] = [sessions[s] EXCEPT !.revoked = TRUE]
      BY <2>2 DEF CommitRevocation
    <3>2. QED
      BY <2>1, <2>2, <3>1 DEF Session, Identity
  <2>3. CASE s \notin S
    <3>1. sessions'[s] = sessions[s]
      BY <2>3 DEF CommitRevocation
    <3>2. QED
      BY <2>1, <2>3, <3>1
  <2>4. QED
    BY <2>2, <2>3
<1>3. StoreGrows
  BY <1>1, <1>2 DEF StoreGrows, SessionKept
<1>4. CommitOver(w, S)
  BY DEF CommitRevocation
<1>5. /\ OpenTxnSeesLive'
      /\ txn' \in [Request -> SUBSET SessionId]
      /\ conflicted' \subseteq Request
  <2>1. \A s \in DOMAIN sessions \ S :
           sessions'[s].revoked = sessions[s].revoked
    BY <1>2
  <2>2. QED
    BY <1>3, <1>4, <2>1, CommitOverSeesLive
<1>6. StoreTypeOK'
  BY <1>1, <1>2, <1>5 DEF StoreTypeOK
<1>7. FamiliesStored' /\ ReplacedIsRevoked' /\ OneLivePerFamily'
  BY <1>1, <1>2 DEF StoreInv, FamiliesStored, ReplacedIsRevoked,
                    OneLivePerFamily, Live, Stores
<1>8. RotatedAtMostOnce' /\ RotationCarriesIdentity'
  BY <1>1, <1>2 DEF StoreInv, RotatedAtMostOnce, RotationCarriesIdentity,
                    RotatedFrom
<1>9. QED
  BY <1>1, <1>2, <1>3, <1>5, <1>6, <1>7, <1>8 DEF StoreInv

(* The commit of RotateTokens keeps the store's invariants, because a      *)
(* transaction that is not refused still sees its old session live.        *)
LEMMA RotationKeepsStore ==
    ASSUME StoreTypeOK, StoreInv,
           NEW w \in Request \ conflicted,
           NEW o \in DOMAIN sessions, txn[w] = {o},
           NEW n \in SessionId, n \notin DOMAIN sessions,
           NEW in \in SessionInput, in.parent = o,
           Identity(in) = Identity(sessions[o]),
           CommitRotation(w, o, n, in)
    PROVE  StoreTypeOK' /\ StoreInv' /\ StoreGrows /\ n \in DOMAIN sessions'
<1> DEFINE f == sessions[o].family
           node == NewNode(n, in, f)
<1>1. Live(o)
  BY DEF StoreInv, OpenTxnSeesLive
<1>2. sessions[o] \in Session /\ f \in SessionId
  BY DEF StoreTypeOK, Session
<1>3. /\ node \in Session /\ ~node.revoked
      /\ node.family = f /\ node.parent = o
      /\ Identity(node) = Identity(sessions[o])
  <2> HIDE DEF f
  <2>1. f \in SessionId
    BY <1>2
  <2>2. /\ node \in Session /\ ~node.revoked
        /\ node.family = f /\ node.parent = in.parent
    BY <2>1, NewNodeType
  <2>3. Identity(node) = Identity(in)
    BY DEF NewNode, Identity
  <2>4. QED
    BY <2>2, <2>3
<1> HIDE DEF node
<1>4. /\ DOMAIN sessions' = DOMAIN sessions \cup {n}
      /\ sessions' = [x \in DOMAIN sessions' |-> sessions'[x]]
      /\ sessions'[n] = node
      /\ sessions'[o] = [sessions[o] EXCEPT !.revoked = TRUE,
                                            !.replacedBy = n]
      /\ \A s \in DOMAIN sessions \ {o} : sessions'[s] = sessions[s]
  BY DEF CommitRotation, node
<1>5. /\ sessions'[o] \in Session
      /\ sessions'[o].revoked /\ sessions'[o].replacedBy = n
      /\ sessions'[o].family = sessions[o].family
      /\ sessions'[o].parent = sessions[o].parent
      /\ Identity(sessions'[o]) = Identity(sessions[o])
  BY <1>2, <1>4 DEF Session, Identity
<1>6. StoreGrows
  BY <1>4, <1>5 DEF StoreGrows, SessionKept
<1>7. CommitOver(w, {o})
  BY DEF CommitRotation
<1>8. /\ OpenTxnSeesLive'
      /\ txn' \in [Request -> SUBSET SessionId]
      /\ conflicted' \subseteq Request
  BY <1>4, <1>6, <1>7, CommitOverSeesLive
<1>9. StoreTypeOK'
  BY <1>3, <1>4, <1>5, <1>8 DEF StoreTypeOK
<1>10. FamiliesStored' /\ ReplacedIsRevoked'
  <2>1. FamiliesStored'
    BY <1>3, <1>4, <1>5 DEF StoreInv, FamiliesStored
  <2>2. ReplacedIsRevoked'
    <3>1. ASSUME NEW s \in DOMAIN sessions', sessions'[s].parent # NoSession
          PROVE  /\ sessions'[s].parent \in DOMAIN sessions
                 /\ \/ sessions'[s].parent = o
                    \/ sessions[sessions'[s].parent].revoked
      <4>1. CASE s = n
        BY <1>3, <1>4, <4>1
      <4>2. CASE s # n
        <5>1. s \in DOMAIN sessions /\ sessions'[s].parent = sessions[s].parent
          BY <1>4, <1>5, <4>2
        <5>2. QED
          BY <3>1, <5>1 DEF StoreInv, ReplacedIsRevoked
      <4>3. QED
        BY <4>1, <4>2
    <3>2. QED
      BY <1>4, <1>5, <3>1 DEF ReplacedIsRevoked
  <2>3. QED
    BY <2>1, <2>2
<1>11. OneLivePerFamily'
  <2>1. ASSUME NEW s \in DOMAIN sessions', Live(s)',
               sessions'[s].family = f
        PROVE  s = n
    BY <1>1, <1>4, <1>5, <2>1 DEF StoreInv, OneLivePerFamily, Live, Stores
  <2>2. ASSUME NEW s \in DOMAIN sessions', Live(s)',
               sessions'[s].family # f
        PROVE  Live(s) /\ sessions'[s].family = sessions[s].family
    BY <1>3, <1>4, <1>5, <2>2 DEF Live, Stores
  <2>3. QED
    BY <2>1, <2>2 DEF StoreInv, OneLivePerFamily, Stores, Live
<1>12. RotatedAtMostOnce' /\ RotationCarriesIdentity'
  <2> SUFFICES ASSUME NEW s \in DOMAIN sessions', NEW p \in DOMAIN sessions',
                      RotatedFrom(s, p)'
               PROVE  /\ sessions'[p].replacedBy = s
                      /\ Identity(sessions'[s]) = Identity(sessions'[p])
    BY DEF RotatedAtMostOnce, RotationCarriesIdentity
  <2>1. CASE s = n
    BY <1>3, <1>4, <1>5, <2>1 DEF RotatedFrom
  <2>2. CASE s # n
    <3>1. s \in DOMAIN sessions /\ sessions'[s].parent = sessions[s].parent
      BY <1>4, <1>5, <2>2
    <3>2. p \in DOMAIN sessions /\ sessions[p].revoked
      <4>1. p # NoSession
        BY <1>4, NoSessionIsNoId DEF StoreTypeOK
      <4>2. sessions[s].parent = p
        BY <3>1 DEF RotatedFrom
      <4>3. QED
        BY <3>1, <4>1, <4>2 DEF StoreInv, ReplacedIsRevoked
    <3>3. p # o
      BY <1>1, <3>2 DEF Live
    <3>4. RotatedFrom(s, p)
      <4>1. /\ sessions'[p] = sessions[p]
            /\ sessions'[s].family = sessions[s].family
        BY <1>4, <1>5, <3>1, <3>2, <3>3
      <4>2. QED
        BY <3>1, <4>1 DEF RotatedFrom
    <3>5. QED
      BY <1>4, <1>5, <3>1, <3>2, <3>3, <3>4
      DEF StoreInv, RotatedAtMostOnce, RotationCarriesIdentity
  <2>3. QED
    BY <2>1, <2>2
<1>13. QED
  BY <1>4, <1>6, <1>8, <1>9, <1>10, <1>11, <1>12 DEF StoreInv

(* A step that leaves the nodes alone keeps what is said of them.          *)
LEMMA SameSessionsKeepStore ==
    ASSUME StoreTypeOK, StoreInv, UNCHANGED sessions,
           txn' \in [Request -> SUBSET SessionId], conflicted' \subseteq Request,
           OpenTxnSeesLive'
    PROVE  StoreTypeOK' /\ StoreInv' /\ StoreGrows
BY DEF StoreTypeOK, StoreInv, StoreGrows, SessionKept, FamiliesStored,
       ReplacedIsRevoked, RotatedAtMostOnce, RotatedFrom, OneLivePerFamily,
       Live, Stores, RotationCarriesIdentity

(* RotateTokens begins its transaction on a live session.                  *)
LEMMA BeginTxnKeepsStore ==
    ASSUME StoreTypeOK, StoreInv, NEW w \in Request,
           NEW o \in SessionId, Live(o), BeginTxn(w, o), UNCHANGED sessions
    PROVE  StoreTypeOK' /\ StoreInv' /\ StoreGrows
<1>1. /\ txn' \in [Request -> SUBSET SessionId]
      /\ conflicted' \subseteq Request
  BY DEF BeginTxn, StoreTypeOK
<1>2. OpenTxnSeesLive'
  BY DEF BeginTxn, StoreTypeOK, StoreInv, OpenTxnSeesLive, Live, Stores
<1>3. QED
  BY <1>1, <1>2, SameSessionsKeepStore

(* A transaction ends without a commit.                                    *)
LEMMA EndTxnKeepsStore ==
    ASSUME StoreTypeOK, StoreInv, NEW w \in Request, EndTxn(w),
           UNCHANGED sessions
    PROVE  StoreTypeOK' /\ StoreInv' /\ StoreGrows
<1>1. /\ txn' \in [Request -> SUBSET SessionId]
      /\ conflicted' \subseteq Request
  BY DEF EndTxn, StoreTypeOK
<1>2. OpenTxnSeesLive'
  BY DEF EndTxn, StoreTypeOK, StoreInv, OpenTxnSeesLive, Live, Stores
<1>3. QED
  BY <1>1, <1>2, SameSessionsKeepStore

(* Touch writes last_seen_at only.                                         *)
LEMMA TouchKeepsStore ==
    ASSUME StoreTypeOK, StoreInv, NEW t, NEW at \in Int, CommitTouch(t, at)
    PROVE  StoreTypeOK' /\ StoreInv' /\ StoreGrows
<1>1. /\ DOMAIN sessions' = DOMAIN sessions
      /\ sessions' = [x \in DOMAIN sessions' |-> sessions'[x]]
      /\ txn' = txn /\ conflicted' = conflicted
  BY DEF CommitTouch
<1>2. ASSUME NEW s \in DOMAIN sessions
      PROVE  /\ sessions'[s] \in Session
             /\ sessions'[s].revoked = sessions[s].revoked
             /\ sessions'[s].family = sessions[s].family
             /\ sessions'[s].parent = sessions[s].parent
             /\ sessions'[s].replacedBy = sessions[s].replacedBy
             /\ Identity(sessions'[s]) = Identity(sessions[s])
  <2>1. sessions[s] \in Session
    BY DEF StoreTypeOK
  <2>2. CASE s = t
    <3>1. sessions'[s] = [sessions[s] EXCEPT !.lastSeen = at]
      BY <2>2 DEF CommitTouch
    <3>2. QED
      BY <2>1, <3>1 DEF Session, Identity
  <2>3. CASE s # t
    <3>1. sessions'[s] = sessions[s]
      BY <2>3 DEF CommitTouch
    <3>2. QED
      BY <2>1, <3>1
  <2>4. QED
    BY <2>2, <2>3
<1>3. StoreTypeOK' /\ StoreGrows
  BY <1>1, <1>2 DEF StoreTypeOK, StoreGrows, SessionKept
<1>4. FamiliesStored' /\ ReplacedIsRevoked' /\ OneLivePerFamily'
  BY <1>1, <1>2 DEF StoreInv, FamiliesStored, ReplacedIsRevoked,
                    OneLivePerFamily, Live, Stores
<1>5. OpenTxnSeesLive'
  BY <1>1, <1>2 DEF StoreInv, OpenTxnSeesLive, Live, Stores
<1>6. RotatedAtMostOnce' /\ RotationCarriesIdentity'
  BY <1>1, <1>2 DEF StoreInv, RotatedAtMostOnce, RotationCarriesIdentity,
                    RotatedFrom
<1>7. QED
  BY <1>3, <1>4, <1>5, <1>6 DEF StoreInv

-----------------------------------------------------------------------------
(* Times, inputs and handler records have their types.                     *)
LEMMA StoredType ==
    ASSUME NEW t \in Int
    PROVE  Stored(t) \in Int
BY SessionStoreAssumption DEF Stored

LEMMA MintInputType ==
    ASSUME TypeOK,
           NEW kind \in {"user", "service"}, NEW u \in User \cup {NoName},
           NEW c \in Client \cup {NoName}, NEW ctx \in Context \cup {NoContext},
           NEW p \in SessionId \cup {NoSession}
    PROVE  /\ MintInput(kind, u, c, ctx, p) \in SessionInput
           /\ MintInput(kind, u, c, ctx, p).parent = p
           /\ MintInput(kind, u, c, ctx, p).decided = clock
<1>1. clock \in Nat
  BY DEF TypeOK
<1>2. QED
  BY <1>1 DEF MintInput, SessionInput

LEMMA IdleType == Idle \in Handler
BY DEF Idle, Handler, AllOps, Pcs, Answers

LEMMA AnsweredType ==
    ASSUME TypeOK, NEW r \in Request, NEW a \in Answers
    PROVE  Answered(r, a) \in Handler /\ Answered(r, a).pc = "idle"
<1>1. reqs[r] \in Handler
  BY DEF TypeOK
<1>2. QED
  BY <1>1 DEF Answered, Handler, Pcs

LEMMA FailedType ==
    ASSUME TypeOK, NEW r \in Request
    PROVE  Failed(r) \in Handler /\ Failed(r).pc = "idle"
<1>1. FailureAnswer(r) \in Answers
  BY DEF FailureAnswer, Answers
<1>2. /\ Answered(r, FailureAnswer(r)) \in Handler
      /\ Answered(r, FailureAnswer(r)).pc = "idle"
  BY <1>1, AnsweredType
<1>3. QED
  BY <1>2 DEF Failed, Handler

(* An idle handler relies on nothing.                                      *)
LEMMA IdleHandlerInv ==
    ASSUME NEW r, reqs'[r].pc = "idle"
    PROVE  HandlerInv(r)'
BY DEF HandlerInv, At

(* A handler whose slot and transaction a step leaves alone goes on        *)
(* relying on what it relied on.                                           *)
LEMMA OthersKeepInv ==
    ASSUME StoreGrows, NEW v \in Request, HandlerInv(v),
           reqs'[v] = reqs[v], txn'[v] = txn[v],
           clock \in Nat, clock' \in Nat, clock <= clock'
    PROVE  HandlerInv(v)'
<1> DEFINE t == TokenOf(v)
<1>1. TokenOf(v)' = t
  BY DEF TokenOf
<1>2. ASSUME NEW s, Stores(s)
      PROVE  /\ Stores(s)'
             /\ sessions[s].revoked => sessions'[s].revoked
             /\ Identity(sessions'[s]) = Identity(sessions[s])
  BY <1>2 DEF StoreGrows, SessionKept, Stores
<1>3. Stores(t) =>
        sessions'[t].refreshExpires = sessions[t].refreshExpires
  BY <1>2 DEF Identity
<1>4. Stores(t) /\ DraftFrom(v) => DraftFrom(v)'
  BY <1>1, <1>3 DEF DraftFrom
<1>5. At(v, "mint") => reqs'[v].draft.decided <= clock'
  <2>1. At(v, "mint") => reqs[v].draft.decided \in Nat
    BY DEF HandlerInv, SessionInput
  <2>2. QED
    BY <2>1 DEF HandlerInv
<1>6. QED
  BY <1>1, <1>2, <1>4, <1>5 DEF HandlerInv, At

(* What is left to show of a step of handler r.                            *)
LEMMA HandlerStepKeepsInv ==
    ASSUME IInv, NEW r \in Request, NEW h \in Handler,
           StoreTypeOK', StoreInv', StoreGrows,
           reqs' = [reqs EXCEPT ![r] = h], HandlerInv(r)',
           \A v \in Request \ {r} : txn'[v] = txn[v],
           clock' = clock, held' \subseteq DOMAIN sessions', faults' \in Nat,
           touches' \subseteq [session : SessionId, since : Nat]
    PROVE  IInv'
<1>1. reqs' \in [Request -> Handler]
  BY DEF IInv, TypeOK
<1>2. TypeOK' /\ clock \in Nat /\ clock' \in Nat /\ clock <= clock'
  BY <1>1 DEF TypeOK, IInv
<1>3. ASSUME NEW v \in Request
      PROVE  HandlerInv(v)'
  <2>1. CASE v = r
    BY <2>1
  <2>2. CASE v # r
    BY <1>2, <2>2, OthersKeepInv DEF IInv, TypeOK
  <2>3. QED
    BY <2>1, <2>2
<1>4. QED
  BY <1>2, <1>3 DEF IInv

(* A step that changes nothing of the store but r's local state.           *)
LEMMA LocalStepKeepsInv ==
    ASSUME IInv, NEW r \in Request, NEW h \in Handler,
           Continue(r, h), HandlerInv(r)',
           UNCHANGED <<storeVars, clock, held, faults>>,
           touches' \subseteq [session : SessionId, since : Nat]
    PROVE  IInv' /\ StoreGrows
<1>1. /\ sessions' = sessions /\ txn' = txn /\ conflicted' = conflicted
      /\ clock' = clock /\ held' = held /\ faults' = faults
  BY DEF storeVars
<1>2. OpenTxnSeesLive'
  BY <1>1 DEF IInv, StoreInv, OpenTxnSeesLive, Live, Stores
<1>3. StoreTypeOK' /\ StoreInv' /\ StoreGrows
  BY <1>1, <1>2, SameSessionsKeepStore DEF IInv, TypeOK, StoreTypeOK
<1>4. /\ reqs' = [reqs EXCEPT ![r] = h]
      /\ held' \subseteq DOMAIN sessions' /\ faults' \in Nat
  BY <1>1 DEF IInv, TypeOK, Continue
<1>5. IInv'
  BY <1>1, <1>3, <1>4, HandlerStepKeepsInv
<1>6. QED
  BY <1>3, <1>5

(* A step whose call is applied and whose answer arrives or is lost.       *)
LEMMA ReplyKeepsInv ==
    ASSUME IInv, NEW r \in Request, NEW h \in Handler, Reply(r, h),
           StoreTypeOK', StoreInv', StoreGrows,
           reqs'[r] = h => HandlerInv(r)',
           \A v \in Request \ {r} : txn'[v] = txn[v],
           UNCHANGED <<clock, held, touches>>
    PROVE  IInv'
<1>1. /\ clock' = clock
      /\ held' \subseteq DOMAIN sessions'
      /\ touches' \subseteq [session : SessionId, since : Nat]
  BY DEF IInv, TypeOK, StoreGrows, SessionKept
<1>2. CASE Continue(r, h) /\ UNCHANGED faults
  <2>1. reqs' = [reqs EXCEPT ![r] = h] /\ reqs'[r] = h /\ faults' \in Nat
    BY <1>2 DEF Continue, IInv, TypeOK
  <2>2. QED
    BY <1>1, <2>1, HandlerStepKeepsInv
<1>3. CASE Continue(r, Failed(r)) /\ faults' = faults + 1
  <2>1. Failed(r) \in Handler /\ Failed(r).pc = "idle"
    BY FailedType DEF IInv
  <2>2. /\ reqs' = [reqs EXCEPT ![r] = Failed(r)] /\ reqs'[r].pc = "idle"
        /\ faults' \in Nat
    BY <1>3, <2>1 DEF Continue, IInv, TypeOK
  <2>3. HandlerInv(r)'
    BY <2>2, IdleHandlerInv
  <2>4. QED
    BY <1>1, <2>1, <2>2, <2>3, HandlerStepKeepsInv
<1>4. QED
  BY <1>2, <1>3 DEF Reply

-----------------------------------------------------------------------------
(* The steps, one by one.                                                  *)
LEMMA StartMintStep ==
    ASSUME IInv, NEW r \in Request, NEW op \in AllOps \ {"refresh"},
           NEW in \in SessionInput, in.parent = NoSession,
           in.decided = clock, StartMint(r, op, in)
    PROVE  IInv' /\ StoreGrows
<1> DEFINE h == [Idle EXCEPT !.op = op, !.pc = "mint", !.draft = in]
<1>1. h \in Handler
  BY IdleType DEF Handler, Pcs
<1>2. /\ h.pc = "mint" /\ h.draft = in /\ h.op = op
  BY DEF Idle
<1>3. /\ Continue(r, h) /\ UNCHANGED <<storeVars, clock, held, faults>>
      /\ touches' \subseteq [session : SessionId, since : Nat]
  BY DEF StartMint, IInv, TypeOK
<1> HIDE DEF h
<1>4. reqs'[r] = h /\ clock' = clock /\ clock \in Nat
  BY <1>1, <1>3 DEF Continue, IInv, TypeOK
<1>5. HandlerInv(r)'
  BY <1>2, <1>4 DEF HandlerInv, At
<1>6. QED
  BY <1>1, <1>3, <1>5, LocalStepKeepsInv

LEMMA StartOnStep ==
    ASSUME IInv, NEW r \in Request, NEW op \in AllOps,
           NEW t \in SessionId \cup {NoSession},
           NEW s \in SessionId \cup {NoSession},
           NEW pc \in {"lookup", "authenticate"},
           pc = "authenticate" =>
               op \notin {"login", "serviceLogin", "refresh"},
           StartOn(r, op, t, s, pc)
    PROVE  IInv' /\ StoreGrows
<1> DEFINE before == IF op \in {"refresh", "logoutAll", "listSessions"}
                     THEN DOMAIN sessions ELSE {}
           dead == Stores(t) /\ sessions[t].revoked
           h == [Idle EXCEPT !.op = op, !.pc = pc, !.token = t,
                    !.target = s, !.before = before, !.dead = dead]
<1>1. Continue(r, h) /\ UNCHANGED <<storeVars, clock, held, touches, faults>>
  BY DEF StartOn
<1>2. before \in SUBSET SessionId
  BY DEF IInv, TypeOK, StoreTypeOK
<1>3. dead \in BOOLEAN
  <2>1. t \in DOMAIN sessions => sessions[t].revoked \in BOOLEAN
    BY DEF IInv, TypeOK, StoreTypeOK, Session
  <2>2. QED
    BY <2>1 DEF Stores
<1> HIDE DEF before, dead
<1>4. h \in Handler /\ h.pc = pc /\ h.op = op
  BY <1>2, <1>3, IdleType DEF Handler, Pcs
<1> HIDE DEF h
<1>5. reqs'[r] = h
  BY <1>1, <1>4 DEF Continue, IInv, TypeOK
<1>6. HandlerInv(r)'
  BY <1>4, <1>5 DEF HandlerInv, At
<1>7. touches' \subseteq [session : SessionId, since : Nat]
  BY <1>1 DEF IInv, TypeOK
<1>8. QED
  BY <1>1, <1>4, <1>6, <1>7, LocalStepKeepsInv

LEMMA ArriveStep ==
    ASSUME IInv, NEW r \in Request, Arrive(r)
    PROVE  IInv' /\ StoreGrows
<1>1. ASSUME NEW u \in User, Login(r, u)
      PROVE  IInv' /\ StoreGrows
  <2>1. /\ MintInput("user", u, NoName, NoContext, NoSession) \in SessionInput
        /\ MintInput("user", u, NoName, NoContext, NoSession).parent
              = NoSession
        /\ MintInput("user", u, NoName, NoContext, NoSession).decided
              = clock
    BY MintInputType DEF IInv
  <2>2. QED
    BY <1>1, <2>1, StartMintStep DEF Login, AllOps
<1>2. ASSUME NEW c \in Client, ServiceLogin(r, c)
      PROVE  IInv' /\ StoreGrows
  <2>1. /\ MintInput("service", NoName, c, NoContext, NoSession)
              \in SessionInput
        /\ MintInput("service", NoName, c, NoContext, NoSession).parent
              = NoSession
        /\ MintInput("service", NoName, c, NoContext, NoSession).decided
              = clock
    BY MintInputType DEF IInv
  <2>2. QED
    BY <1>2, <2>1, StartMintStep DEF ServiceLogin, AllOps
<1>3. ASSUME NEW t \in held \cup {NoSession},
             \/ StartRefresh(r, t) \/ StartVerify(r, t) \/ StartLogout(r, t)
             \/ StartLogoutAll(r, t) \/ StartList(r, t)
             \/ StartActivate(r, t)
             \/ \E s \in DOMAIN sessions \cup {NoSession} :
                   StartRevoke(r, t, s)
      PROVE  IInv' /\ StoreGrows
  <2>1. /\ t \in SessionId \cup {NoSession}
        /\ DOMAIN sessions \cup {NoSession} \subseteq SessionId \cup {NoSession}
    BY DEF IInv, TypeOK, StoreTypeOK
  <2>2. \E op \in AllOps, s \in SessionId \cup {NoSession},
           pc \in {"lookup", "authenticate"} :
              /\ pc = "authenticate" =>
                    op \notin {"login", "serviceLogin", "refresh"}
              /\ StartOn(r, op, t, s, pc)
    BY <1>3, <2>1 DEF StartRefresh, StartVerify, StartLogout, StartLogoutAll,
                      StartList, StartActivate, StartRevoke, AllOps
  <2>3. QED
    BY <2>1, <2>2, StartOnStep
<1>4. QED
  BY <1>1, <1>2, <1>3 DEF Arrive, TokenRequest

(* A handler answers without a call.                                       *)
LEMMA AnswerStep ==
    ASSUME IInv, NEW r \in Request, NEW a \in Answers,
           Continue(r, Answered(r, a)),
           UNCHANGED <<storeVars, clock, held, touches, faults>>
    PROVE  IInv' /\ StoreGrows
<1>1. Answered(r, a) \in Handler /\ Answered(r, a).pc = "idle"
  BY AnsweredType DEF IInv
<1>2. reqs'[r] = Answered(r, a)
  BY <1>1 DEF Continue, IInv, TypeOK
<1>3. HandlerInv(r)'
  BY <1>1, <1>2, IdleHandlerInv
<1>4. touches' \subseteq [session : SessionId, since : Nat]
  BY DEF IInv, TypeOK
<1>5. QED
  BY <1>1, <1>3, <1>4, LocalStepKeepsInv

(* A handler goes on to a call for which it needs no more than its token,  *)
(* or the record it already addresses.                                     *)
LEMMA GoOnStep ==
    ASSUME IInv, NEW r \in Request, NEW label \in Pcs \ {"authenticate"},
           label \in {"bulkRead", "bulkWrite", "list"} => Stores(TokenOf(r)),
           label = "findTarget" => reqs[r].op = "revokeSession",
           label \notin {"mint", "rotateRead", "rotateCommit", "create",
                         "readBack"},
           NEW tgt \in SessionId \cup {NoSession},
           NEW d \in SessionInput \cup {NoSession},
           NEW S \in SUBSET SessionId,
           label = "revoke" /\ reqs[r].op = "activateContext" =>
               Stores(TokenOf(r)) /\ tgt = TokenOf(r),
           NEW h, h = [reqs[r] EXCEPT !.pc = label, !.target = tgt,
                                      !.draft = d, !.found = S],
           Continue(r, h),
           UNCHANGED <<storeVars, clock, held, faults>>,
           touches' \subseteq [session : SessionId, since : Nat]
    PROVE  IInv' /\ StoreGrows
<1>1. reqs[r] \in Handler
  BY DEF IInv, TypeOK
<1>2. /\ h \in Handler /\ h.pc = label /\ h.token = TokenOf(r)
      /\ h.op = reqs[r].op /\ h.target = tgt
  BY <1>1 DEF Handler, TokenOf
<1>3. reqs'[r] = h
  BY DEF Continue, IInv, TypeOK
<1>4. sessions' = sessions
  BY DEF storeVars
<1>5. HandlerInv(r)'
  BY <1>2, <1>3, <1>4 DEF HandlerInv, At, TokenOf, Stores
<1>6. QED
  BY <1>2, <1>5, LocalStepKeepsInv

LEMMA AuthenticateStep ==
    ASSUME IInv, NEW r \in Request, Authenticate(r)
    PROVE  IInv' /\ StoreGrows
<1> DEFINE t == TokenOf(r)
<1>1. /\ reqs[r] \in Handler /\ reqs[r].pc = "authenticate"
      /\ UNCHANGED <<storeVars, clock, held, faults>>
  BY DEF IInv, TypeOK, Authenticate, At
<1>2. CASE Stores(t) /\ IsValid(t, clock)
  <2>1. t \in SessionId
    BY <1>2 DEF Stores, IInv, TypeOK, StoreTypeOK
  <2>2. touches' \subseteq [session : SessionId, since : Nat]
    BY <1>2, <2>1 DEF Authenticate, SpawnTouch, IInv, TypeOK
  <2>3. PICK next \in AfterAuthentication(r) : Continue(r, next)
    BY <1>2 DEF Authenticate
  <2>4. CASE \E a \in Answers : next = Answered(r, a)
    <3>1. PICK a \in Answers : next = Answered(r, a)
      BY <2>4
    <3>2. next \in Handler /\ next.pc = "idle"
      BY <3>1, AnsweredType DEF IInv
    <3>3. reqs'[r] = next
      BY <2>3 DEF Continue, IInv, TypeOK
    <3>4. HandlerInv(r)'
      BY <3>2, <3>3, IdleHandlerInv
    <3>5. QED
      BY <1>1, <2>2, <2>3, <3>2, <3>4, LocalStepKeepsInv
  <2>5. CASE \E label \in {"lookup", "bulkRead", "list", "findTarget"} :
                /\ next = [reqs[r] EXCEPT !.pc = label]
                /\ label = "findTarget" => reqs[r].op = "revokeSession"
    <3>1. PICK label \in {"lookup", "bulkRead", "list", "findTarget"} :
             /\ next = [reqs[r] EXCEPT !.pc = label]
             /\ label = "findTarget" => reqs[r].op = "revokeSession"
      BY <2>5
    <3>2. next = [reqs[r] EXCEPT !.pc = label, !.target = reqs[r].target,
                                 !.draft = reqs[r].draft,
                                 !.found = reqs[r].found]
      BY <1>1, <3>1 DEF Handler
    <3>3. /\ label \in Pcs \ {"authenticate"}
          /\ reqs[r].target \in SessionId \cup {NoSession}
          /\ reqs[r].draft \in SessionInput \cup {NoSession}
          /\ reqs[r].found \in SUBSET SessionId
      BY <1>1 DEF Handler, Pcs
    <3>4. /\ label \notin {"mint", "rotateRead", "rotateCommit", "create",
                           "readBack"}
          /\ label # "revoke"
          /\ label = "findTarget" => reqs[r].op = "revokeSession"
      BY <3>1
    <3>5. QED
      BY <1>1, <1>2, <2>2, <2>3, <3>2, <3>3, <3>4, GoOnStep
  <2>6. QED
    <3>1. reqs[r].op \in AllOps \ {"login", "serviceLogin", "refresh"}
      BY <1>1 DEF Handler, IInv, HandlerInv, At
    <3>2. \/ \E a \in Answers : next = Answered(r, a)
          \/ \E label \in {"lookup", "bulkRead", "list", "findTarget"} :
                /\ next = [reqs[r] EXCEPT !.pc = label]
                /\ label = "findTarget" => reqs[r].op = "revokeSession"
      BY <1>1, <2>3, <3>1 DEF AfterAuthentication, AllOps, Answers
    <3>3. QED
      BY <2>4, <2>5, <3>2
<1>3. CASE ~(Stores(t) /\ IsValid(t, clock))
  <2>1. /\ Continue(r, Answered(r, "denied"))
        /\ UNCHANGED <<storeVars, clock, held, touches, faults>>
    BY <1>3 DEF Authenticate
  <2>2. QED
    BY <2>1, AnswerStep DEF Answers
<1>4. QED
  BY <1>2, <1>3

LEMMA RefreshLookupStep ==
    ASSUME IInv, NEW r \in Request, RefreshLookup(r)
    PROVE  IInv' /\ StoreGrows
<1> DEFINE t == TokenOf(r)
<1>1. /\ reqs[r] \in Handler /\ reqs[r].op = "refresh"
      /\ UNCHANGED <<storeVars, clock, held, touches, faults>>
      /\ touches' \subseteq [session : SessionId, since : Nat]
  BY DEF IInv, TypeOK, RefreshLookup
<1>2. CASE \/ ~Stores(t)
           \/ ~sessions[t].revoked /\ IsRefreshExpired(t, clock)
  <2>1. \E a \in Answers : Continue(r, Answered(r, a))
    BY <1>2 DEF RefreshLookup, Answers
  <2>2. QED
    BY <1>1, <2>1, AnswerStep
<1>3. CASE Stores(t) /\ sessions[t].revoked
  <2> DEFINE h == [reqs[r] EXCEPT !.pc = "bulkRead"]
  <2>1. Continue(r, h)
    BY <1>3 DEF RefreshLookup
  <2>2. /\ h = [reqs[r] EXCEPT !.pc = "bulkRead",
                               !.target = reqs[r].target,
                               !.draft = reqs[r].draft,
                               !.found = reqs[r].found]
        /\ reqs[r].target \in SessionId \cup {NoSession}
        /\ reqs[r].draft \in SessionInput \cup {NoSession}
        /\ reqs[r].found \in SUBSET SessionId
    BY <1>1 DEF Handler
  <2>3. "bulkRead" \in Pcs \ {"authenticate"}
    BY DEF Pcs
  <2> HIDE DEF h
  <2>4. QED
    BY <1>1, <1>3, <2>1, <2>2, <2>3, GoOnStep
<1>4. CASE /\ Stores(t) /\ ~sessions[t].revoked
           /\ ~IsRefreshExpired(t, clock)
  <2> DEFINE h == [reqs[r] EXCEPT !.pc = "mint", !.draft = RefreshInput(t)]
  <2>1. Continue(r, h)
    BY <1>4 DEF RefreshLookup
  <2>2. /\ RefreshInput(t) \in SessionInput
        /\ RefreshInput(t).parent = t
        /\ RefreshInput(t).refreshExpires = sessions[t].refreshExpires
        /\ RefreshInput(t).decided = clock
    <3>1. t \in SessionId /\ sessions[t] \in Session /\ clock \in Nat
      BY <1>4 DEF IInv, TypeOK, StoreTypeOK, Stores
    <3>2. QED
      BY <3>1 DEF RefreshInput, SessionInput, Session
  <2>3. /\ h \in Handler /\ h.pc = "mint" /\ h.token = t
        /\ h.draft = RefreshInput(t) /\ h.op = "refresh"
    BY <1>1, <2>2 DEF Handler, Pcs, TokenOf
  <2> HIDE DEF h
  <2>4. /\ reqs'[r] = h /\ sessions' = sessions
        /\ clock' = clock /\ clock \in Nat
    BY <1>1, <2>1 DEF Continue, IInv, TypeOK, storeVars
  <2>5. HandlerInv(r)'
    BY <1>4, <2>2, <2>3, <2>4
    DEF HandlerInv, At, TokenOf, Stores, DraftFrom
  <2>6. QED
    BY <1>1, <2>1, <2>3, <2>5, LocalStepKeepsInv
<1>5. QED
  BY <1>2, <1>3, <1>4

(* What a handler has minted is of the type of an input, for the parent it *)
(* was decided for.                                                        *)
LEMMA MintedType ==
    ASSUME TypeOK, NEW r \in Request, reqs[r].draft \in SessionInput,
           reqs[r].draft.decided <= clock
    PROVE  /\ Minted(r) \in SessionInput
           /\ Minted(r).parent = reqs[r].draft.parent
           /\ reqs[r].op = "refresh" =>
                 Minted(r).refreshExpires = reqs[r].draft.refreshExpires
<1> DEFINE d == reqs[r].draft
           e == Stored(clock + AccessTTL)
           f == IF reqs[r].op = "refresh" THEN d.refreshExpires
                ELSE Stored(clock + RefreshTTL)
           l == Stored(clock)
           p == clock - d.decided
<1>1. /\ clock \in Int /\ clock + AccessTTL \in Int
      /\ clock + RefreshTTL \in Int
  BY SessionServiceAssumption DEF TypeOK
<1>2. e \in Int /\ f \in Int /\ l \in Int
  BY <1>1, StoredType DEF SessionInput
<1>3. p \in Nat
  BY DEF SessionInput, TypeOK
<1>4. Minted(r) = [d EXCEPT !.expires = e, !.refreshExpires = f,
                            !.lastSeen = l, !.delay = p]
  BY DEF Minted
<1>5. d \in SessionInput
  OBVIOUS
<1>6. reqs[r].op = "refresh" => f = d.refreshExpires
  OBVIOUS
<1> HIDE DEF d, e, f, l, p
<1>7. Minted(r) \in SessionInput
  BY <1>2, <1>3, <1>4, <1>5 DEF SessionInput
<1>8. Minted(r).parent = d.parent /\ Minted(r).refreshExpires = f
  BY <1>4, <1>5 DEF SessionInput
<1>9. QED
  BY <1>6, <1>7, <1>8 DEF d

LEMMA MintStep ==
    ASSUME IInv, NEW r \in Request, Mint(r)
    PROVE  IInv' /\ StoreGrows
<1> DEFINE d == Minted(r)
           pc == IF reqs[r].op = "refresh" THEN "rotateRead" ELSE "create"
           h == [reqs[r] EXCEPT !.pc = pc, !.draft = d]
<1>1. /\ reqs[r] \in Handler /\ reqs[r].pc = "mint" /\ Continue(r, h)
      /\ UNCHANGED <<storeVars, clock, held, touches, faults>>
      /\ touches' \subseteq [session : SessionId, since : Nat]
      /\ sessions' = sessions
  BY DEF IInv, TypeOK, Mint, At, storeVars
<1>2. /\ reqs[r].draft \in SessionInput /\ reqs[r].draft.decided <= clock
      /\ reqs[r].op = "refresh" => Stores(TokenOf(r)) /\ DraftFrom(r)
      /\ LET p == reqs[r].draft.parent
         IN  reqs[r].op # "refresh" /\ p # NoSession =>
                Stores(p) /\ sessions[p].revoked
  BY <1>1 DEF IInv, HandlerInv, At
<1>3. /\ d \in SessionInput /\ d.parent = reqs[r].draft.parent
      /\ reqs[r].op = "refresh" =>
            d.refreshExpires = reqs[r].draft.refreshExpires
  BY <1>2, MintedType DEF IInv
<1>4. pc \in {"rotateRead", "create"} /\ pc \in Pcs
  BY DEF Pcs
<1> HIDE DEF d
<1>5. /\ h \in Handler /\ h.pc = pc /\ h.op = reqs[r].op
      /\ h.token = TokenOf(r) /\ h.draft = d
  BY <1>1, <1>3, <1>4 DEF Handler, TokenOf
<1> HIDE DEF h
<1>6. reqs'[r] = h
  BY <1>1, <1>5 DEF Continue, IInv, TypeOK
<1>7. HandlerInv(r)'
  <2>1. CASE reqs[r].op = "refresh"
    BY <1>1, <1>2, <1>3, <1>5, <1>6, <2>1
    DEF HandlerInv, At, TokenOf, Stores, DraftFrom
  <2>2. CASE reqs[r].op # "refresh"
    BY <1>1, <1>2, <1>3, <1>5, <1>6, <2>2 DEF HandlerInv, At, Stores
  <2>3. QED
    BY <2>1, <2>2
<1>8. QED
  BY <1>1, <1>5, <1>7, LocalStepKeepsInv

LEMMA RotateReadStep ==
    ASSUME IInv, NEW r \in Request, RotateRead(r)
    PROVE  IInv' /\ StoreGrows
<1> DEFINE o == TokenOf(r)
<1>1. /\ reqs[r] \in Handler /\ Stores(o) /\ DraftFrom(r)
      /\ o \in SessionId /\ sessions[o] \in Session
      /\ sessions' = sessions
      /\ held' \subseteq DOMAIN sessions' /\ faults' \in Nat
      /\ touches' \subseteq [session : SessionId, since : Nat]
      /\ UNCHANGED <<clock, held, faults, touches>>
  BY DEF IInv, TypeOK, StoreTypeOK, HandlerInv, At, Stores, RotateRead
<1>2. CASE sessions[o].revoked
  <2> DEFINE h == [reqs[r] EXCEPT !.pc = "bulkRead", !.draft = NoSession]
  <2>1. Continue(r, h) /\ UNCHANGED <<txn, conflicted>>
    BY <1>1, <1>2 DEF RotateRead, Live
  <2>2. /\ h = [reqs[r] EXCEPT !.pc = "bulkRead", !.target = reqs[r].target,
                               !.draft = NoSession, !.found = reqs[r].found]
        /\ reqs[r].target \in SessionId \cup {NoSession}
        /\ reqs[r].found \in SUBSET SessionId
    BY <1>1 DEF Handler
  <2>3. "bulkRead" \in Pcs \ {"authenticate"}
    BY DEF Pcs
  <2>4. UNCHANGED <<storeVars, clock, held, faults>>
    BY <1>1, <2>1 DEF storeVars
  <2> HIDE DEF h
  <2>5. QED
    BY <1>1, <2>1, <2>2, <2>3, <2>4, GoOnStep
<1>3. CASE ~sessions[o].revoked
  <2> DEFINE d == CarriedForward(o, reqs[r].draft)
             h == [reqs[r] EXCEPT !.pc = "rotateCommit", !.draft = d]
  <2>1. Continue(r, h) /\ BeginTxn(r, o)
    BY <1>1, <1>3 DEF RotateRead, Live
  <2>2. /\ d \in SessionInput /\ d.parent = o
        /\ d.refreshExpires = sessions[o].refreshExpires
        /\ Identity(d) = Identity(sessions[o])
    <3>1. Stored(clock) \in Int
      BY StoredType DEF IInv, TypeOK
    <3>2. /\ reqs[r].draft \in SessionInput /\ reqs[r].draft.parent = o
          /\ reqs[r].draft.refreshExpires = sessions[o].refreshExpires
      BY <1>1 DEF DraftFrom
    <3>3. QED
      BY <1>1, <3>1, <3>2
      DEF CarriedForward, SessionInput, Session, Identity
  <2> HIDE DEF d
  <2>3. h \in Handler /\ h.pc = "rotateCommit" /\ h.token = o /\ h.draft = d
    BY <1>1, <2>2 DEF Handler, Pcs, TokenOf
  <2> HIDE DEF h
  <2>4. StoreTypeOK' /\ StoreInv' /\ StoreGrows
    BY <1>1, <1>3, <2>1, BeginTxnKeepsStore DEF IInv, TypeOK, Live
  <2>5. /\ reqs' = [reqs EXCEPT ![r] = h] /\ reqs'[r] = h
        /\ txn'[r] = {o}
        /\ \A v \in Request \ {r} : txn'[v] = txn[v]
    BY <2>1 DEF Continue, BeginTxn, IInv, TypeOK, StoreTypeOK
  <2>6. HandlerInv(r)'
    BY <1>1, <2>2, <2>3, <2>5 DEF HandlerInv, At, TokenOf, Stores, DraftFrom
  <2>7. IInv'
    BY <1>1, <2>3, <2>4, <2>5, <2>6, HandlerStepKeepsInv
  <2>8. QED
    BY <2>4, <2>7
<1>4. QED
  BY <1>2, <1>3

(* The handler that minted s goes on to read it back.                      *)
LEMMA MintedHandler ==
    ASSUME IInv, NEW r \in Request, NEW s \in SessionId, NEW h,
           h = [reqs[r] EXCEPT !.pc = "readBack", !.target = s,
                               !.draft = NoSession],
           s \in DOMAIN sessions'
    PROVE  h \in Handler /\ (reqs'[r] = h => HandlerInv(r)')
<1>1. reqs[r] \in Handler
  BY DEF IInv, TypeOK
<1>2. h \in Handler /\ h.pc = "readBack" /\ h.target = s
  BY <1>1 DEF Handler, Pcs
<1>3. reqs'[r] = h => HandlerInv(r)'
  BY <1>2 DEF HandlerInv, At, Stores
<1>4. QED
  BY <1>2, <1>3

LEMMA RotateCommitStep ==
    ASSUME IInv, NEW r \in Request, RotateCommit(r)
    PROVE  IInv' /\ StoreGrows
<1> DEFINE o == TokenOf(r)
           d == reqs[r].draft
           h == [reqs[r] EXCEPT !.pc = "readBack", !.target = FreshId,
                                !.draft = NoSession]
<1>1. /\ r \notin conflicted /\ CommitRotation(r, o, FreshId, d)
      /\ Reply(r, h) /\ UNCHANGED <<clock, held, touches>>
  BY DEF RotateCommit
<1>2. /\ o \in DOMAIN sessions /\ txn[r] = {o}
      /\ d \in SessionInput /\ d.parent = o
      /\ Identity(d) = Identity(sessions[o])
  BY DEF RotateCommit, IInv, HandlerInv, At, Stores, DraftFrom
<1>3. FreshId \in SessionId /\ FreshId \notin DOMAIN sessions
  BY FreshIdIsFree DEF RotateCommit
<1> HIDE DEF d, h
<1>4. /\ StoreTypeOK' /\ StoreInv' /\ StoreGrows
      /\ FreshId \in DOMAIN sessions'
  BY <1>1, <1>2, <1>3, RotationKeepsStore DEF IInv, TypeOK
<1>5. h \in Handler /\ (reqs'[r] = h => HandlerInv(r)')
  BY <1>3, <1>4, MintedHandler DEF h
<1>6. \A v \in Request \ {r} : txn'[v] = txn[v]
  BY <1>1 DEF CommitRotation, CommitOver, IInv, TypeOK, StoreTypeOK
<1>7. IInv'
  BY <1>1, <1>4, <1>5, <1>6, ReplyKeepsInv
<1>8. QED
  BY <1>4, <1>7

(* A handler gives up its transaction and answers.                         *)
LEMMA GivesUpStep ==
    ASSUME IInv, NEW r \in Request, NEW h \in Handler, h.pc = "idle",
           EndTxn(r), Continue(r, h), faults' \in Nat,
           UNCHANGED <<sessions, clock, held, touches>>
    PROVE  IInv' /\ StoreGrows
<1>1. StoreTypeOK' /\ StoreInv' /\ StoreGrows
  BY EndTxnKeepsStore DEF IInv, TypeOK
<1>2. /\ reqs' = [reqs EXCEPT ![r] = h] /\ reqs'[r] = h
      /\ \A v \in Request \ {r} : txn'[v] = txn[v]
      /\ clock' = clock /\ held' \subseteq DOMAIN sessions'
      /\ touches' \subseteq [session : SessionId, since : Nat]
  BY DEF Continue, EndTxn, IInv, TypeOK, StoreTypeOK
<1>3. HandlerInv(r)'
  BY <1>2, IdleHandlerInv
<1>4. IInv'
  BY <1>1, <1>2, <1>3, HandlerStepKeepsInv
<1>5. QED
  BY <1>1, <1>4

LEMMA RotateAbortsStep ==
    ASSUME IInv, NEW r \in Request, RotateAborts(r)
    PROVE  IInv' /\ StoreGrows
<1>1. Answered(r, "error") \in Handler /\ Answered(r, "error").pc = "idle"
  BY AnsweredType DEF IInv, Answers
<1>2. /\ EndTxn(r) /\ Continue(r, Answered(r, "error")) /\ faults' \in Nat
      /\ UNCHANGED <<sessions, clock, held, touches>>
  BY DEF RotateAborts, IInv, TypeOK
<1>3. QED
  BY <1>1, <1>2, GivesUpStep

LEMMA CallFailsStep ==
    ASSUME IInv, NEW r \in Request, CallFails(r)
    PROVE  IInv' /\ StoreGrows
<1>1. Failed(r) \in Handler /\ Failed(r).pc = "idle"
  BY FailedType DEF IInv
<1>2. /\ EndTxn(r) /\ Continue(r, Failed(r)) /\ faults' \in Nat
      /\ UNCHANGED <<sessions, clock, held, touches>>
  BY DEF CallFails, IInv, TypeOK
<1>3. QED
  BY <1>1, <1>2, GivesUpStep

LEMMA CreateStep ==
    ASSUME IInv, NEW r \in Request, Create(r)
    PROVE  IInv' /\ StoreGrows
<1> DEFINE d == reqs[r].draft
           h == [reqs[r] EXCEPT !.pc = "readBack", !.target = FreshId,
                                !.draft = NoSession]
<1>1. /\ CommitCreate(FreshId, d) /\ Reply(r, h)
      /\ UNCHANGED <<clock, held, touches>>
  BY DEF Create
<1>2. /\ d \in SessionInput
      /\ d.parent # NoSession => Stores(d.parent) /\ sessions[d.parent].revoked
  BY DEF Create, IInv, HandlerInv, At
<1>3. FreshId \in SessionId /\ FreshId \notin DOMAIN sessions
  BY FreshIdIsFree DEF Create
<1> HIDE DEF d, h
<1>4. /\ StoreTypeOK' /\ StoreInv' /\ StoreGrows
      /\ FreshId \in DOMAIN sessions'
  BY <1>1, <1>2, <1>3, CreateKeepsStore DEF IInv, TypeOK
<1>5. h \in Handler /\ (reqs'[r] = h => HandlerInv(r)')
  BY <1>3, <1>4, MintedHandler DEF h
<1>6. \A v \in Request \ {r} : txn'[v] = txn[v]
  BY <1>1 DEF CommitCreate
<1>7. IInv'
  BY <1>1, <1>4, <1>5, <1>6, ReplyKeepsInv
<1>8. QED
  BY <1>4, <1>7

LEMMA ReadBackStep ==
    ASSUME IInv, NEW r \in Request, ReadBack(r)
    PROVE  IInv' /\ StoreGrows
<1>1. Answered(r, "ok") \in Handler /\ Answered(r, "ok").pc = "idle"
  BY AnsweredType DEF IInv, Answers
<1>2. /\ Stores(reqs[r].target)
      /\ sessions' = sessions /\ txn' = txn /\ conflicted' = conflicted
  BY DEF ReadBack, IInv, HandlerInv, At, storeVars
<1>3. /\ reqs' = [reqs EXCEPT ![r] = Answered(r, "ok")]
      /\ reqs'[r] = Answered(r, "ok")
      /\ \A v \in Request \ {r} : txn'[v] = txn[v]
      /\ clock' = clock /\ held' \subseteq DOMAIN sessions' /\ faults' \in Nat
      /\ touches' \subseteq [session : SessionId, since : Nat]
  BY <1>2 DEF ReadBack, Continue, Stores, IInv, TypeOK
<1>4. StoreTypeOK' /\ StoreInv' /\ StoreGrows
  <2>1. OpenTxnSeesLive'
    BY <1>2 DEF IInv, StoreInv, OpenTxnSeesLive, Live, Stores
  <2>2. QED
    BY <1>2, <2>1, SameSessionsKeepStore DEF IInv, TypeOK, StoreTypeOK
<1>5. HandlerInv(r)'
  BY <1>1, <1>3, IdleHandlerInv
<1>6. IInv'
  BY <1>1, <1>3, <1>4, <1>5, HandlerStepKeepsInv
<1>7. QED
  BY <1>4, <1>6

(* The lookups that lead to a revocation, or to an answer.                 *)
LEMMA ToRevokeStep ==
    ASSUME IInv, NEW r \in Request, NEW tgt \in SessionId \cup {NoSession},
           reqs[r].op = "activateContext" =>
               Stores(TokenOf(r)) /\ tgt = TokenOf(r),
           Continue(r, [reqs[r] EXCEPT !.pc = "revoke", !.target = tgt]),
           UNCHANGED <<storeVars, clock, held, touches, faults>>
    PROVE  IInv' /\ StoreGrows
<1> DEFINE h == [reqs[r] EXCEPT !.pc = "revoke", !.target = tgt]
<1>1. reqs[r] \in Handler /\ Continue(r, h)
  BY DEF IInv, TypeOK
<1>2. /\ h = [reqs[r] EXCEPT !.pc = "revoke", !.target = tgt,
                             !.draft = reqs[r].draft,
                             !.found = reqs[r].found]
      /\ reqs[r].draft \in SessionInput \cup {NoSession}
      /\ reqs[r].found \in SUBSET SessionId
  BY <1>1 DEF Handler
<1>3. /\ "revoke" \in Pcs \ {"authenticate"}
      /\ touches' \subseteq [session : SessionId, since : Nat]
  BY DEF Pcs, IInv, TypeOK
<1> HIDE DEF h
<1> DEFINE d == reqs[r].draft
           S == reqs[r].found
<1>4. /\ d \in SessionInput \cup {NoSession}
      /\ S \in SUBSET SessionId
      /\ h = [reqs[r] EXCEPT !.pc = "revoke", !.target = tgt,
                             !.draft = d, !.found = S]
  BY <1>2
<1> HIDE DEF d, S
<1>5. QED
  BY <1>1, <1>3, <1>4, GoOnStep

LEMMA LookupStep ==
    ASSUME IInv, NEW r \in Request,
           LogoutLookup(r) \/ ActivateLookup(r) \/ FindTarget(r)
    PROVE  IInv' /\ StoreGrows
<1>1. /\ UNCHANGED <<storeVars, clock, held, touches, faults>>
      /\ reqs[r] \in Handler
  BY DEF LogoutLookup, ActivateLookup, FindTarget, IInv, TypeOK
<1>2. CASE \E a \in Answers : Continue(r, Answered(r, a))
  BY <1>1, <1>2, AnswerStep
<1>3. CASE LogoutLookup(r) \/ ActivateLookup(r)
  <2>1. CASE Continue(r, [reqs[r] EXCEPT !.pc = "revoke",
                                         !.target = TokenOf(r)])
             /\ Stores(TokenOf(r))
    <3>1. TokenOf(r) \in SessionId \cup {NoSession}
      BY <1>1 DEF Handler, TokenOf
    <3>2. QED
      BY <1>1, <2>1, <3>1, ToRevokeStep
  <2>2. QED
    BY <1>2, <1>3, <2>1 DEF LogoutLookup, ActivateLookup, Answers
<1>4. CASE FindTarget(r)
  <2>1. CASE Continue(r, [reqs[r] EXCEPT !.pc = "revoke"])
    <3>1. /\ [reqs[r] EXCEPT !.pc = "revoke"]
                = [reqs[r] EXCEPT !.pc = "revoke", !.target = reqs[r].target]
          /\ reqs[r].target \in SessionId \cup {NoSession}
      BY <1>1 DEF Handler
    <3>2. reqs[r].op # "activateContext"
      BY <1>4 DEF FindTarget, IInv, HandlerInv, At
    <3>3. QED
      BY <1>1, <2>1, <3>1, <3>2, ToRevokeStep
  <2>2. QED
    BY <1>2, <1>4, <2>1 DEF FindTarget, Answers
<1>5. QED
  BY <1>3, <1>4

(* The calls that revoke and answer.                                       *)
LEMMA RevokesAndAnswersStep ==
    ASSUME IInv, NEW r \in Request, NEW S, NEW a \in Answers,
           CommitRevocation(r, S), Reply(r, Answered(r, a)),
           UNCHANGED <<clock, held, touches>>
    PROVE  IInv' /\ StoreGrows
<1>1. StoreTypeOK' /\ StoreInv' /\ StoreGrows
  BY RevocationKeepsStore DEF IInv, TypeOK
<1>2. Answered(r, a) \in Handler /\ Answered(r, a).pc = "idle"
  BY AnsweredType DEF IInv
<1>3. reqs'[r] = Answered(r, a) => HandlerInv(r)'
  BY <1>2, IdleHandlerInv
<1>4. \A v \in Request \ {r} : txn'[v] = txn[v]
  BY DEF CommitRevocation, CommitOver, IInv, TypeOK, StoreTypeOK
<1>5. IInv'
  BY <1>1, <1>2, <1>3, <1>4, ReplyKeepsInv
<1>6. QED
  BY <1>1, <1>5

LEMMA RevokeStep ==
    ASSUME IInv, NEW r \in Request, Revoke(r) \/ BulkWrite(r)
    PROVE  IInv' /\ StoreGrows
<1>1. UNCHANGED <<clock, held, touches>>
  BY DEF Revoke, BulkWrite
<1>2. \E a \in Answers, S \in {{reqs[r].target}, reqs[r].found} :
         CommitRevocation(r, S) /\ Reply(r, Answered(r, a))
  BY DEF Revoke, BulkWrite, BulkAnswer, Answers
<1>3. QED
  BY <1>1, <1>2, RevokesAndAnswersStep

LEMMA ActivateRevokeStep ==
    ASSUME IInv, NEW r \in Request, ActivateRevoke(r)
    PROVE  IInv' /\ StoreGrows
<1> DEFINE t == TokenOf(r)
           x == sessions[t]
<1>1. /\ reqs[r] \in Handler /\ t \in DOMAIN sessions
      /\ reqs[r].target = t /\ x \in Session /\ t \in SessionId
      /\ UNCHANGED <<clock, held, touches>>
      /\ CommitRevocation(r, {t})
  BY DEF ActivateRevoke, IInv, TypeOK, StoreTypeOK, HandlerInv, At, Stores
<1>2. PICK ctx \in Context :
         Reply(r, [reqs[r] EXCEPT
                     !.pc = "mint", !.target = NoSession,
                     !.draft = MintInput(x.kind, x.user, x.client, ctx, t)])
  BY DEF ActivateRevoke
<1> DEFINE d == MintInput(x.kind, x.user, x.client, ctx, t)
           h == [reqs[r] EXCEPT !.pc = "mint", !.target = NoSession,
                                !.draft = d]
<1>3. d \in SessionInput /\ d.parent = t /\ d.decided = clock
  <2>1. /\ x.kind \in {"user", "service"} /\ x.user \in User \cup {NoName}
        /\ x.client \in Client \cup {NoName}
        /\ ctx \in Context \cup {NoContext}
        /\ t \in SessionId \cup {NoSession}
        /\ TypeOK
    BY <1>1 DEF Session, IInv
  <2>2. ASSUME NEW kind \in {"user", "service"}, NEW u \in User \cup {NoName},
               NEW c \in Client \cup {NoName}
        PROVE  /\ MintInput(kind, u, c, ctx, t) \in SessionInput
               /\ MintInput(kind, u, c, ctx, t).parent = t
               /\ MintInput(kind, u, c, ctx, t).decided = clock
    BY <2>1, MintInputType
  <2> HIDE DEF x, t
  <2>3. QED
    BY <2>1, <2>2
<1>4. Reply(r, h)
  BY <1>2
<1> HIDE DEF d
<1>5. h \in Handler /\ h.pc = "mint" /\ h.draft = d /\ h.op # "refresh"
  BY <1>1, <1>3 DEF Handler, Pcs, ActivateRevoke
<1> HIDE DEF h, x
<1>6. /\ StoreTypeOK' /\ StoreInv' /\ StoreGrows
      /\ t \in DOMAIN sessions' /\ sessions'[t].revoked
  BY <1>1, RevocationKeepsStore
  DEF IInv, TypeOK, StoreGrows, SessionKept
<1>7. reqs'[r] = h => HandlerInv(r)'
  <2>1. clock' = clock /\ clock \in Nat
    BY <1>1 DEF IInv, TypeOK
  <2>2. QED
    BY <1>3, <1>5, <1>6, <2>1 DEF HandlerInv, At, Stores
<1>8. \A v \in Request \ {r} : txn'[v] = txn[v]
  BY <1>1 DEF CommitRevocation, CommitOver, IInv, TypeOK, StoreTypeOK
<1>9. IInv'
  BY <1>1, <1>4, <1>5, <1>6, <1>7, <1>8, ReplyKeepsInv
<1>10. QED
  BY <1>6, <1>9

LEMMA BulkReadStep ==
    ASSUME IInv, NEW r \in Request, BulkRead(r)
    PROVE  IInv' /\ StoreGrows
<1> DEFINE S == UnrevokedSessions(sessions[TokenOf(r)].user)
<1>1. /\ UNCHANGED <<storeVars, clock, held, touches, faults>>
      /\ reqs[r] \in Handler /\ Stores(TokenOf(r))
      /\ touches' \subseteq [session : SessionId, since : Nat]
  BY DEF BulkRead, IInv, TypeOK, HandlerInv, At
<1>2. CASE S = {}
  <2>1. Continue(r, Answered(r, BulkAnswer(r))) /\ BulkAnswer(r) \in Answers
    BY <1>2 DEF BulkRead, BulkAnswer, Answers
  <2>2. QED
    BY <1>1, <2>1, AnswerStep
<1>3. CASE S # {}
  <2> DEFINE h == [reqs[r] EXCEPT !.pc = "bulkWrite", !.found = S]
  <2>1. Continue(r, h)
    BY <1>3 DEF BulkRead
  <2>2. S \in SUBSET SessionId
    BY DEF UnrevokedSessions, IInv, TypeOK, StoreTypeOK
  <2> HIDE DEF S
  <2>3. /\ h = [reqs[r] EXCEPT !.pc = "bulkWrite",
                               !.target = reqs[r].target,
                               !.draft = reqs[r].draft, !.found = S]
        /\ reqs[r].target \in SessionId \cup {NoSession}
        /\ reqs[r].draft \in SessionInput \cup {NoSession}
        /\ "bulkWrite" \in Pcs \ {"authenticate"}
    BY <1>1 DEF Handler, Pcs
  <2> HIDE DEF h
  <2>4. QED
    BY <1>1, <2>1, <2>2, <2>3, GoOnStep
<1>4. QED
  BY <1>2, <1>3

LEMMA ListStep ==
    ASSUME IInv, NEW r \in Request, List(r)
    PROVE  IInv' /\ StoreGrows
<1> DEFINE S == UnrevokedSessions(sessions[TokenOf(r)].user)
<1>1. /\ UNCHANGED <<storeVars, clock, held, touches, faults>>
      /\ touches' \subseteq [session : SessionId, since : Nat]
  BY DEF List, IInv, TypeOK
<1>2. PICK q \in ByLastSeen(S) :
         Continue(r, [Answered(r, "ok") EXCEPT !.listing = q])
  BY DEF List
<1>3. q \in Seq(SessionId)
  <2>1. S \subseteq SessionId
    BY DEF UnrevokedSessions, IInv, TypeOK, StoreTypeOK
  <2>2. Cardinality(S) \in Nat
    BY <2>1, SessionStoreAssumption, FS_Subset, FS_CardinalityType
  <2>3. q \in [1 .. Cardinality(S) -> S]
    BY DEF ByLastSeen
  <2> HIDE DEF S
  <2>4. q \in Seq(S)
    BY <2>2, <2>3
  <2>5. QED
    BY <2>1, <2>4
<1> DEFINE h == [Answered(r, "ok") EXCEPT !.listing = q]
<1>4. Answered(r, "ok") \in Handler /\ Answered(r, "ok").pc = "idle"
  BY AnsweredType DEF IInv, Answers
<1>5. h \in Handler /\ h.pc = "idle"
  BY <1>3, <1>4 DEF Handler
<1>6. Continue(r, h)
  BY <1>2
<1> HIDE DEF h
<1>7. reqs'[r] = h
  BY <1>6 DEF Continue, IInv, TypeOK
<1>8. HandlerInv(r)'
  BY <1>5, <1>7, IdleHandlerInv
<1>9. QED
  BY <1>1, <1>5, <1>6, <1>8, LocalStepKeepsInv

LEMMA TouchStep ==
    ASSUME IInv, NEW g \in touches, Touch(g)
    PROVE  IInv' /\ StoreGrows
<1>1. /\ g.session \in SessionId /\ g.since \in Nat /\ clock \in Nat
      /\ touches' \subseteq [session : SessionId, since : Nat]
      /\ clock' = clock /\ reqs' = reqs /\ held' = held /\ faults' = faults
      /\ clock' \in Nat /\ clock <= clock'
  BY DEF Touch, IInv, TypeOK
<1>2. StoreTypeOK' /\ StoreInv' /\ StoreGrows /\ txn' = txn
  <2>1. ASSUME NEW t \in g.since .. clock, CommitTouch(g.session, Stored(t))
        PROVE  StoreTypeOK' /\ StoreInv' /\ StoreGrows /\ txn' = txn
    <3>1. Stored(t) \in Int
      BY <1>1, StoredType
    <3>2. QED
      BY <2>1, <3>1, TouchKeepsStore DEF IInv, TypeOK, CommitTouch
  <2>2. CASE UNCHANGED storeVars
    <3>1. sessions' = sessions /\ txn' = txn /\ conflicted' = conflicted
      BY <2>2 DEF storeVars
    <3>2. OpenTxnSeesLive'
      BY <3>1 DEF IInv, StoreInv, OpenTxnSeesLive, Live, Stores
    <3>3. QED
      BY <3>1, <3>2, SameSessionsKeepStore DEF IInv, TypeOK, StoreTypeOK
  <2>3. QED
    BY <2>1, <2>2 DEF Touch
<1>3. TypeOK'
  BY <1>1, <1>2 DEF IInv, TypeOK, StoreGrows, SessionKept
<1>4. \A v \in Request : HandlerInv(v)'
  BY <1>1, <1>2, OthersKeepInv DEF IInv
<1>5. QED
  BY <1>2, <1>3, <1>4 DEF IInv

LEMMA RestartStep ==
    ASSUME IInv, Restart
    PROVE  IInv' /\ StoreGrows
<1>1. StoreTypeOK' /\ StoreInv' /\ StoreGrows
  <2>1. /\ txn' \in [Request -> SUBSET SessionId]
        /\ conflicted' \subseteq Request /\ sessions' = sessions
    BY DEF Restart
  <2>2. OpenTxnSeesLive'
    BY DEF Restart, OpenTxnSeesLive
  <2>3. QED
    BY <2>1, <2>2, SameSessionsKeepStore DEF IInv, TypeOK
<1>2. ASSUME NEW v \in Request
      PROVE  reqs'[v] \in Handler /\ reqs'[v].pc = "idle"
  BY FailedType DEF Restart, Active, IInv, TypeOK
<1>3. TypeOK'
  <2>1. reqs' \in [Request -> Handler]
    BY <1>2 DEF Restart
  <2>2. QED
    BY <1>1, <2>1 DEF Restart, IInv, TypeOK
<1>4. \A v \in Request : HandlerInv(v)'
  BY <1>2, IdleHandlerInv
<1>5. QED
  BY <1>1, <1>3, <1>4 DEF IInv

LEMMA TickStep ==
    ASSUME IInv, UNCHANGED <<storeVars, reqs, held, touches, faults>>,
           clock' \in Nat, clock <= clock'
    PROVE  IInv' /\ StoreGrows
<1>1. /\ sessions' = sessions /\ txn' = txn /\ conflicted' = conflicted
      /\ reqs' = reqs /\ held' = held /\ touches' = touches
      /\ faults' = faults /\ clock \in Nat
  BY DEF storeVars, IInv, TypeOK
<1>2. StoreTypeOK' /\ StoreInv' /\ StoreGrows
  <2>1. OpenTxnSeesLive'
    BY <1>1 DEF IInv, StoreInv, OpenTxnSeesLive, Live, Stores
  <2>2. QED
    BY <1>1, <2>1, SameSessionsKeepStore DEF IInv, TypeOK, StoreTypeOK
<1>3. TypeOK'
  BY <1>1, <1>2 DEF IInv, TypeOK
<1>4. \A v \in Request : HandlerInv(v)'
  BY <1>1, <1>2, OthersKeepInv DEF IInv
<1>5. QED
  BY <1>2, <1>3, <1>4 DEF IInv

-----------------------------------------------------------------------------
LEMMA InitEstablishesInv ==
    ASSUME Init
    PROVE  IInv
<1>1. /\ sessions = [s \in {} |-> NoSession]
      /\ txn = [r \in Request |-> {}] /\ conflicted = {}
      /\ clock = 0 /\ reqs = [r \in Request |-> Idle]
      /\ held = {} /\ touches = {} /\ faults = 0
  BY DEF Init, StoreInit
<1>2. DOMAIN sessions = {} /\ sessions \in [DOMAIN sessions -> Session]
  BY <1>1
<1>3. TypeOK
  BY <1>1, <1>2, IdleType DEF TypeOK, StoreTypeOK
<1>4. StoreInv
  BY <1>1, <1>2
  DEF StoreInv, FamiliesStored, OpenTxnSeesLive, ReplacedIsRevoked,
      RotatedAtMostOnce, OneLivePerFamily, RotationCarriesIdentity
<1>5. \A r \in Request : HandlerInv(r)
  BY <1>1 DEF HandlerInv, At, Idle
<1>6. QED
  BY <1>3, <1>4, <1>5 DEF IInv

(* Whatever handlers, goroutines, the clock and failures do next.          *)
LEMMA NextKeepsInv ==
    ASSUME IInv, [Next]_vars
    PROVE  IInv' /\ StoreGrows
<1>1. CASE Next
  <2>1. ASSUME NEW r \in Request, Arrive(r) \/ Serve(r) \/ CallFails(r)
        PROVE  IInv' /\ StoreGrows
    BY <2>1, ArriveStep, AuthenticateStep, RefreshLookupStep, MintStep,
       RotateReadStep, RotateCommitStep, RotateAbortsStep, CreateStep,
       ReadBackStep,
       LookupStep, RevokeStep, ActivateRevokeStep, BulkReadStep, ListStep,
       CallFailsStep
    DEF Serve
  <2>2. ASSUME NEW g \in touches, Touch(g)
        PROVE  IInv' /\ StoreGrows
    BY <2>2, TouchStep
  <2>3. CASE Restart
    BY <2>3, RestartStep
  <2>4. CASE Tick
    BY <2>4, TickStep DEF Tick, IInv, TypeOK
  <2>5. QED
    BY <1>1, <2>1, <2>2, <2>3, <2>4 DEF Next, Background
<1>2. CASE UNCHANGED vars
  <2>1. /\ UNCHANGED <<storeVars, reqs, held, touches, faults>>
        /\ clock' \in Nat /\ clock <= clock'
    BY <1>2 DEF vars, storeVars, IInv, TypeOK
  <2>2. QED
    BY <2>1, TickStep
<1>3. QED
  BY <1>1, <1>2

(* The inductive invariant holds of every behaviour of the handlers.       *)
THEOREM Invariance == Spec => []IInv
<1>1. Init => IInv
  BY InitEstablishesInv
<1>2. IInv /\ [Next]_vars => IInv'
  BY NextKeepsInv
<1>3. QED
  BY <1>1, <1>2, PTL DEF Spec

(* Every variable keeps its type, whatever the handlers do.                *)
THEOREM TypeCorrect == Spec => []TypeOK
<1>1. IInv => TypeOK
  BY DEF IInv
<1>2. QED
  BY <1>1, Invariance, PTL

(* Of any number of handlers that present one refresh token, and whatever  *)
(* fails between their calls, at most one mints its successor              *)
(* (RotateTokens).                                                         *)
THEOREM RotationIsSingleUse == Spec => []RotatedAtMostOnce
<1>1. IInv => RotatedAtMostOnce
  BY DEF IInv, StoreInv
<1>2. QED
  BY <1>1, Invariance, PTL

(* A chain of rotations has at most one live session at any time, over any *)
(* number of racing refreshes, revocations and restarts (Refresh).         *)
THEOREM FamilyHasOneLive == Spec => []OneLivePerFamily
<1>1. IInv => OneLivePerFamily
  BY DEF IInv, StoreInv
<1>2. QED
  BY <1>1, Invariance, PTL

(* What a rotation or an activation replaces is revoked, from the moment   *)
(* the replacement is stored (RotateTokens, ActivateContext).              *)
THEOREM ReplacementRevokes == Spec => []ReplacedIsRevoked
<1>1. IInv => ReplacedIsRevoked
  BY DEF IInv, StoreInv
<1>2. QED
  BY <1>1, Invariance, PTL

(* Rotation never changes whom a session is for, nor in which context, nor *)
(* the refresh expiry fixed when its family began (RotateTokens, Refresh). *)
THEOREM RotationKeepsIdentity == Spec => []RotationCarriesIdentity
<1>1. IInv => RotationCarriesIdentity
  BY DEF IInv, StoreInv
<1>2. QED
  BY <1>1, Invariance, PTL

(* No step of any writer undoes a revocation or changes what a session     *)
(* stands for (Revoke, RevokeAllForUser, RotateTokens, Touch).             *)
THEOREM RevocationsAreFinal == Spec => RevocationIsFinal
<1>1. IInv /\ [Next]_vars => [\A s \in DOMAIN sessions : SessionKept(s)]_vars
  BY NextKeepsInv DEF StoreGrows
<1>2. QED
  BY <1>1, Invariance, PTL DEF Spec, RevocationIsFinal
=============================================================================

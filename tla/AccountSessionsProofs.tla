------------------------ MODULE AccountSessionsProofs ------------------------
(***************************************************************************)
(* Proofs about AccountSessions: client ids stay unique, a deactivation is *)
(* final and bounds the sessions of its account.  Its steps are steps of   *)
(* SessionService or leave its variables alone, so that the invariants     *)
(* proved of SessionService carry over.                                    *)
(***************************************************************************)
EXTENDS AccountSessions, SessionTimesProofs, SequenceTheorems

-----------------------------------------------------------------------------
(* What carries over.                                                      *)

LEMMA StepImplements ==
    ASSUME [AccountNext]_allVars
    PROVE  [Next]_vars
<1>1. CASE SessionStep
  BY <1>1 DEF SessionStep, Next, Arrive
<1>2. CASE \E r \in Request, c \in Client : AccountLogin(r, c)
  BY <1>2 DEF AccountLogin, Next, Arrive
<1>3. CASE \E a \in Admin : AccountStep(a)
  BY <1>3 DEF AccountStep, CreateAccount, DeactivateLookup,
              CreateAccountCommit, Deactivate, AdminFails
<1>4. CASE UNCHANGED allVars
  BY <1>4 DEF allVars
<1>5. QED
  BY <1>1, <1>2, <1>3, <1>4 DEF AccountNext

LEMMA SpecCarriesOver == AccountSpec => Spec
<1>1. AccountInit => Init
  BY DEF AccountInit
<1>2. QED
  BY <1>1, StepImplements, PTL DEF AccountSpec, Spec

-----------------------------------------------------------------------------
(* The accounts.                                                           *)

(* What a handler that has made its lookup relies on.                      *)
PendingInv(a) ==
    /\ admin[a].pc = "create" /\ ~admin[a].overtaken =>
          accounts[admin[a].client] = << >>
    /\ admin[a].pc = "deactivate" =>
          admin[a].node \in DOMAIN accounts[admin[a].client]

(* Who has been deactivated has an account and no active one.              *)
OffInv ==
    \A c \in DOMAIN off :
        /\ accounts[c] # << >>
        /\ \A i \in DOMAIN accounts[c] : ~accounts[c][i]

AccountInv ==
    /\ AccountTypeOK
    /\ ClientIdsUnique
    /\ OffInv
    /\ \A a \in Admin : PendingInv(a)

LEMMA AdminCases ==
    ASSUME AccountTypeOK, NEW a \in Admin
    PROVE  \/ admin[a] = AdminIdle
           \/ admin[a] \in [pc : {"create"}, client : Client,
                            overtaken : BOOLEAN]
           \/ admin[a] \in [pc : {"deactivate"}, client : Client, node : Nat]
BY DEF AccountTypeOK, AdminHandler

LEMMA AccountStepKeeps ==
    ASSUME AccountInv, TypeOK, NEW a \in Admin, AccountStep(a)
    PROVE  AccountInv'
<1>0. /\ accounts \in [Client -> Seq(BOOLEAN)]
      /\ admin \in [Admin -> AdminHandler]
      /\ DOMAIN off \subseteq Client /\ off \in [DOMAIN off -> Nat]
      /\ clock \in Nat
  BY DEF AccountInv, AccountTypeOK, TypeOK
<1>1. ASSUME NEW c \in Client, CreateAccount(a, c)
      PROVE  AccountInv'
  <2> DEFINE h == [pc |-> "create", client |-> c, overtaken |-> FALSE]
  <2>1. /\ admin' = [admin EXCEPT ![a] = h] /\ h \in AdminHandler
        /\ accounts' = accounts /\ off' = off /\ accounts[c] = << >>
    BY <1>1 DEF CreateAccount, AdminHandler
  <2>2. AccountTypeOK'
    BY <1>0, <2>1 DEF AccountTypeOK
  <2>3. ASSUME NEW b \in Admin PROVE PendingInv(b)'
    <3>1. CASE b = a
      BY <1>0, <2>1, <3>1 DEF PendingInv
    <3>2. CASE b # a
      BY <1>0, <2>1, <3>2 DEF AccountInv, PendingInv
    <3>3. QED
      BY <3>1, <3>2
  <2>4. QED
    BY <2>1, <2>2, <2>3 DEF AccountInv, ClientIdsUnique, OffInv
<1>2. ASSUME NEW c \in Client, DeactivateLookup(a, c)
      PROVE  AccountInv'
  <2>1. PICK i \in DOMAIN accounts[c] :
           admin' = [admin EXCEPT ![a] =
                        [pc |-> "deactivate", client |-> c, node |-> i]]
    BY <1>2 DEF DeactivateLookup
  <2> DEFINE h == [pc |-> "deactivate", client |-> c, node |-> i]
  <2>2. accounts' = accounts /\ off' = off
    BY <1>2 DEF DeactivateLookup
  <2>3. i \in Nat
    BY <1>0
  <2>4. admin' = [admin EXCEPT ![a] = h] /\ h \in AdminHandler
    BY <2>1, <2>3 DEF AdminHandler
  <2>5. AccountTypeOK'
    BY <1>0, <2>2, <2>4 DEF AccountTypeOK
  <2>6. ASSUME NEW b \in Admin PROVE PendingInv(b)'
    <3>1. CASE b = a
      BY <1>0, <2>2, <2>4, <3>1 DEF PendingInv
    <3>2. CASE b # a
      BY <1>0, <2>2, <2>4, <3>2 DEF AccountInv, PendingInv
    <3>3. QED
      BY <3>1, <3>2
  <2>7. QED
    BY <2>2, <2>5, <2>6 DEF AccountInv, ClientIdsUnique, OffInv
<1>3. CASE CreateAccountCommit(a)
  <2> DEFINE c == admin[a].client
  <2>1. /\ admin[a].pc = "create" /\ ~admin[a].overtaken
        /\ off' = off
        /\ accounts' = [accounts EXCEPT ![c] = Append(@, TRUE)]
        /\ admin' = [b \in Admin |->
              IF b = a THEN AdminIdle
              ELSE IF admin[b].pc = "create" /\ admin[b].client = c
                   THEN [admin[b] EXCEPT !.overtaken = TRUE]
                   ELSE admin[b]]
    BY <1>3 DEF CreateAccountCommit
  <2>2. c \in Client /\ accounts[c] = << >>
    BY <2>1, AdminCases DEF AccountInv, AdminIdle, PendingInv
  <2> HIDE DEF c
  <2>3. /\ accounts'[c] = <<TRUE>>
        /\ \A d \in Client \ {c} : accounts'[d] = accounts[d]
        /\ accounts' \in [Client -> Seq(BOOLEAN)]
    <3>1. Append(accounts[c], TRUE) = <<TRUE>>
      BY <2>2
    <3>2. <<TRUE>> \in Seq(BOOLEAN)
      OBVIOUS
    <3>3. accounts' = [accounts EXCEPT ![c] = <<TRUE>>]
      BY <2>1, <3>1
    <3>4. QED
      BY <1>0, <2>2, <3>2, <3>3
  <2>4. ASSUME NEW b \in Admin
        PROVE  /\ admin'[b] \in AdminHandler
               /\ \/ admin'[b] = AdminIdle
                  \/ admin'[b].pc = "create" /\ admin'[b].overtaken
                  \/ admin'[b] = admin[b]
               /\ admin'[b].pc = "create" /\ admin'[b].client = c =>
                     admin'[b].overtaken
    <3>1. CASE b = a
      BY <2>1, <3>1 DEF AdminHandler, AdminIdle
    <3>2. CASE b # a /\ admin[b].pc = "create" /\ admin[b].client = c
      <4>1. admin'[b] = [admin[b] EXCEPT !.overtaken = TRUE]
        BY <2>1, <3>2
      <4>2. admin[b] \in [pc : {"create"}, client : Client,
                          overtaken : BOOLEAN]
        BY <3>2, AdminCases DEF AdminIdle, AccountInv
      <4>3. QED
        BY <4>1, <4>2 DEF AdminHandler
    <3>3. CASE b # a /\ ~(admin[b].pc = "create" /\ admin[b].client = c)
      BY <1>0, <2>1, <3>3
    <3>4. QED
      BY <3>1, <3>2, <3>3
  <2>5. AccountTypeOK'
    <3>1. admin' \in [Admin -> AdminHandler]
      BY <2>1, <2>4
    <3>2. QED
      BY <1>0, <2>1, <2>3, <3>1 DEF AccountTypeOK
  <2>6. ClientIdsUnique'
    <3>1. Len(accounts'[c]) <= 1
      BY <2>3
    <3>2. QED
      BY <2>3, <3>1 DEF AccountInv, ClientIdsUnique
  <2>7. OffInv'
    BY <1>0, <2>1, <2>2, <2>3 DEF AccountInv, OffInv
  <2>8. ASSUME NEW b \in Admin PROVE PendingInv(b)'
    <3>1. CASE admin'[b].pc = "create" /\ ~admin'[b].overtaken
      <4>1. admin'[b] = admin[b] /\ admin[b].client # c
        BY <2>4, <3>1 DEF AdminIdle
      <4>2. admin[b].client \in Client
        BY <3>1, <4>1, AdminCases DEF AccountInv, AdminIdle
      <4>3. QED
        BY <2>3, <3>1, <4>1, <4>2 DEF AccountInv, PendingInv
    <3>2. CASE admin'[b].pc = "deactivate"
      <4>1. admin'[b] = admin[b]
        BY <2>4, <3>2 DEF AdminIdle
      <4>2. /\ admin[b].client \in Client
            /\ admin[b].node \in DOMAIN accounts[admin[b].client]
        BY <3>2, <4>1, AdminCases DEF AccountInv, AdminIdle, PendingInv
      <4>3. admin[b].client # c
        BY <2>2, <4>2
      <4>4. QED
        BY <2>3, <3>2, <4>1, <4>2, <4>3 DEF PendingInv
    <3>3. QED
      BY <3>1, <3>2 DEF PendingInv
  <2>9. QED
    BY <2>5, <2>6, <2>7, <2>8 DEF AccountInv
<1>4. CASE Deactivate(a)
  <2> DEFINE c == admin[a].client
             n == admin[a].node
  <2>1. /\ admin[a].pc = "deactivate"
        /\ accounts' = [accounts EXCEPT ![c][n] = FALSE]
        /\ off' = [d \in DOMAIN off \cup {c} |->
                      IF d \in DOMAIN off THEN off[d] ELSE clock]
        /\ admin' = [admin EXCEPT ![a] = AdminIdle]
    BY <1>4 DEF Deactivate
  <2>2. c \in Client /\ n \in DOMAIN accounts[c]
    BY <2>1, AdminCases DEF AccountInv, AdminIdle, PendingInv
  <2> HIDE DEF c, n
  <2>3. /\ accounts'[c] = [accounts[c] EXCEPT ![n] = FALSE]
        /\ \A d \in Client \ {c} : accounts'[d] = accounts[d]
        /\ accounts' = [d \in Client |-> accounts'[d]]
    BY <1>0, <2>1, <2>2
  <2>4. /\ accounts[c] \in Seq(BOOLEAN) /\ Len(accounts[c]) \in 0 .. 1
        /\ DOMAIN accounts[c] = 1 .. Len(accounts[c])
    <3>1. accounts[c] \in Seq(BOOLEAN) /\ Len(accounts[c]) <= 1
      BY <1>0, <2>2 DEF AccountInv, ClientIdsUnique
    <3>2. Len(accounts[c]) \in Nat /\ DOMAIN accounts[c] = 1 .. Len(accounts[c])
      BY <3>1, LenProperties
    <3>3. \A l \in Nat : l <= 1 => l \in 0 .. 1
      OBVIOUS
    <3>4. QED
      BY <3>1, <3>2, <3>3, Zenon
  <2>5. n = 1 /\ Len(accounts[c]) = 1
    BY <2>2, <2>4
  <2>6. /\ accounts'[c] \in Seq(BOOLEAN)
        /\ DOMAIN accounts'[c] = DOMAIN accounts[c]
        /\ Len(accounts'[c]) = 1
        /\ accounts'[c][1] = FALSE
        /\ accounts'[c] # << >>
    BY <2>2, <2>3, <2>4, <2>5
  <2>7. \A d \in Client : accounts'[d] \in Seq(BOOLEAN)
    BY <1>0, <2>3, <2>6
  <2>8. AccountTypeOK'
    <3>1. accounts' \in [Client -> Seq(BOOLEAN)]
      BY <2>3, <2>7
    <3>2. admin' \in [Admin -> AdminHandler]
      BY <1>0, <2>1 DEF AdminHandler
    <3>3. DOMAIN off' \subseteq Client /\ off' \in [DOMAIN off' -> Nat]
      BY <1>0, <2>1, <2>2
    <3>4. QED
      BY <3>1, <3>2, <3>3 DEF AccountTypeOK
  <2>9. ClientIdsUnique'
    BY <2>3, <2>6 DEF AccountInv, ClientIdsUnique
  <2>10. OffInv'
    <3>1. ASSUME NEW d \in DOMAIN off'
          PROVE  /\ accounts'[d] # << >>
                 /\ \A i \in DOMAIN accounts'[d] : ~accounts'[d][i]
      <4>1. CASE d = c
        BY <2>4, <2>5, <2>6, <4>1
      <4>2. CASE d # c
        <5>1. d \in DOMAIN off /\ d \in Client
          BY <1>0, <2>1, <4>2
        <5>2. QED
          BY <2>3, <4>2, <5>1 DEF AccountInv, OffInv
      <4>3. QED
        BY <4>1, <4>2
    <3>2. QED
      BY <3>1 DEF OffInv
  <2>11. ASSUME NEW b \in Admin PROVE PendingInv(b)'
    <3>1. CASE b = a
      BY <1>0, <2>1, <3>1 DEF PendingInv, AdminIdle
    <3>2. CASE b # a
      <4>1. admin'[b] = admin[b] /\ PendingInv(b)
        BY <1>0, <2>1, <3>2 DEF AccountInv
      <4>2. CASE admin[b].pc = "create" /\ ~admin[b].overtaken
        <5>1. admin[b].client \in Client /\ admin[b].client # c
          <6>1. admin[b] \in AdminHandler /\ admin[b] # AdminIdle
            BY <4>2 DEF AccountInv, AccountTypeOK, AdminIdle
          <6>2. admin[b].client \in Client
            BY <4>2, <6>1 DEF AdminHandler
          <6>3. accounts[admin[b].client] = << >>
            BY <4>1, <4>2 DEF PendingInv
          <6>4. accounts[c] # << >>
            BY <2>2
          <6>5. QED
            BY <6>2, <6>3, <6>4
        <5>2. QED
          BY <2>3, <4>1, <4>2, <5>1 DEF PendingInv
      <4>3. CASE admin[b].pc = "deactivate"
        <5>1. admin[b].client \in Client
          BY <4>3, AdminCases DEF AccountInv, AdminIdle
        <5>2. DOMAIN accounts'[admin[b].client]
                 = DOMAIN accounts[admin[b].client]
          BY <2>3, <2>6, <5>1
        <5>3. QED
          BY <4>1, <4>3, <5>2 DEF PendingInv
      <4>4. QED
        BY <4>1, <4>2, <4>3 DEF PendingInv
    <3>3. QED
      BY <3>1, <3>2
  <2>12. QED
    BY <2>8, <2>9, <2>10, <2>11 DEF AccountInv
<1>5. CASE AdminFails(a)
  <2>1. /\ admin' = [admin EXCEPT ![a] = AdminIdle] /\ accounts' = accounts
        /\ off' = off
    BY <1>5 DEF AdminFails
  <2>2. AccountTypeOK'
    BY <1>0, <2>1 DEF AccountTypeOK, AdminHandler
  <2>3. ASSUME NEW b \in Admin PROVE PendingInv(b)'
    <3>1. CASE b = a
      BY <1>0, <2>1, <3>1 DEF PendingInv, AdminIdle
    <3>2. CASE b # a
      BY <1>0, <2>1, <3>2 DEF AccountInv, PendingInv
    <3>3. QED
      BY <3>1, <3>2
  <2>4. QED
    BY <2>1, <2>2, <2>3 DEF AccountInv, ClientIdsUnique, OffInv
<1>6. QED
  BY <1>1, <1>2, <1>3, <1>4, <1>5 DEF AccountStep

LEMMA NextKeepsAccountInv ==
    ASSUME AccountInv, TypeOK, [AccountNext]_allVars
    PROVE  AccountInv'
<1>1. CASE \E a \in Admin : AccountStep(a)
  BY <1>1, AccountStepKeeps
<1>2. CASE UNCHANGED accountVars
  BY <1>2 DEF accountVars, AccountInv, AccountTypeOK, ClientIdsUnique, OffInv,
              PendingInv
<1>3. QED
  BY <1>1, <1>2 DEF AccountNext, AccountLogin, allVars

LEMMA InitEstablishesAccountInv ==
    ASSUME AccountInit
    PROVE  AccountInv
BY DEF AccountInit, AccountInv, AccountTypeOK, AdminHandler, AdminIdle,
       ClientIdsUnique, OffInv, PendingInv

LEMMA SessionInvariants == AccountSpec => [](IInv /\ HandlerTimes)
BY SpecCarriesOver, Invariance, HandlerTimesInvariant, PTL

(* Accounts, handlers and the history keep their types.                    *)
THEOREM AccountTypeCorrect == AccountSpec => []AccountTypeOK
<1>1. IInv => TypeOK
  BY DEF IInv
<1>2. AccountInv => AccountTypeOK
  BY DEF AccountInv
<1>3. QED
  BY <1>1, <1>2, InitEstablishesAccountInv, NextKeepsAccountInv,
     SessionInvariants, PTL
  DEF AccountSpec

(* The upsert lets no two provisioning handlers create one client id,      *)
(* however their queries and commits interleave (CreateServiceAccount).    *)
THEOREM ClientIdsAreUnique == AccountSpec => []ClientIdsUnique
<1>1. IInv => TypeOK
  BY DEF IInv
<1>2. AccountInv => ClientIdsUnique
  BY DEF AccountInv
<1>3. QED
  BY <1>1, <1>2, InitEstablishesAccountInv, NextKeepsAccountInv,
     SessionInvariants, PTL
  DEF AccountSpec

(* Once a client is deactivated it has no active account again: a creation *)
(* under way at the time is aborted, a later one finds the node            *)
(* (CreateServiceAccount, Deactivate).                                     *)
THEOREM DeactivationsAreFinal == AccountSpec => []DeactivationIsFinal
<1>1. IInv => TypeOK
  BY DEF IInv
<1>2. AccountInv => DeactivationIsFinal
  BY DEF AccountInv, OffInv, DeactivationIsFinal
<1>3. QED
  BY <1>1, <1>2, InitEstablishesAccountInv, NextKeepsAccountInv,
     SessionInvariants, PTL
  DEF AccountSpec

-----------------------------------------------------------------------------
(* What a deactivation bounds.                                             *)

(* The latest time at which a login of c can have read the account active: *)
(* now, until c is deactivated.                                            *)
LatestStart(o, now, c) == IF c \in DOMAIN o THEN o[c] ELSE now

Bound(c) == LatestStart(off, clock, c)

(* A service session whose login read the account by b and the clock at    *)
(* most d later.                                                           *)
Within(x, b, d) ==
    x.kind = "service" =>
        /\ x.refreshExpires <= b + RefreshTTL + d
        /\ x.expires <= b + RefreshTTL + d + AccessTTL + x.delay

(* Such a login, between the two.                                          *)
Decided(x, b) == x.kind = "service" => x.decided <= b

BoundInv ==
    /\ \A s \in DOMAIN sessions :
          Within(sessions[s], Bound(sessions[s].client),
                 sessions[sessions[s].family].delay)
    /\ \A r \in Request :
          At(r, "create") =>
              Within(reqs[r].draft, Bound(reqs[r].draft.client),
                     reqs[r].draft.delay)
    /\ \A r \in Request :
          At(r, "mint") /\ reqs[r].op # "refresh" =>
              Decided(reqs[r].draft, Bound(reqs[r].draft.client))

LEMMA BoundType ==
    ASSUME AccountTypeOK, TypeOK, NEW c
    PROVE  Bound(c) \in Nat
BY DEF AccountTypeOK, TypeOK, Bound, LatestStart

(* Time goes on, and a deactivation stops it for its account.              *)
LEMMA BoundGrows ==
    ASSUME AccountTypeOK, TypeOK, [AccountNext]_allVars, NEW c
    PROVE  Bound(c) <= Bound(c)'
<1>1. clock \in Nat /\ off \in [DOMAIN off -> Nat]
  BY DEF AccountTypeOK, TypeOK
<1>2. clock' = clock \/ clock' = clock + 1
  <2>1. ASSUME NEW r \in Request, Arrive(r) \/ Serve(r) \/ CallFails(r)
        PROVE  clock' = clock
    BY <2>1
    DEF Arrive, TokenRequest, Login, ServiceLogin, StartMint, StartOn,
        StartRefresh, StartVerify, StartLogout, StartLogoutAll, StartList,
        StartActivate, StartRevoke, Serve, Authenticate, RefreshLookup, Mint,
        RotateRead, RotateCommit, RotateAborts, Create, ReadBack,
        LogoutLookup, ActivateLookup, FindTarget, Revoke, ActivateRevoke,
        BulkRead, BulkWrite, List, CallFails
  <2>2. QED
    BY <2>1, StepImplements DEF Next, Background, Touch, Restart, Tick, vars
<1>3. CASE UNCHANGED off
  BY <1>1, <1>2, <1>3 DEF Bound, LatestStart
<1>4. CASE \E a \in Admin : Deactivate(a)
  BY <1>1, <1>4 DEF Deactivate, Bound, LatestStart, vars
<1>5. QED
  BY <1>3, <1>4
  DEF AccountNext, AccountLogin, AccountStep, CreateAccount,
      CreateAccountCommit, DeactivateLookup, AdminFails, accountVars, allVars

(* What the session endpoints draft for a service account is only what a   *)
(* login had decided.                                                      *)
LEMMA SessionStepDrafts ==
    ASSUME IInv, HandlerTimes, SessionStep, NEW v \in Request,
           \/ At(v, "create")'
           \/ At(v, "mint")' /\ reqs'[v].op # "refresh"
    PROVE  \/ reqs'[v] = reqs[v]
           \/ At(v, "mint")' /\ reqs'[v].draft.kind = "user"
           \/ /\ At(v, "create")' /\ At(v, "mint") /\ reqs[v].op # "refresh"
              /\ reqs'[v].draft = Minted(v)
<1> DEFINE Drafts ==
               \/ reqs'[v] = reqs[v]
               \/ At(v, "mint")' /\ reqs'[v].draft.kind = "user"
               \/ /\ At(v, "create")' /\ At(v, "mint")
                  /\ reqs[v].op # "refresh"
                  /\ reqs'[v].draft = Minted(v)
<1>1. ASSUME NEW r \in Request, NEW u \in User, Login(r, u)
      PROVE  Drafts
  <2> DEFINE in == MintInput("user", u, NoName, NoContext, NoSession)
             h == [Idle EXCEPT !.op = "login", !.pc = "mint", !.draft = in]
  <2>1. Continue(r, h)
    BY <1>1 DEF Login, StartMint
  <2>2. in.kind = "user"
    BY DEF MintInput
  <2> HIDE DEF in
  <2>3. h.draft = in /\ h.pc = "mint"
    BY DEF Idle
  <2> HIDE DEF h
  <2>4. QED
    BY <2>1, <2>2, <2>3, ContinueSets DEF At
<1>2. ASSUME NEW r \in Request, TokenRequest(r)
      PROVE  Drafts
  <2>1. PICK op, t, s, pc : /\ StartOn(r, op, t, s, pc)
                            /\ pc \in {"lookup", "authenticate"}
    BY <1>2 DEF TokenRequest, StartRefresh, StartVerify, StartLogout,
                StartLogoutAll, StartList, StartActivate, StartRevoke
  <2> DEFINE before == IF op \in {"refresh", "logoutAll", "listSessions"}
                       THEN DOMAIN sessions ELSE {}
             dead == Stores(t) /\ sessions[t].revoked
             h == [Idle EXCEPT !.op = op, !.pc = pc, !.token = t,
                      !.target = s, !.before = before, !.dead = dead]
  <2>2. Continue(r, h)
    BY <2>1 DEF StartOn
  <2> HIDE DEF before, dead
  <2>3. h.pc = pc
    BY DEF Idle
  <2> HIDE DEF h
  <2>4. v # r
    BY <2>1, <2>2, <2>3, ContinueSets DEF At
  <2>5. QED
    BY <2>2, <2>4, ContinueSets
<1>3. ASSUME NEW r \in Request, Serve(r) \/ CallFails(r)
      PROVE  Drafts
  <2>1. CASE v # r
    BY <1>3, <2>1, ServeMoves
  <2>2. CASE v = r
    <3>1. Moves(v)
      BY <1>3, <2>2, ServeMoves
    <3>2. \A c \in Client : ~ServiceLogin(v, c)
      <4>1. Active(v)
        BY <1>3, <2>2
        DEF Serve, CallFails, Active, At, Authenticate, RefreshLookup, Mint,
            RotateRead, RotateCommit, RotateAborts, Create, ReadBack,
            LogoutLookup, ActivateLookup, FindTarget, Revoke, ActivateRevoke,
            BulkRead, BulkWrite, List
      <4>2. QED
        BY <4>1 DEF ServiceLogin, StartMint
    <3>3. \A kind, u, c, ctx, p : MintInput(kind, u, c, ctx, p).kind = kind
      BY DEF MintInput
    <3>4. At(v, "revoke") /\ reqs[v].op = "activateContext" =>
             sessions[TokenOf(v)].kind = "user"
      BY DEF HandlerTimes, UserActivates, At
    <3>5. QED
      BY <3>1, <3>2, <3>3, <3>4 DEF Moves, At
  <2>3. QED
    BY <2>1, <2>2
<1>4. CASE Restart
  <2>1. Failed(v).pc = "idle"
    BY FailedType DEF IInv
  <2>2. QED
    BY <1>4, <2>1 DEF Restart, At
<1>5. CASE (\E g \in touches : Touch(g)) \/ Tick
  BY <1>5 DEF Touch, Tick
<1>6. QED
  BY <1>1, <1>2, <1>3, <1>4, <1>5 DEF SessionStep, Background

(* A login is decided now, of an account that is not deactivated.          *)
LEMMA LoginDrafts ==
    ASSUME IInv, AccountInv, NEW r \in Request, NEW c \in Client,
           AccountLogin(r, c)
    PROVE  /\ At(r, "mint")'
           /\ reqs'[r].draft.decided = Bound(reqs'[r].draft.client)
           /\ \A v \in Request \ {r} : reqs'[v] = reqs[v]
<1> DEFINE in == MintInput("service", NoName, c, NoContext, NoSession)
           h == [Idle EXCEPT !.op = "serviceLogin", !.pc = "mint",
                             !.draft = in]
<1>1. Continue(r, h)
  BY DEF AccountLogin, ServiceLogin, StartMint
<1>2. c \notin DOMAIN off
  BY DEF AccountInv, OffInv, AccountLogin
<1>3. in.client = c /\ in.decided = clock
  BY DEF MintInput
<1> HIDE DEF in
<1>4. h.draft = in /\ h.pc = "mint"
  BY DEF Idle
<1> HIDE DEF h
<1>5. QED
  BY <1>1, <1>2, <1>3, <1>4, ContinueSets DEF At, Bound, LatestStart

(* What is minted from such a login counts from the clock reading.         *)
LEMMA MintedWithin ==
    ASSUME IInv, NEW r \in Request, At(r, "mint"), reqs[r].op # "refresh",
           NEW b \in Nat, Decided(reqs[r].draft, b)
    PROVE  Within(Minted(r), b, Minted(r).delay)
<1> DEFINE m == Minted(r)
           e == Stored(clock + AccessTTL)
           f == Stored(clock + RefreshTTL)
           d == reqs[r].draft.decided
<1>1. /\ m.expires = e /\ m.refreshExpires = f /\ m.delay = clock - d
      /\ clock \in Nat /\ d \in Nat /\ d <= clock
      /\ m.kind = reqs[r].draft.kind
  BY MintedFields
<1>2. /\ e \in Int /\ f \in Int /\ AccessTTL \in Nat /\ RefreshTTL \in Nat
      /\ e <= clock + AccessTTL /\ f <= clock + RefreshTTL
  BY MintTimes DEF IInv
<1>3. m.kind = "service" => d <= b
  BY <1>1 DEF Decided
<1> HIDE DEF m, e, f, d
<1>4. Within(m, b, m.delay)
  BY <1>1, <1>2, <1>3 DEF Within
<1>5. QED
  BY <1>4 DEF m

(* What holds of a session up to b holds of one that carries as much, up   *)
(* to any later time.                                                      *)
Carries(x, y) ==
    /\ y.kind = x.kind
    /\ y.client = x.client
    /\ y.refreshExpires = x.refreshExpires
    /\ y.expires = x.expires
    /\ y.delay = x.delay

TimesTyped(x) ==
    x.refreshExpires \in Int /\ x.expires \in Int /\ x.delay \in Nat

LEMMA Widens ==
    ASSUME NEW x, NEW y, Carries(x, y), TimesTyped(x), NEW d \in Nat,
           NEW b \in Nat, NEW c \in Nat, b <= c, Within(x, b, d)
    PROVE  Within(y, c, d)
BY SessionServiceAssumption DEF Carries, TimesTyped, Within

(* A rotation of a bounded session is bounded as it is.                    *)
LEMMA RotatedWithin ==
    ASSUME NEW x, NEW p, TimesTyped(x), TimesTyped(p),
           Identity(x) = Identity(p), InWindow(x),
           NEW b \in Nat, NEW d \in Nat, Within(p, b, d)
    PROVE  Within(x, b, d)
<1>1. x.kind = p.kind /\ x.refreshExpires = p.refreshExpires
  BY DEF Identity
<1>2. QED
  BY <1>1, SessionServiceAssumption DEF TimesTyped, InWindow, Within

LEMMA BoundMoves ==
    ASSUME IInv, IInv', AccountInv, AccountInv', [AccountNext]_allVars, NEW c
    PROVE  /\ Bound(c) \in Nat
           /\ LatestStart(off', clock', c) \in Nat
           /\ Bound(c) <= LatestStart(off', clock', c)
<1>1. Bound(c) \in Nat /\ Bound(c)' \in Nat /\ Bound(c) <= Bound(c)'
  BY BoundType, BoundGrows
  DEF IInv, AccountInv, AccountTypeOK, TypeOK, Bound, LatestStart
<1>2. QED
  BY <1>1 DEF Bound

(* A session that carries what a bounded one did stays bounded.            *)
LEMMA CarriesBound ==
    ASSUME IInv, IInv', AccountInv, AccountInv', [AccountNext]_allVars,
           NEW x, NEW y, Carries(x, y), TimesTyped(x), NEW d \in Nat,
           Within(x, Bound(x.client), d)
    PROVE  Within(y, LatestStart(off', clock', y.client), d)
<1> DEFINE b == Bound(x.client)
           c == LatestStart(off', clock', x.client)
<1>1. b \in Nat /\ c \in Nat /\ b <= c
  BY BoundMoves
<1>2. y.client = x.client
  BY DEF Carries
<1> HIDE DEF b, c
<1>3. Within(x, b, d)
  BY DEF b
<1>4. Within(y, c, d)
  BY <1>1, <1>3, Widens
<1>5. QED
  BY <1>2, <1>4 DEF c

LEMMA SessionsStayBounded ==
    ASSUME IInv, IInv', AccountInv, AccountInv', BoundInv, HandlerTimes,
           [AccountNext]_allVars, NEW s \in DOMAIN sessions'
    PROVE  Within(sessions'[s], LatestStart(off', clock', sessions'[s].client),
                  sessions'[sessions'[s].family].delay)
<1>1. TimesKept /\ StoreGrows
  BY StepImplements, NextKeepsTimes, NextKeepsInv
<1>2. ASSUME NEW x \in DOMAIN sessions
      PROVE  /\ TimesTyped(sessions[x])
             /\ sessions[x].family \in DOMAIN sessions
             /\ sessions'[sessions[x].family].delay
                   = sessions[sessions[x].family].delay
             /\ sessions[sessions[x].family].delay \in Nat
             /\ Within(sessions[x], Bound(sessions[x].client),
                       sessions[sessions[x].family].delay)
  <2>1. \A y \in DOMAIN sessions : sessions[y] \in Session
    BY DEF IInv, TypeOK, StoreTypeOK
  <2>2. sessions[x].family \in DOMAIN sessions
    BY DEF IInv, StoreInv, FamiliesStored
  <2>3. QED
    BY <1>1, <2>1, <2>2 DEF TimesKept, TimesTyped, Session, BoundInv
<1>3. CASE s \in DOMAIN sessions
  <2>1. Carries(sessions[s], sessions'[s])
    BY <1>1, <1>3 DEF TimesKept, StoreGrows, SessionKept, Identity, Carries
  <2>2. sessions'[s].family = sessions[s].family
    BY <1>1, <1>3 DEF StoreGrows, SessionKept
  <2> DEFINE x == sessions[s]
             d == sessions[x.family].delay
  <2>3. /\ TimesTyped(x) /\ d \in Nat /\ Within(x, Bound(x.client), d)
        /\ sessions'[sessions'[s].family].delay = d
    BY <1>2, <1>3, <2>2
  <2> HIDE DEF x, d
  <2>4. Carries(x, sessions'[s])
    BY <2>1 DEF x
  <2>5. QED
    BY <2>3, <2>4, CarriesBound
<1>4. CASE s \notin DOMAIN sessions
  <2>1. PICK r \in Request : Joins(s, r) /\ MintedFrom(s, reqs[r].draft)
    BY <1>1, <1>4 DEF TimesKept
  <2> DEFINE x == reqs[r].draft
  <2>2. x \in SessionInput
    BY <2>1 DEF IInv, HandlerInv, DraftFrom, Joins
  <2>3. TimesTyped(x) /\ Carries(x, sessions'[s])
    BY <2>1, <2>2 DEF TimesTyped, SessionInput, MintedFrom, Carries
  <2>4. CASE At(r, "create") /\ sessions'[s].family = s
    <3>1. Within(x, Bound(x.client), x.delay)
      BY <2>4 DEF BoundInv
    <3>2. sessions'[sessions'[s].family].delay = x.delay /\ x.delay \in Nat
      BY <2>3, <2>4 DEF Carries, TimesTyped
    <3> HIDE DEF x
    <3>3. QED
      BY <2>3, <3>1, <3>2, CarriesBound
  <2>5. CASE /\ At(r, "rotateCommit")
             /\ sessions'[s].family = sessions[TokenOf(r)].family
    <3> DEFINE o == TokenOf(r)
               p == sessions[o]
               d == sessions[p.family].delay
               b == Bound(p.client)
    <3>1. /\ o \in DOMAIN sessions /\ Identity(x) = Identity(p)
          /\ InWindow(x)
      BY <2>5 DEF IInv, HandlerInv, HandlerTimes, RotationInTime, At, Stores
    <3>2. /\ TimesTyped(p) /\ d \in Nat /\ Within(p, b, d)
          /\ sessions'[sessions'[s].family].delay = d
      BY <1>2, <2>5, <3>1
    <3>3. b \in Nat
      BY BoundMoves
    <3>4. x.client = p.client
      BY <3>1 DEF Identity
    <3> HIDE DEF x, p, d, b
    <3>5. Within(x, b, d)
      BY <2>3, <3>1, <3>2, <3>3, RotatedWithin
    <3>6. Within(x, Bound(x.client), d)
      BY <3>4, <3>5 DEF b
    <3>7. QED
      BY <2>3, <3>2, <3>6, CarriesBound
  <2>6. QED
    BY <2>1, <2>4, <2>5 DEF Joins
<1>5. QED
  BY <1>3, <1>4

(* What any step makes of a draft that is not a rotation's.                *)
LEMMA StepDrafts ==
    ASSUME IInv, HandlerTimes, AccountInv, [AccountNext]_allVars,
           NEW v \in Request,
           \/ At(v, "create")'
           \/ At(v, "mint")' /\ reqs'[v].op # "refresh"
    PROVE  \/ reqs'[v] = reqs[v]
           \/ /\ At(v, "mint")'
              /\ \/ reqs'[v].draft.kind = "user"
                 \/ reqs'[v].draft.decided = Bound(reqs'[v].draft.client)
           \/ /\ At(v, "create")' /\ At(v, "mint") /\ reqs[v].op # "refresh"
              /\ reqs'[v].draft = Minted(v)
<1>1. CASE SessionStep
  BY <1>1, SessionStepDrafts
<1>2. CASE \E r \in Request, c \in Client : AccountLogin(r, c)
  BY <1>2, LoginDrafts
<1>3. CASE (\E a \in Admin : AccountStep(a)) \/ UNCHANGED allVars
  BY <1>3 DEF AccountStep, CreateAccount, DeactivateLookup,
              CreateAccountCommit, Deactivate, AdminFails, allVars, vars
<1>4. QED
  BY <1>1, <1>2, <1>3 DEF AccountNext

LEMMA CreatesStayBounded ==
    ASSUME IInv, IInv', AccountInv, AccountInv', BoundInv, HandlerTimes,
           [AccountNext]_allVars, NEW r \in Request, At(r, "create")'
    PROVE  Within(reqs'[r].draft,
                  LatestStart(off', clock', reqs'[r].draft.client),
                  reqs'[r].draft.delay)
<1> DEFINE y == reqs'[r].draft
<1>1. TimesTyped(y) /\ Carries(y, y) /\ y.delay \in Nat
  <2>1. y \in SessionInput
    BY DEF IInv, HandlerInv
  <2>2. QED
    BY <2>1 DEF SessionInput, TimesTyped, Carries
<1>2. CASE reqs'[r] = reqs[r]
  <2>1. Within(y, Bound(y.client), y.delay)
    BY <1>2 DEF BoundInv, At
  <2> HIDE DEF y
  <2>2. Within(y, LatestStart(off', clock', y.client), y.delay)
    BY <1>1, <2>1, CarriesBound
  <2>3. QED
    BY <2>2 DEF y
<1>3. CASE At(r, "mint") /\ reqs[r].op # "refresh" /\ y = Minted(r)
  <2> DEFINE b == Bound(y.client)
  <2>1. y.client = reqs[r].draft.client
    BY <1>3, MintedFields
  <2>2. Decided(reqs[r].draft, b)
    BY <1>3, <2>1 DEF BoundInv
  <2>3. b \in Nat
    BY BoundMoves
  <2> HIDE DEF b
  <2>4. Within(y, b, y.delay)
    BY <1>3, <2>2, <2>3, MintedWithin
  <2> HIDE DEF y
  <2>5. Within(y, LatestStart(off', clock', y.client), y.delay)
    BY <1>1, <2>4, CarriesBound DEF b
  <2>6. QED
    BY <2>5 DEF y
<1>4. QED
  BY <1>2, <1>3, StepDrafts DEF At

LEMMA DecisionsStayBounded ==
    ASSUME IInv, IInv', AccountInv, AccountInv', BoundInv, HandlerTimes,
           [AccountNext]_allVars, NEW r \in Request,
           At(r, "mint")', reqs'[r].op # "refresh"
    PROVE  Decided(reqs'[r].draft,
                   LatestStart(off', clock', reqs'[r].draft.client))
<1> DEFINE y == reqs'[r].draft
           b == Bound(y.client)
           c == LatestStart(off', clock', y.client)
<1>1. b \in Nat /\ c \in Nat /\ b <= c
  BY BoundMoves
<1>2. y.decided \in Nat
  BY DEF IInv, HandlerInv, SessionInput
<1>3. Decided(y, b)
  <2>1. CASE reqs'[r] = reqs[r]
    BY <2>1 DEF BoundInv, At
  <2>2. CASE y.kind = "user" \/ y.decided = b
    BY <1>1, <2>2 DEF Decided
  <2>3. QED
    BY <2>1, <2>2, StepDrafts DEF At
<1> HIDE DEF y, b, c
<1>4. Decided(y, c)
  BY <1>1, <1>2, <1>3 DEF Decided
<1>5. QED
  BY <1>4 DEF y, c

LEMMA NextKeepsBound ==
    ASSUME IInv, IInv', HandlerTimes, AccountInv, AccountInv', BoundInv,
           [AccountNext]_allVars
    PROVE  BoundInv'
BY SessionsStayBounded, CreatesStayBounded, DecisionsStayBounded
DEF BoundInv, Bound

(* From a refresh and an access lifetime after its deactivation, no        *)
(* session of a service account is honoured, but for the time that a login *)
(* it raced took before it read the clock, and a rotation between its two  *)
(* readings (Login, Create, Deactivate, Refresh).                          *)
THEOREM DeactivationTakesEffect == AccountSpec => []DeactivationBites
<1>1. AccountInit => BoundInv
  BY DEF AccountInit, Init, StoreInit, BoundInv, At, Idle
<1>2. IInv => TypeOK
  BY DEF IInv
<1>3. BoundInv => DeactivationBites
  BY DEF BoundInv, Within, Bound, LatestStart, DeactivationBites
<1>4. QED
  BY <1>1, <1>2, <1>3, InitEstablishesAccountInv, NextKeepsAccountInv,
     NextKeepsBound, SessionInvariants, PTL
  DEF AccountSpec
=============================================================================

--------------------------- MODULE AccountSessions ---------------------------
(***************************************************************************)
(* Service accounts (service_auth.go, dgraph/service_account.go) and the   *)
(* sessions they open: POST /auth/service/token reads the account before   *)
(* it mints, and nothing reads it again.  The session endpoints are those  *)
(* of SessionService; the endpoints of accounts run beside them.           *)
(*                                                                         *)
(* Client ids are matched exactly and accounts are never removed.  The     *)
(* query of an upsert and its commit are two steps: what other clients of  *)
(* Dgraph commit on the @upsert predicate in between aborts it.            *)
(***************************************************************************)
EXTENDS SessionService

CONSTANT Admin   \* handlers of the account endpoints that may run at once

VARIABLES
    accounts,  \* per client id, the stored nodes: sa.active of each
    admin,     \* the handlers of the account endpoints
    off        \* history: when a client id was deactivated first

accountVars == <<accounts, admin, off>>
allVars == <<vars, accountVars>>

AdminIdle == [pc |-> "idle"]

(* A handler that has made its first call: node is what its lookup found,  *)
(* overtaken whether another commit has written its client id since.       *)
AdminHandler ==
    {AdminIdle}
    \cup [pc : {"create"}, client : Client, overtaken : BOOLEAN]
    \cup [pc : {"deactivate"}, client : Client, node : Nat]

AccountInit ==
    /\ Init
    /\ accounts = [c \in Client |-> << >>]
    /\ admin = [a \in Admin |-> AdminIdle]
    /\ off = [c \in {} |-> 0]

-----------------------------------------------------------------------------
(* Faulty variant: the mutation carries no condition.                      *)
CreateAccount_NoCondition(a, c) ==
    /\ admin[a] = AdminIdle
    /\ admin' = [admin EXCEPT ![a] =
                    [pc |-> "create", client |-> c, overtaken |-> FALSE]]
    /\ UNCHANGED <<vars, accounts, off>>

(* POST /service-accounts: the query of the upsert.  With a node found the *)
(* condition is false, nothing is written and the answer is a conflict.    *)
CreateAccount(a, c) ==
    /\ admin[a] = AdminIdle
    /\ accounts[c] = << >>
    /\ admin' = [admin EXCEPT ![a] =
                    [pc |-> "create", client |-> c, overtaken |-> FALSE]]
    /\ UNCHANGED <<vars, accounts, off>>

(* Faulty variant: sa.client_id is not declared @upsert.                   *)
CreateAccountCommit_NoUpsert(a) ==
    /\ admin[a].pc = "create"
    /\ accounts' = [accounts EXCEPT ![admin[a].client] = Append(@, TRUE)]
    /\ admin' = [admin EXCEPT ![a] = AdminIdle]
    /\ UNCHANGED <<vars, off>>

(* Faulty variant: the node is written without its sa.active.              *)
CreateAccountCommit_NoFlag(a) ==
    /\ admin[a].pc = "create"
    /\ ~admin[a].overtaken
    /\ LET c == admin[a].client
       IN  /\ accounts' = [accounts EXCEPT ![c] = Append(@, NoName)]
           /\ admin' = [b \in Admin |->
                 IF b = a THEN AdminIdle
                 ELSE IF admin[b].pc = "create" /\ admin[b].client = c
                      THEN [admin[b] EXCEPT !.overtaken = TRUE]
                      ELSE admin[b]]
    /\ UNCHANGED <<vars, off>>

(* Its commit, which overtakes the others open on the client id.           *)
CreateAccountCommit(a) ==
    /\ admin[a].pc = "create"
    /\ ~admin[a].overtaken
    /\ LET c == admin[a].client
       IN  /\ accounts' = [accounts EXCEPT ![c] = Append(@, TRUE)]
           /\ admin' = [b \in Admin |->
                 IF b = a THEN AdminIdle
                 ELSE IF admin[b].pc = "create" /\ admin[b].client = c
                      THEN [admin[b] EXCEPT !.overtaken = TRUE]
                      ELSE admin[b]]
    /\ UNCHANGED <<vars, off>>

(* DELETE /service-accounts/{client_id}: the lookup of the node.           *)
DeactivateLookup(a, c) ==
    /\ admin[a] = AdminIdle
    /\ \E i \in DOMAIN accounts[c] :
          admin' = [admin EXCEPT ![a] =
                       [pc |-> "deactivate", client |-> c, node |-> i]]
    /\ UNCHANGED <<vars, accounts, off>>

(* The mutation of it, active or not.                                      *)
Deactivate(a) ==
    /\ admin[a].pc = "deactivate"
    /\ LET c == admin[a].client
       IN  /\ accounts' = [accounts EXCEPT ![c][admin[a].node] = FALSE]
           /\ off' = [d \in DOMAIN off \cup {c} |->
                         IF d \in DOMAIN off THEN off[d] ELSE clock]
    /\ admin' = [admin EXCEPT ![a] = AdminIdle]
    /\ UNCHANGED vars

(* A call fails, is aborted or is cut off: an error, and nothing written.  *)
AdminFails(a) ==
    /\ admin[a] # AdminIdle
    /\ admin' = [admin EXCEPT ![a] = AdminIdle]
    /\ UNCHANGED <<vars, accounts, off>>

-----------------------------------------------------------------------------
(* Faulty variant: the secret is compared and the flag is not.             *)
AccountLogin_AnyAccount(r, c) ==
    /\ accounts[c] # << >>
    /\ ServiceLogin(r, c)
    /\ UNCHANGED accountVars

(* POST /auth/service/token with the right secret: a strong read finds an  *)
(* active account, and the handler goes on to the comparison of the secret *)
(* and to Create, whose clock reading (Mint) may come long after.  Any     *)
(* other outcome is a refusal that changes nothing.                        *)
AccountLogin(r, c) ==
    /\ \E i \in DOMAIN accounts[c] : accounts[c][i]
    /\ ServiceLogin(r, c)
    /\ UNCHANGED accountVars

SessionStep ==
    \/ \E r \in Request :
          \/ \E u \in User : Login(r, u)
          \/ TokenRequest(r)
          \/ Serve(r)
          \/ CallFails(r)
    \/ Background

AccountStep(a) ==
    \/ \E c \in Client : CreateAccount(a, c) \/ DeactivateLookup(a, c)
    \/ CreateAccountCommit(a)
    \/ Deactivate(a)
    \/ AdminFails(a)

AccountNext ==
    \/ SessionStep /\ UNCHANGED accountVars
    \/ \E r \in Request, c \in Client : AccountLogin(r, c)
    \/ \E a \in Admin : AccountStep(a)

AccountSpec == AccountInit /\ [][AccountNext]_allVars

-----------------------------------------------------------------------------
(* Type correctness of the accounts and of their handlers.                 *)
AccountTypeOK ==
    /\ accounts \in [Client -> Seq(BOOLEAN)]
    /\ admin \in [Admin -> AdminHandler]
    /\ DOMAIN off \subseteq Client
    /\ off \in [DOMAIN off -> Nat]

(* However many provisioning requests race, a client id has one account    *)
(* (CreateServiceAccount, its upsert).                                     *)
ClientIdsUnique == \A c \in Client : Len(accounts[c]) <= 1

(* A deactivated client never has an active account again, not even by a   *)
(* provisioning request that was under way when it was deactivated         *)
(* (CreateServiceAccount, Deactivate).                                     *)
DeactivationIsFinal ==
    \A c \in DOMAIN off : \A i \in DOMAIN accounts[c] : ~accounts[c][i]

(* A deactivation takes effect although no session is revoked by it and no *)
(* request looks at the account again: a session of the client is          *)
(* refreshed at most RefreshTTL after it, and used at most AccessTTL after *)
(* that, whether minted before it or by rotations ever since.  A login     *)
(* that had read the account when it came adds the time it took from there *)
(* to its clock reading, and the rotation that minted the session the time *)
(* between its two readings; nothing else does (Login, Create, Deactivate, *)
(* Refresh).                                                               *)
DeactivationBites ==
    \A s \in DOMAIN sessions :
        sessions[s].kind = "service" /\ sessions[s].client \in DOMAIN off
        => LET login == sessions[sessions[s].family]
               last  == off[sessions[s].client] + RefreshTTL + login.delay
           IN  /\ sessions[s].refreshExpires <= last
               /\ sessions[s].expires <= last + AccessTTL + sessions[s].delay
=============================================================================

-------------------------- MODULE SessionLifecycle --------------------------
(***************************************************************************)
(* What the session subsystem promises about sessions, whoever runs        *)
(* concurrently (the contracts of internal/repository/session.go).  A      *)
(* session is opened once, replaced by rotation at most once and only      *)
(* while it is live, and may be ended at any time, together with others of *)
(* the same account.  SessionService is shown to implement this.           *)
(***************************************************************************)
CONSTANTS
    SessionId,  \* sessions
    NoSession,  \* no successor
    Account,    \* whom sessions belong to
    NoAccount   \* the account of a session that does not exist

VARIABLES
    status,     \* "none", "live" or "revoked"
    account,    \* whom it belongs to, once open
    successor   \* the session a rotation replaced it with

lifecycleVars == <<status, account, successor>>

LifecycleTypeOK ==
    /\ status \in [SessionId -> {"none", "live", "revoked"}]
    /\ account \in [SessionId -> Account \cup {NoAccount}]
    /\ successor \in [SessionId -> SessionId \cup {NoSession}]

LifecycleInit ==
    /\ status = [s \in SessionId |-> "none"]
    /\ account = [s \in SessionId |-> NoAccount]
    /\ successor = [s \in SessionId |-> NoSession]

(* Create.                                                                 *)
Open(s, a) ==
    /\ status[s] = "none"
    /\ status' = [status EXCEPT ![s] = "live"]
    /\ account' = [account EXCEPT ![s] = a]
    /\ UNCHANGED successor

(* RotateTokens: one live session becomes another, in one step.            *)
Replace(o, n) ==
    /\ status[o] = "live"
    /\ status[n] = "none"
    /\ status' = [status EXCEPT ![o] = "revoked", ![n] = "live"]
    /\ account' = [account EXCEPT ![n] = account[o]]
    /\ successor' = [successor EXCEPT ![o] = n]

(* Revoke and RevokeAllForUser: open sessions of one account end.          *)
End(S) ==
    /\ \A s, t \in S : status[s] # "none" /\ account[s] = account[t]
    /\ status' = [s \in SessionId |-> IF s \in S THEN "revoked" ELSE status[s]]
    /\ UNCHANGED <<account, successor>>

LifecycleNext ==
    \/ \E s \in SessionId, a \in Account : Open(s, a)
    \/ \E o, n \in SessionId : Replace(o, n)
    \/ \E S \in SUBSET SessionId : End(S)

LifecycleSpec == LifecycleInit /\ [][LifecycleNext]_lifecycleVars
=============================================================================

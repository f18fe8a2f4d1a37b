----------------------------- MODULE VaultClient -----------------------------
(***************************************************************************)
(* vault.Client: the AppRole login, the goroutine that keeps the token     *)
(* alive, and Shutdown.                                                    *)
(*                                                                         *)
(* Time is counted in ticks.  Vault counts the token down (left) from the  *)
(* moment it grants or renews it; the goroutine counts its own timers down *)
(* (timer) from the moment it hears of it.  A goroutine whose timer is due *)
(* or whose channel is closed runs before the next tick.  RenewSelf passes *)
(* no context: only the HTTP timeout of the Vault library bounds it.       *)
(***************************************************************************)
EXTENDS Integers

CONSTANTS
    Leases,    \* the lease durations Vault grants; 0 for a token without one
    MinSleep,  \* client.go: 5 * time.Second, the shortest sleep
    Retry,     \* client.go: 5 * time.Second, the wait after a failed renewal
    CallMax    \* the longest call to Vault

ASSUME LeasesAssumption == Leases \subseteq Nat
ASSUME TimesAssumption ==
    /\ MinSleep \in Nat \ {0}
    /\ Retry \in Nat \ {0}
    /\ CallMax \in Nat

VARIABLES
    left,      \* what is left of the token, at Vault
    lease,     \* the lease of c.secret; 0 when it has none
    renewer,   \* where the goroutine is
    timer,     \* what is left of its timer, or of the time of its call
    granted,   \* the lease Vault has granted to the call in flight, or 0
    failing,   \* the last RenewSelf that returned failed
    closes     \* how often stopCh was closed

vaultVars == <<left, lease, renewer, timer, granted, failing, closes>>

-----------------------------------------------------------------------------
\* Faulty variant: it wakes up a fixed time before the end of the TTL.
SleepFor_Margin(ttl) == ttl - 2 * MinSleep

\* Faulty variant: the goroutine sleeps for the whole TTL.
SleepFor_WholeTTL(ttl) == IF ttl < MinSleep THEN MinSleep ELSE ttl

\* Two thirds of the TTL, and never less than MinSleep.
SleepFor(ttl) ==
    LET twoThirds == (ttl * 2) \div 3
    IN  IF twoThirds < MinSleep THEN MinSleep ELSE twoThirds

Stopping == closes > 0

\* The token has expired: Vault refuses every call made with it.
Lapsed == lease # 0 /\ left = 0

\* The head of the loop: sleep, or give up on a secret without a TTL.
Loop(ttl) ==
    /\ renewer' = IF ttl = 0 THEN "done" ELSE "sleep"
    /\ timer' = IF ttl = 0 THEN 0 ELSE SleepFor(ttl)

VaultInit ==
    /\ left = 0
    /\ lease = 0
    /\ renewer = "none"
    /\ timer = 0
    /\ granted = 0
    /\ failing = FALSE
    /\ closes = 0

\* New: the login is answered, up to CallMax after Vault granted the token,
\* and the goroutine starts.
Login ==
    /\ renewer = "none"
    /\ \E ttl \in Leases, late \in 0 .. CallMax :
          /\ left' = IF late < ttl THEN ttl - late ELSE 0
          /\ lease' = ttl
          /\ Loop(ttl)
    /\ UNCHANGED <<granted, failing, closes>>

\* The timer of the sleep fires and RenewSelf is called.
CallRenew ==
    /\ renewer = "sleep"
    /\ timer = 0
    /\ renewer' = "call"
    /\ timer' = CallMax
    /\ UNCHANGED <<left, lease, granted, failing, closes>>

\* Vault renews a token that has not expired.
VaultRenews ==
    /\ renewer = "call"
    /\ granted = 0
    /\ ~Lapsed
    /\ \E ttl \in Leases \ {0} :
          /\ left' = ttl
          /\ granted' = ttl
    /\ UNCHANGED <<lease, renewer, timer, failing, closes>>

\* RenewSelf returns the renewed secret.
Renewed ==
    /\ renewer = "call"
    /\ granted # 0
    /\ lease' = granted
    /\ granted' = 0
    /\ failing' = FALSE
    /\ Loop(granted)
    /\ UNCHANGED <<left, closes>>

\* Faulty variant: an error ends the goroutine.
RenewFails_GivesUp ==
    /\ renewer = "call"
    /\ renewer' = "done"
    /\ timer' = 0
    /\ granted' = 0
    /\ failing' = TRUE
    /\ UNCHANGED <<left, lease, closes>>

\* RenewSelf fails: refused, unreachable, or the answer is lost.
RenewFails ==
    /\ renewer = "call"
    /\ renewer' = "wait"
    /\ timer' = Retry
    /\ granted' = 0
    /\ failing' = TRUE
    /\ UNCHANGED <<left, lease, closes>>

\* The retry timer fires: continue, with the secret of before.
RetryDue ==
    /\ renewer = "wait"
    /\ timer = 0
    /\ Loop(lease)
    /\ UNCHANGED <<left, lease, granted, failing, closes>>

\* Faulty variant: only the first select looks at stopCh.
SeesStop_SleepOnly == renewer = "sleep" /\ Stopping

\* A select that finds stopCh closed.
SeesStop == renewer \in {"sleep", "wait"} /\ Stopping

StopSeen ==
    /\ SeesStop
    /\ renewer' = "done"
    /\ timer' = 0
    /\ UNCHANGED <<left, lease, granted, failing, closes>>

\* Shutdown: close(stopCh); the caller then waits for RenewerGone.
Shutdown ==
    /\ closes' = closes + 1
    /\ UNCHANGED <<left, lease, renewer, timer, granted, failing>>

RenewerGone == renewer = "done"

\* The goroutine has something to do now.
RenewerDue ==
    \/ renewer \in {"sleep", "wait", "call"} /\ timer = 0
    \/ SeesStop

Less(n) == IF n = 0 THEN 0 ELSE n - 1

VaultTick ==
    /\ ~RenewerDue
    /\ left' = Less(left)
    /\ timer' = Less(timer)
    /\ UNCHANGED <<lease, renewer, granted, failing, closes>>

RenewerStep ==
    \/ CallRenew
    \/ Renewed
    \/ RenewFails
    \/ RetryDue
    \/ StopSeen

-----------------------------------------------------------------------------
\* Type correctness of the client's state.
VaultTypeOK ==
    /\ left \in Nat
    /\ lease \in Leases \cup {0}
    /\ renewer \in {"none", "sleep", "call", "wait", "done"}
    /\ timer \in Nat
    /\ granted \in Leases \cup {0}
    /\ failing \in BOOLEAN
    /\ closes \in Nat

\* A lease is long enough when the end of one call and the whole of the next
\* fit into its last third, and beside the shortest sleep.
LongEnough(ttl) == ttl > 6 * CallMax /\ ttl > MinSleep + 2 * CallMax

(***************************************************************************)
(* renewToken, "Strategy: sleep for 2/3 of the remaining TTL": as long as  *)
(* Vault grants leases that are long enough and every renewal succeeds,    *)
(* the token never expires, however late Vault answers within the limit of *)
(* a call and although the goroutine counts from the answer.               *)
(***************************************************************************)
TokenKept ==
    Lapsed => \/ failing
              \/ ~LongEnough(lease)
              \/ granted # 0 /\ ~LongEnough(granted)
=============================================================================

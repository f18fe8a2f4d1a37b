---------------------------- MODULE SessionStore ----------------------------
(***************************************************************************)
(* The session nodes kept in Dgraph, and the operations SessionRepo        *)
(* (internal/repository/dgraph/session.go) performs on them.               *)
(*                                                                         *)
(* A session is identified with its Dgraph uid, its access/refresh token   *)
(* pair and its refresh JTI: the three are minted together, once, and      *)
(* SHA-256 separates them, so a hash lookup is a lookup by session.        *)
(*                                                                         *)
(* Dgraph is modelled as this code relies on it: a read-only transaction   *)
(* sees the latest commit, a CommitNow mutation is atomic, and an          *)
(* interactive transaction (the one of RotateTokens) aborts at commit when *)
(* another commit has written session.revoked of the node it is about to   *)
(* write since its first query.  Every writer of session.revoked commits   *)
(* through CommitRevocation or CommitRotation, so that conflict is always  *)
(* seen; Touch writes another predicate and conflicts with nobody.         *)
(***************************************************************************)
EXTENDS Integers, FiniteSets

CONSTANTS
    SessionId,      \* the uids, token pairs and JTIs this instance may mint
    NoSession,      \* no session: an unknown token, an empty replaced_by_jti
    User,           \* user ids
    Client,         \* service-account client ids
    NoName,         \* the empty string in session.user_id / session.client_id
    Context,        \* actor contexts (actor id and type, permissions, groups)
    NoContext,      \* a session with no activated context
    Request,        \* the handlers that may be running at once
    TicksPerSecond  \* clock ticks in a second: RFC 3339 text keeps seconds

ASSUME SessionStoreAssumption ==
    /\ IsFiniteSet(SessionId)
    /\ NoSession \notin SessionId
    /\ NoName \notin User \cup Client
    /\ NoContext \notin Context
    /\ TicksPerSecond \in Nat \ {0}

VARIABLES
    sessions,   \* the committed session nodes, by id
    txn,        \* per handler, the session its open transaction will write
    conflicted  \* handlers whose open transaction has been overtaken

storeVars == <<sessions, txn, conflicted>>

-----------------------------------------------------------------------------
(* A stored node.  parent, family and delay are history: the session a     *)
(* rotation or an activation was made from, the login or activation that   *)
(* began the chain of rotations the session belongs to, and how long its   *)
(* handler took from the read or the write that let it mint to the clock   *)
(* reading the expiries are counted from.                                  *)
Session ==
    [kind           : {"user", "service"},
     user           : User \cup {NoName},
     client         : Client \cup {NoName},
     context        : Context \cup {NoContext},
     expires        : Int,
     refreshExpires : Int,
     lastSeen       : Int,
     revoked        : BOOLEAN,
     replacedBy     : SessionId \cup {NoSession},
     parent         : SessionId \cup {NoSession},
     family         : SessionId,
     delay          : Nat]

(* What a caller of Create or RotateTokens passes for the new node, with   *)
(* the history of when it decided to.                                      *)
SessionInput ==
    [kind           : {"user", "service"},
     user           : User \cup {NoName},
     client         : Client \cup {NoName},
     context        : Context \cup {NoContext},
     expires        : Int,
     refreshExpires : Int,
     lastSeen       : Int,
     parent         : SessionId \cup {NoSession},
     decided        : Nat,
     delay          : Nat]

(* A time as it is stored: Format(time.RFC3339) drops what is below a      *)
(* second.                                                                 *)
Stored(t) == t - (t % TicksPerSecond)

Stores(s)   == s \in DOMAIN sessions
Live(s)     == Stores(s) /\ ~sessions[s].revoked
FreeIds     == SessionId \ DOMAIN sessions
FreshId     == CHOOSE s \in SessionId : s \notin DOMAIN sessions

(* Faulty variants, for the checks of the properties.                      *)
IsRefreshExpired_Never(s, now) == FALSE
IsValid_ExpiryOnly(s, now)     == ~(now > sessions[s].expires)

(* Session.IsExpired, IsRefreshExpired and IsValid at time now.            *)
IsExpired(s, now)        == now > sessions[s].expires
IsRefreshExpired(s, now) == now > sessions[s].refreshExpires
IsValid(s, now)          == ~sessions[s].revoked /\ ~IsExpired(s, now)

(* Faulty variant: the filter on the user is missing.                      *)
UnrevokedSessions_AnyUser(u) ==
    {s \in DOMAIN sessions : ~sessions[s].revoked}

(* eq(session.user_id, u) @filter(NOT eq(session.revoked, true)), the      *)
(* query of ListForUser and of RevokeAllForUser.  Service sessions store   *)
(* an empty user id, which u = NoName selects.                             *)
UnrevokedSessions(u) ==
    {s \in DOMAIN sessions : sessions[s].user = u /\ ~sessions[s].revoked}

(* The orders orderasc: session.last_seen_at may return S in; a tie may go *)
(* either way.                                                             *)
ByLastSeen(S) ==
    {q \in [1 .. Cardinality(S) -> S] :
        \A i, j \in 1 .. Cardinality(S) :
            i < j => /\ q[i] # q[j]
                     /\ sessions[q[i]].lastSeen <= sessions[q[j]].lastSeen}

-----------------------------------------------------------------------------
StoreInit ==
    /\ sessions = [s \in {} |-> NoSession]
    /\ txn = [r \in Request |-> {}]
    /\ conflicted = {}

(* w's transaction, if it has one, is over.                                *)
EndTxn(w) ==
    /\ txn' = [txn EXCEPT ![w] = {}]
    /\ conflicted' = conflicted \ {w}

(* A commit of w that writes session.revoked of the sessions S overtakes   *)
(* the other transactions open on one of them.                             *)
CommitOver(w, S) ==
    /\ txn' = [txn EXCEPT ![w] = {}]
    /\ conflicted' =
           (conflicted \cup {v \in Request : txn[v] \cap S # {}}) \ {w}

(* RotateTokens: NewTxn and its first Query, which fixes the snapshot.     *)
BeginTxn(w, s) ==
    /\ txn' = [txn EXCEPT ![w] = {s}]
    /\ conflicted' = conflicted \ {w}

(* The node Create or RotateTokens writes for id s.                        *)
NewNode(s, in, family) ==
    [kind           |-> in.kind,
     user           |-> in.user,
     client         |-> in.client,
     context        |-> in.context,
     expires        |-> in.expires,
     refreshExpires |-> in.refreshExpires,
     lastSeen       |-> in.lastSeen,
     revoked        |-> FALSE,
     replacedBy     |-> NoSession,
     parent         |-> in.parent,
     family         |-> family,
     delay          |-> in.delay]

(* SessionRepo.Create: one CommitNow mutation that adds the node s, which  *)
(* begins a family of its own.                                             *)
CommitCreate(s, in) ==
    /\ sessions' = [x \in DOMAIN sessions \cup {s} |->
                       IF x = s THEN NewNode(s, in, s) ELSE sessions[x]]
    /\ UNCHANGED <<txn, conflicted>>

(* Faulty variant: revoking a revoked session reopens it.                  *)
CommitRevocation_Toggles(w, S) ==
    /\ sessions' = [x \in DOMAIN sessions |->
                       IF x \in S THEN [sessions[x] EXCEPT !.revoked = ~@]
                                  ELSE sessions[x]]
    /\ CommitOver(w, S)

(* Revoke and the mutation of RevokeAllForUser: revoked := true on every   *)
(* session of S, whatever it was.                                          *)
CommitRevocation(w, S) ==
    /\ sessions' = [x \in DOMAIN sessions |->
                       IF x \in S THEN [sessions[x] EXCEPT !.revoked = TRUE]
                                  ELSE sessions[x]]
    /\ CommitOver(w, S)

(* Faulty variant: the mutation creates but does not revoke.               *)
CommitRotation_KeepsOld(w, o, n, in) ==
    /\ sessions' = [x \in DOMAIN sessions \cup {n} |->
                       IF x = n THEN NewNode(n, in, sessions[o].family)
                       ELSE sessions[x]]
    /\ CommitOver(w, {o})

(* RotateTokens, the commit: o is revoked and points to n, and n is added, *)
(* both or neither.                                                        *)
CommitRotation(w, o, n, in) ==
    /\ sessions' =
           [x \in DOMAIN sessions \cup {n} |->
               CASE x = n -> NewNode(n, in, sessions[o].family)
                 [] x = o -> [sessions[o] EXCEPT !.revoked = TRUE,
                                                 !.replacedBy = n]
                 [] OTHER -> sessions[x]]
    /\ CommitOver(w, {o})

(* Faulty variant: it writes the node of the valid session it was given.   *)
CommitTouch_WholeNode(s, at) ==
    /\ sessions' = [x \in DOMAIN sessions |->
                       IF x = s THEN [sessions[x] EXCEPT !.lastSeen = at,
                                                         !.revoked = FALSE]
                                ELSE sessions[x]]
    /\ UNCHANGED <<txn, conflicted>>

(* Touch: last_seen_at := at; on an id with no node it would write a bare  *)
(* predicate that no typed query returns.                                  *)
CommitTouch(s, at) ==
    /\ sessions' = [x \in DOMAIN sessions |->
                       IF x = s THEN [sessions[x] EXCEPT !.lastSeen = at]
                                ELSE sessions[x]]
    /\ UNCHANGED <<txn, conflicted>>

-----------------------------------------------------------------------------
(* The store has its type.                                                 *)
StoreTypeOK ==
    /\ DOMAIN sessions \subseteq SessionId
    /\ sessions \in [DOMAIN sessions -> Session]
    /\ txn \in [Request -> SUBSET SessionId]
    /\ conflicted \subseteq Request

(* What a session stands for: who, in which context, and until when it can *)
(* be refreshed.                                                           *)
Identity(x) == <<x.kind, x.user, x.client, x.context, x.refreshExpires>>

(* s was minted by a rotation of p.                                        *)
RotatedFrom(s, p) ==
    sessions[s].parent = p /\ sessions[s].family = sessions[p].family

(* The rotation of a refresh token succeeds at most once: of two           *)
(* simultaneous refresh requests, and of any number of retries, one mints  *)
(* the session replaced_by_jti names (RotateTokens).                       *)
RotatedAtMostOnce ==
    \A s, p \in DOMAIN sessions :
        RotatedFrom(s, p) => sessions[p].replacedBy = s

(* A session that a rotation or an activation replaced is revoked from the *)
(* moment its replacement exists, whatever fails in between                *)
(* (RotateTokens, ActivateContext).                                        *)
ReplacedIsRevoked ==
    \A s \in DOMAIN sessions :
        LET p == sessions[s].parent
        IN  p # NoSession => p \in DOMAIN sessions /\ sessions[p].revoked

(* However often a refresh token family is rotated, by however many racing *)
(* requests, it has at most one live session (Refresh, RotateTokens).      *)
OneLivePerFamily ==
    \A s, t \in DOMAIN sessions :
        /\ Live(s) /\ Live(t)
        /\ sessions[s].family = sessions[t].family
        => s = t

(* A rotated session is the same principal in the same context, and keeps  *)
(* the refresh expiry of its family (RotateTokens, Refresh).               *)
RotationCarriesIdentity ==
    \A s, p \in DOMAIN sessions :
        RotatedFrom(s, p) => Identity(sessions[s]) = Identity(sessions[p])

(* A family is named after a stored session.                               *)
FamiliesStored ==
    \A s \in DOMAIN sessions : sessions[s].family \in DOMAIN sessions

(* A transaction no commit has overtaken still sees its session live, which *)
(* is what lets RotateTokens commit without looking again.                 *)
OpenTxnSeesLive ==
    \A r \in Request \ conflicted : \A s \in txn[r] : Live(s)

(* What the operations of the store keep among themselves.                 *)
StoreInv ==
    /\ FamiliesStored
    /\ OpenTxnSeesLive
    /\ ReplacedIsRevoked
    /\ RotatedAtMostOnce
    /\ OneLivePerFamily
    /\ RotationCarriesIdentity
=============================================================================

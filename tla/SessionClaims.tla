---------------------------- MODULE SessionClaims ----------------------------
(***************************************************************************)
(* What the comments and the README of the repository say of the session   *)
(* endpoints, where the code does something else.  Each statement here has *)
(* a run of its own, in which TLC shows a behaviour of the code that does  *)
(* not satisfy it.                                                         *)
(***************************************************************************)
EXTENDS SessionService, TLC

Handlers == Permutations(Request)

(* "Revokes every session for the user" (POST /auth/logout-all): none of   *)
(* the families the user had when the request began has a live session     *)
(* once it is answered.  A rotation that commits between the query and the *)
(* mutation of RevokeAllForUser leaves one.                                *)
LogoutAllEndsFamilies ==
    \A r \in Request :
        reqs[r].op = "logoutAll" /\ reqs[r].answer = "ok"
        => \A s \in DOMAIN sessions :
              sessions[s].family \in {sessions[b].family :
                                        b \in StoredBefore(r)}
              => ~Live(s)

(* The principal of a session, of either kind.                             *)
Principal(s) == <<sessions[s].user, sessions[s].client>>

(* "users may only revoke their own sessions" (RevokeSession): whatever    *)
(* the kind of the principal, a request revokes sessions of its own        *)
(* principal only.  Service sessions all store the empty user id, which is *)
(* what the ownership check compares.                                      *)
RevokedByPrincipal ==
    [][\A s \in DOMAIN sessions :
          Live(s) /\ sessions'[s].revoked
          => \E r \in Request :
                /\ reqs'[r] # reqs[r]
                /\ Stores(TokenOf(r))
                /\ Principal(TokenOf(r)) = Principal(s)]_vars
=============================================================================

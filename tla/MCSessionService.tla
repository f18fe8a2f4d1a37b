-------------------------- MODULE MCSessionService --------------------------
(* Instances of SessionService for TLC.                                    *)
EXTENDS SessionService, TLC

Handlers == Permutations(Request)
=============================================================================

-------------------------- MODULE MCAccountSessions --------------------------
(* An instance of AccountSessions for TLC.                                 *)
EXTENDS AccountSessions, TLC

Handlers == Permutations(Request) \cup Permutations(Admin)
=============================================================================

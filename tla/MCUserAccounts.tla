--------------------------- MODULE MCUserAccounts ---------------------------
(* Instances of UserAccounts for TLC: one address in two spellings, and a  *)
(* second one.                                                             *)
EXTENDS UserAccounts, TLC

CONSTANTS a, A, b, r1, r2

LowerCase == [e \in Email |-> IF e = A THEN a ELSE e]

Pages == {<<0, 0>>, <<2, 3>>}

(* Reads disturb nobody, so one client that reads is enough.               *)
Asks ==
    [r \in Request |->
        {"register", "update"}
        \cup IF r = r1 THEN {"login", "get", "list"} ELSE {"delete"}]

Symmetries == Permutations(Nickname)
=============================================================================

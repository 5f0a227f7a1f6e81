------------------------- MODULE MCAccountSessions -------------------------
(* Instances of AccountSessions for TLC.                                   *)
EXTENDS AccountSessions, TLC

\* Sessions, tokens and calls are interchangeable.
Symmetry ==
    Permutations(Sessions) \cup Permutations(Tokens) \cup Permutations(Calls)
===========================================================================

------------------------- MODULE MCWorkspaceMembers -------------------------
(* Instances of WorkspaceMembers for TLC.                                  *)
EXTENDS WorkspaceMembers, TLC

\* Users are interchangeable, and so are calls.
Symmetry == Permutations(Users) \cup Permutations(Calls)
===========================================================================

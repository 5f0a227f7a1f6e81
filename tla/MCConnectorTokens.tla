-------------------------- MODULE MCConnectorTokens --------------------------
(* Instances of ConnectorTokens for TLC.                                     *)
EXTENDS ConnectorTokens, TLC

\* Rows, families, requests and hooks are interchangeable.
Symmetry ==
    Permutations(Credentials) \cup Permutations(Families)
        \cup Permutations(Refreshers) \cup Permutations(Hooks)
==============================================================================

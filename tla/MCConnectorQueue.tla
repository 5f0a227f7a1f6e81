-------------------------- MODULE MCConnectorQueue --------------------------
(* Instances of ConnectorQueue for TLC.                                      *)
EXTENDS ConnectorQueue, TLC

\* Events and hooks are interchangeable.
Symmetry == Permutations(Events) \cup Permutations(Hooks)
=============================================================================

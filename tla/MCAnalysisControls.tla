------------------------- MODULE MCAnalysisControls -------------------------
(* Instances of AnalysisControls for TLC.                                    *)
EXTENDS AnalysisControls, TLC

\* Workers and tenants are interchangeable.
Symmetry == Permutations(Workers) \cup Permutations(Tenants)
=============================================================================

------------------------ MODULE MCAnalysisPipeline ------------------------
(* Instances of AnalysisPipeline for TLC: the sets are given in the .cfg.  *)
EXTENDS AnalysisPipeline, TLC

\* Workers are interchangeable, and so are dispatchers and analyses.
Symmetry ==
    Permutations(Workers) \cup Permutations(Dispatchers) \cup Permutations(Analyses)
===========================================================================

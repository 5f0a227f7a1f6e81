--------------------------- MODULE MCDataLifecycle ---------------------------
(* Instances of DataLifecycle for TLC: the sets are given in the .cfg.     *)
EXTENDS DataLifecycle
===========================================================================

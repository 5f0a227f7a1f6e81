---------------------- MODULE MCDeviceAuthorization ----------------------
(* Instances of DeviceAuthorization for TLC.                              *)
EXTENDS DeviceAuthorization, TLC

\* The requests are interchangeable.
Symmetry == Permutations(Approvers) \cup Permutations(Pollers)
===========================================================================

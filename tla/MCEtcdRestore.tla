---------------------------- MODULE MCEtcdRestore ----------------------------
(* EtcdRestore for TLC.  Restores and pods are model values; nothing tells *)
(* one from another, so they are symmetric in the runs without liveness.   *)
EXTENDS EtcdRestore, TLC

Symmetry == Permutations(Restores) \cup Permutations(Pods)

=============================================================================

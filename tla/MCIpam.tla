-------------------------------- MODULE MCIpam -------------------------------
(* Instances of Ipam for TLC: bytes of four values, and two networks with one *)
(* usable address each beside the gateway.                                    *)
EXTENDS Ipam, TLC

Networks ==
  <<[ip |-> 0, size |-> 4, gateway |-> 1], [ip |-> 4, size |-> 4, gateway |-> 5]>>

Symmetry == Permutations(Machines)
=============================================================================

-------------------------- MODULE MCClusterUpdates --------------------------
(* Clusters go from version 1 to 2 and from 2 to 4, the second time with   *)
(* their nodes.  For nodes of version 2 in a cluster of version 3 the      *)
(* update is an error.                                                     *)
EXTENDS ClusterUpdates, FiniteSetsExt

Automatic ==
  {[from |-> {1}, to |-> 2, automatic |-> TRUE, automaticNodeUpdate |-> FALSE],
   [from |-> {2}, to |-> 4, automatic |-> FALSE, automaticNodeUpdate |-> TRUE]}

(* How many updates a cluster needs, of its control plane and its nodes. *)
Due(c) ==
  (CASE stored[c].version = 1 -> 2 [] stored[c].version = 2 -> 1 [] OTHER -> 0)
    + (IF kubelet[c] = 2 THEN 1 ELSE 0)

(* The bound on the work there is in the beginning: two updates, of one    *)
(* cluster or of two.  Nodes are of version 1, which stay, or 2.           *)
MaxDue == 2

BoundedInit ==
  /\ Init
  /\ MapThenSumSet(Due, Clusters) =< MaxDue
  /\ \A c \in Clusters : kubelet[c] \in {1, 2}

BoundedSpec == BoundedInit /\ [][Next]_vars /\ Fairness
=============================================================================

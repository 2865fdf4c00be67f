--------------------------- MODULE ClusterTeardown ---------------------------
(***************************************************************************)
(* What the deletion of a user cluster promises.                           *)
(*                                                                         *)
(* A cluster owes the removal of some things, one per finalizer.  Until    *)
(* its deletion is requested, both may change in any way.  While some      *)
(* controller still acts on what it read before the request, debts may get *)
(* lost but none is added.  From then on a thing that is owed is removed   *)
(* only when all that must go before it is not owed any more, and a debt   *)
(* is written off only when its thing is gone (for some things: on its     *)
(* way out).  The cluster ceases to exist with its last debt.  What nobody *)
(* owes may appear and stay.                                               *)
(***************************************************************************)
CONSTANTS
  Debts,      \* the finalizers
  Before,     \* for each of them, those that must be gone before
  Refillable, \* things that may reappear while they are owed
  Unawaited   \* things whose removal is requested but not awaited

VARIABLES
  phase,  \* "alive", "requested", "deleting" or "gone"
  owed,   \* the finalizers the cluster has
  things  \* the state of the thing each finalizer stands for

teardownVars == <<phase, owed, things>>

States == {"absent", "present", "deleting"}

TeardownInit ==
  /\ phase = "alive"
  /\ owed \in SUBSET Debts
  /\ things \in [Debts -> States]

Live ==
  /\ phase = "alive" /\ phase' = "alive"
  /\ owed' \in SUBSET Debts
  /\ things' \in [Debts -> States]

Request ==
  /\ phase = "alive" /\ phase' = "requested"
  /\ UNCHANGED <<owed, things>>

\* Not all controllers have noticed the request
Unnoticed ==
  /\ phase = "requested"
  /\ owed' \in SUBSET owed
  /\ things' \in [Debts -> States]
  /\ phase' \in IF owed' = {} THEN {"gone"} ELSE {"requested", "deleting"}

\* The state of a thing may turn from v to w during the deletion
MayTurn(d, v, w) ==
  \/ d \notin owed
  \/ w = v
  \/ v = "deleting" /\ w = "absent"
  \/ v = "present" /\ w \in {"deleting", "absent"} /\ Before[d] \cap owed = {}
  \/ d \in Refillable /\ v = "absent" /\ w = "present"

Turn ==
  /\ phase \in {"deleting", "gone"}
  /\ things' \in [Debts -> States]
  /\ \A d \in Debts : MayTurn(d, things[d], things'[d])
  /\ UNCHANGED <<phase, owed>>

MayWriteOff(d) == things[d] = "absent" \/ (d \in Unawaited /\ things[d] = "deleting")

WriteOff ==
  /\ phase = "deleting"
  /\ owed' \in SUBSET owed
  /\ \A d \in owed \ owed' : MayWriteOff(d) /\ Before[d] \cap owed' = {}
  /\ phase' = IF owed' = {} THEN "gone" ELSE "deleting"
  /\ UNCHANGED things

TeardownNext == Live \/ Request \/ Unnoticed \/ Turn \/ WriteOff

TeardownSpec == TeardownInit /\ [][TeardownNext]_teardownVars
=============================================================================

-------------------------------- MODULE Ipam --------------------------------
(***************************************************************************)
(* The ipam controller of one user cluster.  It gives each machine that    *)
(* carries the initializer annotation "ipam" a free address of the         *)
(* cluster's machine networks, and tells which addresses are free from the *)
(* machines in its cache.  It has one worker.                              *)
(*                                                                         *)
(* Abstractions.  An address is a number whose last byte is its remainder  *)
(* modulo Byte.  Of a machine the deletion, the annotation and the address *)
(* in its provider config are kept.  A write by somebody else that changes *)
(* none of them still makes an Update of an older copy fail.  The reads of *)
(* one reconciliation are one step; a restarted controller lists the       *)
(* machines anew before it reconciles any.                                 *)
(***************************************************************************)
EXTENDS Integers, Sequences

CONSTANTS
  Machines,
  CidrRanges,  \* the machine networks, in order: [ip, size, gateway]
  Byte,        \* number of values of a byte, 256 in the code
  Failures,    \* the kinds of failures that happen
  MaxFaults    \* bound: failures in a behaviour

FailureKinds == {"restart", "conflict", "refused", "unanswered", "timeout"}

ASSUME IpamConstants ==
  /\ Machines # {}
  /\ CidrRanges \in Seq([ip : Nat, size : Nat, gateway : Nat])
  /\ Byte \in Nat \ {0}
  /\ Failures \subseteq FailureKinds
  /\ MaxFaults \in Nat

VARIABLES
  stored,   \* the machines in the API server
  seen,     \* the machines in the controller's cache
  outdated, \* machines of which only the cached resourceVersion is old
  queue,    \* machines to reconcile
  worker,   \* where the worker stands: its machine, the address it has chosen
            \* and whether the copy of the machine is the latest
  unsure,   \* the controller has at some time not learnt of its own write
  faults    \* failures so far

vars == <<stored, seen, outdated, queue, worker, unsure, faults>>

NoIP == -1
Machine == [status : {"unborn", "live", "deleting", "gone"}, pending : BOOLEAN, ip : Nat \cup {NoIP}]
Unborn == [status |-> "unborn", pending |-> FALSE, ip |-> NoIP]
Idle == [at |-> "idle", m |-> CHOOSE m \in Machines : TRUE, ip |-> NoIP, fresh |-> FALSE]

\* Every variable holds a value of its type; a worker that is not idle has chosen
\* an address.
TypeOK ==
  /\ stored \in [Machines -> Machine] /\ seen \in [Machines -> Machine]
  /\ outdated \subseteq Machines /\ queue \subseteq Machines
  /\ worker \in [at : {"idle", "update", "wait"}, m : Machines, ip : Nat \cup {NoIP}, fresh : BOOLEAN]
  /\ worker.at # "idle" => worker.ip # NoIP
  /\ unsure \in BOOLEAN /\ faults \in 0 .. MaxFaults

----------------------------------------------------------------------------
(* The choice of an address *)

\* Machines being deleted have given their address back
GetUsedIPs(machines) ==
  {machines[m].ip : m \in {n \in Machines : machines[n].status = "live"}} \ {NoIP}

\* The addresses that getNextFreeIPForCIDR does not skip ...
FreeIPs(network, used) ==
  {a \in network.ip .. network.ip + network.size - 1 :
     a % Byte \notin {0, Byte - 1} /\ a # network.gateway /\ a \notin used}

\* ... and the one it returns, if any
GetNextFreeIPForCIDR(network, used) ==
  {a \in FreeIPs(network, used) : \A b \in FreeIPs(network, used) : a <= b}

(* mutant: the error of an exhausted network is ignored, its nil address returned. *)
GetNextFreeIPNil(used) ==
  IF FreeIPs(CidrRanges[1], used) = {} THEN {NoIP} ELSE GetNextFreeIPForCIDR(CidrRanges[1], used)

\* The address of the first network that is not exhausted, if any
GetNextFreeIP(used) ==
  UNION {GetNextFreeIPForCIDR(CidrRanges[k], used) :
           k \in {i \in DOMAIN CidrRanges : \A j \in 1 .. i - 1 : FreeIPs(CidrRanges[j], used) = {}}}

----------------------------------------------------------------------------
(* The controller *)

\* A reconciliation that ends with an error is repeated
Fails == worker' = Idle /\ queue' = queue \cup {worker.m}

\* reconcile up to its Update
Reconcile(m) ==
  /\ worker.at = "idle" /\ m \in queue
  /\ \/ /\ seen[m].status # "live" \/ ~seen[m].pending
        /\ queue' = queue \ {m} /\ UNCHANGED worker
     \/ /\ seen[m].status = "live" /\ seen[m].pending
        /\ GetNextFreeIP(GetUsedIPs(seen)) = {}
        /\ UNCHANGED <<queue, worker>>
     \/ /\ seen[m].status = "live" /\ seen[m].pending
        /\ \E a \in GetNextFreeIP(GetUsedIPs(seen)) :
             worker' = [at |-> "update", m |-> m, ip |-> a,
                        fresh |-> seen[m] = stored[m] /\ m \notin outdated]
        /\ queue' = queue \ {m}
  /\ UNCHANGED <<stored, seen, outdated, unsure, faults>>

\* The machine with the address and without the annotation
Initialized(machine, a) == [machine EXCEPT !.pending = FALSE, !.ip = a]

(* mutant: the machine is patched, which does not fail on an old copy. *)
UpdateMachineBlindly ==
  /\ worker.at = "update"
  /\ stored' = [stored EXCEPT ![worker.m] = Initialized(@, worker.ip)]
  /\ worker' = [worker EXCEPT !.at = "wait", !.fresh = FALSE]
  /\ UNCHANGED <<queue, seen, outdated, unsure, faults>>

\* Update refuses an old copy
UpdateMachine ==
  /\ worker.at = "update"
  /\ \/ /\ worker.fresh
        /\ stored' = [stored EXCEPT ![worker.m] = Initialized(@, worker.ip)]
        /\ worker' = [worker EXCEPT !.at = "wait", !.fresh = FALSE]
        /\ UNCHANGED queue
     \/ ~worker.fresh /\ Fails /\ UNCHANGED stored
  /\ UNCHANGED <<seen, outdated, unsure, faults>>

(* mutant: it is enough that the machine is still in the cache. *)
AwaitCacheLess ==
  /\ worker.at = "wait"
  /\ \/ seen[worker.m].status # "gone" /\ worker' = Idle /\ UNCHANGED queue
     \/ seen[worker.m].status = "gone" /\ Fails
  /\ UNCHANGED <<stored, seen, outdated, unsure, faults>>

(* mutant: reconcile forgets that the machine may be gone when it polls. *)
AwaitCacheForever ==
  /\ worker.at = "wait"
  /\ seen[worker.m].ip = worker.ip /\ seen[worker.m].status # "gone"
  /\ worker' = Idle
  /\ UNCHANGED <<stored, seen, outdated, queue, unsure, faults>>

\* Blocks until the address is in the cache, or the machine no longer is
AwaitCache ==
  /\ worker.at = "wait"
  /\ \/ seen[worker.m].status = "gone" /\ Fails
     \/ /\ seen[worker.m].status # "gone" /\ seen[worker.m].ip = worker.ip
        /\ worker' = Idle /\ UNCHANGED queue
  /\ UNCHANGED <<stored, seen, outdated, unsure, faults>>

----------------------------------------------------------------------------
(* The environment *)

\* Watch events arrive: the cache is a snapshot of the past that moves on
Sync ==
  /\ seen # stored \/ outdated # {}
  /\ seen' = stored /\ outdated' = {}
  /\ queue' = queue \cup outdated \cup {m \in Machines : seen[m] # stored[m]}
  /\ UNCHANGED <<stored, worker, unsure, faults>>

\* A write by somebody else makes the worker's copy of the machine an old one
Outdates(m) == worker' = [worker EXCEPT !.fresh = @ /\ worker.m # m]

Changes(m, machine) ==
  /\ stored' = [stored EXCEPT ![m] = machine]
  /\ Outdates(m)
  /\ UNCHANGED <<seen, outdated, queue, unsure, faults>>

\* Users and the machine controller
CreateMachine(m) ==
  stored[m].status = "unborn" /\ Changes(m, [status |-> "live", pending |-> TRUE, ip |-> NoIP])
DeleteMachine(m) ==
  stored[m].status = "live" /\ Changes(m, [stored[m] EXCEPT !.status = "deleting"])
MachineGone(m) ==
  stored[m].status = "deleting" /\ Changes(m, [stored[m] EXCEPT !.status = "gone"])

Happens(failure) ==
  /\ failure \in Failures /\ faults < MaxFaults
  /\ faults' = faults + 1
  /\ unsure' = (unsure \/ failure \in {"unanswered", "timeout"})

\* The process is restarted
Restart ==
  /\ Happens("restart")
  /\ seen' = stored /\ outdated' = {}
  /\ queue' = {m \in Machines : stored[m].status \in {"live", "deleting"}}
  /\ worker' = Idle
  /\ UNCHANGED stored

\* Somebody else writes a machine
Conflict ==
  /\ Happens("conflict")
  /\ \E m \in Machines :
       /\ stored[m].status \in {"live", "deleting"}
       /\ outdated' = outdated \cup {m}
       /\ Outdates(m)
  /\ UNCHANGED <<stored, seen, queue>>

\* The Update fails, and nothing is written ...
Refused ==
  /\ Happens("refused") /\ worker.at = "update"
  /\ Fails
  /\ UNCHANGED <<stored, seen, outdated>>

\* ... or only its answer is lost
Unanswered ==
  /\ Happens("unanswered") /\ worker.at = "update" /\ worker.fresh
  /\ stored' = [stored EXCEPT ![worker.m] = Initialized(@, worker.ip)]
  /\ Fails
  /\ UNCHANGED <<seen, outdated>>

\* The cache takes more than the sixty seconds that reconcile polls it
Timeout ==
  /\ Happens("timeout") /\ worker.at = "wait" /\ seen[worker.m].ip # worker.ip
  /\ Fails
  /\ UNCHANGED <<stored, seen, outdated>>

Fault == Restart \/ Conflict \/ Refused \/ Unanswered \/ Timeout

Init ==
  /\ stored = [m \in Machines |-> Unborn] /\ seen = stored
  /\ outdated = {} /\ queue = {} /\ worker = Idle
  /\ unsure = FALSE /\ faults = 0

Next ==
  \/ \E m \in Machines :
       Reconcile(m) \/ CreateMachine(m) \/ DeleteMachine(m) \/ MachineGone(m)
  \/ UpdateMachine \/ AwaitCache \/ Sync \/ Fault

Spec == Init /\ [][Next]_vars

\* The queue forgets no machine, the worker goes on and the cache catches up;
\* nothing forces users or failures
Fairness ==
  /\ \A m \in Machines : SF_vars(Reconcile(m))
  /\ WF_vars(UpdateMachine) /\ WF_vars(AwaitCache) /\ WF_vars(Sync)

FairSpec == Spec /\ Fairness

----------------------------------------------------------------------------
(* Properties *)

HasIP(m) == stored[m].status = "live" /\ stored[m].ip # NoIP

\* reconcile never hands out an address twice: what the comment on its last
\* statement says.  Machines being deleted do not count.
UniqueIPs ==
  \A m, n \in Machines : HasIP(m) /\ HasIP(n) /\ stored[m].ip = stored[n].ip => m = n

\* reconcile hands out no address twice, although it reads the addresses in use
\* from a cache that lags behind, as long as it learns of its own writes: no
\* answer to an Update has been lost, and the cache has always caught up within
\* the time of the poll.
UniqueWhenSure == ~unsure => UniqueIPs

\* The address of a machine never changes: a reconciliation that finds the
\* annotation in an old copy chooses another one, but its Update is refused.
IPsKept ==
  [][\A m \in Machines : stored[m].ip # NoIP => stored'[m].ip = stored[m].ip]_vars

\* A machine does not wait for ever for an address while there are free ones:
\* failed reconciliations are repeated, and the worker never blocks for good.
NobodyForgotten ==
  \A m \in Machines :
    []<>(\/ ~(stored[m].status = "live" /\ stored[m].pending)
         \/ GetNextFreeIP(GetUsedIPs(stored)) = {})
=============================================================================

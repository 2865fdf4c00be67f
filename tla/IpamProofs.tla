----------------------------- MODULE IpamProofs -----------------------------
(***************************************************************************)
(* Theorems about Ipam, for any machines and networks and any number of    *)
(* failures.  The inductive invariant says how the cache trails the API    *)
(* server, what the worker knows of the machine it works on, and, while    *)
(* the controller is sure of its writes, that the cache holds every        *)
(* address but the one the worker has just written.                        *)
(***************************************************************************)
EXTENDS Ipam, TLAPS

\* A machine has no address before it exists and while it carries the annotation
NoIPYet(machines) ==
  \A m \in Machines : machines[m].status = "unborn" \/ machines[m].pending => machines[m].ip = NoIP

\* The cache shows a past state of every machine
CacheTrails ==
  \A m \in Machines :
    /\ seen[m].ip # NoIP => stored[m].ip = seen[m].ip
    /\ stored[m].status \in {"unborn", "live"} => seen[m].status \in {"unborn", "live"}

\* The worker has a latest copy only of a machine that waits for its address,
\* and waits only for an address it has written
WorkerKnows ==
  /\ worker.at = "update" => worker.ip \in Nat
  /\ worker.fresh => /\ worker.at = "update"
                     /\ stored[worker.m].status = "live" /\ stored[worker.m].pending
  /\ worker.at = "wait" => stored[worker.m].ip = worker.ip

\* Every address is in the cache, but for the one the worker waits for
AddressesSeen ==
  \A m \in Machines :
    HasIP(m) /\ ~(worker.at = "wait" /\ worker.m = m)
      => seen[m].status = "live" /\ seen[m].ip = stored[m].ip

\* The address the worker is about to give is nobody's
ChosenIsFree ==
  worker.at = "update" => \A m \in Machines : HasIP(m) => stored[m].ip # worker.ip

Sure == ~unsure => AddressesSeen /\ ChosenIsFree /\ UniqueIPs

IInv == TypeOK /\ NoIPYet(stored) /\ NoIPYet(seen) /\ CacheTrails /\ WorkerKnows /\ Sure

----------------------------------------------------------------------------

\* getNextFreeIP returns no address in use.
LEMMA NextIsFree ==
  ASSUME NEW used, NEW x \in GetNextFreeIP(used)
  PROVE  x \in Nat /\ x \notin used
<1>1. PICK k \in DOMAIN CidrRanges : x \in GetNextFreeIPForCIDR(CidrRanges[k], used)
  BY DEF GetNextFreeIP
<1>2. CidrRanges[k] \in [ip : Nat, size : Nat, gateway : Nat]
  <2> DEFINE Network == [ip : Nat, size : Nat, gateway : Nat]
  <2>1. CidrRanges \in Seq(Network)
    BY IpamConstants
  <2> HIDE DEF Network
  <2>2. CidrRanges[k] \in Network
    BY <2>1
  <2> QED BY <2>2 DEF Network
<1> QED BY <1>1, <1>2 DEF GetNextFreeIPForCIDR, FreeIPs

\* The state of an idle worker is one of the worker's states.
LEMMA IdleType ==
  /\ Idle \in [at : {"idle", "update", "wait"}, m : Machines, ip : Nat \cup {NoIP}, fresh : BOOLEAN]
  /\ Idle.at = "idle" /\ ~Idle.fresh
BY IpamConstants DEF Idle

LEMMA InitInv == Init => IInv
<1> SUFFICES ASSUME Init PROVE IInv
  OBVIOUS
<1>1. TypeOK
  <2>1. Unborn \in Machine
    BY DEF Unborn, Machine
  <2>2. stored \in [Machines -> Machine] /\ seen \in [Machines -> Machine]
    BY <2>1 DEF Init
  <2>3. worker \in [at : {"idle", "update", "wait"}, m : Machines, ip : Nat \cup {NoIP}, fresh : BOOLEAN]
    BY IdleType DEF Init
  <2>4. worker.at = "idle"
    BY IdleType DEF Init
  <2>5. unsure \in BOOLEAN
    BY DEF Init
  <2>6. faults \in 0 .. MaxFaults
    <3>1. MaxFaults \in Nat
      BY IpamConstants
    <3> QED BY <3>1 DEF Init
  <2> QED BY <2>2, <2>3, <2>4, <2>5, <2>6 DEF Init, TypeOK
<1>2. NoIPYet(stored) /\ NoIPYet(seen) /\ CacheTrails
  BY DEF Init, NoIPYet, CacheTrails, Unborn
<1>3. WorkerKnows /\ Sure
  BY IdleType DEF Init, WorkerKnows, Sure, AddressesSeen, ChosenIsFree, UniqueIPs, HasIP, Unborn
<1> QED BY <1>1, <1>2, <1>3 DEF IInv

\* Choosing an address.
LEMMA ReconcileKeeps ==
  ASSUME IInv, NEW m \in Machines, Reconcile(m)
  PROVE  IInv'
<1> USE DEF IInv
<1>1. CASE UNCHANGED worker
  <2>1. queue' \subseteq Machines
    BY DEF Reconcile, TypeOK
  <2> QED BY <1>1, <2>1
        DEF Reconcile, TypeOK, NoIPYet, CacheTrails, WorkerKnows, Sure, AddressesSeen,
            ChosenIsFree, UniqueIPs, HasIP
<1>2. CASE ~UNCHANGED worker
  <2>1. PICK x \in GetNextFreeIP(GetUsedIPs(seen)) :
          worker' = [at |-> "update", m |-> m, ip |-> x,
                     fresh |-> seen[m] = stored[m] /\ m \notin outdated]
    BY <1>2 DEF Reconcile
  <2>2. /\ worker.at = "idle" /\ seen[m].status = "live" /\ seen[m].pending
        /\ queue' = queue \ {m} /\ UNCHANGED <<stored, seen, outdated, unsure, faults>>
    BY <1>2 DEF Reconcile
  <2>3. x \in Nat /\ x \notin GetUsedIPs(seen)
    BY <2>1, NextIsFree
  <2>4. TypeOK'
    <3>1. x # NoIP
      BY <2>3 DEF NoIP
    <3> QED BY <2>1, <2>2, <2>3, <3>1 DEF TypeOK
  <2>5. NoIPYet(stored)' /\ NoIPYet(seen)' /\ CacheTrails'
    BY <2>2 DEF NoIPYet, CacheTrails
  <2>6. WorkerKnows'
    BY <2>1, <2>2, <2>3 DEF WorkerKnows
  <2>7. ASSUME ~unsure' PROVE AddressesSeen' /\ ChosenIsFree' /\ UniqueIPs'
    <3>1. AddressesSeen /\ UniqueIPs
      BY <2>2, <2>7 DEF Sure
    <3>2. \A n \in Machines : HasIP(n) => stored[n].ip # x
      BY <3>1, <2>2, <2>3 DEF AddressesSeen, GetUsedIPs, HasIP
    <3> QED BY <3>1, <3>2, <2>1, <2>2 DEF AddressesSeen, ChosenIsFree, UniqueIPs, HasIP
  <2> QED BY <2>4, <2>5, <2>6, <2>7 DEF Sure
<1> QED BY <1>1, <1>2

\* A reconciliation that ends leaves the rest of the invariant alone, unless
\* it ends before its address is in the cache.
LEMMA EndKeeps ==
  ASSUME IInv, worker' = Idle, queue' \subseteq Machines,
         UNCHANGED <<stored, seen, outdated>>,
         unsure' \in BOOLEAN, faults' \in 0 .. MaxFaults,
         unsure => unsure',
         ~unsure' /\ worker.at = "wait" /\ HasIP(worker.m)
           => seen[worker.m].status = "live" /\ seen[worker.m].ip = stored[worker.m].ip
  PROVE  IInv'
<1> USE DEF IInv
<1>1. TypeOK'
  BY IdleType DEF TypeOK
<1>2. NoIPYet(stored)' /\ NoIPYet(seen)' /\ CacheTrails' /\ WorkerKnows'
  BY IdleType DEF NoIPYet, CacheTrails, WorkerKnows
<1>3. Sure'
  BY IdleType DEF TypeOK, Sure, AddressesSeen, ChosenIsFree, UniqueIPs, HasIP
<1> QED BY <1>1, <1>2, <1>3

\* Writing the address into a latest copy.
LEMMA WriteKeeps ==
  ASSUME IInv, worker.at = "update", worker.fresh,
         stored' = [stored EXCEPT ![worker.m] = Initialized(@, worker.ip)],
         UNCHANGED <<seen, outdated>>
  PROVE  /\ stored' \in [Machines -> Machine]
         /\ NoIPYet(stored') /\ CacheTrails'
         /\ stored'[worker.m].ip = worker.ip /\ stored'[worker.m].status = "live"
         /\ \A m \in Machines \ {worker.m} : stored'[m] = stored[m]
         /\ stored[worker.m].ip = NoIP
<1> USE DEF IInv
<1>1. worker.m \in Machines /\ worker.ip \in Nat /\ stored[worker.m] \in Machine
  BY DEF TypeOK, WorkerKnows
<1>2. stored'[worker.m] = Initialized(stored[worker.m], worker.ip)
  BY <1>1 DEF TypeOK
<1>3. stored[worker.m].status = "live" /\ stored[worker.m].pending /\ stored[worker.m].ip = NoIP
  BY <1>1 DEF WorkerKnows, NoIPYet
<1>4. /\ stored'[worker.m] \in Machine /\ stored'[worker.m].ip = worker.ip
      /\ stored'[worker.m].status = "live" /\ ~stored'[worker.m].pending
  <2> DEFINE old == stored[worker.m]
             new == [old EXCEPT !.pending = FALSE, !.ip = worker.ip]
  <2>1. new \in Machine /\ new.ip = worker.ip /\ new.status = old.status /\ ~new.pending
    BY <1>1 DEF Machine
  <2> QED BY <1>2, <1>3, <2>1 DEF Initialized
<1>5. \A m \in Machines \ {worker.m} : stored'[m] = stored[m]
  BY <1>1 DEF TypeOK
<1>6. stored' \in [Machines -> Machine]
  BY <1>1, <1>4, <1>5 DEF TypeOK
<1>7. NoIPYet(stored')
  BY <1>4, <1>5 DEF NoIPYet
<1>8. CacheTrails'
  BY <1>1, <1>3, <1>4, <1>5 DEF CacheTrails
<1> QED BY <1>3, <1>4, <1>5, <1>6, <1>7, <1>8

LEMMA UpdateKeeps ==
  ASSUME IInv, UpdateMachine
  PROVE  IInv'
<1> USE DEF IInv
<1>1. CASE ~worker.fresh
  <2>1. Fails /\ UNCHANGED <<stored, seen, outdated, unsure, faults>> /\ worker.at = "update"
    BY <1>1 DEF UpdateMachine
  <2> QED BY <2>1, EndKeeps DEF Fails, TypeOK
<1>2. CASE worker.fresh
  <2>1. /\ worker.at = "update"
        /\ stored' = [stored EXCEPT ![worker.m] = Initialized(@, worker.ip)]
        /\ worker' = [worker EXCEPT !.at = "wait", !.fresh = FALSE]
        /\ UNCHANGED <<queue, seen, outdated, unsure, faults>>
    BY <1>2 DEF UpdateMachine
  <2>2. /\ stored' \in [Machines -> Machine]
        /\ NoIPYet(stored') /\ CacheTrails'
        /\ stored'[worker.m].ip = worker.ip /\ stored'[worker.m].status = "live"
        /\ \A m \in Machines \ {worker.m} : stored'[m] = stored[m]
    BY <1>2, <2>1, WriteKeeps
  <2>3. worker'.at = "wait" /\ ~worker'.fresh /\ worker'.m = worker.m /\ worker'.ip = worker.ip
    BY <2>1 DEF TypeOK
  <2>4. TypeOK'
    BY <2>1, <2>2 DEF TypeOK
  <2>5. NoIPYet(seen)' /\ WorkerKnows'
    BY <2>1, <2>2, <2>3 DEF NoIPYet, WorkerKnows
  <2>6. ASSUME ~unsure' PROVE AddressesSeen' /\ ChosenIsFree' /\ UniqueIPs'
    <3>1. AddressesSeen /\ ChosenIsFree /\ UniqueIPs
      BY <2>1, <2>6 DEF Sure
    <3> QED BY <3>1, <2>1, <2>2, <2>3 DEF AddressesSeen, ChosenIsFree, UniqueIPs, HasIP
  <2> QED BY <2>2, <2>4, <2>5, <2>6 DEF Sure
<1> QED BY <1>1, <1>2

\* The end of the poll.
LEMMA AwaitKeeps ==
  ASSUME IInv, AwaitCache
  PROVE  IInv'
<1>1. /\ worker' = Idle /\ queue' \subseteq Machines
      /\ UNCHANGED <<stored, seen, outdated, unsure, faults>>
  BY DEF IInv, TypeOK, AwaitCache, Fails
<1>2. unsure' \in BOOLEAN /\ faults' \in 0 .. MaxFaults
  BY <1>1 DEF IInv, TypeOK
<1>3. /\ worker.m \in Machines /\ worker.at = "wait" /\ stored[worker.m].ip = worker.ip
      /\ seen[worker.m].status = "gone" \/ seen[worker.m].ip = worker.ip
  BY DEF IInv, TypeOK, WorkerKnows, AwaitCache
<1>4. HasIP(worker.m)
        => seen[worker.m].status = "live" /\ seen[worker.m].ip = stored[worker.m].ip
  BY <1>3 DEF IInv, HasIP, CacheTrails, NoIPYet
<1> QED BY <1>1, <1>2, <1>4, EndKeeps

\* A write by somebody else that leaves the address alone.
LEMMA ChangeKeeps ==
  ASSUME IInv, NEW m \in Machines, NEW machine \in Machine, Changes(m, machine),
         machine.ip = stored[m].ip,
         machine.status = "unborn" \/ machine.pending => machine.ip = NoIP,
         machine.status # "unborn",
         machine.status = "live" => stored[m].status = "unborn" /\ machine.ip = NoIP
  PROVE  IInv'
<1> USE DEF IInv
<1>1. /\ stored' = [stored EXCEPT ![m] = machine]
      /\ worker' = [worker EXCEPT !.fresh = worker.fresh /\ worker.m # m]
      /\ UNCHANGED <<seen, outdated, queue, unsure, faults>>
  BY DEF Changes, Outdates
<1>2. stored'[m] = machine /\ \A n \in Machines \ {m} : stored'[n] = stored[n]
  BY <1>1 DEF TypeOK
<1>3. /\ worker'.at = worker.at /\ worker'.m = worker.m /\ worker'.ip = worker.ip
      /\ worker'.fresh => worker.fresh /\ worker.m # m
  BY <1>1 DEF TypeOK
<1>4. TypeOK'
  <2>1. (worker.fresh /\ worker.m # m) \in BOOLEAN
    OBVIOUS
  <2> QED BY <1>1, <2>1 DEF TypeOK
<1>5. NoIPYet(stored)' /\ NoIPYet(seen)'
  BY <1>1, <1>2 DEF NoIPYet
<1>6. CacheTrails'
  BY <1>1, <1>2 DEF CacheTrails
<1>7. WorkerKnows'
  BY <1>2, <1>3 DEF WorkerKnows, TypeOK
<1>8. Sure'
  BY <1>1, <1>2, <1>3 DEF Sure, AddressesSeen, ChosenIsFree, UniqueIPs, HasIP
<1> QED BY <1>4, <1>5, <1>6, <1>7, <1>8

LEMMA UsersKeep ==
  ASSUME IInv, NEW m \in Machines, CreateMachine(m) \/ DeleteMachine(m) \/ MachineGone(m)
  PROVE  IInv'
<1>1. stored[m] \in Machine /\ NoIP = -1
  BY DEF IInv, TypeOK, NoIP
<1>2. CASE CreateMachine(m)
  <2> DEFINE new == [status |-> "live", pending |-> TRUE, ip |-> NoIP]
  <2>1. new \in Machine /\ new.status = "live" /\ new.ip = NoIP
    BY DEF Machine
  <2>2. stored[m].status = "unborn" /\ Changes(m, new)
    BY <1>2 DEF CreateMachine
  <2>3. stored[m].ip = NoIP
    BY <2>2 DEF IInv, NoIPYet
  <2> HIDE DEF new
  <2> QED BY <2>1, <2>2, <2>3, ChangeKeeps
<1>3. CASE DeleteMachine(m)
  <2> DEFINE new == [stored[m] EXCEPT !.status = "deleting"]
  <2>1. /\ new \in Machine /\ new.status = "deleting"
        /\ new.ip = stored[m].ip /\ new.pending = stored[m].pending
    BY <1>1 DEF Machine
  <2>2. Changes(m, new)
    BY <1>3 DEF DeleteMachine
  <2>3. stored[m].pending => stored[m].ip = NoIP
    BY DEF IInv, NoIPYet
  <2> HIDE DEF new
  <2> QED BY <2>1, <2>2, <2>3, ChangeKeeps
<1>4. CASE MachineGone(m)
  <2> DEFINE new == [stored[m] EXCEPT !.status = "gone"]
  <2>1. /\ new \in Machine /\ new.status = "gone"
        /\ new.ip = stored[m].ip /\ new.pending = stored[m].pending
    BY <1>1 DEF Machine
  <2>2. Changes(m, new)
    BY <1>4 DEF MachineGone
  <2>3. stored[m].pending => stored[m].ip = NoIP
    BY DEF IInv, NoIPYet
  <2> HIDE DEF new
  <2> QED BY <2>1, <2>2, <2>3, ChangeKeeps
<1> QED BY <1>2, <1>3, <1>4

\* The cache moves on to the present.
LEMMA SyncKeeps ==
  ASSUME IInv, seen' = stored, outdated' = {}, queue' \subseteq Machines, UNCHANGED stored,
         worker' \in {worker, Idle},
         unsure' = unsure, faults' \in 0 .. MaxFaults
  PROVE  IInv'
<1> USE DEF IInv
<1>1. TypeOK'
  BY IdleType DEF TypeOK
<1>2. NoIPYet(stored)' /\ NoIPYet(seen)' /\ CacheTrails'
  BY DEF NoIPYet, CacheTrails
<1>3. WorkerKnows'
  BY IdleType DEF WorkerKnows
<1>4. Sure'
  BY IdleType DEF Sure, AddressesSeen, ChosenIsFree, UniqueIPs, HasIP
<1> QED BY <1>1, <1>2, <1>3, <1>4

\* Failures: those after which the controller is not sure of its writes are the
\* only ones that may leave an address behind that the cache does not show.
LEMMA FaultKeeps ==
  ASSUME IInv, Fault
  PROVE  IInv'
<1>0. /\ TypeOK /\ unsure' \in BOOLEAN /\ (unsure => unsure')
      /\ faults' \in 0 .. MaxFaults
  <2>1. PICK failure : Happens(failure)
    BY DEF Fault, Restart, Conflict, Refused, Unanswered, Timeout
  <2>2. TypeOK
    BY DEF IInv
  <2>3. faults' \in 0 .. MaxFaults
    <3>1. MaxFaults \in Nat
      BY IpamConstants
    <3> QED BY <2>1, <2>2, <3>1 DEF Happens, TypeOK
  <2>4. unsure' \in BOOLEAN /\ (unsure => unsure')
    BY <2>1, <2>2, Zenon DEF Happens, TypeOK
  <2> QED BY <2>2, <2>3, <2>4
<1>1. CASE Restart
  <2>1. unsure' = unsure /\ queue' \subseteq Machines
    BY <1>1, <1>0 DEF Restart, Happens, TypeOK
  <2> QED BY <1>0, <1>1, <2>1, SyncKeeps DEF Restart
<1>2. CASE Conflict
  <2>1. PICK m \in Machines : outdated' = outdated \cup {m} /\ Outdates(m)
    BY <1>2 DEF Conflict
  <2>2. /\ worker' = [worker EXCEPT !.fresh = worker.fresh /\ worker.m # m]
        /\ UNCHANGED <<stored, seen, queue>> /\ unsure' = unsure
    BY <1>0, <1>2, <2>1 DEF Conflict, Outdates, Happens, TypeOK
  <2>3. /\ worker'.at = worker.at /\ worker'.m = worker.m /\ worker'.ip = worker.ip
        /\ worker'.fresh => worker.fresh
    BY <1>0, <2>2 DEF TypeOK
  <2>4. TypeOK'
    <3>1. (worker.fresh /\ worker.m # m) \in BOOLEAN
      OBVIOUS
    <3> QED BY <1>0, <2>1, <2>2, <3>1 DEF TypeOK
  <2>5. NoIPYet(stored)' /\ NoIPYet(seen)' /\ CacheTrails'
    BY <2>2 DEF IInv, NoIPYet, CacheTrails
  <2>6. WorkerKnows' /\ Sure'
    BY <2>2, <2>3 DEF IInv, WorkerKnows, Sure, AddressesSeen, ChosenIsFree, UniqueIPs, HasIP
  <2> QED BY <2>4, <2>5, <2>6 DEF IInv
<1>3. CASE Refused
  <2>1. /\ worker.at = "update" /\ worker' = Idle /\ queue' \subseteq Machines
        /\ UNCHANGED <<stored, seen, outdated>>
    BY <1>0, <1>3 DEF Refused, Fails, TypeOK
  <2> QED BY <1>0, <2>1, EndKeeps
<1>4. CASE Unanswered
  <2>1. /\ worker.at = "update" /\ worker.fresh /\ worker' = Idle /\ queue' \subseteq Machines
        /\ stored' = [stored EXCEPT ![worker.m] = Initialized(@, worker.ip)]
        /\ UNCHANGED <<seen, outdated>> /\ unsure'
    BY <1>0, <1>4 DEF Unanswered, Fails, Happens, TypeOK
  <2>2. stored' \in [Machines -> Machine] /\ NoIPYet(stored') /\ CacheTrails'
    BY <2>1, WriteKeeps
  <2>3. TypeOK'
    BY <1>0, <2>1, <2>2, IdleType DEF TypeOK
  <2>4. NoIPYet(seen)' /\ WorkerKnows' /\ Sure'
    BY <2>1, IdleType DEF IInv, NoIPYet, WorkerKnows, Sure
  <2> QED BY <2>2, <2>3, <2>4 DEF IInv
<1>5. CASE Timeout
  <2>1. /\ worker' = Idle /\ queue' \subseteq Machines /\ unsure'
        /\ UNCHANGED <<stored, seen, outdated>>
    BY <1>0, <1>5 DEF Timeout, Fails, Happens, TypeOK
  <2> QED BY <1>0, <2>1, EndKeeps
<1> QED BY <1>1, <1>2, <1>3, <1>4, <1>5 DEF Fault

LEMMA NextKeeps == IInv /\ [Next]_vars => IInv'
<1> SUFFICES ASSUME IInv, [Next]_vars PROVE IInv'
  OBVIOUS
<1>1. CASE UNCHANGED vars
  BY <1>1 DEF vars, IInv, TypeOK, NoIPYet, CacheTrails, WorkerKnows, Sure, AddressesSeen,
              ChosenIsFree, UniqueIPs, HasIP
<1>2. CASE \E m \in Machines : Reconcile(m)
  BY <1>2, ReconcileKeeps
<1>3. CASE \E m \in Machines : CreateMachine(m) \/ DeleteMachine(m) \/ MachineGone(m)
  BY <1>3, UsersKeep
<1>4. CASE UpdateMachine
  BY <1>4, UpdateKeeps
<1>5. CASE AwaitCache
  BY <1>5, AwaitKeeps
<1>6. CASE Sync
  <2>1. queue' \subseteq Machines /\ faults' \in 0 .. MaxFaults
    BY <1>6 DEF Sync, IInv, TypeOK
  <2> QED BY <1>6, <2>1, SyncKeeps DEF Sync
<1>7. CASE Fault
  BY <1>7, FaultKeeps
<1> QED BY <1>1, <1>2, <1>3, <1>4, <1>5, <1>6, <1>7 DEF Next

----------------------------------------------------------------------------

\* The cache and the worker are always related as the inductive invariant says.
THEOREM IpamInvariant == Spec => []IInv
BY InitInv, NextKeeps, PTL DEF Spec

\* The variables of the ipam controller have their types.
THEOREM IpamTypes == Spec => []TypeOK
<1>1. IInv => TypeOK
  BY DEF IInv
<1> QED BY <1>1, IpamInvariant, PTL

\* For any networks and any number of machines and failures, reconcile hands out
\* no address twice as long as it has learnt of each of its writes.
THEOREM NoIPTwice == Spec => []UniqueWhenSure
<1>1. IInv => UniqueWhenSure
  BY DEF IInv, Sure, UniqueWhenSure
<1> QED BY <1>1, IpamInvariant, PTL

\* No step changes the address of a machine, even after lost answers and
\* timeouts: the Update of reconcile succeeds only on a copy without address.
THEOREM AddressesKept == Spec => IPsKept
<1>1. ASSUME IInv, [Next]_vars
      PROVE  [\A m \in Machines : stored[m].ip # NoIP => stored'[m].ip = stored[m].ip]_vars
  <2> SUFFICES ASSUME Next, NEW m \in Machines, stored[m].ip # NoIP
               PROVE  stored'[m].ip = stored[m].ip
    BY <1>1
  <2>1. CASE UNCHANGED stored
    BY <2>1
  <2>2. CASE worker.at = "update" /\ worker.fresh
             /\ stored' = [stored EXCEPT ![worker.m] = Initialized(@, worker.ip)]
    <3>1. worker.m \in Machines /\ stored[worker.m].ip = NoIP
      BY <1>1, <2>2 DEF IInv, TypeOK, WorkerKnows, NoIPYet
    <3> QED BY <3>1, <2>2, <1>1 DEF IInv, TypeOK
  <2>3. CASE \E n \in Machines : CreateMachine(n)
    <3>1. PICK n \in Machines : CreateMachine(n)
      BY <2>3
    <3>2. m # n => stored'[m] = stored[m]
      BY <3>1, <1>1 DEF IInv, TypeOK, CreateMachine, Changes
    <3>3. stored[n].ip = NoIP
      BY <3>1, <1>1 DEF IInv, NoIPYet, CreateMachine
    <3> QED BY <3>2, <3>3
  <2>4. CASE \E n \in Machines : DeleteMachine(n) \/ MachineGone(n)
    <3>1. PICK n \in Machines : DeleteMachine(n) \/ MachineGone(n)
      BY <2>4
    <3>2. PICK s \in {"deleting", "gone"} :
            stored' = [stored EXCEPT ![n] = [stored[n] EXCEPT !.status = s]]
      BY <3>1 DEF DeleteMachine, MachineGone, Changes
    <3>3. [stored[n] EXCEPT !.status = s].ip = stored[n].ip
      BY <1>1 DEF IInv, TypeOK, Machine
    <3> QED BY <3>2, <3>3, <1>1 DEF IInv, TypeOK
  <2> QED
    BY <2>1, <2>2, <2>3, <2>4
    DEF Next, Reconcile, UpdateMachine, AwaitCache, Sync, Fault, Restart, Conflict, Refused,
        Unanswered, Timeout
<1> QED BY <1>1, IpamInvariant, PTL DEF Spec, IPsKept
=============================================================================

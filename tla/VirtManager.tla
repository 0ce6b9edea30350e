----------------------------- MODULE VirtManager -----------------------------
(***************************************************************************)
(* The VirtManager service (virtmanager/src) together with the processes   *)
(* of its command line client (vm/src).                                    *)
(*                                                                         *)
(* Every instance has one crosvm child, one monitor thread that waits for  *)
(* it, and one Binder object VirtualMachine whose references keep it       *)
(* alive.  Dropping that object kills the child.  The Arc of an instance   *)
(* is held by the Binder object and by the monitor thread; the list `vms`  *)
(* holds it only weakly.  Instances are numbered in the order of creation. *)
(*                                                                         *)
(* The methods that touch the State hold its mutex from start to end, and  *)
(* so does callback_on_died with the mutex of the callbacks: each of them  *)
(* is one action.  A client stands for a sequence of `vm` processes, which *)
(* may be killed at any moment.  The service may die as well; init starts  *)
(* it again with a fresh State (class main, not oneshot), and what is left *)
(* of the old one are crosvm processes and references to dead objects.     *)
(***************************************************************************)
EXTENDS Integers, Sequences, Functions

CONSTANTS Clients,           \* slots for processes of the vm command
          DebugAllowed,      \* those whose uid may call the debug methods
          FIRST_GUEST_CID,
          MaxCid,            \* the largest Cid: u32::MAX in the code
          MaxRestarts,       \* bound on the restarts of the service
          MaxVms             \* bound on the VMs that are ever started

ASSUME ClientsAssumption == DebugAllowed \subseteq Clients
ASSUME CidAssumption ==
    FIRST_GUEST_CID \in Nat /\ MaxCid \in Nat /\ FIRST_GUEST_CID <= MaxCid
ASSUME BoundsAssumption == MaxRestarts \in Nat /\ MaxVms \in Nat

VARIABLES manager,       \* the service: "up" or "down"
          restarts,      \* how often it was started again
          next_cid,
          vms,           \* the instances with a weak reference
          debug_held_vms,
          instances,     \* all VmInstances ever started
          client,        \* what each client is about to do, and its VM
          dead,          \* the AtomicFlag of each client
          died_calls,    \* oneway onDied calls on their way to a client
          daemons,       \* history: instances handed over to the service
          stops          \* history: instances whose CID a vm stop named

vars == <<manager, restarts, next_cid, vms, debug_held_vms, instances, client, dead,
          died_calls, daemons, stops>>
state == <<next_cid, vms, debug_held_vms>>
history == <<daemons, stops>>
process == <<manager, restarts>>

NoVm == 0
Ids == DOMAIN instances
Idle == [pc |-> "idle", vm |-> NoVm]

\* Instance i belongs to the service that runs now.
Served(i) == instances[i].monitor # "gone"

\* The call that client c is about to make goes to a living service.
Reached(c, pc) == client[c].pc = pc /\ Served(client[c].vm)

\* Who holds a Binder reference to an instance's VirtualMachine.
Referenced(i) == \/ \E c \in Clients : client[c].vm = i
                 \/ i \in Range(debug_held_vms)

\* Arc::strong_count of an instance.
StrongCount(i) == (IF instances[i].handle THEN 1 ELSE 0)
                + (IF instances[i].monitor \in {"waiting", "marked"} THEN 1 ELSE 0)

Init == /\ manager = "up"
        /\ restarts = 0
        /\ next_cid = FIRST_GUEST_CID
        /\ vms = {}
        /\ debug_held_vms = <<>>
        /\ instances = <<>>
        /\ client = [c \in Clients |-> Idle]
        /\ dead = [c \in Clients |-> FALSE]
        /\ died_calls = {}
        /\ daemons = {}
        /\ stops = {}

-----------------------------------------------------------------------------
\* Methods of the service's State.

\* Mutant: starts again from the first CID when it runs out.
allocate_cid_wrapping(next) ==
    {[cid |-> next, next_cid |-> IF next < MaxCid THEN next + 1 ELSE FIRST_GUEST_CID]}

\* Mutant: adds without looking for overflow.
allocate_cid_unchecked(next) == {[cid |-> next, next_cid |-> next + 1]}

\* The outcome of allocate_cid: none when the counter is used up.
allocate_cid(next) == {a \in {[cid |-> next, next_cid |-> next + 1]} : a.next_cid <= MaxCid}

\* Mutant: forgets an instance once the Binder object or the monitor alone holds it.
add_vm_referenced(i) == {j \in vms : StrongCount(j) > 1} \cup {i}

\* The weak references once instance i is added: references that died are dropped.
add_vm(i) == {j \in vms : StrongCount(j) > 0} \cup {i}

\* What State::vms and debugListVms return.
ListedVms == {i \in vms : StrongCount(i) > 0}

swap_remove(s, pos) == SubSeq([s EXCEPT ![pos] = s[Len(s)]], 1, Len(s) - 1)

HeldPositions(cid) == {p \in DOMAIN debug_held_vms : instances[debug_held_vms[p]].cid = cid}

\* Mutant: removes the reference that was added last.
debug_drop_vm_last(cid) == {Len(debug_held_vms)} \ {0}

\* The position of the reference debug_drop_vm takes: none when not found.
debug_drop_vm(cid) == {p \in HeldPositions(cid) : \A q \in HeldPositions(cid) : p <= q}

-----------------------------------------------------------------------------
\* Binder calls of a client.

NewInstance(cid) == [cid |-> cid, child |-> "running", running |-> TRUE,
                     monitor |-> "waiting", handle |-> TRUE, callbacks |-> {}]

\* vm run: startVm allocates a CID, starts crosvm and its monitor, lists it.
StartVm(c, daemonize) ==
    /\ Len(instances) < MaxVms
    /\ manager = "up" /\ client[c] = Idle
    /\ \E a \in allocate_cid(next_cid) :
         /\ next_cid' = a.next_cid
         /\ instances' = Append(instances, NewInstance(a.cid))
    /\ vms' = add_vm(Len(instances) + 1)
    /\ client' = [client EXCEPT ![c] = [pc |-> IF daemonize THEN "hold" ELSE "register",
                                        vm |-> Len(instances) + 1]]
    /\ UNCHANGED <<process, debug_held_vms, dead, died_calls, history>>

\* The configuration does not load, is not valid, or crosvm does not start:
\* the CID is used up all the same.
StartVmFails(c) ==
    /\ manager = "up" /\ client[c] = Idle
    /\ \E a \in allocate_cid(next_cid) : next_cid' = a.next_cid
    /\ UNCHANGED <<process, vms, debug_held_vms, instances, client, dead,
                   died_calls, history>>

Goto(c, pc) == client' = [client EXCEPT ![c].pc = pc]

\* vm run --daemonize: debugHoldVmRef, after which the process exits.
DebugHoldVmRef(c) ==
    /\ Reached(c, "hold")
    /\ Goto(c, "exiting")
    /\ \/ /\ c \in DebugAllowed
          /\ debug_held_vms' = Append(debug_held_vms, client[c].vm)
          /\ daemons' = daemons \cup {client[c].vm}
       \/ /\ c \notin DebugAllowed
          /\ UNCHANGED <<debug_held_vms, daemons>>
    /\ UNCHANGED <<process, next_cid, vms, instances, dead, died_calls, stops>>

\* vm stop: debugDropVmRef moves the reference it finds to the caller.
DebugDropVmRef(c, cid) ==
    /\ manager = "up" /\ client[c] = Idle /\ c \in DebugAllowed
    /\ \E pos \in debug_drop_vm(cid) :
         /\ client' = [client EXCEPT ![c] = [pc |-> "exiting", vm |-> debug_held_vms[pos]]]
         /\ debug_held_vms' = swap_remove(debug_held_vms, pos)
    /\ stops' = stops \cup {i \in Ids : Served(i) /\ instances[i].cid = cid}
    /\ UNCHANGED <<process, next_cid, vms, instances, dead, died_calls, daemons>>

\* wait_for_vm: the callback is added whether or not the VM still runs ...
RegisterCallback(c) ==
    /\ Reached(c, "register")
    /\ instances' = [instances EXCEPT ![client[c].vm].callbacks = @ \cup {c}]
    /\ Goto(c, "link")
    /\ UNCHANGED <<process, state, dead, died_calls, history>>

\* Mutant: the flag is created only now, and what raised it before is lost.
LinkToDeathResetting(c) ==
    /\ Reached(c, "link")
    /\ Goto(c, "waiting")
    /\ dead' = [dead EXCEPT ![c] = FALSE]
    /\ UNCHANGED <<process, state, instances, died_calls, history>>

\* ... then the death recipient is linked, and the flag awaited.
LinkToDeath(c) ==
    /\ Reached(c, "link")
    /\ Goto(c, "waiting")
    /\ UNCHANGED <<process, state, instances, dead, died_calls, history>>

\* A call to a service that died returns an error, and ends the command.
CallFails(c) ==
    /\ client[c].pc \in {"hold", "register", "link"} /\ ~Served(client[c].vm)
    /\ Goto(c, "exiting")
    /\ UNCHANGED <<process, state, instances, dead, died_calls, history>>

\* A oneway call reaches the callback object, which raises the flag.
OnDied(c) ==
    /\ c \in died_calls
    /\ died_calls' = died_calls \ {c}
    /\ dead' = [dead EXCEPT ![c] = TRUE]
    /\ UNCHANGED <<process, state, instances, client, history>>

\* The death recipient raises the flag.
BinderDied(c) ==
    /\ client[c].pc = "waiting" /\ ~Served(client[c].vm) /\ ~dead[c]
    /\ dead' = [dead EXCEPT ![c] = TRUE]
    /\ UNCHANGED <<process, state, instances, client, died_calls, history>>

\* AtomicFlag::wait returns.
Wake(c) ==
    /\ client[c].pc = "waiting" /\ dead[c]
    /\ Goto(c, "exiting")
    /\ UNCHANGED <<process, state, instances, dead, died_calls, history>>

\* A process ends or is killed: the kernel drops its references, and calls
\* to its callback object fail from now on.
ClientGone(c) ==
    /\ client[c] # Idle
    /\ client' = [client EXCEPT ![c] = Idle]
    /\ dead' = [dead EXCEPT ![c] = FALSE]
    /\ died_calls' = died_calls \ {c}
    /\ instances' = [i \in Ids |-> [instances[i] EXCEPT !.callbacks = @ \ {c}]]
    /\ UNCHANGED <<process, state, history>>

-----------------------------------------------------------------------------
\* Steps of the service's threads and of crosvm.

\* Mutant: leaves the child to the drop of the VmInstance.
DropVmKeepingChild(i) ==
    /\ manager = "up" /\ instances[i].handle /\ ~Referenced(i)
    /\ instances' = [instances EXCEPT ![i].handle = FALSE]
    /\ UNCHANGED <<process, state, client, dead, died_calls, history>>

\* The last Binder reference is gone: VirtualMachine::drop kills the child.
DropVm(i) ==
    /\ manager = "up" /\ instances[i].handle /\ ~Referenced(i)
    /\ instances' = [instances EXCEPT ![i].handle = FALSE,
                                      ![i].child = IF @ = "running" THEN "killed" ELSE @]
    /\ UNCHANGED <<process, state, client, dead, died_calls, history>>

\* crosvm ends by itself, or because it was killed.
CrosvmExits(i) ==
    /\ instances[i].child \in {"running", "killed"}
    /\ instances' = [instances EXCEPT ![i].child = "exited"]
    /\ UNCHANGED <<process, state, client, dead, died_calls, history>>

\* The monitor thread: child.wait() returns and running is cleared ...
MonitorMarks(i) ==
    /\ instances[i].monitor = "waiting" /\ instances[i].child = "exited"
    /\ instances' = [instances EXCEPT ![i].running = FALSE, ![i].monitor = "marked"]
    /\ UNCHANGED <<process, state, client, dead, died_calls, history>>

\* The callbacks that VirtualMachineCallbacks::callback_on_died calls.
callback_on_died(callbacks) == callbacks

\* ... then it calls the callbacks and ends, which releases its Arc.
MonitorCallsBack(i) ==
    /\ instances[i].monitor = "marked"
    /\ instances' = [instances EXCEPT ![i].monitor = "done"]
    /\ died_calls' = died_calls \cup callback_on_died(instances[i].callbacks)
    /\ UNCHANGED <<process, state, client, dead, history>>

\* The service dies with everything it holds; crosvm processes stay behind.
ManagerDies ==
    /\ manager = "up"
    /\ manager' = "down"
    /\ vms' = {}
    /\ debug_held_vms' = <<>>
    /\ instances' = [i \in Ids |-> [instances[i] EXCEPT !.handle = FALSE, !.callbacks = {},
                                                        !.monitor = "gone"]]
    /\ UNCHANGED <<restarts, next_cid, client, dead, died_calls, history>>

\* init starts the service again: main with a default State.
ManagerStarts ==
    /\ manager = "down" /\ restarts < MaxRestarts
    /\ manager' = "up"
    /\ restarts' = restarts + 1
    /\ next_cid' = FIRST_GUEST_CID
    /\ UNCHANGED <<vms, debug_held_vms, instances, client, dead, died_calls, history>>

-----------------------------------------------------------------------------
ClientStep(c) ==
    \/ \E daemonize \in BOOLEAN : StartVm(c, daemonize)
    \/ StartVmFails(c)
    \/ DebugHoldVmRef(c)
    \/ \E cid \in FIRST_GUEST_CID .. MaxCid : DebugDropVmRef(c, cid)
    \/ RegisterCallback(c)
    \/ LinkToDeath(c)
    \/ CallFails(c)
    \/ OnDied(c)
    \/ BinderDied(c)
    \/ Wake(c)
    \/ ClientGone(c)

InstanceStep(i) ==
    \/ DropVm(i)
    \/ CrosvmExits(i)
    \/ MonitorMarks(i)
    \/ MonitorCallsBack(i)

Next == \/ \E c \in Clients : ClientStep(c)
        \/ \E i \in Ids : InstanceStep(i)
        \/ ManagerDies
        \/ ManagerStarts

\* A process that can go on does; the kernel delivers calls, death notices
\* and signals; threads of a living service run.  Nothing makes a guest end,
\* a user start or stop a VM, or the service die.
Fairness ==
    /\ \A c \in Clients :
         /\ WF_vars(DebugHoldVmRef(c) \/ RegisterCallback(c) \/ LinkToDeath(c) \/ CallFails(c))
         /\ WF_vars(OnDied(c))
         /\ WF_vars(BinderDied(c))
         /\ WF_vars(Wake(c))
         /\ WF_vars(client[c].pc = "exiting" /\ ClientGone(c))
    /\ \A i \in 1 .. MaxVms :
         /\ WF_vars(i \in Ids /\ DropVm(i))
         /\ WF_vars(i \in Ids /\ instances[i].child = "killed" /\ CrosvmExits(i))
         /\ WF_vars(i \in Ids /\ (MonitorMarks(i) \/ MonitorCallsBack(i)))

Spec == Init /\ [][Next]_vars
FairSpec == Spec /\ Fairness

-----------------------------------------------------------------------------
Instance == [cid : FIRST_GUEST_CID .. MaxCid,
             child : {"running", "killed", "exited"},
             running : BOOLEAN,
             monitor : {"waiting", "marked", "done", "gone"},
             handle : BOOLEAN,
             callbacks : SUBSET Clients]

\* The types of the service's state, of its instances and of its clients; the
\* CID counter of State stays within a u32.
TypeOK ==
    /\ manager \in {"up", "down"} /\ restarts \in 0 .. MaxRestarts
    /\ next_cid \in FIRST_GUEST_CID .. MaxCid
    /\ instances \in Seq(Instance)
    /\ vms \subseteq Ids /\ debug_held_vms \in Seq(Ids)
    /\ client \in [Clients -> [pc : {"idle", "hold", "register", "link", "waiting", "exiting"},
                               vm : Ids \cup {NoVm}]]
    /\ dead \in [Clients -> BOOLEAN]
    /\ died_calls \subseteq Clients
    /\ daemons \subseteq Ids /\ stops \subseteq Ids

\* No two VMs of one service ever get the same CID from allocate_cid, whatever
\* starts failed in between and however often the counter was used up.
CidsUnique ==
    \A i, j \in Ids : Served(i) /\ Served(j) /\ instances[i].cid = instances[j].cid => i = j

\* A child is killed only when nobody wants it: no client and no debug_held_vms
\* entry has its Binder object, and a VM that `vm run --daemonize` handed over
\* was named by a `vm stop` (debug_drop_vm must take the right entry).
KilledOnlyWhenUnwanted ==
    \A i \in Ids : instances[i].child = "killed" =>
        /\ ~Referenced(i)
        /\ i \in daemons => i \in stops

\* debugListVms never loses sight of a VM that some process or debug_held_vms
\* still references, whatever add_vm purged, also when its guest has ended and its
\* monitor is done, so that the Binder object alone keeps the weak reference valid
\* (State::vms, aidl.rs:224, "VMs which still have Binder references to them").
ReferencedVmsListed ==
    \A i \in Ids : Served(i) /\ Referenced(i) => i \in ListedVms

Released(i) == instances[i].child = "exited" /\ StrongCount(i) = 0

\* Once nobody references a VM, its crosvm ends and the last Arc of its
\* VmInstance is released, so that the next add_vm can purge its entry.
UnreferencedVmsEnd ==
    \A i \in 1 .. MaxVms :
        (i \in Ids /\ ~Referenced(i)) ~>
            (i \in Ids /\ (~Served(i) \/ Released(i)))

Returned(c) == client[c].pc \in {"exiting", "idle"}

\* vm run returns when its VM dies after the callback was registered and before
\* the monitor called the callbacks, and when the service dies, even if a new
\* one takes its place at once.
RegisteredWaitersReturn ==
    \A c \in Clients :
        \A i \in 1 .. MaxVms :
             (/\ i \in Ids
              /\ \/ /\ c \in instances[i].callbacks
                    /\ instances[i].child = "exited" /\ instances[i].monitor # "done"
                 \/ client[c].vm = i /\ ~Served(i))
                 ~> Returned(c)

-----------------------------------------------------------------------------
\* What a comment of the repository says and the code does not keep.

\* "Wait until the given VM or the VirtManager itself dies" (wait_for_vm): a
\* VM that ended before registerCallback is waited for without end.
WaitEndsWithVm ==
    \A c \in Clients, i \in 1 .. MaxVms :
        (i \in Ids /\ client[c].vm = i /\ instances[i].child = "exited")
            ~> Returned(c)

\* "Get a list of VMs which still have Binder references to them" (State::vms):
\* the monitor thread's Arc keeps a VM in the list whose Binder object was dropped
\* and whose child was killed, until the child has ended.
ListedVmsReferenced ==
    \A i \in ListedVms : instances[i].handle
=============================================================================

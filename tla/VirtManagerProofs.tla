------------------------- MODULE VirtManagerProofs -------------------------
(***************************************************************************)
(* Virtual machines and the disk that they are started with: the safety    *)
(* invariants of VirtManager hold for any number of clients, VMs, CIDs and *)
(* restarts; those of MkPayload for every config, every size of the files, *)
(* of the word and of a partition, and any number of runs over the same    *)
(* output.                                                                 *)
(***************************************************************************)
EXTENDS VirtManager, MkPayload, TLAPS

(***************************************************************************)
(* VirtManager.                                                            *)
(***************************************************************************)

\* Nothing of a service outlives it, and a handle is held by a living one.
ServiceInv ==
    /\ manager = "down" => \A i \in Ids : ~Served(i)
    /\ \A i \in Ids : instances[i].handle => Served(i)
    /\ \A p \in DOMAIN debug_held_vms : Served(debug_held_vms[p])

\* The counter is past every CID in use.
CidsBelowNext == \A i \in Ids : Served(i) => instances[i].cid < next_cid

\* What was handed over is held until a vm stop names it.
DaemonsHeld == \A i \in daemons \ stops : Served(i) => i \in Range(debug_held_vms)

\* What is referenced has its Binder object, and that a weak reference in the list.
HandlesListed ==
    \A i \in Ids : /\ Served(i) /\ Referenced(i) => instances[i].handle
                   /\ instances[i].handle => i \in vms

\* A process in the middle of a command has the VM it is about.
ClientsHaveVms == \A c \in Clients : client[c].pc # "idle" => client[c].vm # NoVm

IInv == /\ TypeOK /\ ClientsHaveVms /\ ServiceInv /\ CidsBelowNext /\ CidsUnique
        /\ DaemonsHeld /\ KilledOnlyWhenUnwanted /\ HandlesListed

-----------------------------------------------------------------------------
(* Sequences. *)

\* A sequence of elements of a set is one of a larger set.
LEMMA SeqLarger ==
    ASSUME NEW S, NEW T, S \subseteq T, NEW s \in Seq(S)
    PROVE  s \in Seq(T)
<1>1. Len(s) \in Nat /\ s \in [1 .. Len(s) -> T]
  OBVIOUS
<1>2. QED
  BY <1>1

\* Changing one element.
LEMMA SeqUpdate ==
    ASSUME NEW S, NEW s \in Seq(S), NEW i \in DOMAIN s, NEW v \in S
    PROVE  /\ [s EXCEPT ![i] = v] \in Seq(S)
           /\ Len([s EXCEPT ![i] = v]) = Len(s)
           /\ [s EXCEPT ![i] = v][i] = v
           /\ \A j \in DOMAIN s \ {i} : [s EXCEPT ![i] = v][j] = s[j]
<1>1. Len(s) \in Nat /\ DOMAIN s = 1 .. Len(s)
  OBVIOUS
<1>2. QED
  BY <1>1

\* Adding an element at the end.
LEMMA SeqAppend ==
    ASSUME NEW S, NEW s \in Seq(S), NEW v \in S
    PROVE  /\ Append(s, v) \in Seq(S)
           /\ Len(s) \in Nat
           /\ DOMAIN s = 1 .. Len(s)
           /\ DOMAIN Append(s, v) = 1 .. Len(s) + 1
           /\ Append(s, v)[Len(s) + 1] = v
           /\ \A j \in 1 .. Len(s) : Append(s, v)[j] = s[j]
OBVIOUS

\* swap_remove takes one element out and keeps the others.
LEMMA SwapRemove ==
    ASSUME NEW S, NEW s \in Seq(S), NEW pos \in DOMAIN s
    PROVE  /\ swap_remove(s, pos) \in Seq(S)
           /\ Range(swap_remove(s, pos)) \subseteq Range(s)
           /\ Range(s) \ {s[pos]} \subseteq Range(swap_remove(s, pos))
<1> DEFINE n == Len(s)
           u == [s EXCEPT ![pos] = s[n]]
           w == SubSeq(u, 1, n - 1)
<1>1. n \in Nat /\ n > 0 /\ DOMAIN s = 1 .. n /\ s[n] \in S /\ pos \in 1 .. n
  OBVIOUS
<1>2. /\ u \in Seq(S) /\ Len(u) = n /\ u[pos] = s[n]
      /\ \A j \in 1 .. n : j # pos => u[j] = s[j]
  BY <1>1, SeqUpdate
<1>3. swap_remove(s, pos) = w
  BY <1>1, <1>2 DEF swap_remove
<1> HIDE DEF u, n
<1>4. /\ w \in Seq(S) /\ DOMAIN w = 1 .. n - 1
      /\ \A j \in 1 .. n - 1 : w[j] = u[j]
  BY <1>1, <1>2
<1> HIDE DEF w
<1>5. Range(w) \subseteq Range(s)
  BY <1>1, <1>2, <1>4 DEF Range
<1>6. ASSUME NEW j \in 1 .. n, s[j] # s[pos]
      PROVE  s[j] \in Range(w)
  <2>1. CASE j < n
    <3>1. j \in 1 .. n - 1 /\ j # pos
      BY <1>1, <1>6, <2>1
    <3>2. w[j] = s[j]
      BY <1>2, <1>4, <3>1
    <3>3. QED
      BY <1>4, <3>1, <3>2 DEF Range
  <2>2. CASE j = n
    <3>1. pos \in 1 .. n - 1
      BY <1>1, <1>6, <2>2
    <3>2. w[pos] = s[j]
      BY <1>2, <1>4, <2>2, <3>1
    <3>3. QED
      BY <1>4, <3>1, <3>2 DEF Range
  <2>3. QED
    BY <1>1, <1>6, <2>1, <2>2
<1>7. ASSUME NEW x \in Range(s), x # s[pos]
      PROVE  x \in Range(w)
  <2>1. PICK j \in 1 .. n : x = s[j]
    BY <1>1 DEF Range
  <2>2. QED
    BY <1>6, <1>7, <2>1
<1>8. QED
  BY <1>3, <1>4, <1>5, <1>7

-----------------------------------------------------------------------------
(* The steps. *)

\* Initially there is no VM.
LEMMA InitInv == Init => IInv
<1> SUFFICES ASSUME Init PROVE IInv
  OBVIOUS
<1>1. Ids = {} /\ DOMAIN debug_held_vms = {}
  BY DEF Init, Ids
<1>2. TypeOK
  BY <1>1, CidAssumption, BoundsAssumption DEF Init, TypeOK, Idle
<1>3. QED
  BY <1>1, <1>2 DEF Init, IInv, ServiceInv, CidsBelowNext, CidsUnique, DaemonsHeld,
                    KilledOnlyWhenUnwanted, HandlesListed, ClientsHaveVms, Idle

\* Client c goes on with the VM it had, if any.
SameVm(c) ==
    client'[c].vm = client[c].vm /\ (client'[c].pc = "idle" <=> client[c].pc = "idle")

\* A step that starts and stops no service, takes no CID, hands nothing over and
\* gives nobody a reference; a child it kills has none.
LEMMA Quiet ==
    ASSUME IInv, TypeOK', UNCHANGED <<process, state, history>>,
           Len(instances') = Len(instances),
           \A i \in Ids :
              /\ instances'[i].cid = instances[i].cid
              /\ instances'[i].monitor = "gone" <=> instances[i].monitor = "gone"
              /\ instances'[i].handle => instances[i].handle
              /\ instances[i].handle => instances'[i].handle \/ ~Referenced(i)
              /\ instances'[i].child = "killed" =>
                    instances[i].child = "killed" \/ (instances[i].handle /\ ~Referenced(i)),
           \A c \in Clients : SameVm(c) \/ client'[c] = Idle
    PROVE  IInv'
<1>1. Ids' = Ids /\ \A i \in Ids : i # NoVm
  BY DEF Ids, IInv, TypeOK, NoVm
<1>2. \A i \in Ids : Served(i)' <=> Served(i)
  BY DEF Served
<1>3. \A i \in Ids : Referenced(i)' => Referenced(i)
  BY <1>1 DEF Referenced, state, SameVm, Idle
<1>4. \A p \in DOMAIN debug_held_vms : debug_held_vms[p] \in Ids
  BY DEF IInv, TypeOK
<1>5. ServiceInv'
  BY <1>1, <1>2, <1>4 DEF IInv, ServiceInv, process, state, Served
<1>6. CidsBelowNext' /\ CidsUnique'
  BY <1>1, <1>2 DEF IInv, CidsBelowNext, CidsUnique, state
<1>7. DaemonsHeld'
  BY <1>2 DEF IInv, TypeOK, DaemonsHeld, history, state
<1>8. KilledOnlyWhenUnwanted'
  <2> SUFFICES ASSUME NEW i \in Ids, instances'[i].child = "killed"
               PROVE  ~Referenced(i)' /\ (i \in daemons => i \in stops)
    BY <1>1 DEF KilledOnlyWhenUnwanted, history
  <2>1. CASE instances[i].child = "killed"
    BY <1>3, <2>1 DEF IInv, KilledOnlyWhenUnwanted
  <2>2. CASE instances[i].handle /\ ~Referenced(i)
    <3>1. Served(i) /\ i \notin Range(debug_held_vms)
      BY <2>2 DEF IInv, ServiceInv, Referenced
    <3>2. QED
      BY <1>3, <2>2, <3>1 DEF IInv, DaemonsHeld
  <2>3. QED
    BY <2>1, <2>2
<1>9. HandlesListed'
  BY <1>1, <1>2, <1>3 DEF IInv, HandlesListed, state
<1>10. ClientsHaveVms'
  BY DEF IInv, ClientsHaveVms, SameVm, Idle
<1>11. QED
  BY <1>5, <1>6, <1>7, <1>8, <1>9, <1>10 DEF IInv

\* A step of one instance that may also end or notify clients.
LEMMA OneInstance ==
    ASSUME TypeOK, NEW i \in Ids, NEW r \in Instance, instances' = [instances EXCEPT ![i] = r]
    PROVE  /\ instances' \in Seq(Instance) /\ Len(instances') = Len(instances) /\ Ids' = Ids
           /\ instances'[i] = r
           /\ \A j \in Ids \ {i} : instances'[j] = instances[j]
<1>1. instances \in Seq(Instance)
  BY DEF TypeOK
<1>2. /\ instances' \in Seq(Instance) /\ Len(instances') = Len(instances)
      /\ instances'[i] = r
      /\ \A j \in Ids \ {i} : instances'[j] = instances[j]
  BY <1>1, SeqUpdate DEF Ids
<1>3. QED
  BY <1>1, <1>2 DEF Ids

\* Such a step keeps the invariant if it changes the instance for the worse only.
LEMMA OneInstanceInv ==
    ASSUME IInv, NEW i \in Ids, NEW r \in Instance, instances' = [instances EXCEPT ![i] = r],
           UNCHANGED <<process, state, history, client>>,
           dead' \in [Clients -> BOOLEAN], died_calls' \subseteq Clients,
           r.cid = instances[i].cid,
           r.monitor = "gone" <=> instances[i].monitor = "gone",
           r.handle => instances[i].handle,
           instances[i].handle => r.handle \/ ~Referenced(i),
           r.child = "killed" =>
              instances[i].child = "killed" \/ (instances[i].handle /\ ~Referenced(i))
    PROVE  IInv'
<1>1. /\ instances' \in Seq(Instance) /\ Len(instances') = Len(instances) /\ Ids' = Ids
      /\ instances'[i] = r
      /\ \A j \in Ids \ {i} : instances'[j] = instances[j]
  BY OneInstance, Zenon DEF IInv
<1>2. TypeOK'
  BY <1>1 DEF IInv, TypeOK, process, state, history
<1>3. \A c \in Clients : SameVm(c)
  BY DEF SameVm
<1>4. QED
  BY <1>1, <1>2, <1>3, Quiet

\* The steps of crosvm, of its monitor and of VirtualMachine::drop.
LEMMA InstanceInv ==
    ASSUME IInv, NEW i \in Ids, InstanceStep(i)
    PROVE  IInv'
<1> DEFINE x == instances[i]
<1>1. x \in Instance /\ dead \in [Clients -> BOOLEAN] /\ died_calls \subseteq Clients
  BY DEF IInv, TypeOK, Ids
<1>2. CASE DropVm(i)
  <2> DEFINE r == [x EXCEPT !.handle = FALSE,
                            !.child = IF @ = "running" THEN "killed" ELSE @]
  <2>1. instances' = [instances EXCEPT ![i] = r]
    BY <1>2, Zenon DEF DropVm
  <2>2. /\ r \in Instance /\ r.cid = x.cid /\ r.monitor = x.monitor
        /\ ~r.handle
    BY <1>1, Zenon DEF Instance
  <2>3. x.handle /\ ~Referenced(i)
    BY <1>2 DEF DropVm
  <2>4. UNCHANGED <<process, state, history, client, dead, died_calls>>
    BY <1>2 DEF DropVm
  <2> HIDE DEF r
  <2>5. QED
    BY <1>1, <2>1, <2>2, <2>3, <2>4, OneInstanceInv, Zenon
<1>3. CASE CrosvmExits(i)
  <2> DEFINE r == [x EXCEPT !.child = "exited"]
  <2>1. instances' = [instances EXCEPT ![i] = r]
    BY <1>3 DEF CrosvmExits
  <2>2. /\ r \in Instance /\ r.cid = x.cid /\ r.monitor = x.monitor
        /\ r.handle = x.handle /\ r.child = "exited"
    BY <1>1 DEF Instance
  <2>3. UNCHANGED <<process, state, history, client, dead, died_calls>>
    BY <1>3 DEF CrosvmExits
  <2> HIDE DEF r
  <2>4. QED
    BY <1>1, <2>1, <2>2, <2>3, OneInstanceInv, Zenon
<1>4. CASE MonitorMarks(i)
  <2> DEFINE r == [x EXCEPT !.running = FALSE, !.monitor = "marked"]
  <2>1. instances' = [instances EXCEPT ![i] = r] /\ x.monitor = "waiting"
    BY <1>4, Zenon DEF MonitorMarks
  <2>2. /\ r \in Instance /\ r.cid = x.cid /\ r.monitor = "marked"
        /\ r.handle = x.handle /\ r.child = x.child
    BY <1>1, Zenon DEF Instance
  <2>3. UNCHANGED <<process, state, history, client, dead, died_calls>>
    BY <1>4 DEF MonitorMarks
  <2> HIDE DEF r
  <2>4. QED
    BY <1>1, <2>1, <2>2, <2>3, OneInstanceInv, Zenon
<1>5. CASE MonitorCallsBack(i)
  <2> DEFINE r == [x EXCEPT !.monitor = "done"]
  <2>1. instances' = [instances EXCEPT ![i] = r] /\ x.monitor = "marked"
    BY <1>5 DEF MonitorCallsBack
  <2>2. /\ r \in Instance /\ r.cid = x.cid /\ r.monitor = "done"
        /\ r.handle = x.handle /\ r.child = x.child
    BY <1>1 DEF Instance
  <2>3. /\ UNCHANGED <<process, state, history, client, dead>>
        /\ died_calls' \subseteq Clients
    BY <1>1, <1>5 DEF MonitorCallsBack, callback_on_died, Instance
  <2> HIDE DEF r
  <2>4. QED
    BY <1>1, <2>1, <2>2, <2>3, OneInstanceInv, Zenon
<1>6. QED
  BY <1>2, <1>3, <1>4, <1>5 DEF InstanceStep

\* A client that goes on to its next call keeps its reference.
LEMMA GotoFacts ==
    ASSUME TypeOK, NEW c \in Clients, client[c].pc # "idle",
           NEW next \in {"link", "waiting", "exiting"}, Goto(c, next)
    PROVE  /\ client' \in [Clients -> [pc : {"idle", "hold", "register", "link", "waiting",
                                             "exiting"}, vm : Ids \cup {NoVm}]]
           /\ \A d \in Clients : SameVm(d)
BY Zenon DEF TypeOK, Goto, SameVm

\* The steps of a client that wait, notice, return or give up.
LEMMA ClientQuietInv ==
    ASSUME IInv, NEW c \in Clients,
           LinkToDeath(c) \/ CallFails(c) \/ OnDied(c) \/ BinderDied(c) \/ Wake(c)
    PROVE  IInv'
<1>1. UNCHANGED <<process, state, history, instances>>
  BY DEF LinkToDeath, CallFails, OnDied, BinderDied, Wake
<1>2. Ids' = Ids
  BY <1>1 DEF Ids
<1>3. /\ client' \in [Clients -> [pc : {"idle", "hold", "register", "link", "waiting",
                                        "exiting"}, vm : Ids \cup {NoVm}]]
      /\ \A d \in Clients : SameVm(d)
  <2>1. TypeOK
    BY DEF IInv
  <2>2. CASE LinkToDeath(c)
    BY <2>1, <2>2, GotoFacts DEF LinkToDeath, Reached
  <2>3. CASE CallFails(c) \/ Wake(c)
    BY <2>1, <2>3, GotoFacts DEF CallFails, Wake
  <2>4. CASE OnDied(c) \/ BinderDied(c)
    BY <2>1, <2>4 DEF OnDied, BinderDied, TypeOK, SameVm
  <2>5. QED
    BY <2>2, <2>3, <2>4
<1>4. dead' \in [Clients -> BOOLEAN] /\ died_calls' \subseteq Clients
  BY Zenon DEF IInv, TypeOK, LinkToDeath, CallFails, OnDied, BinderDied, Wake
<1>5. TypeOK'
  BY <1>1, <1>2, <1>3, <1>4 DEF IInv, TypeOK, process, state, history
<1>6. QED
  BY <1>1, <1>3, <1>5, Quiet

\* registerCallback adds a callback and nothing else.
LEMMA RegisterCallbackInv ==
    ASSUME IInv, NEW c \in Clients, RegisterCallback(c)
    PROVE  IInv'
<1> DEFINE i == client[c].vm
           r == [instances[i] EXCEPT !.callbacks = @ \cup {c}]
<1>1. TypeOK
  BY DEF IInv
<1>2. /\ instances' = [instances EXCEPT ![i] = r]
      /\ UNCHANGED <<process, state, dead, died_calls, history>>
      /\ Goto(c, "link")
  BY DEF RegisterCallback
<1>3. /\ client' \in [Clients -> [pc : {"idle", "hold", "register", "link", "waiting",
                                        "exiting"}, vm : Ids \cup {NoVm}]]
      /\ \A d \in Clients : SameVm(d)
  BY <1>1, <1>2, GotoFacts DEF RegisterCallback, Reached
<1>4. i \in Ids
  BY <1>1 DEF IInv, TypeOK, ClientsHaveVms, RegisterCallback, Reached
<1>5. instances[i] \in Instance
  BY <1>1, <1>4 DEF TypeOK, Ids
<1>6. /\ r \in Instance /\ r.cid = instances[i].cid /\ r.monitor = instances[i].monitor
      /\ r.handle = instances[i].handle /\ r.child = instances[i].child
  BY <1>5 DEF Instance
<1> HIDE DEF r
<1>7. /\ instances' \in Seq(Instance) /\ Len(instances') = Len(instances) /\ Ids' = Ids
      /\ instances'[i] = r
      /\ \A j \in Ids \ {i} : instances'[j] = instances[j]
  BY <1>1, <1>2, <1>4, <1>6, OneInstance, Zenon
<1>8. TypeOK'
  BY <1>1, <1>2, <1>3, <1>7 DEF TypeOK, process, state, history
<1>9. QED
  BY <1>2, <1>3, <1>6, <1>7, <1>8, Quiet

\* A process that ends takes its reference and its callback with it.
LEMMA ClientGoneInv ==
    ASSUME IInv, NEW c \in Clients, ClientGone(c)
    PROVE  IInv'
<1>1. TypeOK /\ Len(instances) \in Nat /\ Ids = 1 .. Len(instances)
  BY DEF IInv, TypeOK, Ids
<1>2. /\ instances' = [i \in Ids |-> [instances[i] EXCEPT !.callbacks = @ \ {c}]]
      /\ UNCHANGED <<process, state, history>>
      /\ client' = [client EXCEPT ![c] = Idle]
      /\ dead' = [dead EXCEPT ![c] = FALSE] /\ died_calls' = died_calls \ {c}
  BY DEF ClientGone
<1>3. ASSUME NEW i \in Ids
      PROVE  /\ instances'[i] \in Instance /\ instances'[i].cid = instances[i].cid
             /\ instances'[i].monitor = instances[i].monitor
             /\ instances'[i].handle = instances[i].handle
             /\ instances'[i].child = instances[i].child
  <2>1. instances[i] \in Instance
    BY <1>1 DEF TypeOK, Ids
  <2>2. instances'[i] = [instances[i] EXCEPT !.callbacks = @ \ {c}]
    BY <1>2
  <2>3. QED
    BY <2>1, <2>2 DEF Instance
<1>4. instances' \in Seq(Instance) /\ Len(instances') = Len(instances) /\ Ids' = Ids
  <2>1. instances' \in [1 .. Len(instances) -> Instance]
    BY <1>1, <1>2, <1>3
  <2>2. QED
    BY <1>1, <2>1 DEF Ids
<1>5. /\ client' \in [Clients -> [pc : {"idle", "hold", "register", "link", "waiting",
                                        "exiting"}, vm : Ids \cup {NoVm}]]
      /\ \A d \in Clients : SameVm(d) \/ client'[d] = Idle
  BY <1>1, <1>2 DEF TypeOK, Idle, SameVm
<1>6. TypeOK'
  BY <1>1, <1>2, <1>4, <1>5 DEF TypeOK, process, state, history
<1>7. QED
  BY <1>2, <1>3, <1>4, <1>5, <1>6, Quiet, Zenon

\* CIDs are numbers.
LEMMA CidsNatural == ASSUME IInv PROVE \A i \in Ids : instances[i].cid \in Nat
<1>1. \A i \in Ids : instances[i] \in Instance
  BY DEF IInv, TypeOK, Ids
<1>2. FIRST_GUEST_CID .. MaxCid \subseteq Nat
  BY CidAssumption
<1>3. QED
  BY <1>1, <1>2 DEF Instance

\* A new VM: its CID is past those of the VMs that there are.
LEMMA StartVmInv ==
    ASSUME IInv, NEW c \in Clients, NEW daemonize \in BOOLEAN, StartVm(c, daemonize)
    PROVE  IInv'
<1> DEFINE n == Len(instances) + 1
           x == NewInstance(next_cid)
           k == [pc |-> IF daemonize THEN "hold" ELSE "register", vm |-> n]
<1>1. /\ manager = "up" /\ next_cid' = next_cid + 1 /\ next_cid' <= MaxCid
      /\ instances' = Append(instances, x)
      /\ vms' = add_vm(n)
      /\ client' = [client EXCEPT ![c] = k]
      /\ UNCHANGED <<process, debug_held_vms, dead, died_calls, history>>
  BY DEF StartVm, allocate_cid
<1>2. TypeOK /\ instances \in Seq(Instance) /\ next_cid \in Nat /\ FIRST_GUEST_CID <= next_cid
  BY CidAssumption DEF IInv, TypeOK
<1>3. x \in Instance
  BY <1>1, <1>2, CidAssumption DEF NewInstance, Instance, IInv, TypeOK
<1>4. x.cid = next_cid /\ x.child = "running" /\ x.monitor = "waiting"
  BY DEF NewInstance
<1> HIDE DEF x
<1>5. /\ Len(instances) \in Nat /\ n \notin Ids /\ n # NoVm
      /\ instances' \in Seq(Instance) /\ Ids' = Ids \cup {n}
      /\ instances'[n] = x
      /\ \A i \in Ids : instances'[i] = instances[i]
  <2>1. /\ Append(instances, x) \in Seq(Instance)
        /\ Len(instances) \in Nat
        /\ DOMAIN instances = 1 .. Len(instances)
        /\ DOMAIN Append(instances, x) = 1 .. Len(instances) + 1
        /\ Append(instances, x)[Len(instances) + 1] = x
        /\ \A j \in 1 .. Len(instances) : Append(instances, x)[j] = instances[j]
    BY <1>2, <1>3, SeqAppend
  <2>2. QED
    BY <1>1, <2>1 DEF Ids, NoVm
<1> HIDE DEF n
<1>6. \A i \in Ids : Served(i)' <=> Served(i)
  BY <1>5 DEF Served
<1>7. \A i \in Ids : Referenced(i)' => Referenced(i)
  BY <1>1, <1>2, <1>5 DEF Referenced, TypeOK
<1>8. \A d \in Clients : client'[d] = client[d] \/ client'[d] = k
  BY <1>1, <1>2 DEF TypeOK
<1>9. TypeOK'
  <2>1. debug_held_vms' \in Seq(Ids')
    BY <1>1, <1>2, <1>5, SeqLarger DEF TypeOK
  <2>2. client' \in [Clients -> [pc : {"idle", "hold", "register", "link", "waiting", "exiting"},
                                 vm : Ids' \cup {NoVm}]]
    BY <1>1, <1>2, <1>5 DEF TypeOK
  <2>3. vms' \subseteq Ids'
    BY <1>1, <1>2, <1>5 DEF TypeOK, add_vm
  <2>4. next_cid' \in FIRST_GUEST_CID .. MaxCid
    BY <1>1, <1>2, CidAssumption
  <2>5. QED
    BY <1>1, <1>2, <1>5, <2>1, <2>2, <2>3, <2>4 DEF TypeOK, process, history
<1>10. ClientsHaveVms'
  BY <1>5, <1>8 DEF IInv, ClientsHaveVms
<1>11. ServiceInv'
  <2>1. \A p \in DOMAIN debug_held_vms : debug_held_vms[p] \in Ids
    BY <1>2 DEF TypeOK
  <2>2. \A i \in Ids' : i = n => Served(i)'
    BY <1>4, <1>5 DEF Served
  <2>3. QED
    BY <1>1, <1>5, <1>6, <2>1, <2>2, Zenon DEF IInv, ServiceInv, process
<1>12. CidsBelowNext' /\ CidsUnique'
  <2>1. \A i \in Ids : Served(i) => instances[i].cid < next_cid /\ instances[i].cid \in Nat
    BY CidsNatural DEF IInv, CidsBelowNext
  <2>2. CidsBelowNext'
    <3> SUFFICES ASSUME NEW i \in Ids', Served(i)'
                 PROVE  instances'[i].cid < next_cid + 1
      BY <1>1, Zenon DEF CidsBelowNext
    <3>1. CASE i = n
      BY <1>2, <1>4, <1>5, <3>1
    <3>2. CASE i \in Ids
      BY <1>2, <1>5, <1>6, <2>1, <3>2
    <3>3. QED
      BY <1>5, <3>1, <3>2
  <2>3. CidsUnique'
    BY <1>2, <1>4, <1>5, <1>6, <2>1 DEF IInv, CidsUnique
  <2>4. QED
    BY <2>2, <2>3
<1>13. DaemonsHeld'
  BY <1>1, <1>2, <1>6 DEF IInv, TypeOK, DaemonsHeld, history
<1>14. KilledOnlyWhenUnwanted'
  BY <1>1, <1>4, <1>5, <1>7, Zenon DEF IInv, KilledOnlyWhenUnwanted, history
<1>15. HandlesListed'
  <2>1. ASSUME NEW i \in Ids, instances[i].handle
        PROVE  i \in vms'
    <3>1. i \in vms
      BY <2>1 DEF IInv, HandlesListed
    <3>2. StrongCount(i) > 0
      BY <2>1 DEF StrongCount
    <3>3. QED
      BY <1>1, <3>1, <3>2 DEF add_vm
  <2>2. n \in vms' /\ x.handle
    BY <1>1 DEF add_vm, NewInstance, x
  <2>3. QED
    BY <1>5, <1>6, <1>7, <2>1, <2>2 DEF IInv, HandlesListed
<1>16. QED
  BY <1>9, <1>10, <1>11, <1>12, <1>13, <1>14, <1>15 DEF IInv

\* A start that fails uses up a CID.
LEMMA StartVmFailsInv ==
    ASSUME IInv, NEW c \in Clients, StartVmFails(c)
    PROVE  IInv'
<1>1. /\ next_cid' = next_cid + 1 /\ next_cid' <= MaxCid
      /\ UNCHANGED <<process, vms, debug_held_vms, instances, client, dead, died_calls, history>>
  BY DEF StartVmFails, allocate_cid
<1>2. next_cid' \in FIRST_GUEST_CID .. MaxCid /\ next_cid \in Nat
  BY <1>1, CidAssumption DEF IInv, TypeOK
<1>3. \A i \in Ids : instances[i].cid \in Nat
  BY CidsNatural
<1>4. CidsBelowNext'
  BY <1>1, <1>2, <1>3 DEF IInv, CidsBelowNext, Served, Ids
<1>5. TypeOK' /\ ServiceInv' /\ ClientsHaveVms'
  BY <1>1, <1>2 DEF IInv, TypeOK, ServiceInv, ClientsHaveVms, Ids, Served, process, history
<1>6. CidsUnique' /\ DaemonsHeld' /\ KilledOnlyWhenUnwanted' /\ HandlesListed'
  BY <1>1 DEF IInv, CidsUnique, DaemonsHeld, KilledOnlyWhenUnwanted, HandlesListed, Ids, Served,
              Referenced, history
<1>7. QED
  BY <1>4, <1>5, <1>6 DEF IInv

\* Handing a VM over to the service.
LEMMA DebugHoldVmRefInv ==
    ASSUME IInv, NEW c \in Clients, DebugHoldVmRef(c)
    PROVE  IInv'
<1> DEFINE v == client[c].vm
<1>1. /\ UNCHANGED <<process, next_cid, vms, instances, dead, died_calls, stops>>
      /\ Goto(c, "exiting") /\ client[c].pc = "hold" /\ Served(v)
  BY DEF DebugHoldVmRef, Reached
<1>2. TypeOK /\ Ids' = Ids /\ \A i \in Ids : Served(i)' <=> Served(i)
  BY <1>1 DEF IInv, Ids, Served
<1>3. v \in Ids
  BY <1>1, <1>2 DEF IInv, TypeOK, ClientsHaveVms
<1>4. /\ client' \in [Clients -> [pc : {"idle", "hold", "register", "link", "waiting",
                                        "exiting"}, vm : Ids \cup {NoVm}]]
      /\ \A d \in Clients : SameVm(d)
  BY <1>1, <1>2, GotoFacts
<1>5. /\ debug_held_vms' \in Seq(Ids)
      /\ Range(debug_held_vms) \subseteq Range(debug_held_vms')
      /\ Range(debug_held_vms') \subseteq Range(debug_held_vms) \cup {v}
      /\ daemons' \subseteq Ids
      /\ \A i \in daemons' : i \in daemons \/ (i = v /\ v \in Range(debug_held_vms'))
      /\ daemons \subseteq daemons'
  <2>1. CASE c \notin DebugAllowed
    BY <1>2, <2>1 DEF DebugHoldVmRef, TypeOK
  <2>2. CASE c \in DebugAllowed
    <3> DEFINE s == debug_held_vms
    <3>1. s' = Append(s, v) /\ daemons' = daemons \cup {v}
      BY <2>2 DEF DebugHoldVmRef
    <3>2. s \in Seq(Ids) /\ daemons \subseteq Ids
      BY <1>2 DEF TypeOK
    <3>3. /\ Append(s, v) \in Seq(Ids)
          /\ Len(s) \in Nat
          /\ DOMAIN s = 1 .. Len(s)
          /\ DOMAIN Append(s, v) = 1 .. Len(s) + 1
          /\ Append(s, v)[Len(s) + 1] = v
          /\ \A j \in 1 .. Len(s) : Append(s, v)[j] = s[j]
      BY <1>3, <3>2, SeqAppend
    <3> HIDE DEF v
    <3>4. Range(s') = Range(s) \cup {v}
      BY <3>1, <3>3 DEF Range
    <3>5. QED
      BY <1>3, <3>1, <3>2, <3>3, <3>4
  <2>3. QED
    BY <2>1, <2>2
<1>6. TypeOK'
  BY <1>1, <1>2, <1>4, <1>5 DEF TypeOK, process
<1>7. ClientsHaveVms'
  BY <1>4 DEF IInv, ClientsHaveVms, SameVm
<1>8. \A i \in Ids : Referenced(i)' => Referenced(i)
  BY <1>4, <1>5 DEF Referenced, SameVm
<1> HIDE DEF v
<1>9. ServiceInv'
  <2>1. \A i \in Range(debug_held_vms) : Served(i)
    BY DEF IInv, ServiceInv, Range
  <2>2. \A i \in Range(debug_held_vms') : Served(i)
    BY <1>1, <1>5, <2>1
  <2>3. \A p \in DOMAIN debug_held_vms' : debug_held_vms'[p] \in Ids /\ Served(debug_held_vms'[p])
    BY <1>5, <2>2 DEF Range
  <2>4. \A p \in DOMAIN debug_held_vms' : instances'[debug_held_vms'[p]].monitor # "gone"
    BY <1>1, <2>3 DEF Served
  <2>5. QED
    BY <1>1, <1>2, <2>4 DEF IInv, ServiceInv, Served, process
<1>10. CidsBelowNext' /\ CidsUnique' /\ HandlesListed'
  BY <1>1, <1>2, <1>8 DEF IInv, CidsBelowNext, CidsUnique, HandlesListed
<1>11. DaemonsHeld'
  BY <1>1, <1>2, <1>5 DEF IInv, DaemonsHeld
<1>12. KilledOnlyWhenUnwanted'
  <2> SUFFICES ASSUME NEW i \in Ids, instances[i].child = "killed"
               PROVE  ~Referenced(i)' /\ (i \in daemons' => i \in stops)
    BY <1>1, <1>2 DEF KilledOnlyWhenUnwanted
  <2>1. ~Referenced(i) /\ (i \in daemons => i \in stops)
    BY DEF IInv, KilledOnlyWhenUnwanted
  <2>2. i # v
    BY <2>1 DEF Referenced, v
  <2>3. QED
    BY <1>5, <1>8, <2>1, <2>2
<1>13. QED
  BY <1>6, <1>7, <1>9, <1>10, <1>11, <1>12 DEF IInv

\* A vm stop: the reference it takes is of a VM with the CID it names.
LEMMA DebugDropVmRefInv ==
    ASSUME IInv, NEW c \in Clients, NEW cid \in FIRST_GUEST_CID .. MaxCid, DebugDropVmRef(c, cid)
    PROVE  IInv'
<1>1. PICK pos \in debug_drop_vm(cid) :
        /\ client' = [client EXCEPT ![c] = [pc |-> "exiting", vm |-> debug_held_vms[pos]]]
        /\ debug_held_vms' = swap_remove(debug_held_vms, pos)
  BY Zenon DEF DebugDropVmRef
<1> DEFINE v == debug_held_vms[pos]
           k == [pc |-> "exiting", vm |-> v]
<1>2. /\ UNCHANGED <<process, next_cid, vms, instances, dead, died_calls, daemons>>
      /\ stops' = stops \cup {i \in Ids : Served(i) /\ instances[i].cid = cid}
  BY DEF DebugDropVmRef
<1>3. pos \in DOMAIN debug_held_vms /\ instances[v].cid = cid
  BY DEF debug_drop_vm, HeldPositions
<1>4. TypeOK /\ Ids' = Ids /\ \A i \in Ids : Served(i)' <=> Served(i)
  BY <1>2 DEF IInv, Ids, Served
<1>5. v \in Ids /\ Served(v) /\ v \in Range(debug_held_vms)
  BY <1>3, <1>4 DEF IInv, TypeOK, ServiceInv, Range
<1>6. v # NoVm
  BY <1>4, <1>5 DEF TypeOK, Ids, NoVm
<1>7. v \in stops'
  BY <1>2, <1>3, <1>5
<1>8. /\ debug_held_vms' \in Seq(Ids)
      /\ Range(debug_held_vms') \subseteq Range(debug_held_vms)
      /\ Range(debug_held_vms) \ {v} \subseteq Range(debug_held_vms')
  <2>1. debug_held_vms \in Seq(Ids)
    BY <1>4 DEF TypeOK
  <2>2. /\ swap_remove(debug_held_vms, pos) \in Seq(Ids)
        /\ Range(swap_remove(debug_held_vms, pos)) \subseteq Range(debug_held_vms)
        /\ Range(debug_held_vms) \ {debug_held_vms[pos]}
              \subseteq Range(swap_remove(debug_held_vms, pos))
    BY <1>3, <2>1, SwapRemove
  <2>3. QED
    BY <1>1, <2>2
<1>9. \A d \in Clients : client'[d] = client[d] \/ client'[d] = k
  BY <1>1, <1>4 DEF TypeOK
<1> HIDE DEF v
<1>10. TypeOK'
  BY <1>1, <1>2, <1>4, <1>5, <1>8, Zenon DEF TypeOK, process, v
<1>11. ClientsHaveVms'
  <2>1. ClientsHaveVms /\ k.vm = v
    BY DEF IInv
  <2> HIDE DEF k
  <2>2. ASSUME NEW d \in Clients, client'[d].pc # "idle" PROVE client'[d].vm # NoVm
    BY <1>6, <1>9, <2>1, <2>2 DEF ClientsHaveVms
  <2>3. QED
    BY <2>2 DEF ClientsHaveVms
<1>12. \A i \in Ids : Referenced(i)' => Referenced(i)
  BY <1>5, <1>8, <1>9 DEF Referenced
<1>13. ServiceInv'
  <2>1. \A i \in Range(debug_held_vms') : Served(i)
    BY <1>8, SMTT(30) DEF IInv, ServiceInv, Range
  <2>2. \A p \in DOMAIN debug_held_vms' : instances'[debug_held_vms'[p]].monitor # "gone"
    BY <1>2, <2>1 DEF Served, Range
  <2>3. QED
    BY <1>2, <1>4, <2>2 DEF IInv, ServiceInv, Served, process
<1>14. CidsBelowNext' /\ CidsUnique' /\ HandlesListed'
  BY <1>2, <1>4, <1>12, Zenon DEF IInv, CidsBelowNext, CidsUnique, HandlesListed
<1>15. DaemonsHeld'
  BY <1>2, <1>4, <1>7, <1>8 DEF IInv, TypeOK, DaemonsHeld
<1>16. KilledOnlyWhenUnwanted'
  BY <1>2, <1>4, <1>12, Zenon DEF IInv, KilledOnlyWhenUnwanted
<1>17. QED
  BY <1>10, <1>11, <1>13, <1>14, <1>15, <1>16 DEF IInv

\* The end of the service: no instance is its own any longer.
LEMMA ManagerDiesInv ==
    ASSUME IInv, ManagerDies
    PROVE  IInv'
<1>1. /\ manager' = "down" /\ vms' = {} /\ debug_held_vms' = <<>>
      /\ instances' = [i \in Ids |-> [instances[i] EXCEPT !.handle = FALSE, !.callbacks = {},
                                                          !.monitor = "gone"]]
      /\ UNCHANGED <<restarts, next_cid, client, dead, died_calls, history>>
  BY Zenon DEF ManagerDies
<1>2. TypeOK /\ Len(instances) \in Nat /\ Ids = 1 .. Len(instances)
  BY DEF IInv, TypeOK, Ids
<1>3. ASSUME NEW i \in Ids
      PROVE  /\ instances'[i] \in Instance /\ instances'[i].monitor = "gone"
             /\ ~instances'[i].handle /\ instances'[i].child = instances[i].child
  <2>1. instances[i] \in Instance
    BY <1>2 DEF TypeOK, Ids
  <2>2. instances'[i] = [instances[i] EXCEPT !.handle = FALSE, !.callbacks = {},
                                             !.monitor = "gone"]
    BY <1>1, Zenon
  <2>3. QED
    BY <2>1, <2>2, Zenon DEF Instance
<1>4. instances' \in Seq(Instance) /\ Ids' = Ids
  <2>1. instances' \in [1 .. Len(instances) -> Instance]
    BY <1>1, <1>2, <1>3, Zenon
  <2>2. QED
    BY <1>2, <2>1 DEF Ids
<1>5. /\ debug_held_vms' \in Seq(Ids) /\ DOMAIN debug_held_vms' = {}
      /\ Range(debug_held_vms') = {}
  <2>1. \A S : <<>> \in Seq(S) /\ DOMAIN <<>> = {}
    OBVIOUS
  <2>2. debug_held_vms' \in Seq(Ids) /\ DOMAIN debug_held_vms' = {}
    BY <1>1, <2>1, Zenon
  <2>3. QED
    BY <2>2 DEF Range
<1>6. \A i \in Ids : ~Served(i)'
  BY <1>3 DEF Served
<1>7. \A i \in Ids : Referenced(i)' => Referenced(i)
  BY <1>1, <1>5, Zenon DEF Referenced
<1>8. TypeOK'
  <2>1. client' = client /\ vms' = {} /\ manager' = "down" /\ UNCHANGED <<daemons, stops>>
    BY <1>1, Zenon DEF history
  <2>2. QED
    BY <1>1, <1>2, <1>4, <1>5, <2>1, Zenon DEF TypeOK
<1>9. ClientsHaveVms' /\ KilledOnlyWhenUnwanted'
  BY <1>1, <1>3, <1>4, <1>7, Zenon DEF IInv, ClientsHaveVms, KilledOnlyWhenUnwanted, history
<1>10. ServiceInv'
  BY <1>3, <1>4, <1>5, <1>6 DEF ServiceInv
<1>11. CidsBelowNext' /\ CidsUnique' /\ HandlesListed'
  BY <1>3, <1>4, <1>6 DEF CidsBelowNext, CidsUnique, HandlesListed
<1>12. DaemonsHeld'
  BY <1>1, <1>2, <1>6, Zenon DEF TypeOK, DaemonsHeld, history
<1>13. QED
  BY <1>8, <1>9, <1>10, <1>11, <1>12 DEF IInv

\* A new service starts from the first CID: no VM is its own yet.
LEMMA ManagerStartsInv ==
    ASSUME IInv, ManagerStarts
    PROVE  IInv'
<1>1. /\ manager = "down" /\ restarts < MaxRestarts
      /\ manager' = "up" /\ restarts' = restarts + 1 /\ next_cid' = FIRST_GUEST_CID
      /\ UNCHANGED <<vms, debug_held_vms, instances, client, dead, died_calls, history>>
  BY DEF ManagerStarts
<1>2. Ids' = Ids /\ \A i \in Ids : ~Served(i) /\ ~Served(i)' /\ (Referenced(i)' <=> Referenced(i))
  BY <1>1 DEF IInv, ServiceInv, Ids, Served, Referenced
<1>3. TypeOK'
  BY <1>1, <1>2, CidAssumption, BoundsAssumption DEF IInv, TypeOK, history
<1>4. ClientsHaveVms' /\ KilledOnlyWhenUnwanted'
  BY <1>1, <1>2 DEF IInv, ClientsHaveVms, KilledOnlyWhenUnwanted, history
<1>5. ServiceInv' /\ CidsBelowNext' /\ CidsUnique' /\ HandlesListed'
  BY <1>1, <1>2, Zenon DEF IInv, ServiceInv, CidsBelowNext, CidsUnique, HandlesListed, Served
<1>6. DaemonsHeld'
  BY <1>1, <1>2 DEF IInv, TypeOK, DaemonsHeld, history
<1>7. QED
  BY <1>3, <1>4, <1>5, <1>6 DEF IInv

\* Every step keeps the invariant.
LEMMA NextInv == IInv /\ [Next]_vars => IInv'
<1> SUFFICES ASSUME IInv, [Next]_vars PROVE IInv'
  OBVIOUS
<1>1. CASE UNCHANGED vars
  <2>1. \A c \in Clients : SameVm(c)
    BY <1>1 DEF vars, SameVm
  <2>2. TypeOK' /\ UNCHANGED <<process, state, history, instances>>
    BY <1>1 DEF vars, process, state, history, IInv, TypeOK, Ids
  <2>3. QED
    BY <2>1, <2>2, Quiet
<1>2. CASE Next
  <2>1. ASSUME NEW c \in Clients, ClientStep(c)
        PROVE  IInv'
    BY <2>1, StartVmInv, StartVmFailsInv, DebugHoldVmRefInv, DebugDropVmRefInv,
       RegisterCallbackInv, ClientQuietInv, ClientGoneInv DEF ClientStep
  <2>2. QED
    BY <1>2, <2>1, InstanceInv, ManagerDiesInv, ManagerStartsInv DEF Next
<1>3. QED
  BY <1>1, <1>2

\* The inductive invariant holds in every reachable state.
LEMMA Invariance == Spec => []IInv
BY InitInv, NextInv, PTL DEF Spec

-----------------------------------------------------------------------------
\* The service's state keeps its type; in particular next_cid never overflows and
\* no list names a VM that does not exist (struct State).
THEOREM TypeCorrect == Spec => []TypeOK
<1>1. IInv => TypeOK
  BY DEF IInv
<1>2. QED
  BY <1>1, Invariance, PTL

\* allocate_cid gives no two VMs of one service the same CID.
THEOREM CidsStayUnique == Spec => []CidsUnique
<1>1. IInv => CidsUnique
  BY DEF IInv
<1>2. QED
  BY <1>1, Invariance, PTL

\* VirtualMachine::drop kills a child only when no one has a reference to it and,
\* if it was handed over, a vm stop named it: debug_drop_vm takes the right one.
THEOREM NoWantedVmKilled == Spec => []KilledOnlyWhenUnwanted
<1>1. IInv => KilledOnlyWhenUnwanted
  BY DEF IInv
<1>2. QED
  BY <1>1, Invariance, PTL

\* add_vm purges no VM, and debugListVms leaves out none, that has a reference:
\* its Binder object is there, and with it a strong reference to the VmInstance.
THEOREM ReferencedVmsStayListed == Spec => []ReferencedVmsListed
<1>1. IInv => ReferencedVmsListed
  <2> SUFFICES ASSUME IInv, NEW i \in Ids, Served(i), Referenced(i)
               PROVE  i \in ListedVms
    BY DEF ReferencedVmsListed
  <2>1. instances[i].handle /\ i \in vms
    BY DEF IInv, HandlesListed
  <2>2. StrongCount(i) > 0
    BY <2>1 DEF StrongCount
  <2>3. QED
    BY <2>1, <2>2 DEF ListedVms
<1>2. QED
  BY <1>1, Invariance, PTL

(***************************************************************************)
(* MkPayload: what a guest finds at the ends of the payload partitions and *)
(* in the signature.                                                       *)
(***************************************************************************)

Named == Paths \cup {NotAString}

\* The fillers that the run is past are those of the files as they are.
Filled == \A k \in 1 .. done : fillers[k] = Filler(GetFileSize(Payloads[k]))

PayloadInv ==
    /\ config \in [apexes : Seq(Named), apk : Seq(Named)]
    /\ done \in Nat
    /\ Len(fillers) \in Nat
    /\ pc \in {"fill", "ok"} /\ ~replaced => Filled
    /\ pc = "ok" => /\ done = Len(Payloads)
                    /\ disk = [k \in 1 .. Len(Payloads) |-> [path |-> Payloads[k], filler |-> k]]

-----------------------------------------------------------------------------
(* Arithmetic of partitions. *)

\* A number below the modulus is its own remainder.
LEMMA SmallMod == \A n \in 0 .. WORD - 1 : n % WORD = n
BY PayloadAssumption

\* A multiple of ALIGN leaves no remainder.
LEMMA Multiples == \A q \in Nat : (q * ALIGN) % ALIGN = 0
<1> SUFFICES ASSUME NEW q \in Nat PROVE (q * ALIGN) % ALIGN = 0
  OBVIOUS
<1> DEFINE n == q * ALIGN
           d == n \div ALIGN
           r == n % ALIGN
           y == d * ALIGN
<1>1. n \in Nat /\ ALIGN \in Nat \ {0}
  BY PayloadAssumption
<1>2. q < d => n + ALIGN <= y
  <2>1. d \in Nat
    BY <1>1
  <2> HIDE DEF d
  <2>2. QED
    BY <1>1, <2>1
<1>3. d < q => y + ALIGN <= n
  <2>1. d \in Nat
    BY <1>1
  <2> HIDE DEF d
  <2>2. QED
    BY <1>1, <2>1
<1>4. d = q => y = n
  OBVIOUS
<1> HIDE DEF n
<1>5. d \in Nat /\ r \in 0 .. ALIGN - 1 /\ n = y + r /\ y \in Nat
  BY <1>1
<1> HIDE DEF d, r, y
<1>6. r = 0
  BY <1>1, <1>2, <1>3, <1>4, <1>5
<1>7. QED
  BY <1>6 DEF r, n

\* A partition has room for what is in it, and is aligned.
LEMMA Alignment ==
    ASSUME NEW n \in Nat
    PROVE  /\ AlignToPartitionSize(n) \in Nat
           /\ n <= AlignToPartitionSize(n)
           /\ AlignToPartitionSize(n) % ALIGN = 0
<1> DEFINE m == n + ALIGN - 1
           d == m \div ALIGN
           r == m % ALIGN
           y == d * ALIGN
<1>1. m \in Nat /\ ALIGN \in Nat \ {0}
  BY PayloadAssumption
<1>2. m = n + ALIGN - 1 /\ AlignToPartitionSize(n) = y
  BY DEF AlignToPartitionSize
<1> HIDE DEF m
<1>3. d \in Nat /\ r \in 0 .. ALIGN - 1 /\ m = y + r /\ y \in Nat
  BY <1>1
<1>4. y % ALIGN = 0
  <2> HIDE DEF d
  <2> QED
    BY <1>3, Multiples
<1> HIDE DEF d, r, y
<1>5. QED
  BY <1>1, <1>2, <1>3, <1>4

\* The filler of a file makes an aligned partition that ends with the size.
LEMMA FillerFacts ==
    ASSUME NEW n \in Nat
    PROVE  /\ Filler(n).word = n
           /\ Filler(n).len >= SIZEOF
           /\ (n + Filler(n).len) % ALIGN = 0
<1> DEFINE a == AlignToPartitionSize(n + SIZEOF)
<1>1. SIZEOF \in Nat /\ n + SIZEOF \in Nat
  BY PayloadAssumption
<1>2. a \in Nat /\ n + SIZEOF <= a /\ a % ALIGN = 0
  BY <1>1, Alignment
<1> HIDE DEF a
<1>3. Filler(n).word = n /\ Filler(n).len = a - n
  BY DEF Filler, a
<1>4. n + Filler(n).len = a
  BY <1>2, <1>3
<1>5. QED
  BY <1>1, <1>2, <1>3, <1>4

-----------------------------------------------------------------------------
(* The inductive invariant. *)

\* Both loops go through a sequence of names.
LEMMA PayloadsType ==
    ASSUME config \in [apexes : Seq(Named), apk : Seq(Named)]
    PROVE  Payloads \in Seq(Named) /\ Len(Payloads) \in Nat
<1>1. config.apexes \in Seq(Named) /\ config.apk \in Seq(Named)
  OBVIOUS
<1>2. QED
  BY <1>1 DEF Payloads

\* LoadConfig and LoadSystemApexes make a config of names.
LEMMA StartInv ==
    ASSUME PayloadInv, NEW c \in Configs, Start(c)
    PROVE  PayloadInv'
<1>1. config' \in [apexes : Seq(Named), apk : Seq(Named)]
  <2>1. CASE config' = NoConfig
    <3>1. <<>> \in Seq(Named)
      OBVIOUS
    <3>2. QED
      BY <2>1, <3>1, Zenon DEF NoConfig
  <2>2. CASE SystemApexesFound(c) /\ config' = LoadSystemApexes(c)
    <3> DEFINE s == [k \in 1 .. Len(c.system_apexes) |-> ApexInfo[c.system_apexes[k]]]
    <3>1. /\ c.apexes \in Seq(Named) /\ c.apk \in Seq(Named)
          /\ c.system_apexes \in Seq(DOMAIN ApexInfo \cup STRING)
      BY ConfigAssumption DEF Named
    <3>2. /\ Len(c.system_apexes) \in Nat
          /\ \A k \in 1 .. Len(c.system_apexes) : ApexInfo[c.system_apexes[k]] \in Named
      BY <2>2, <3>1, ConfigAssumption DEF SystemApexesFound, Range, Named
    <3>3. s \in Seq(Named)
      BY <3>2
    <3> HIDE DEF s
    <3>4. c.apexes \o s \in Seq(Named)
      BY <3>1, <3>3
    <3>5. config' = [apexes |-> c.apexes \o s, apk |-> c.apk]
      BY <2>2, Zenon DEF LoadSystemApexes, s
    <3>6. QED
      BY <3>1, <3>4, <3>5, Zenon
  <2>3. QED
    BY <2>1, <2>2 DEF Start
<1>2. done' = 0 /\ fillers' = fillers /\ pc' \in {"sign", "failed"}
  BY DEF Start, Fails, output
<1>3. QED
  BY <1>1, <1>2 DEF PayloadInv

\* A filler is written for the file as it is.
LEMMA AddPartitionInv ==
    ASSUME PayloadInv, AddPartition
    PROVE  PayloadInv'
<1> DEFINE path == Payloads[done + 1]
           v == Filler(GetFileSize(path))
           z == [len |-> 0, word |-> 0]
<1>1. /\ pc = "fill" /\ UNCHANGED <<size, config, disk, replaced>>
      /\ \/ fillers' = Put(fillers, done + 1, v) /\ done' = done + 1 /\ pc' = pc
         \/ fillers' = fillers /\ done' = done /\ pc' = "failed"
         \/ fillers' = Put(fillers, done + 1, z) /\ done' = done /\ pc' = "failed"
  BY Zenon DEF AddPartition, PartitionOrder, Fails, payload_history
<1>2. done \in Nat /\ Len(fillers) \in Nat
  BY DEF PayloadInv
<1>3. ASSUME NEW w
      PROVE  /\ Len(Put(fillers, done + 1, w)) \in Nat
             /\ Put(fillers, done + 1, w)[done + 1] = w
             /\ \A k \in 1 .. done : Put(fillers, done + 1, w)[k] = fillers[k]
  <2> DEFINE n == IF done + 1 > Len(fillers) THEN done + 1 ELSE Len(fillers)
  <2>1. n \in Nat /\ done + 1 \in 1 .. n /\ \A k \in 1 .. done : k \in 1 .. n /\ k # done + 1
    BY <1>2
  <2>2. Put(fillers, done + 1, w) = [j \in 1 .. n |-> IF j = done + 1 THEN w ELSE fillers[j]]
    BY DEF Put
  <2> HIDE DEF n
  <2>3. QED
    BY <2>1, <2>2
<1>4. done' \in Nat /\ Len(fillers') \in Nat
  BY <1>1, <1>2, <1>3
<1>5. ASSUME pc' = "fill", ~replaced
      PROVE  Filled'
  <2>1. fillers' = Put(fillers, done + 1, v) /\ done' = done + 1
    BY <1>1, <1>5
  <2>2. \A k \in 1 .. done : fillers[k] = Filler(GetFileSize(Payloads[k]))
    BY <1>1, <1>5 DEF PayloadInv, Filled
  <2>3. \A k \in 1 .. done' : k \in 1 .. done \/ k = done + 1
    BY <1>2, <2>1
  <2>4. \A k \in 1 .. done' : fillers'[k] = Filler(GetFileSize(Payloads[k]))
    BY <1>3, <2>1, <2>2, <2>3
  <2>5. size' = size /\ config' = config
    BY <1>1
  <2>6. QED
    BY <2>4, <2>5, Zenon DEF Filled, GetFileSize, Payloads
<1>6. QED
  BY <1>1, <1>4, <1>5 DEF PayloadInv

\* No run has begun.
LEMMA PayloadInitInv == PayloadInit => PayloadInv
<1> SUFFICES ASSUME PayloadInit PROVE PayloadInv
  OBVIOUS
<1>1. <<>> \in Seq(Named) /\ Len(<<>>) = 0
  OBVIOUS
<1>2. config \in [apexes : Seq(Named), apk : Seq(Named)]
  BY <1>1, Zenon DEF PayloadInit, NoConfig
<1>3. QED
  BY <1>1, <1>2 DEF PayloadInit, PayloadInv

\* Every step of mk_payload keeps the fillers in step with the files.
LEMMA PayloadNextInv == PayloadInv /\ [PayloadNext]_payload_vars => PayloadInv'
<1> SUFFICES ASSUME PayloadInv, [PayloadNext]_payload_vars PROVE PayloadInv'
  OBVIOUS
<1>1. CASE UNCHANGED payload_vars
  BY <1>1, Zenon DEF PayloadInv, Filled, GetFileSize, Payloads, payload_vars
<1>2. CASE SignApex
  <2>1. UNCHANGED <<config, fillers>> /\ done' \in {done, done + 1} /\ pc' \in {"sign", "failed"}
    BY <1>2 DEF SignApex, Fails, output
  <2>2. QED
    BY <2>1 DEF PayloadInv
<1>3. CASE WriteSignature
  <2>1. UNCHANGED <<config, fillers>> /\ done' = 0 /\ pc' \in {"fill", "failed"}
    BY <1>3 DEF WriteSignature, Fails
  <2>2. Filled'
    BY <2>1 DEF Filled
  <2>3. QED
    BY <2>1, <2>2 DEF PayloadInv
<1>4. CASE CreateDisk
  <2>1. /\ UNCHANGED <<size, config, done, fillers, replaced>>
        /\ pc = "fill" /\ pc' = "ok" /\ done = Len(Payloads)
        /\ disk' = [k \in 1 .. Len(Payloads) |-> [path |-> Payloads[k], filler |-> k]]
    BY <1>4 DEF CreateDisk, PartitionOrder, work, payload_history
  <2>2. ~replaced => Filled'
    BY <2>1, Zenon DEF PayloadInv, Filled, GetFileSize, Payloads
  <2>3. Payloads' = Payloads
    BY <2>1 DEF Payloads
  <2>4. QED
    BY <2>1, <2>2, <2>3 DEF PayloadInv
<1>5. CASE \E path \in Paths, n \in Sizes \cup {NoFile} : Replace(path, n)
  <2>1. UNCHANGED <<pc, config, done, fillers, disk>> /\ replaced'
    BY <1>5 DEF Replace, work, output
  <2>2. QED
    BY <2>1 DEF PayloadInv, Payloads
<1>6. QED
  BY <1>1, <1>2, <1>3, <1>4, <1>5, StartInv, AddPartitionInv DEF PayloadNext

\* After a run of mk_payload that succeeded, the size of every file can be told
\* from its partition, which is aligned, whatever the config, the sizes and the
\* fillers that earlier runs left (GenerateFiller and MakePayload).
THEOREM SizesAtPartitionEnds == PayloadSpec => []SizesRecoverable
<1>1. PayloadInv => SizesRecoverable
  <2> SUFFICES ASSUME PayloadInv, pc = "ok", ~replaced,
                      NEW k \in DOMAIN disk, Measurable(disk[k].path)
               PROVE  /\ fillers[disk[k].filler].word = size[disk[k].path]
                      /\ fillers[disk[k].filler].len >= SIZEOF
                      /\ (size[disk[k].path] + fillers[disk[k].filler].len) % ALIGN = 0
    BY DEF SizesRecoverable
  <2> DEFINE path == Payloads[k]
  <2>1. /\ k \in 1 .. Len(Payloads) /\ done = Len(Payloads)
        /\ disk[k].path = path /\ disk[k].filler = k
    BY DEF PayloadInv
  <2>2. fillers[k] = Filler(GetFileSize(path))
    BY <2>1 DEF PayloadInv, Filled
  <2> HIDE DEF path
  <2>3. GetFileSize(path) = size[path] /\ size[path] \in Nat
    BY <2>1, SmallMod, PayloadAssumption DEF Measurable, GetFileSize
  <2>4. QED
    BY <2>1, <2>2, <2>3, FillerFacts
<1>2. QED
  BY <1>1, PayloadInitInv, PayloadNextInv, PTL DEF PayloadSpec

-----------------------------------------------------------------------------
(* Sequences whose elements have no common type. *)

\* A sequence of n elements.
Listed(a, n) == n \in Nat /\ a = [k \in 1 .. n |-> a[k]]

\* The length of a sequence that is given by its items.
LEMMA ListedLen ==
    ASSUME NEW a, NEW n, Listed(a, n)
    PROVE  Len(a) = n /\ \A S : (\A k \in 1 .. n : a[k] \in S) => a \in Seq(S)
BY DEF Listed

\* c is the m elements of a and the n elements of b.
Joins(c, a, m, b, n) ==
    /\ Listed(c, m + n)
    /\ \A k \in 1 .. m : c[k] = a[k]
    /\ \A k \in 1 .. n : c[m + k] = b[k]

\* Two sequences that are given by their items, put together.
LEMMA Concat ==
    ASSUME NEW a, NEW m, Listed(a, m), NEW b, NEW n, Listed(b, n)
    PROVE  Joins(a \o b, a, m, b, n)
<1> DEFINE S == {a[k] : k \in 1 .. m} \cup {b[k] : k \in 1 .. n}
<1>1. a \in Seq(S) /\ b \in Seq(S) /\ Len(a) = m /\ Len(b) = n /\ m \in Nat /\ n \in Nat
  <2>1. (\A k \in 1 .. m : a[k] \in S) /\ (\A k \in 1 .. n : b[k] \in S)
    OBVIOUS
  <2> HIDE DEF S
  <2>2. QED
    BY <2>1, ListedLen DEF Listed
<1> HIDE DEF S
<1>2. /\ a \o b \in Seq(S) /\ Len(a \o b) = m + n
      /\ \A k \in 1 .. m : (a \o b)[k] = a[k]
  BY <1>1
<1>3. ASSUME NEW k \in 1 .. n PROVE (a \o b)[m + k] = b[k]
  <2>1. m + k \in 1 .. m + n /\ ~(m + k <= m) /\ (m + k) - m = k
    BY <1>1
  <2>2. QED
    BY <1>1, <2>1
<1>4. Listed(a \o b, m + n)
  BY <1>1, <1>2, SMTT(30) DEF Listed
<1>5. QED
  BY <1>2, <1>3, <1>4, Zenon DEF Joins

\* c is the n elements of a and x.
Extends(c, a, n, x) ==
    /\ Listed(c, n + 1)
    /\ \A k \in 1 .. n : c[k] = a[k]
    /\ c[n + 1] = x

\* One more item.
LEMMA Appended ==
    ASSUME NEW a, NEW n, Listed(a, n), NEW x
    PROVE  Extends(Append(a, x), a, n, x)
<1> DEFINE S == {a[k] : k \in 1 .. n} \cup {x}
<1>1. a \in Seq(S) /\ x \in S /\ Len(a) = n /\ n \in Nat
  <2>1. (\A k \in 1 .. n : a[k] \in S) /\ x \in S
    OBVIOUS
  <2> HIDE DEF S
  <2>2. QED
    BY <2>1, ListedLen DEF Listed
<1> HIDE DEF S
<1>2. /\ Append(a, x) \in Seq(S) /\ Len(Append(a, x)) = n + 1
      /\ \A k \in 1 .. n : Append(a, x)[k] = a[k]
      /\ Append(a, x)[n + 1] = x
  BY <1>1
<1>3. Listed(Append(a, x), n + 1)
  BY <1>1, <1>2 DEF Listed
<1>4. QED
  BY <1>2, <1>3, Zenon DEF Extends

\* A part of a sequence that is given by its items.
LEMMA Part ==
    ASSUME NEW a, NEW n, Listed(a, n), NEW m \in Nat, 1 + m <= n
    PROVE  /\ Len(SubSeq(a, 2, 1 + m)) = m
           /\ \A k \in 1 .. m : SubSeq(a, 2, 1 + m)[k] = a[k + 1]
<1> DEFINE S == {a[k] : k \in 1 .. n}
<1>1. a \in Seq(S) /\ Len(a) = n /\ n \in Nat
  <2>1. \A k \in 1 .. n : a[k] \in S
    OBVIOUS
  <2> HIDE DEF S
  <2>2. QED
    BY <2>1, ListedLen DEF Listed
<1> HIDE DEF S
<1>2. SubSeq(a, 2, 1 + m) = [k \in 1 .. m |-> a[k + 1]]
  BY <1>1
<1>3. QED
  BY <1>2

-----------------------------------------------------------------------------
(* The signature. *)

\* The messages of the configs are not longer than a word can tell.
MessagesFit ==
    /\ 1 < WORD
    /\ \A c \in Configs : Len(c.apexes) + Len(c.system_apexes) + Len(c.apk) + 1 < WORD

\* What MakeSignature collected is what the files are like.
Collected(n) == \A k \in 1 .. n : apex_sizes[k] = GetFileSize(config.apexes[k])

SInv ==
    /\ Len(Payloads) + 1 < WORD
    /\ pc = "sign" => /\ Listed(apex_sizes, done) /\ done <= Len(config.apexes)
                      /\ ~replaced => Collected(done)
    /\ pc \in {"fill", "ok"} =>
          /\ ~replaced => Collected(Len(config.apexes))
          /\ ~silent => signature = WriteMicrodroidSignature(Body(config, apex_sizes))

\* The message names the payloads in their order.
LEMMA BodyFacts ==
    ASSUME config \in [apexes : Seq(Named), apk : Seq(Named)], NEW sizes
    PROVE  LET body == Body(config, sizes)
           IN  /\ Listed(body, 1 + Len(Payloads))
               /\ \A k \in 1 .. Len(Payloads) : body[k + 1].name = Payloads[k]
               /\ \A k \in 1 .. Len(config.apexes) : body[k + 1].size = sizes[k]
<1> DEFINE m == Len(config.apexes)
           n == Len(config.apk)
           v == <<"version">>
           a == [k \in 1 .. m |-> [name |-> config.apexes[k], size |-> sizes[k]]]
           b == [k \in 1 .. n |-> [name |-> config.apk[k], partition |-> "microdroid-apk"]]
           body == Body(config, sizes)
<1>1. /\ m \in Nat /\ n \in Nat /\ Listed(config.apexes, m) /\ Listed(config.apk, n)
  <2>1. config.apexes \in Seq(Named) /\ config.apk \in Seq(Named)
    OBVIOUS
  <2>2. QED
    BY <2>1 DEF Listed
<1>2. /\ Len(Payloads) = m + n
      /\ \A k \in 1 .. m : Payloads[k] = config.apexes[k]
      /\ \A k \in 1 .. n : Payloads[m + k] = config.apk[k]
  <2>1. Joins(Payloads, config.apexes, m, config.apk, n)
    BY <1>1, Concat, Zenon DEF Payloads
  <2> HIDE DEF m, n
  <2>2. QED
    BY <2>1, ListedLen DEF Joins
<1>3. Listed(v, 1) /\ Listed(a, m) /\ Listed(b, n)
  BY <1>1 DEF Listed
<1>4. body = (v \o a) \o b
  BY DEF Body
<1>5. /\ \A k \in 1 .. m : a[k].name = config.apexes[k] /\ a[k].size = sizes[k]
      /\ \A k \in 1 .. n : b[k].name = config.apk[k]
  OBVIOUS
<1> HIDE DEF m, n, v, a, b, body
<1>6. Listed(v \o a, 1 + m) /\ \A k \in 1 .. m : (v \o a)[1 + k] = a[k]
  <2>1. Joins(v \o a, v, 1, a, m)
    BY <1>3, Concat, Zenon
  <2>2. QED
    BY <2>1, Zenon DEF Joins
<1>7. /\ Listed(body, (1 + m) + n)
      /\ \A k \in 1 .. 1 + m : body[k] = (v \o a)[k]
      /\ \A k \in 1 .. n : body[(1 + m) + k] = b[k]
  <2>1. Joins(body, v \o a, 1 + m, b, n)
    BY <1>3, <1>4, <1>6, Concat, Zenon
  <2>2. QED
    BY <2>1, Zenon DEF Joins
<1>8. ASSUME NEW k \in 1 .. m PROVE body[k + 1] = a[k]
  <2>1. k + 1 \in 1 .. 1 + m /\ k + 1 = 1 + k
    BY <1>1
  <2>2. QED
    BY <1>6, <1>7, <2>1, Zenon
<1>9. ASSUME NEW k \in 1 .. m + n PROVE body[k + 1].name = Payloads[k]
  <2>1. CASE k <= m
    <3>1. k \in 1 .. m
      BY <1>1, <2>1
    <3>2. QED
      BY <1>2, <1>5, <1>8, <3>1
  <2>2. CASE ~(k <= m)
    <3> DEFINE j == k - m
    <3>1. j \in 1 .. n /\ k = m + j /\ k + 1 = (1 + m) + j
      BY <1>1, <2>2
    <3> HIDE DEF j
    <3>2. QED
      BY <1>2, <1>5, <1>7, <3>1
  <2>3. QED
    BY <2>1, <2>2
<1>10. (1 + m) + n = 1 + Len(Payloads)
  BY <1>1, <1>2
<1>11. QED
  BY <1>2, <1>5, <1>7, <1>8, <1>9, <1>10, Zenon DEF m, body

\* A guest reads the message that was written, if a word can tell its length.
LEMMA ReadBack ==
    ASSUME NEW body, NEW n, Listed(body, n), n < WORD
    PROVE  LET read == ReadMicrodroidSignature(SignaturePartition(WriteMicrodroidSignature(body)))
           IN  Len(read) = n /\ \A k \in 1 .. n : read[k] = body[k]
<1> DEFINE w == WriteMicrodroidSignature(body)
           z == [k \in 1 .. AlignToPartitionSize(Len(w)) - Len(w) |-> 0]
           content == SignaturePartition(w)
           l == AlignToPartitionSize(1 + n) - (1 + n)
<1>1. n \in Nat /\ n % WORD = n /\ Len(body) = n
  BY ListedLen, SmallMod, PayloadAssumption DEF Listed
<1>2. Listed(<<n>>, 1) /\ <<n>>[1] = n
  BY DEF Listed
<1>3. w = <<n>> \o body
  BY <1>1 DEF WriteMicrodroidSignature
<1>4. /\ Listed(w, 1 + n) /\ w[1] = n /\ \A k \in 1 .. n : w[1 + k] = body[k]
  <2>1. Joins(w, <<n>>, 1, body, n)
    BY <1>2, <1>3, Concat, Zenon
  <2> HIDE DEF w
  <2>2. w[1] = <<n>>[1]
    BY <2>1 DEF Joins
  <2>3. QED
    BY <1>2, <2>1, <2>2, Zenon DEF Joins
<1> HIDE DEF w
<1>5. Len(w) = 1 + n
  BY <1>4, ListedLen
<1>6. l \in Nat
  <2>1. 1 + n \in Nat
    BY <1>1
  <2>2. QED
    BY <2>1, Alignment
<1>7. z = [k \in 1 .. l |-> 0]
  BY <1>5
<1>8. Listed(z, l) /\ content = w \o z
  BY <1>6, <1>7 DEF Listed, SignaturePartition
<1> HIDE DEF z, content, l
<1>9. Listed(content, (1 + n) + l) /\ \A k \in 1 .. 1 + n : content[k] = w[k]
  <2>1. Joins(content, w, 1 + n, z, l)
    BY <1>4, <1>8, Concat, Zenon
  <2>2. QED
    BY <2>1, Zenon DEF Joins
<1>10. Len(content) = (1 + n) + l /\ content[1] = n
  BY <1>1, <1>4, <1>9, ListedLen
<1>11. ReadMicrodroidSignature(content) = SubSeq(content, 2, 1 + n)
  BY <1>1, <1>6, <1>10 DEF ReadMicrodroidSignature
<1>12. 1 + n <= (1 + n) + l
  BY <1>1, <1>6
<1>13. /\ Len(SubSeq(content, 2, 1 + n)) = n
       /\ \A k \in 1 .. n : SubSeq(content, 2, 1 + n)[k] = content[k + 1]
  BY <1>1, <1>9, <1>12, Part
<1>14. \A k \in 1 .. n : k + 1 \in 1 .. 1 + n /\ k + 1 = 1 + k
  BY <1>1
<1>15. \A k \in 1 .. n : content[k + 1] = body[k]
  BY <1>4, <1>9, <1>14
<1>16. QED
  BY <1>11, <1>13, <1>15, Zenon DEF content, w

-----------------------------------------------------------------------------
\* A run starts with no sizes collected.
LEMMA StartSInv ==
    ASSUME MessagesFit, NEW c \in Configs, Start(c)
    PROVE  SInv'
<1>1. Len(Payloads') + 1 < WORD
  <2>1. CASE config' = NoConfig
    <3>1. Payloads' = <<>> \o <<>>
      BY <2>1, Zenon DEF Payloads, NoConfig
    <3>2. Len(<<>> \o <<>>) = 0
      OBVIOUS
    <3>3. QED
      BY <3>1, <3>2 DEF MessagesFit
  <2>2. CASE config' = LoadSystemApexes(c)
    <3> DEFINE l == Len(c.apexes)
               m == Len(c.system_apexes)
               n == Len(c.apk)
               s == [k \in 1 .. m |-> ApexInfo[c.system_apexes[k]]]
    <3>1. Listed(c.apexes, l) /\ Listed(c.apk, n) /\ m \in Nat
      <4>1. c.apexes \in Seq(Named) /\ c.apk \in Seq(Named) /\ m \in Nat
        BY ConfigAssumption DEF Named
      <4>2. QED
        BY <4>1 DEF Listed
    <3>2. Listed(s, m)
      BY <3>1 DEF Listed
    <3>3. Payloads' = (c.apexes \o s) \o c.apk
      BY <2>2, Zenon DEF Payloads, LoadSystemApexes
    <3>4. l + m + n + 1 < WORD
      BY Zenon DEF MessagesFit
    <3> HIDE DEF l, m, n, s
    <3>5. Joins(c.apexes \o s, c.apexes, l, s, m)
      BY <3>1, <3>2, Concat, Zenon
    <3>6. Joins(Payloads', c.apexes \o s, l + m, c.apk, n)
      <4>1. Listed(c.apexes \o s, l + m)
        BY <3>5, Zenon DEF Joins
      <4>2. QED
        BY <3>1, <3>3, <4>1, Concat, Zenon
    <3>7. Len(Payloads') = l + m + n
      BY <3>6, ListedLen, Zenon DEF Joins
    <3>8. QED
      BY <3>4, <3>7
  <2>3. QED
    BY <2>1, <2>2 DEF Start
<1>2. apex_sizes' = <<>> /\ done' = 0 /\ pc' \in {"sign", "failed"}
  BY DEF Start, Fails
<1>3. Listed(<<>>, 0)
  BY DEF Listed
<1>4. 0 <= Len(config'.apexes)
  <2>1. CASE config' = NoConfig
    <3>1. config'.apexes = <<>> /\ Len(<<>>) = 0
      BY <2>1 DEF NoConfig
    <3>2. QED
      BY <3>1
  <2>2. CASE config' = LoadSystemApexes(c)
    <3> DEFINE m == Len(c.system_apexes)
               s == [k \in 1 .. m |-> ApexInfo[c.system_apexes[k]]]
    <3>1. Listed(c.apexes, Len(c.apexes)) /\ Listed(s, m)
      <4>1. Listed(c.apexes, Len(c.apexes)) /\ m \in Nat
        <5>1. c.apexes \in Seq(Named) /\ m \in Nat
          BY ConfigAssumption DEF Named
        <5>2. QED
          BY <5>1 DEF Listed
      <4>2. Listed(s, m)
        BY <4>1 DEF Listed
      <4>3. QED
        BY <4>1, <4>2
    <3>2. config'.apexes = c.apexes \o s
      BY <2>2, Zenon DEF LoadSystemApexes
    <3> HIDE DEF s
    <3>3. Joins(config'.apexes, c.apexes, Len(c.apexes), s, m)
      BY <3>1, <3>2, Concat, Zenon
    <3>4. Len(config'.apexes) = Len(c.apexes) + m
      BY <3>3, ListedLen, Zenon DEF Joins
    <3>5. Len(c.apexes) \in Nat /\ m \in Nat
      BY <3>1, Zenon DEF Listed
    <3> HIDE DEF m
    <3>6. QED
      BY <3>4, <3>5
  <2>3. QED
    BY <2>1, <2>2 DEF Start
<1>5. QED
  BY <1>1, <1>2, <1>3, <1>4 DEF SInv, Collected

\* MakeSignature adds the size that it finds.
LEMMA SignApexSInv ==
    ASSUME SInv, SignApex
    PROVE  SInv'
<1> DEFINE x == GetFileSize(config.apexes[done + 1])
<1>1. /\ Listed(apex_sizes, done) /\ done < Len(config.apexes) /\ done \in Nat
      /\ ~replaced => Collected(done)
  BY DEF SInv, SignApex, Listed
<1>2. /\ UNCHANGED <<size, config, signature, replaced, silent>>
      /\ \/ pc' = "failed"
         \/ apex_sizes' = Append(apex_sizes, x) /\ done' = done + 1 /\ pc' = "sign"
  BY DEF SignApex, Fails, output, payload_history
<1>3. Payloads' = Payloads
  BY <1>2 DEF Payloads
<1>4. CASE pc' = "failed"
  BY <1>3, <1>4 DEF SInv
<1>5. CASE apex_sizes' = Append(apex_sizes, x) /\ done' = done + 1 /\ pc' = "sign"
  <2>1. /\ Listed(apex_sizes', done')
        /\ \A k \in 1 .. done : apex_sizes'[k] = apex_sizes[k]
        /\ apex_sizes'[done + 1] = x
    <3>1. Extends(Append(apex_sizes, x), apex_sizes, done, x)
      BY <1>1, Appended, Zenon
    <3>2. Extends(apex_sizes', apex_sizes, done, x) /\ done' = done + 1
      BY <1>5, <3>1, Zenon
    <3>3. QED
      BY <3>2, Zenon DEF Extends
  <2>2. done' <= Len(config'.apexes)
    BY <1>1, <1>2, <1>5
  <2>3. ASSUME ~replaced PROVE Collected(done)'
    <3>1. \A k \in 1 .. done + 1 : k \in 1 .. done \/ k = done + 1
      BY <1>1
    <3>2. \A k \in 1 .. done + 1 : apex_sizes'[k] = GetFileSize(config.apexes[k])
      BY <1>1, <2>1, <2>3, <3>1, Zenon DEF Collected
    <3>3. QED
      BY <1>2, <1>5, <3>2, Zenon DEF Collected, GetFileSize
  <2>4. QED
    BY <1>2, <1>3, <1>5, <2>1, <2>2, <2>3 DEF SInv
<1>6. QED
  BY <1>2, <1>4, <1>5

\* Every step of mk_payload keeps the signature in step with the sizes.
LEMMA NextSInv == MessagesFit /\ SInv /\ [PayloadNext]_payload_vars => SInv'
<1> SUFFICES ASSUME MessagesFit, SInv, [PayloadNext]_payload_vars PROVE SInv'
  OBVIOUS
<1>1. CASE UNCHANGED payload_vars
  BY <1>1, Zenon DEF SInv, Collected, GetFileSize, Payloads, payload_vars
<1>2. CASE WriteSignature
  <2>1. /\ UNCHANGED <<size, config, apex_sizes, replaced>>
        /\ pc = "sign" /\ done = Len(config.apexes) /\ pc' \in {"fill", "failed"}
        /\ pc' = "fill" /\ ~silent' =>
              signature' = WriteMicrodroidSignature(Body(config, apex_sizes))
    BY <1>2 DEF WriteSignature, Fails
  <2>2. Payloads' = Payloads
    BY <2>1 DEF Payloads
  <2>3. ~replaced => Collected(Len(config.apexes))'
    BY <2>1 DEF SInv, Collected, GetFileSize
  <2>4. QED
    BY <2>1, <2>2, <2>3 DEF SInv, Collected
<1>3. CASE AddPartition \/ CreateDisk
  <2>1. /\ UNCHANGED <<size, config, apex_sizes, signature, replaced, silent>>
        /\ pc = "fill" /\ pc' \in {"fill", "ok", "failed"}
    BY <1>3 DEF AddPartition, CreateDisk, Fails, work, payload_history
  <2>2. QED
    BY <2>1, Zenon DEF SInv, Collected, GetFileSize, Payloads
<1>4. CASE \E path \in Paths, n \in Sizes \cup {NoFile} : Replace(path, n)
  <2>1. UNCHANGED <<pc, config, done, apex_sizes, signature, silent>> /\ replaced'
    BY <1>4 DEF Replace, work, output
  <2>2. QED
    BY <2>1, Zenon DEF SInv, Payloads
<1>5. QED
  BY <1>1, <1>2, <1>3, <1>4, StartSInv, SignApexSInv DEF PayloadNext

\* A guest that reads the signature of a disk finds its partitions in their
\* order, with the sizes that they end with, as long as a uint32_t can tell the
\* length of the message and the write of it did not fail unnoticed
\* (MakeSignature, WriteMicrodroidSignature and ReadMicrodroidSignature).
THEOREM SignatureMatchesDisk == MessagesFit /\ PayloadSpec => []SignatureDescribesDisk
<1>1. MessagesFit /\ PayloadInit => SInv
  <2> SUFFICES ASSUME MessagesFit, PayloadInit PROVE SInv
    OBVIOUS
  <2>1. Payloads = <<>> \o <<>>
    BY Zenon DEF PayloadInit, Payloads, NoConfig
  <2>2. Len(<<>> \o <<>>) = 0
    OBVIOUS
  <2>3. QED
    BY <2>1, <2>2 DEF PayloadInit, MessagesFit, SInv
<1>2. PayloadInv /\ SInv => SignatureDescribesDisk
  <2> SUFFICES ASSUME PayloadInv, SInv, pc = "ok", ~silent
               PROVE  LET read == ReadMicrodroidSignature(SignaturePartition(signature))
                      IN  /\ Len(read) = 1 + Len(disk)
                          /\ \A k \in DOMAIN disk : read[k + 1].name = disk[k].path
                          /\ ~replaced => \A k \in 1 .. Len(config.apexes) :
                                read[k + 1].size = fillers[disk[k].filler].word
    BY DEF SignatureDescribesDisk
  <2> DEFINE read == ReadMicrodroidSignature(SignaturePartition(signature))
             body == Body(config, apex_sizes)
             l == Len(Payloads)
             m == Len(config.apexes)
  <2>1. /\ Listed(body, 1 + l)
        /\ \A k \in 1 .. l : body[k + 1].name = Payloads[k]
        /\ \A k \in 1 .. m : body[k + 1].size = apex_sizes[k]
    BY BodyFacts, Zenon DEF PayloadInv
  <2>2. l \in Nat /\ 1 + l < WORD
    BY PayloadsType, PayloadAssumption DEF PayloadInv, SInv
  <2>3. signature = WriteMicrodroidSignature(body)
    BY DEF SInv
  <2> HIDE DEF body
  <2>4. Len(read) = 1 + l /\ \A k \in 1 .. 1 + l : read[k] = body[k]
    BY <2>1, <2>2, <2>3, ReadBack
  <2> HIDE DEF read
  <2>5. /\ DOMAIN disk = 1 .. l /\ Len(disk) = l /\ done = l
        /\ \A k \in 1 .. l : disk[k].path = Payloads[k] /\ disk[k].filler = k
    BY <2>2 DEF PayloadInv
  <2>6. \A k \in 1 .. l : k + 1 \in 1 .. 1 + l
    BY <2>2
  <2>7. \A k \in 1 .. l : read[k + 1].name = disk[k].path
    BY <2>1, <2>4, <2>5, <2>6
  <2>8. ASSUME ~replaced, NEW k \in 1 .. m
        PROVE  read[k + 1].size = fillers[disk[k].filler].word
    <3>1. k \in 1 .. l /\ Payloads[k] = config.apexes[k]
      <4>1. Listed(config.apexes, m) /\ Listed(config.apk, Len(config.apk))
        BY DEF PayloadInv, Listed
      <4>2. Joins(Payloads, config.apexes, m, config.apk, Len(config.apk))
        BY <4>1, Concat, Zenon DEF Payloads
      <4>3. l = m + Len(config.apk) /\ Payloads[k] = config.apexes[k]
        BY <2>8, <4>2, ListedLen, Zenon DEF Joins
      <4>4. m \in Nat /\ Len(config.apk) \in Nat
        BY <4>1, Zenon DEF Listed
      <4> HIDE DEF l, m
      <4>5. QED
        BY <2>8, <4>3, <4>4
    <3>2. read[k + 1].size = GetFileSize(config.apexes[k])
      BY <2>1, <2>4, <2>6, <2>8, <3>1 DEF SInv, Collected
    <3>3. fillers[k] = Filler(GetFileSize(config.apexes[k]))
      BY <2>5, <2>8, <3>1 DEF PayloadInv, Filled
    <3>4. QED
      BY <2>5, <3>1, <3>2, <3>3 DEF Filler
  <2>9. QED
    BY <2>4, <2>5, <2>7, <2>8 DEF read
<1>3. MessagesFit /\ [PayloadNext]_payload_vars => MessagesFit'
  BY Zenon DEF MessagesFit
<1>4. QED
  BY <1>1, <1>2, <1>3, PayloadInitInv, PayloadNextInv, NextSInv, PTL DEF PayloadSpec

-----------------------------------------------------------------------------
(* Types. *)

PayloadTypeInv ==
    /\ PayloadTypeOK
    /\ config \in [apexes : Seq(Paths), apk : Seq(Paths)]
    /\ Listed(apex_sizes, Len(apex_sizes))
    /\ Listed(fillers, Len(fillers))
    /\ pc = "fill" => done <= Len(fillers)

\* The payloads are the APEXes and the APK.
LEMMA PayloadsLen ==
    ASSUME NEW c \in [apexes : Seq(Paths), apk : Seq(Paths)]
    PROVE  /\ Len(c.apexes) \in Nat /\ Len(c.apk) \in Nat
           /\ Len(c.apexes \o c.apk) = Len(c.apexes) + Len(c.apk)
           /\ c.apexes \o c.apk \in Seq(Paths)
<1>1. c.apexes \in Seq(Paths) /\ c.apk \in Seq(Paths)
  OBVIOUS
<1>2. QED
  BY <1>1

\* A list that has no value but strings is a list of paths.
LEMMA OnlyPaths ==
    ASSUME NEW s \in Seq(Named), NEW t, NEW u, NEW l, NEW m, NEW n,
           Joins(u, t, l, s, m), l \in Nat, m = Len(s),
           NotAString \notin {u[k] : k \in 1 .. l + m}
    PROVE  s \in Seq(Paths)
<1>1. m \in Nat /\ \A k \in 1 .. m : s[k] \in Named
  OBVIOUS
<1>2. ASSUME NEW k \in 1 .. m PROVE s[k] # NotAString
  <2>1. l + k \in 1 .. l + m
    BY <1>1
  <2>2. u[l + k] = s[k]
    BY Zenon DEF Joins
  <2>3. QED
    BY <2>1, <2>2, Zenon
<1>3. \A k \in 1 .. m : s[k] \in Paths
  BY <1>1, <1>2 DEF Named
<1>4. QED
  BY <1>1, <1>3

\* The config of a run that goes on has only paths of files.
LEMMA LoadedConfig ==
    ASSUME NEW c \in Configs, ParseJson(c), SystemApexesFound(c)
    PROVE  LoadSystemApexes(c) \in [apexes : Seq(Paths), apk : Seq(Paths)]
<1> DEFINE l == Len(c.system_apexes)
           m == Len(c.apexes)
           n == Len(c.apk)
           u == c.system_apexes \o c.apexes
           v == u \o c.apk
           s == [k \in 1 .. l |-> ApexInfo[c.system_apexes[k]]]
<1>1. /\ c.apexes \in Seq(Named) /\ c.apk \in Seq(Named)
      /\ c.system_apexes \in Seq(DOMAIN ApexInfo \cup STRING)
  BY ConfigAssumption DEF Named
<1>2. /\ Listed(c.system_apexes, l) /\ Listed(c.apexes, m) /\ Listed(c.apk, n)
      /\ l \in Nat /\ m \in Nat /\ n \in Nat
  BY <1>1 DEF Listed
<1>3. Joins(u, c.system_apexes, l, c.apexes, m)
  BY <1>2, Concat, Zenon
<1>4. Joins(v, u, l + m, c.apk, n)
  <2>1. Listed(u, l + m)
    BY <1>3, Zenon DEF Joins
  <2>2. QED
    BY <1>2, <2>1, Concat, Zenon
<1>5. NotAString \notin Range(v)
  BY DEF ParseJson
<1> HIDE DEF u, v, l, m, n
<1>6. l + m \in Nat
  BY <1>2
<1>7. NotAString \notin {v[k] : k \in 1 .. (l + m) + n}
  <2>1. DOMAIN v = 1 .. (l + m) + n
    BY <1>4, Zenon DEF Joins, Listed
  <2>2. QED
    BY <1>5, <2>1 DEF Range
<1>8. c.apk \in Seq(Paths)
  BY <1>1, <1>4, <1>6, <1>7, OnlyPaths, Zenon DEF n
<1>9. NotAString \notin {u[k] : k \in 1 .. l + m}
  <2>1. \A k \in 1 .. l + m : k \in 1 .. (l + m) + n
    BY <1>2
  <2>2. \A k \in 1 .. l + m : v[k] = u[k]
    BY <1>4, Zenon DEF Joins
  <2>3. QED
    BY <1>7, <2>1, <2>2, Zenon
<1>10. c.apexes \in Seq(Paths)
  BY <1>1, <1>2, <1>3, <1>9, OnlyPaths DEF m
<1>11. s \in Seq(Paths)
  <2>1. \A k \in 1 .. l : ApexInfo[c.system_apexes[k]] \in Paths
    BY <1>1, ConfigAssumption DEF SystemApexesFound, Range, l
  <2>2. QED
    BY <1>2, <2>1
<1> HIDE DEF s
<1>12. c.apexes \o s \in Seq(Paths)
  BY <1>10, <1>11
<1>13. LoadSystemApexes(c) = [apexes |-> c.apexes \o s, apk |-> c.apk]
  BY Zenon DEF LoadSystemApexes, s, l
<1> DEFINE a == c.apexes \o s
<1> HIDE DEF a
<1>14. a \in Seq(Paths) /\ LoadSystemApexes(c) = [apexes |-> a, apk |-> c.apk]
  BY <1>12, <1>13 DEF a
<1>15. \A x, y \in Seq(Paths) : [apexes |-> x, apk |-> y] \in [apexes : Seq(Paths), apk : Seq(Paths)]
  OBVIOUS
<1>16. QED
  BY <1>8, <1>14, <1>15, Zenon

\* The start of a run keeps the types,
LEMMA StartTypes ==
    ASSUME PayloadTypeInv, NEW c \in Configs, Start(c)
    PROVE  PayloadTypeInv'
<1>1. config' \in [apexes : Seq(Paths), apk : Seq(Paths)]
  <2>1. NoConfig \in [apexes : Seq(Paths), apk : Seq(Paths)]
    <3>1. <<>> \in Seq(Paths)
      OBVIOUS
    <3>2. QED
      BY <3>1, Zenon DEF NoConfig
  <2>2. QED
    BY <2>1, LoadedConfig DEF Start
<1>2. /\ done' = 0 /\ apex_sizes' = <<>> /\ UNCHANGED <<size, fillers>>
      /\ pc' \in {"sign", "failed"} /\ runs' \in 0 .. MaxRuns
  BY PayloadAssumption DEF Start, Ready, Fails, PayloadTypeInv, PayloadTypeOK, output
<1>3. replaced' \in BOOLEAN /\ silent' \in BOOLEAN
  BY Zenon DEF Start
<1>4. Payloads' \in Seq(Paths)
  BY <1>1, PayloadsLen DEF Payloads
<1>5. 0 \in 0 .. Len(Payloads')
  BY <1>4
<1>6. Len(<<>>) = 0 /\ Listed(<<>>, 0)
  BY DEF Listed
<1>7. QED
  BY <1>1, <1>2, <1>3, <1>5, <1>6 DEF PayloadTypeInv, PayloadTypeOK

\* so does a size that goes into the signature,
LEMMA SignApexTypes ==
    ASSUME PayloadTypeInv, SignApex
    PROVE  PayloadTypeInv'
<1> DEFINE x == GetFileSize(config.apexes[done + 1])
<1>1. /\ pc = "sign" /\ done < Len(config.apexes)
      /\ UNCHANGED <<size, config, fillers, replaced, silent, runs>>
      /\ \/ pc' = "failed" /\ UNCHANGED <<done, apex_sizes>>
         \/ apex_sizes' = Append(apex_sizes, x) /\ done' = done + 1 /\ pc' = pc
  BY DEF SignApex, Fails, output, payload_history
<1>2. CASE pc' = "failed" /\ UNCHANGED <<done, apex_sizes>>
  BY <1>1, <1>2 DEF PayloadTypeInv, PayloadTypeOK, Payloads
<1>3. CASE apex_sizes' = Append(apex_sizes, x) /\ done' = done + 1 /\ pc' = pc
  <2>1. Extends(Append(apex_sizes, x), apex_sizes, Len(apex_sizes), x)
    BY Appended, Zenon DEF PayloadTypeInv
  <2>2. Listed(apex_sizes', Len(apex_sizes) + 1)
    BY <1>3, <2>1 DEF Extends
  <2>3. Len(apex_sizes') = Len(apex_sizes) + 1
    BY <2>2, ListedLen
  <2>4. Len(config.apexes) \in Nat /\ Len(Payloads) = Len(config.apexes) + Len(config.apk)
        /\ Len(config.apk) \in Nat
    BY PayloadsLen DEF PayloadTypeInv, Payloads
  <2>5. done' \in 0 .. Len(Payloads)
    BY <1>1, <1>3, <2>4 DEF PayloadTypeInv, PayloadTypeOK
  <2>6. Payloads' = Payloads
    BY <1>1 DEF Payloads
  <2>7. QED
    BY <1>1, <1>3, <2>2, <2>3, <2>5, <2>6 DEF PayloadTypeInv, PayloadTypeOK
<1>4. QED
  BY <1>1, <1>2, <1>3

\* Sizes are told modulo a word.
LEMMA FileSizeType ==
    ASSUME PayloadTypeInv, NEW path \in Paths, size[path] # NoFile
    PROVE  GetFileSize(path) \in 0 .. WORD - 1
<1>1. size[path] \in Nat /\ WORD \in Nat \ {0} /\ LinkSize \in Nat
  BY PayloadAssumption, Zenon DEF PayloadTypeInv, PayloadTypeOK, LinkSize
<1>2. QED
  BY <1>1 DEF GetFileSize

\* a partition that is added,
LEMMA AddPartitionTypes ==
    ASSUME PayloadTypeInv, AddPartition
    PROVE  PayloadTypeInv'
<1> DEFINE path == Payloads[done + 1]
           v == Filler(GetFileSize(path))
           z == [len |-> 0, word |-> 0]
<1>1. /\ pc = "fill" /\ done < Len(Payloads)
      /\ UNCHANGED <<size, config, apex_sizes, replaced, silent, runs>>
      /\ \/ /\ fillers' = Put(fillers, done + 1, v) /\ size[path] # NoFile
            /\ done' = done + 1 /\ pc' = pc
         \/ fillers' = fillers /\ done' = done /\ pc' = "failed"
         \/ fillers' = Put(fillers, done + 1, z) /\ done' = done /\ pc' = "failed"
  BY Zenon DEF AddPartition, PartitionOrder, Fails, payload_history
<1>2. /\ done \in Nat /\ Len(fillers) \in Nat /\ Payloads \in Seq(Paths)
      /\ DOMAIN fillers = 1 .. Len(fillers) /\ done <= Len(fillers)
  BY <1>1, PayloadsLen DEF PayloadTypeInv, PayloadTypeOK, Listed, Payloads
<1>3. path \in Paths
  BY <1>1, <1>2
<1>4. z.len \in Nat /\ z.word \in 0 .. WORD - 1
  BY PayloadAssumption
<1>5. size[path] # NoFile => v.len \in Nat /\ v.word \in 0 .. WORD - 1
  <2> DEFINE g == GetFileSize(path)
  <2>1. SUFFICES ASSUME size[path] # NoFile PROVE v.len \in Nat /\ v.word \in 0 .. WORD - 1
    OBVIOUS
  <2>2. g \in 0 .. WORD - 1 /\ g \in Nat /\ g + SIZEOF \in Nat /\ SIZEOF \in Nat
    BY <1>3, <2>1, FileSizeType, PayloadAssumption
  <2> HIDE DEF g
  <2>3. AlignToPartitionSize(g + SIZEOF) \in Nat /\ g + SIZEOF <= AlignToPartitionSize(g + SIZEOF)
    BY <2>2, Alignment
  <2>4. v = [len |-> AlignToPartitionSize(g + SIZEOF) - g, word |-> g]
    BY DEF Filler, g
  <2> HIDE DEF v
  <2>5. QED
    BY <2>2, <2>3, <2>4
<1> HIDE DEF path, v, z
<1>6. ASSUME NEW w, w.len \in Nat /\ w.word \in 0 .. WORD - 1
      PROVE  /\ Listed(Put(fillers, done + 1, w), Len(Put(fillers, done + 1, w)))
             /\ done + 1 <= Len(Put(fillers, done + 1, w))
             /\ \A k \in DOMAIN Put(fillers, done + 1, w) :
                   /\ Put(fillers, done + 1, w)[k].len \in Nat
                   /\ Put(fillers, done + 1, w)[k].word \in 0 .. WORD - 1
  <2> DEFINE n == IF done + 1 > Len(fillers) THEN done + 1 ELSE Len(fillers)
             p == Put(fillers, done + 1, w)
  <2>1. n \in Nat
    BY <1>2
  <2>2. p = [j \in 1 .. n |-> IF j = done + 1 THEN w ELSE fillers[j]]
    BY DEF Put
  <2>3. Listed(p, n)
    <3> HIDE DEF n
    <3> QED
      BY <2>1, <2>2 DEF Listed
  <2>4. Len(p) = n
    BY <2>3, ListedLen
  <2>5. \A k \in 1 .. n : k = done + 1 \/ k \in DOMAIN fillers
    BY <1>2
  <2>6. done + 1 <= n
    BY <1>2
  <2> HIDE DEF n
  <2>7. ASSUME NEW k \in DOMAIN p PROVE p[k].len \in Nat /\ p[k].word \in 0 .. WORD - 1
    <3>1. k \in 1 .. n /\ (p[k] = w \/ (k \in DOMAIN fillers /\ p[k] = fillers[k]))
      BY <2>2, <2>5, <2>7, Zenon
    <3> HIDE DEF p
    <3>2. QED
      BY <1>6, <3>1 DEF PayloadTypeInv, PayloadTypeOK
  <2> HIDE DEF p
  <2>8. QED
    BY <2>3, <2>4, <2>6, <2>7 DEF p
<1>7. /\ Listed(fillers', Len(fillers'))
      /\ pc' = "fill" => done' <= Len(fillers')
      /\ \A k \in DOMAIN fillers' : fillers'[k].len \in Nat /\ fillers'[k].word \in 0 .. WORD - 1
  <2>1. CASE fillers' = fillers /\ pc' = "failed"
    BY <2>1 DEF PayloadTypeInv, PayloadTypeOK
  <2>2. CASE fillers' = Put(fillers, done + 1, z) /\ pc' = "failed"
    BY <1>4, <1>6, <2>2, Zenon
  <2>3. CASE fillers' = Put(fillers, done + 1, v) /\ size[path] # NoFile /\ done' = done + 1
    BY <1>5, <1>6, <2>3
  <2>4. QED
    BY <1>1, <2>1, <2>2, <2>3
<1>8. done' \in 0 .. Len(Payloads) /\ pc' \in {"fill", "failed"}
  BY <1>1, <1>2
<1>9. Payloads' = Payloads
  BY <1>1 DEF Payloads
<1>10. QED
  BY <1>1, <1>7, <1>8, <1>9, Zenon DEF PayloadTypeInv, PayloadTypeOK

\* and thus every step of mk_payload.
LEMMA PayloadNextTypes == PayloadTypeInv /\ [PayloadNext]_payload_vars => PayloadTypeInv'
<1> SUFFICES ASSUME PayloadTypeInv, [PayloadNext]_payload_vars PROVE PayloadTypeInv'
  OBVIOUS
<1>1. CASE UNCHANGED payload_vars
  BY <1>1, Zenon DEF PayloadTypeInv, PayloadTypeOK, Payloads, payload_vars
<1>2. CASE WriteSignature
  <2>1. silent' \in BOOLEAN
    BY <1>2, Zenon DEF WriteSignature, PayloadTypeInv, PayloadTypeOK
  <2>2. /\ UNCHANGED <<size, config, apex_sizes, fillers, replaced, runs>>
        /\ pc = "sign" /\ done = Len(config.apexes) /\ pc' \in {"fill", "failed"} /\ done' = 0
    BY <1>2 DEF WriteSignature, Fails
  <2>3. Payloads' = Payloads /\ 0 \in 0 .. Len(Payloads) /\ 0 <= Len(fillers)
    BY <2>2, PayloadsLen DEF PayloadTypeInv, Payloads, Listed
  <2>4. QED
    BY <2>1, <2>2, <2>3 DEF PayloadTypeInv, PayloadTypeOK
<1>3. CASE CreateDisk
  <2>1. UNCHANGED <<size, config, done, apex_sizes, fillers, replaced, silent, runs>>
        /\ pc = "fill" /\ pc' = "ok"
    BY <1>3 DEF CreateDisk, work, payload_history
  <2>2. QED
    BY <2>1 DEF PayloadTypeInv, PayloadTypeOK, Payloads
<1>4. ASSUME NEW path \in Paths, NEW n \in Sizes \cup {NoFile}, Replace(path, n) PROVE PayloadTypeInv'
  <2>1. /\ size' \in [Paths -> Sizes \cup {NoFile}]
        /\ UNCHANGED <<pc, config, done, apex_sizes, fillers, silent, runs>>
    BY <1>4, Zenon DEF Replace, work, output, PayloadTypeInv, PayloadTypeOK
  <2>2. replaced' \in BOOLEAN
    BY <1>4, Zenon DEF Replace
  <2>3. QED
    BY <2>1, <2>2 DEF PayloadTypeInv, PayloadTypeOK, Payloads
<1>5. QED
  BY <1>1, <1>2, <1>3, <1>4, StartTypes, SignApexTypes, AddPartitionTypes DEF PayloadNext

\* For all configs and files, the signature that a run writes has one size for
\* each APEX of its config, all of them below the range of a word, and a filler
\* is never shorter than nothing (MakeSignature and MakePayload).
THEOREM PayloadTypeCorrect == PayloadSpec => []PayloadTypeOK
<1>1. PayloadInit => PayloadTypeInv
  <2> SUFFICES ASSUME PayloadInit PROVE PayloadTypeInv
    OBVIOUS
  <2>1. <<>> \in Seq(Paths) /\ Len(<<>>) = 0 /\ Listed(<<>>, 0)
    BY DEF Listed
  <2>2. config \in [apexes : Seq(Paths), apk : Seq(Paths)]
    BY <2>1, Zenon DEF PayloadInit, NoConfig
  <2>3. 0 \in 0 .. Len(Payloads) /\ 0 \in 0 .. MaxRuns /\ DOMAIN <<>> = {}
    BY <2>2, PayloadsLen, PayloadAssumption DEF Payloads
  <2>4. replaced \in BOOLEAN /\ silent \in BOOLEAN
    BY Zenon DEF PayloadInit
  <2>5. QED
    BY <2>1, <2>2, <2>3, <2>4 DEF PayloadInit, PayloadTypeInv, PayloadTypeOK
<1>2. PayloadTypeInv => PayloadTypeOK
  BY DEF PayloadTypeInv
<1>3. QED
  BY <1>1, <1>2, PayloadNextTypes, PTL DEF PayloadSpec
=============================================================================

--------------------------- MODULE NetAllocProofs ---------------------------
(***************************************************************************)
(* What the network allocator guarantees for every set of VMs and          *)
(* projects, every supernet, and every mix of failing host commands and    *)
(* crashes: addresses are unique, a VM with an address is wired up and     *)
(* found again after a crash, and what failed operations leave behind      *)
(* harms nobody.                                                           *)
(*                                                                         *)
(* The argument: the allocator state is consistent (Consistent) and is     *)
(* what the addresses and the operation in flight say (Leased); an         *)
(* operation that builds or removes a subnet is alone on it (Sole), so the *)
(* devices of every other project stay (EntriesWired, TapsOn).             *)
(***************************************************************************)
EXTENDS NetAlloc, WellFoundedInduction, TLAPS

(* Frames, jumps and groups of actions, which every leaf may look into. *)
USE DEF mem, host, At, Goto, Rest, NoSubnet, AllocStep, DeleteStep,
        AfterDelete, LinkDel, HasEntry

-----------------------------------------------------------------------------
(* The operators of the allocator. *)

(* Min picks an element of every nonempty set of naturals. *)
LEMMA MinElement ==
  ASSUME NEW S, S \subseteq Nat, S # {}
  PROVE  Min(S) \in S
<1>1. PICK x \in S : \A y \in S : ~(<<y, x>> \in OpToRel(<, Nat))
  BY NatLessThanWellFounded, WFMin, Zenon
<1>2. ASSUME NEW y \in S PROVE x =< y
  <2>1. ~(<<y, x>> \in {ss \in Nat \X Nat : ss[1] < ss[2]})
    BY <1>1, Zenon DEF OpToRel
  <2>2. ~(y < x)
    BY <2>1
  <2> QED
    BY <2>2
<1> QED
  BY <1>2, Zenon DEF Min

(* Operations in flight, and the phases without any. *)
WorkPc == {"bridge", "address", "nat", "tap", "enslave", "delTap", "delNat",
           "delBridge", "rollback", "save"}
DownPc == {"down", "recTaps", "recBridges", "recStray"}
SetupPc == {"bridge", "address", "nat", "delNat", "delBridge"}
AllocPc == {"bridge", "address", "nat", "tap", "enslave", "rollback"}

Op == [kind : {"alloc", "release"}, vm : Vm, project : Project,
       addr : (Subnet \X Host) \cup {NoAddr},
       setup : Subnet \cup {NoSubnet}, pc : WorkPc]

Working == op.pc \in WorkPc
Allocating == Working /\ op.kind = "alloc"
Releasing == Working /\ op.kind = "release"
SettingUp == Working /\ op.setup # NoSubnet

(* The operation in flight. *)
OpOK ==
    /\ Working => op \in Op
    /\ ~Working => op \in [pc : {"idle"} \cup DownPc]
    /\ op.pc \in SetupPc => op.setup # NoSubnet
    /\ op.pc \in AllocPc => op.kind = "alloc"
    /\ Allocating => op.addr \in Subnet \X Host

(* A subnet has one project, a VM one lease, and a project has an entry    *)
(* exactly as long as it has a VM.                                         *)
Consistent(s) ==
    /\ \A p, q \in Project : s.subnet[p] = s.subnet[q] /\ s.subnet[p] # NoSubnet
                             => p = q
    /\ \A p, q \in Project, h, k \in Host :
           s.vms[p][h] = s.vms[q][k] /\ s.vms[p][h] # NoVm => p = q /\ h = k
    /\ \A p \in Project : s.subnet[p] = NoSubnet <=>
                          \A h \in Host : s.vms[p][h] = NoVm

Leases(s, p, v, a) == s.subnet[p] = a[1] /\ s.vms[p][a[2]] = v

(* A VM with an address has the lease of it; a VM whose operation is in    *)
(* flight has no address; without hostd nobody has one.                    *)
Leased ==
    /\ \A v \in Vm : addr[v] # NoAddr =>
           \E p \in Project : Leases(state, p, v, addr[v])
    /\ Working => addr[op.vm] = NoAddr
    /\ Allocating => Leases(state, op.project, op.vm, op.addr)
    /\ op.pc \in DownPc => \A v \in Vm : addr[v] = NoAddr

(* An operation that sets up or tears down a subnet is alone on it, and an *)
(* allocate that does not is not.                                          *)
Sole ==
    /\ Allocating /\ op.setup # NoSubnet =>
           /\ op.setup = state.subnet[op.project]
           /\ \A h \in Host : state.vms[op.project][h] \in {NoVm, op.vm}
    /\ Releasing /\ op.setup # NoSubnet =>
           /\ state.subnet[op.project] = NoSubnet
           /\ \A p \in Project : state.subnet[p] # op.setup
    /\ Allocating /\ op.setup = NoSubnet =>
           \E h \in Host : state.vms[op.project][h] \notin {NoVm, op.vm}

(* The bridge, gateway and NAT of a project's subnet. *)
Wired(p) ==
    p \in bridges /\ state.subnet[p] \in gateway[p] /\ state.subnet[p] \in nat

(* Every project with an entry is wired, but one that is being set up or   *)
(* undone; and that one as far as it has come.                             *)
EntriesWired ==
    /\ op.pc \notin DownPc => \A p \in Project :
           HasEntry(p) => Wired(p) \/ (SettingUp /\ p = op.project)
    /\ op.pc \in {"address", "nat"} => op.project \in bridges
    /\ op.pc = "nat" => op.setup \in gateway[op.project]
    /\ Allocating /\ op.pc \in {"tap", "enslave", "save"} => Wired(op.project)

TapsOn ==
    /\ \A v \in Vm, p \in Project :
        addr[v] # NoAddr /\ Leases(state, p, v, addr[v]) => tap[v] = p
    /\ Allocating /\ op.pc = "save" => tap[op.vm] = op.project

(* As long as saving works every lease is a VM's or the operation's. *)
NoIdleLease ==
    "save" \notin faults /\ op.pc \notin DownPc => \A v \in Vm, p \in Project :
        Owns(state, p, v) => addr[v] # NoAddr \/ (Allocating /\ v = op.vm)

(* The bridge of the operation is gone. *)
Torn ==
    /\ SettingUp
    /\ op.pc = "rollback" \/ (op.pc = "save" /\ op.kind = "release")

(* As long as deleting works a bridge carries its own gateway only. *)
Gateways ==
    /\ \A p \in Project : p \notin bridges => gateway[p] = {}
    /\ "delete" \notin faults =>
        /\ \A p, q \in Project : p # q => gateway[p] \cap gateway[q] = {}
        /\ op.pc \notin DownPc => \A p \in Project : \A s \in gateway[p] :
               s = state.subnet[p]
               \/ (Releasing /\ p = op.project /\ s = op.setup)
        /\ Torn => gateway[op.project] = {}

IInv == /\ TypeOK /\ OpOK /\ Consistent(state) /\ Consistent(saved)
        /\ Leased /\ LiveIsSaved /\ Sole /\ EntriesWired /\ TapsOn
        /\ NoIdleLease /\ Gateways

-----------------------------------------------------------------------------
(* The steps that write the allocator state. *)

(* allocate leases a free address: one of the project's subnet, or one of  *)
(* a subnet nobody has.                                                    *)
LEMMA LeaseFree ==
  ASSUME TypeOK, Consistent(state), NEW p \in Project, CanLease(p)
  PROVE  /\ Lease(p) \in Subnet \X Host
         /\ state.vms[p][Lease(p)[2]] = NoVm
         /\ HasEntry(p) => Lease(p)[1] = state.subnet[p]
         /\ ~HasEntry(p) => \A q \in Project : state.subnet[q] # Lease(p)[1]
<1> USE SubnetAssumption DEF TypeOK, NetState, Subnet, Host
<1>1. CASE HasEntry(p)
  <2>1. FreeHosts(p) \subseteq Nat /\ FreeHosts(p) # {}
    BY <1>1 DEF CanLease, FreeHosts
  <2>2. Min(FreeHosts(p)) \in FreeHosts(p)
    BY <2>1, MinElement, Zenon
  <2> QED
    BY <1>1, <2>2 DEF Lease, FreeHosts
<1>2. CASE ~HasEntry(p)
  <2>1. FreeSubnets \subseteq Nat /\ FreeSubnets # {}
    BY <1>2 DEF CanLease, FreeSubnets
  <2>2. Min(FreeSubnets) \in FreeSubnets
    BY <2>1, MinElement, Zenon
  <2> QED
    BY <1>2, <2>2 DEF Lease, FreeSubnets, CanLease, Consistent
<1> QED
  BY <1>1, <1>2

(* The state after it. *)
LEMMA AllocateState ==
  ASSUME TypeOK, Consistent(state), NEW v \in Vm, NEW p \in Project,
         Allocate(v, p)
  PROVE  /\ state' \in NetState
         /\ Lease(p) \in Subnet \X Host
         /\ \A q \in Project : state'.subnet[q] =
                IF q = p THEN Lease(p)[1] ELSE state.subnet[q]
         /\ \A q \in Project, h \in Host : state'.vms[q][h] =
                IF q = p /\ h = Lease(p)[2] THEN v ELSE state.vms[q][h]
         /\ \A q \in Project, h \in Host : state.vms[q][h] # v
<1>1. Lease(p) \in Subnet \X Host
  BY LeaseFree DEF Allocate
<1>2. \A q \in Project, h \in Host : state.vms[q][h] # v
  BY DEF Allocate, Fresh, Owns
<1> QED
  BY <1>1, <1>2 DEF Allocate, TypeOK, NetState

(* What Forget leaves. *)
LEMMA ForgetState ==
  ASSUME NEW s \in NetState, NEW p \in Project, NEW v \in Vm
  PROVE  /\ Forget(s, p, v) \in NetState
         /\ \A q \in Project, h \in Host : Forget(s, p, v).vms[q][h] =
                IF q = p /\ s.vms[p][h] = v THEN NoVm ELSE s.vms[q][h]
         /\ \A q \in Project : q # p => Forget(s, p, v).subnet[q] = s.subnet[q]
         /\ Forget(s, p, v).subnet[p] =
                IF \A h \in Host : s.vms[p][h] \in {NoVm, v}
                THEN NoSubnet ELSE s.subnet[p]
<1> DEFINE left == [h \in Host |->
                      IF s.vms[p][h] = v THEN NoVm ELSE s.vms[p][h]]
<1>1. (\A h \in Host : left[h] = NoVm)
        <=> \A h \in Host : s.vms[p][h] \in {NoVm, v}
  OBVIOUS
<1>2. left \in [Host -> Vm \cup {NoVm}]
  BY DEF NetState
<1> HIDE DEF left
<1>3. Forget(s, p, v) =
        [subnet |-> [s.subnet EXCEPT ![p] =
                        IF \A h \in Host : left[h] = NoVm THEN NoSubnet ELSE @],
         vms |-> [s.vms EXCEPT ![p] = left]]
  BY DEF Forget, left
<1>4. \A h \in Host : left[h] = IF s.vms[p][h] = v THEN NoVm ELSE s.vms[p][h]
  BY DEF left
<1> QED
  BY <1>1, <1>2, <1>3, <1>4 DEF NetState

(* Forgetting a VM keeps the state consistent and the other VMs' leases. *)
LEMMA ForgetConsistent ==
  ASSUME NEW s \in NetState, Consistent(s), NEW p \in Project, NEW v \in Vm
  PROVE  Consistent(Forget(s, p, v))
<1> DEFINE f == Forget(s, p, v)
<1>1. /\ f \in NetState
      /\ \A q \in Project, h \in Host : f.vms[q][h] =
             IF q = p /\ s.vms[p][h] = v THEN NoVm ELSE s.vms[q][h]
      /\ \A q \in Project : q # p => f.subnet[q] = s.subnet[q]
      /\ f.subnet[p] = IF \A h \in Host : s.vms[p][h] \in {NoVm, v}
                       THEN NoSubnet ELSE s.subnet[p]
  BY ForgetState
<1> HIDE DEF f
<1>2. ASSUME NEW q \in Project, NEW r \in Project,
             f.subnet[q] = f.subnet[r], f.subnet[q] # NoSubnet
      PROVE  q = r
  BY <1>1, <1>2 DEF Consistent
<1>3. ASSUME NEW q \in Project, NEW r \in Project, NEW h \in Host, NEW k \in Host,
             f.vms[q][h] = f.vms[r][k], f.vms[q][h] # NoVm
      PROVE  q = r /\ h = k
  BY <1>1, <1>3 DEF Consistent
<1>4. ASSUME NEW q \in Project
      PROVE  f.subnet[q] = NoSubnet <=> \A h \in Host : f.vms[q][h] = NoVm
  BY <1>1 DEF Consistent
<1> QED
  BY <1>2, <1>3, <1>4 DEF Consistent, f

LEMMA ForgetKeeps ==
  ASSUME NEW s \in NetState, Consistent(s), NEW p \in Project, NEW v \in Vm,
         NEW q \in Project, NEW w \in Vm, w # v, NEW a \in Subnet \X Host
  PROVE  Leases(Forget(s, p, v), q, w, a) <=> Leases(s, q, w, a)
<1> DEFINE f == Forget(s, p, v)
<1>1. /\ \A r \in Project, h \in Host : f.vms[r][h] =
             IF r = p /\ s.vms[p][h] = v THEN NoVm ELSE s.vms[r][h]
      /\ \A r \in Project : r # p => f.subnet[r] = s.subnet[r]
      /\ f.subnet[p] = IF \A h \in Host : s.vms[p][h] \in {NoVm, v}
                       THEN NoSubnet ELSE s.subnet[p]
  BY ForgetState
<1> HIDE DEF f
<1>2. a[1] # NoSubnet /\ a[2] \in Host /\ w # NoVm
  BY VmAssumption, SubnetAssumption DEF Subnet
<1>3. Leases(f, q, w, a) <=> Leases(s, q, w, a)
  BY <1>1, <1>2 DEF Leases
<1> QED
  BY <1>3 DEF f

(* The VM it forgets has no lease any more. *)
LEMMA ForgetGone ==
  ASSUME NEW s \in NetState, Consistent(s), NEW p \in Project, NEW v \in Vm,
         Owns(s, p, v), NEW q \in Project, NEW w \in Vm,
         Owns(Forget(s, p, v), q, w)
  PROVE  w # v /\ Owns(s, q, w)
<1>1. PICK h \in Host : Forget(s, p, v).vms[q][h] = w
  BY DEF Owns
<1>2. Forget(s, p, v).vms[q][h] =
        IF q = p /\ s.vms[p][h] = v THEN NoVm ELSE s.vms[q][h]
  BY ForgetState
<1>3. s.vms[q][h] = w /\ ~(q = p /\ s.vms[p][h] = v)
  BY <1>1, <1>2, VmAssumption
<1> QED
  BY <1>3, VmAssumption DEF Owns, Consistent

-----------------------------------------------------------------------------
(* A step within an operation, which moves to another of its phases and    *)
(* leaves the allocator state alone, keeps all that is said of that state. *)

MemInv == /\ OpOK /\ Consistent(state) /\ Consistent(saved)
          /\ Leased /\ LiveIsSaved /\ Sole /\ NoIdleLease

LEMMA WithinMem ==
  ASSUME IInv, Working, NEW pc \in WorkPc, UNCHANGED mem, UNCHANGED faults,
         op' = [op EXCEPT !.pc = pc],
         pc \in SetupPc => op.setup # NoSubnet,
         pc \in AllocPc => op.kind = "alloc"
  PROVE  /\ MemInv'
         /\ Working'
         /\ op'.pc = pc /\ op'.kind = op.kind /\ op'.vm = op.vm
         /\ op'.project = op.project /\ op'.setup = op.setup
         /\ op'.pc \in OpPc
<1>1. op \in Op
  BY DEF IInv, OpOK
<1>2. /\ op' \in Op
      /\ op'.pc = pc /\ op'.kind = op.kind /\ op'.vm = op.vm
      /\ op'.project = op.project /\ op'.setup = op.setup
      /\ op'.addr = op.addr
  BY <1>1 DEF Op
<1>3. Working' /\ op'.pc \in OpPc /\ op'.pc \notin DownPc
  BY <1>2 DEF Working, WorkPc, OpPc, DownPc
<1>3a. Working /\ op.pc \notin DownPc
  BY DEF Working, WorkPc, DownPc
<1>4. OpOK'
  BY <1>2, <1>3, <1>3a DEF IInv, OpOK, Allocating
<1>5. Consistent(state)' /\ Consistent(saved)'
  BY DEF IInv, Consistent
<1>6. Leased'
  BY <1>2, <1>3, <1>3a DEF IInv, Leased, Leases, Allocating
<1>7. LiveIsSaved'
  BY DEF IInv, LiveIsSaved
<1>8. Sole'
  BY <1>2, <1>3, <1>3a DEF IInv, Sole, Allocating, Releasing
<1>9. NoIdleLease'
  BY <1>2, <1>3, <1>3a DEF IInv, NoIdleLease, Allocating, Owns
<1> QED
  BY <1>2, <1>3, <1>4, <1>5, <1>6, <1>7, <1>8, <1>9 DEF MemInv

(* An operation that is alone on a project has no VM with an address there *)
(* and shares its subnet with nobody.                                      *)
LEMMA Alone ==
  ASSUME IInv, SettingUp
  PROVE  /\ \A v \in Vm, p \in Project :
              addr[v] # NoAddr /\ Leases(state, p, v, addr[v]) => p # op.project
         /\ \A p \in Project : HasEntry(p) /\ p # op.project
                               => state.subnet[p] # op.setup
<1>1. op \in Op /\ op.kind \in {"alloc", "release"}
  BY DEF IInv, OpOK, SettingUp, Op
<1>2. (Allocating \/ Releasing) /\ Working
  BY <1>1 DEF SettingUp, Allocating, Releasing
<1>3. ASSUME NEW v \in Vm, NEW p \in Project,
             addr[v] # NoAddr, Leases(state, p, v, addr[v])
      PROVE  p # op.project
  <2>1. addr[v] \in Subnet \X Host /\ addr[v][1] # NoSubnet /\ addr[v][2] \in Host
    BY <1>3, SubnetAssumption DEF IInv, TypeOK, Subnet
  <2>2. v # op.vm /\ v # NoVm
    BY <1>2, <1>3, VmAssumption DEF IInv, Leased
  <2> QED
    BY <1>2, <1>3, <2>1, <2>2 DEF IInv, Sole, SettingUp, Leases
<1>4. ASSUME NEW p \in Project, HasEntry(p), p # op.project
      PROVE  state.subnet[p] # op.setup
  BY <1>1, <1>2, <1>4 DEF IInv, Sole, SettingUp, Consistent, Op
<1> QED
  BY <1>3, <1>4

-----------------------------------------------------------------------------
(* The steps of allocate. *)

HostInv == TypeOK /\ EntriesWired /\ TapsOn /\ Gateways

LEMMA AddBridgeStep ==
  ASSUME IInv, AddBridge PROVE IInv'
<1> USE DEF AddBridge
<1>1. op.pc = "bridge" /\ Working
  BY DEF Working, WorkPc
<1>2. op \in Op /\ op.kind = "alloc" /\ op.setup # NoSubnet
  BY <1>1 DEF IInv, OpOK, SetupPc, AllocPc
<1>3. /\ MemInv' /\ Working'
      /\ op'.pc = "address" /\ op'.kind = op.kind /\ op'.vm = op.vm
      /\ op'.project = op.project /\ op'.setup = op.setup
      /\ op'.pc \in OpPc
  BY <1>1, <1>2, WithinMem DEF WorkPc, SetupPc
<1>4. op.project \in Project /\ op.vm \in Vm /\ Allocating /\ SettingUp
  BY <1>1, <1>2 DEF Op, Allocating, SettingUp
<1>5. TypeOK'
  BY <1>3, <1>4 DEF IInv, TypeOK
<1>6. EntriesWired'
  BY <1>1, <1>3, <1>4 DEF IInv, EntriesWired, Wired, SettingUp, Allocating, DownPc
<1>7. TapsOn'
  BY <1>3 DEF IInv, TapsOn, Leases
<1>8. Gateways'
  BY <1>1, <1>2, <1>3, <1>4 DEF IInv, Gateways, Torn, Releasing, DownPc
<1> QED
  BY <1>3, <1>5, <1>6, <1>7, <1>8 DEF HostInv, IInv, MemInv

LEMMA AddAddressStep ==
  ASSUME IInv, AddAddress PROVE IInv'
<1> USE DEF AddAddress
<1>1. op.pc = "address" /\ Working
  BY DEF Working, WorkPc
<1>2. op \in Op /\ op.kind = "alloc" /\ op.setup # NoSubnet
  BY <1>1 DEF IInv, OpOK, SetupPc, AllocPc
<1>3. /\ MemInv' /\ Working'
      /\ op'.pc = "nat" /\ op'.kind = op.kind /\ op'.vm = op.vm
      /\ op'.project = op.project /\ op'.setup = op.setup
      /\ op'.pc \in OpPc
  BY <1>1, <1>2, WithinMem DEF WorkPc, SetupPc
<1>4. /\ op.project \in Project /\ op.setup \in Subnet /\ Allocating /\ SettingUp
      /\ gateway \in [Project -> SUBSET Subnet]
  BY <1>1, <1>2 DEF Op, Allocating, SettingUp, IInv, TypeOK
<1>5. /\ op.setup = state.subnet[op.project]
      /\ op.project \in bridges
  BY <1>1, <1>2, <1>4 DEF IInv, Sole, EntriesWired
<1>5a. \A p \in Project : gateway'[p] = IF p = op.project
                              THEN gateway[p] \cup {op.setup} ELSE gateway[p]
  BY <1>4
<1>6. TypeOK'
  BY <1>3, <1>4 DEF IInv, TypeOK
<1>7. EntriesWired'
  BY <1>1, <1>3, <1>4, <1>5, <1>5a DEF IInv, EntriesWired, Wired, SettingUp, Allocating, DownPc
<1>8. TapsOn'
  BY <1>3 DEF IInv, TapsOn, Leases
<1>9. Gateways'
  <2>1. \A p \in Project : p \notin bridges' => gateway'[p] = {}
    BY <1>5, <1>5a DEF IInv, Gateways
  <2>2. ASSUME "delete" \notin faults, NEW p \in Project, NEW s \in gateway[p]
        PROVE  s = state.subnet[p] /\ s # NoSubnet
    BY <1>1, <1>2, <1>4, <2>2, SubnetAssumption
    DEF IInv, Gateways, Releasing, DownPc, Subnet
  <2>3. ASSUME "delete" \notin faults, NEW p \in Project, NEW s \in gateway'[p]
        PROVE  s = state.subnet[p] /\ s # NoSubnet
    BY <1>2, <1>5, <1>5a, <2>2, <2>3
  <2>4. ASSUME "delete" \notin faults, NEW p \in Project, NEW q \in Project, p # q
        PROVE  gateway'[p] \cap gateway'[q] = {}
    BY <2>3, <2>4 DEF IInv, Consistent
  <2> QED
    BY <1>1, <1>3, <2>1, <2>3, <2>4 DEF Gateways, Torn
<1> QED
  BY <1>3, <1>6, <1>7, <1>8, <1>9 DEF HostInv, IInv, MemInv

LEMMA AddNatStep ==
  ASSUME IInv, AddNat PROVE IInv'
<1> USE DEF AddNat
<1>1. op.pc = "nat" /\ Working
  BY DEF Working, WorkPc
<1>2. op \in Op /\ op.kind = "alloc" /\ op.setup # NoSubnet
  BY <1>1 DEF IInv, OpOK, SetupPc, AllocPc
<1>3. /\ MemInv' /\ Working'
      /\ op'.pc = "tap" /\ op'.kind = op.kind /\ op'.vm = op.vm
      /\ op'.project = op.project /\ op'.setup = op.setup
      /\ op'.pc \in OpPc
  BY <1>1, <1>2, WithinMem DEF WorkPc, SetupPc
<1>4. op.project \in Project /\ op.setup \in Subnet /\ Allocating /\ SettingUp
  BY <1>1, <1>2 DEF Op, Allocating, SettingUp
<1>5. /\ op.setup = state.subnet[op.project]
      /\ op.project \in bridges /\ op.setup \in gateway[op.project]
  BY <1>1, <1>2, <1>4 DEF IInv, Sole, EntriesWired
<1>6. TypeOK'
  BY <1>3, <1>4 DEF IInv, TypeOK
<1>7. EntriesWired'
  BY <1>1, <1>3, <1>4, <1>5 DEF IInv, EntriesWired, Wired, SettingUp, Allocating, DownPc
<1>8. TapsOn'
  BY <1>3 DEF IInv, TapsOn, Leases
<1>9. Gateways'
  BY <1>1, <1>2, <1>3, <1>4 DEF IInv, Gateways, Torn, Releasing, DownPc
<1> QED
  BY <1>3, <1>6, <1>7, <1>8, <1>9 DEF HostInv, IInv, MemInv

(* The TAP of a VM without an address is nobody else's. *)
LEMMA TapOthers ==
  ASSUME IInv, Working, UNCHANGED mem, NEW t, tap' = [tap EXCEPT ![op.vm] = t]
  PROVE  \A v \in Vm, p \in Project :
             addr'[v] # NoAddr /\ Leases(state', p, v, addr'[v]) => tap'[v] = p
<1>1. op.vm \in Vm /\ tap \in [Vm -> Project \cup {NoTap, Loose}]
  BY DEF IInv, OpOK, Op, TypeOK
<1> QED
  BY <1>1 DEF IInv, Leased, TapsOn, Leases

LEMMA AddTapStep ==
  ASSUME IInv, AddTap PROVE IInv'
<1> USE DEF AddTap
<1>1. op.pc = "tap" /\ Working
  BY DEF Working, WorkPc
<1>2. op \in Op /\ op.kind = "alloc"
  BY <1>1 DEF IInv, OpOK, AllocPc
<1>3. /\ MemInv' /\ Working'
      /\ op'.pc = "enslave" /\ op'.kind = op.kind /\ op'.vm = op.vm
      /\ op'.project = op.project /\ op'.setup = op.setup
      /\ op'.pc \in OpPc
  BY <1>1, <1>2, WithinMem DEF WorkPc, SetupPc
<1>4. op.vm \in Vm /\ Allocating
  BY <1>1, <1>2 DEF Op, Allocating
<1>5. TypeOK'
  BY <1>3, <1>4 DEF IInv, TypeOK
<1>6. EntriesWired'
  BY <1>1, <1>3, <1>4 DEF IInv, EntriesWired, Wired, SettingUp, Allocating, DownPc
<1>7. TapsOn'
  BY <1>1, <1>3, TapOthers DEF TapsOn
<1>8. Gateways'
  BY <1>1, <1>2, <1>3 DEF IInv, Gateways, Torn, Releasing, DownPc
<1> QED
  BY <1>3, <1>5, <1>6, <1>7, <1>8 DEF HostInv, IInv, MemInv

LEMMA EnslaveStep ==
  ASSUME IInv, Enslave PROVE IInv'
<1> USE DEF Enslave
<1>1. op.pc = "enslave" /\ Working
  BY DEF Working, WorkPc
<1>2. op \in Op /\ op.kind = "alloc"
  BY <1>1 DEF IInv, OpOK, AllocPc
<1>3. /\ MemInv' /\ Working'
      /\ op'.pc = "save" /\ op'.kind = op.kind /\ op'.vm = op.vm
      /\ op'.project = op.project /\ op'.setup = op.setup
      /\ op'.pc \in OpPc
  BY <1>1, <1>2, WithinMem DEF WorkPc, SetupPc, AllocPc
<1>4. op.vm \in Vm /\ op.project \in Project /\ Allocating
  BY <1>1, <1>2 DEF Op, Allocating
<1>5. TypeOK'
  BY <1>3, <1>4 DEF IInv, TypeOK
<1>6. EntriesWired'
  BY <1>1, <1>3, <1>4 DEF IInv, EntriesWired, Wired, SettingUp, Allocating, DownPc
<1>7. TapsOn'
  <2>1. tap'[op.vm] = op.project
    BY <1>4 DEF IInv, TypeOK
  <2> QED
    BY <1>1, <1>3, <2>1, TapOthers DEF TapsOn
<1>8. Gateways'
  BY <1>1, <1>2, <1>3 DEF IInv, Gateways, Torn, Releasing, DownPc
<1> QED
  BY <1>3, <1>5, <1>6, <1>7, <1>8 DEF HostInv, IInv, MemInv

LEMMA CreateFailsStep ==
  ASSUME IInv, CreateFails PROVE IInv'
<1> USE DEF CreateFails
<1>1. op.pc \in {"bridge", "address", "nat", "tap", "enslave"} /\ Working
  BY DEF Working, WorkPc
<1>2. op \in Op /\ op.kind = "alloc"
  BY <1>1 DEF IInv, OpOK, AllocPc
<1>3. /\ MemInv' /\ Working'
      /\ op'.pc = "delTap" /\ op'.kind = op.kind /\ op'.vm = op.vm
      /\ op'.project = op.project /\ op'.setup = op.setup
      /\ op'.pc \in OpPc
  BY <1>1, <1>2, WithinMem DEF WorkPc, SetupPc, AllocPc
<1>5. TypeOK'
  BY <1>3 DEF IInv, TypeOK
<1>6. EntriesWired'
  BY <1>1, <1>3 DEF IInv, EntriesWired, Wired, SettingUp, DownPc
<1>7. TapsOn'
  BY <1>1, <1>3 DEF IInv, TapsOn, Leases
<1>8. Gateways'
  BY <1>1, <1>2, <1>3 DEF IInv, Gateways, Torn, Releasing, DownPc
<1> QED
  BY <1>3, <1>5, <1>6, <1>7, <1>8 DEF HostInv, IInv, MemInv

-----------------------------------------------------------------------------
(* The deletions: only an operation that is alone on its project removes   *)
(* the NAT rules and the bridge.                                           *)

LEMMA DeleteTapStep ==
  ASSUME IInv, DeleteTap PROVE IInv'
<1> USE DEF DeleteTap
<1> DEFINE next == IF op.setup = NoSubnet THEN AfterDelete ELSE "delNat"
<1>1. op.pc = "delTap" /\ Working
  BY DEF Working, WorkPc
<1>2. op \in Op /\ op.kind \in {"alloc", "release"}
  BY <1>1 DEF IInv, OpOK, Op
<1>3. /\ next \in WorkPc
      /\ next \in SetupPc => op.setup # NoSubnet
      /\ next \in AllocPc => op.kind = "alloc"
      /\ next \in {"rollback", "save"} => op.setup = NoSubnet
      /\ next = "save" => op.kind = "release"
      /\ next \notin {"address", "nat", "tap", "enslave"} \cup DownPc
  BY <1>2 DEF WorkPc, SetupPc, AllocPc, DownPc
<1>3a. op' = [op EXCEPT !.pc = next]
  BY DEF AfterDelete
<1> HIDE DEF next
<1>4. /\ MemInv' /\ Working'
      /\ op'.pc = next /\ op'.kind = op.kind /\ op'.vm = op.vm
      /\ op'.project = op.project /\ op'.setup = op.setup
      /\ op'.pc \in OpPc
  BY <1>1, <1>3, <1>3a, WithinMem
<1>5. op.vm \in Vm
  BY <1>2 DEF Op
<1>6. TypeOK'
  BY <1>4, <1>5 DEF IInv, TypeOK
<1>7. EntriesWired'
  BY <1>1, <1>3, <1>4 DEF IInv, EntriesWired, Wired, SettingUp, Allocating, DownPc
<1>8. TapsOn'
  <2>1. \A v \in Vm, p \in Project :
            addr'[v] # NoAddr /\ Leases(state', p, v, addr'[v]) => tap'[v] = p
    <3>1. CASE tap' = [tap EXCEPT ![op.vm] = NoTap]
      BY <1>1, <3>1, TapOthers
    <3>2. CASE UNCHANGED tap
      BY <3>2 DEF IInv, TapsOn, Leases
    <3> QED
      BY <3>1, <3>2
  <2> QED
    BY <1>3, <1>4, <2>1 DEF TapsOn, Allocating
<1>9. Gateways'
  BY <1>1, <1>2, <1>3, <1>4 DEF IInv, Gateways, Torn, SettingUp, Releasing, DownPc
<1> QED
  BY <1>4, <1>6, <1>7, <1>8, <1>9 DEF HostInv, IInv, MemInv

LEMMA DeleteNatStep ==
  ASSUME IInv, DeleteNat PROVE IInv'
<1> USE DEF DeleteNat
<1>1. op.pc = "delNat" /\ Working
  BY DEF Working, WorkPc
<1>2. op \in Op /\ op.setup # NoSubnet
  BY <1>1 DEF IInv, OpOK, SetupPc
<1>3. /\ MemInv' /\ Working'
      /\ op'.pc = "delBridge" /\ op'.kind = op.kind /\ op'.vm = op.vm
      /\ op'.project = op.project /\ op'.setup = op.setup
      /\ op'.pc \in OpPc
  BY <1>1, <1>2, WithinMem DEF WorkPc, SetupPc, AllocPc
<1>4. SettingUp
  BY <1>1, <1>2 DEF SettingUp
<1>5. \A p \in Project : HasEntry(p) /\ p # op.project
          => state.subnet[p] # op.setup
  BY <1>4, Alone
<1>6. TypeOK'
  BY <1>3 DEF IInv, TypeOK
<1>7. EntriesWired'
  BY <1>1, <1>3, <1>4, <1>5 DEF IInv, EntriesWired, Wired, SettingUp, Allocating, DownPc
<1>8. TapsOn'
  BY <1>3 DEF IInv, TapsOn, Leases
<1>9. Gateways'
  BY <1>1, <1>2, <1>3 DEF IInv, Gateways, Torn, Releasing, DownPc
<1> QED
  BY <1>3, <1>6, <1>7, <1>8, <1>9 DEF HostInv, IInv, MemInv

LEMMA DeleteBridgeStep ==
  ASSUME IInv, DeleteBridge PROVE IInv'
<1> USE DEF DeleteBridge
<1>1. op.pc = "delBridge" /\ Working
  BY DEF Working, WorkPc
<1>2. op \in Op /\ op.setup # NoSubnet /\ op.kind \in {"alloc", "release"}
  BY <1>1 DEF IInv, OpOK, SetupPc, Op
<1>2a. /\ AfterDelete \in {"rollback", "save"}
       /\ AfterDelete = "rollback" <=> op.kind = "alloc"
       /\ AfterDelete \in WorkPc /\ AfterDelete \notin SetupPc
       /\ AfterDelete \in AllocPc => op.kind = "alloc"
  BY <1>2 DEF WorkPc, SetupPc, AllocPc
<1>3. /\ MemInv' /\ Working'
      /\ op'.pc = AfterDelete /\ op'.kind = op.kind /\ op'.vm = op.vm
      /\ op'.project = op.project /\ op'.setup = op.setup
      /\ op'.pc \in OpPc
  BY <1>1, <1>2, <1>2a, WithinMem
<1>4. SettingUp /\ SettingUp' /\ op.project \in Project
  BY <1>1, <1>2, <1>3 DEF SettingUp, Op
<1>5. \A v \in Vm, p \in Project :
          addr[v] # NoAddr /\ Leases(state, p, v, addr[v]) => p # op.project
  BY <1>4, Alone
<1>5a. CASE LinkDel(op.project)
  <2>1. \A p \in Project : gateway'[p] = IF p = op.project THEN {} ELSE gateway[p]
    BY <1>4, <1>5a DEF IInv, TypeOK
  <2>2. TypeOK'
    BY <1>3, <1>5a DEF IInv, TypeOK
  <2>3. EntriesWired'
    BY <1>1, <1>2a, <1>3, <1>4, <1>5a, <2>1
    DEF IInv, EntriesWired, Wired, SettingUp, Allocating, DownPc
  <2>4. TapsOn'
    BY <1>2a, <1>3, <1>5, <1>5a DEF IInv, TapsOn, Leases, Allocating
  <2>5. Gateways'
    BY <1>1, <1>3, <1>4, <1>5a, <2>1 DEF IInv, Gateways, Releasing, DownPc
  <2> QED
    BY <1>3, <2>2, <2>3, <2>4, <2>5 DEF HostInv, IInv, MemInv
<1>5b. CASE "delete" \in faults /\ UNCHANGED <<bridges, gateway, tap>>
  <2>2. TypeOK'
    BY <1>3, <1>5b DEF IInv, TypeOK
  <2>3. EntriesWired'
    BY <1>1, <1>2a, <1>3, <1>4, <1>5b
    DEF IInv, EntriesWired, Wired, SettingUp, Allocating, DownPc
  <2>4. TapsOn'
    BY <1>2a, <1>3, <1>5b DEF IInv, TapsOn, Leases, Allocating
  <2>5. Gateways'
    BY <1>1, <1>3, <1>5b DEF IInv, Gateways
  <2> QED
    BY <1>3, <2>2, <2>3, <2>4, <2>5 DEF HostInv, IInv, MemInv
<1> QED
  BY <1>5a, <1>5b

-----------------------------------------------------------------------------
(* The steps that write the allocator state. *)

(* Between operations every entry is wired and every gateway is its        *)
(* project's own.                                                          *)
LEMMA Idle ==
  ASSUME IInv, op.pc = "idle"
  PROVE  /\ ~Working /\ op.pc \notin DownPc
         /\ \A p \in Project : HasEntry(p) => Wired(p)
         /\ "delete" \notin faults =>
                \A p \in Project : \A s \in gateway[p] : s = state.subnet[p]
         /\ "save" \notin faults => \A v \in Vm, p \in Project :
                Owns(state, p, v) => addr[v] # NoAddr
<1>1. ~Working /\ op.pc \notin DownPc
  BY DEF Working, WorkPc, DownPc
<1> QED
  BY <1>1 DEF IInv, EntriesWired, Gateways, NoIdleLease, SettingUp, Releasing,
              Allocating

LEMMA AllocateStep ==
  ASSUME IInv, NEW v \in Vm, NEW p \in Project, Allocate(v, p)
  PROVE  IInv'
<1> DEFINE a == Lease(p)
<1>1. /\ state' \in NetState
      /\ a \in Subnet \X Host
      /\ \A q \in Project : state'.subnet[q] =
             IF q = p THEN a[1] ELSE state.subnet[q]
      /\ \A q \in Project, h \in Host : state'.vms[q][h] =
             IF q = p /\ h = a[2] THEN v ELSE state.vms[q][h]
      /\ \A q \in Project, h \in Host : state.vms[q][h] # v
  BY AllocateState DEF IInv
<1>2. /\ state.vms[p][a[2]] = NoVm
      /\ HasEntry(p) => a[1] = state.subnet[p]
      /\ ~HasEntry(p) => \A q \in Project : state.subnet[q] # a[1]
  BY LeaseFree DEF IInv, Allocate
<1>3. /\ op' = [kind |-> "alloc", vm |-> v, project |-> p, addr |-> a,
                setup |-> IF HasEntry(p) THEN NoSubnet ELSE a[1],
                pc |-> IF HasEntry(p) THEN "tap" ELSE "bridge"]
      /\ UNCHANGED <<saved, addr, bridges, gateway, nat, tap, faults>>
      /\ op.pc = "idle" /\ addr[v] = NoAddr
  BY DEF Allocate, Fresh
<1> HIDE DEF a
<1>4. /\ a[1] \in Subnet /\ a[1] # NoSubnet /\ a[2] \in Host /\ a \in Subnet \X Host
      /\ \A w \in Vm : w # NoVm
      /\ \A w \in Vm : addr[w] # NoAddr =>
            addr[w][1] # NoSubnet /\ addr[w][2] \in Host
  BY <1>1, VmAssumption, SubnetAssumption DEF Subnet, IInv, TypeOK
<1>5. /\ op'.kind = "alloc" /\ op'.vm = v /\ op'.project = p /\ op'.addr = a
      /\ op'.setup = IF HasEntry(p) THEN NoSubnet ELSE a[1]
      /\ op'.pc = IF HasEntry(p) THEN "tap" ELSE "bridge"
      /\ op' \in Op
  BY <1>3, <1>4 DEF Op, WorkPc
<1>6. /\ Working' /\ Allocating' /\ ~Releasing' /\ op'.pc \notin DownPc
      /\ op'.pc \in OpPc /\ (SettingUp' <=> ~HasEntry(p))
  BY <1>4, <1>5 DEF Working, WorkPc, Allocating, Releasing, SettingUp, DownPc, OpPc
<1>7. /\ \A q \in Project : HasEntry(q) => Wired(q)
      /\ "delete" \notin faults =>
             \A q \in Project : \A s \in gateway[q] : s = state.subnet[q]
      /\ "save" \notin faults => \A w \in Vm, q \in Project :
             Owns(state, q, w) => addr[w] # NoAddr
  BY <1>3, Idle
<1>8. \A q \in Project : HasEntry(q) => state'.subnet[q] = state.subnet[q]
  BY <1>1, <1>2
<1>9. TypeOK'
  BY <1>1, <1>3, <1>6 DEF IInv, TypeOK, NetState
<1>10. OpOK'
  BY <1>4, <1>5, <1>6 DEF OpOK, SetupPc, AllocPc
<1>11. Consistent(state)'
  <2>1. ASSUME NEW q \in Project, NEW r \in Project,
               state'.subnet[q] = state'.subnet[r], state'.subnet[q] # NoSubnet
        PROVE  q = r
    BY <1>1, <1>2, <2>1 DEF IInv, Consistent
  <2>2. ASSUME NEW q \in Project, NEW r \in Project, NEW h \in Host, NEW k \in Host,
               state'.vms[q][h] = state'.vms[r][k], state'.vms[q][h] # NoVm
        PROVE  q = r /\ h = k
    BY <1>1, <2>2 DEF IInv, Consistent
  <2>3. ASSUME NEW q \in Project
        PROVE  state'.subnet[q] = NoSubnet <=> \A h \in Host : state'.vms[q][h] = NoVm
    BY <1>1, <1>4 DEF IInv, Consistent
  <2> QED
    BY <2>1, <2>2, <2>3 DEF Consistent
<1>12. Consistent(saved)' /\ LiveIsSaved'
  BY <1>3 DEF IInv, Consistent, LiveIsSaved
<1>13. ASSUME NEW w \in Vm, NEW q \in Project, addr[w] # NoAddr
       PROVE  Leases(state', q, w, addr[w]) <=> Leases(state, q, w, addr[w])
  <2>1. w # v /\ w # NoVm /\ addr[w][1] # NoSubnet /\ addr[w][2] \in Host
    BY <1>3, <1>4, <1>13
  <2>2. state'.vms[q][addr[w][2]] = w <=> state.vms[q][addr[w][2]] = w
    BY <1>1, <1>2, <2>1
  <2>3. state.vms[q][addr[w][2]] = w => HasEntry(q)
    BY <2>1 DEF IInv, Consistent
  <2> QED
    BY <1>8, <2>2, <2>3 DEF Leases
<1>14. Leased'
  <2>1. Leases(state', p, v, a)
    BY <1>1, <1>4 DEF Leases
  <2> QED
    BY <1>3, <1>5, <1>6, <1>13, <2>1 DEF IInv, Leased
<1>15. Sole'
  <2>1. ~HasEntry(p) => \A h \in Host : state'.vms[p][h] \in {NoVm, v}
    BY <1>1 DEF IInv, Consistent
  <2>2. HasEntry(p) => \E h \in Host : state'.vms[p][h] \notin {NoVm, v}
    BY <1>1, <1>2 DEF IInv, Consistent
  <2> QED
    BY <1>1, <1>4, <1>5, <1>6, <2>1, <2>2 DEF Sole
<1>16. EntriesWired'
  BY <1>1, <1>3, <1>5, <1>6, <1>7, <1>8 DEF EntriesWired, Wired
<1>17. TapsOn'
  BY <1>3, <1>5, <1>13 DEF IInv, TapsOn
<1>18. NoIdleLease'
  BY <1>1, <1>3, <1>5, <1>6, <1>7 DEF NoIdleLease, Owns
<1>19. Gateways'
  <2>1. ASSUME "delete" \notin faults, NEW q \in Project, NEW s \in gateway[q]
        PROVE  s = state'.subnet[q]
    <3>1. s = state.subnet[q]
      BY <1>7, <2>1
    <3>2. s # NoSubnet
      BY SubnetAssumption DEF IInv, TypeOK, Subnet
    <3> QED
      BY <1>8, <3>1, <3>2
  <2> QED
    BY <1>3, <1>5, <2>1 DEF IInv, Gateways, Torn
<1> QED
  BY <1>9, <1>10, <1>11, <1>12, <1>14, <1>15, <1>16, <1>17, <1>18, <1>19 DEF IInv

(* release and the rollback of allocate forget a VM without an address. *)
LEMMA ReleaseStep ==
  ASSUME IInv, NEW v \in Vm, NEW p \in Project, Release(v, p)
  PROVE  IInv'
<1>1. /\ op.pc = "idle" /\ addr[v] # NoAddr /\ Owns(state, p, v)
      /\ state' = Forget(state, p, v)
      /\ addr' = [addr EXCEPT ![v] = NoAddr]
      /\ op' = [kind |-> "release", vm |-> v, project |-> p, addr |-> NoAddr,
                setup |-> IF state'.subnet[p] = NoSubnet THEN state.subnet[p]
                                                         ELSE NoSubnet,
                pc |-> "delTap"]
      /\ UNCHANGED <<saved, bridges, gateway, nat, tap, faults>>
  BY DEF Release
<1>2. state \in NetState /\ Consistent(state)
  BY DEF IInv, TypeOK
<1>3. /\ state' \in NetState
      /\ Consistent(state')
      /\ \A q \in Project : q # p => state'.subnet[q] = state.subnet[q]
      /\ state'.subnet[p] \in {NoSubnet, state.subnet[p]}
  BY <1>1, <1>2, ForgetState, ForgetConsistent
<1>4. ASSUME NEW q \in Project, NEW w \in Vm, w # v, addr[w] # NoAddr
      PROVE  Leases(state', q, w, addr[w]) <=> Leases(state, q, w, addr[w])
  <2>1. addr[w] \in Subnet \X Host
    BY <1>4 DEF IInv, TypeOK
  <2> QED
    BY <1>1, <1>2, <1>4, <2>1, ForgetKeeps
<1>5. ASSUME NEW q \in Project, NEW w \in Vm, Owns(state', q, w)
      PROVE  w # v /\ Owns(state, q, w)
  BY <1>1, <1>2, <1>5, ForgetGone
<1>6. /\ op'.kind = "release" /\ op'.vm = v /\ op'.project = p
      /\ op'.setup = IF state'.subnet[p] = NoSubnet THEN state.subnet[p] ELSE NoSubnet
      /\ op'.pc = "delTap" /\ op' \in Op
      /\ addr' \in [Vm -> (Subnet \X Host) \cup {NoAddr}]
      /\ \A w \in Vm : addr'[w] = IF w = v THEN NoAddr ELSE addr[w]
  BY <1>1, <1>2 DEF Op, WorkPc, NetState, IInv, TypeOK
<1>7. Working' /\ ~Allocating' /\ op'.pc \notin DownPc /\ op'.pc \in OpPc
  BY <1>6 DEF Working, WorkPc, Allocating, DownPc, OpPc
<1>8. /\ \A q \in Project : HasEntry(q) => Wired(q)
      /\ "delete" \notin faults =>
             \A q \in Project : \A s \in gateway[q] : s = state.subnet[q]
      /\ "save" \notin faults => \A w \in Vm, q \in Project :
             Owns(state, q, w) => addr[w] # NoAddr
  BY <1>1, Idle
<1>9. TypeOK'
  BY <1>1, <1>3, <1>6, <1>7 DEF IInv, TypeOK, NetState
<1>10. OpOK'
  BY <1>6, <1>7 DEF OpOK, SetupPc, AllocPc
<1>11. Consistent(saved)' /\ Consistent(state)'
  BY <1>1, <1>3 DEF IInv, Consistent
<1>12. LiveIsSaved'
  BY <1>1, <1>6 DEF IInv, LiveIsSaved
<1>13. Leased'
  BY <1>4, <1>6, <1>7 DEF IInv, Leased
<1>14. Sole'
  BY <1>2, <1>3, <1>6, <1>7 DEF Sole, Releasing, Consistent
<1>15. EntriesWired'
  BY <1>1, <1>3, <1>6, <1>7, <1>8 DEF EntriesWired, Wired
<1>16. TapsOn'
  BY <1>1, <1>4, <1>6, <1>7 DEF IInv, TapsOn
<1>17. NoIdleLease'
  BY <1>1, <1>5, <1>6, <1>8 DEF NoIdleLease
<1>18. Gateways'
  <2>1. ASSUME "delete" \notin faults, NEW q \in Project, NEW s \in gateway[q]
        PROVE  s = state'.subnet[q] \/ (q = p /\ s = op'.setup)
    BY <1>3, <1>6, <1>8, <2>1
  <2> QED
    BY <1>1, <1>6, <1>7, <2>1 DEF IInv, Gateways, Torn, Releasing
<1> QED
  BY <1>9, <1>10, <1>11, <1>12, <1>13, <1>14, <1>15, <1>16, <1>17, <1>18 DEF IInv

LEMMA RollbackStep ==
  ASSUME IInv, Rollback
  PROVE  IInv'
<1> DEFINE v == op.vm
           p == op.project
<1>1. /\ op.pc = "rollback"
      /\ state' = Forget(state, p, v)
      /\ op' = Rest("idle")
      /\ UNCHANGED <<saved, addr, bridges, gateway, nat, tap, faults>>
  BY DEF Rollback
<1>2. state \in NetState /\ Consistent(state)
  BY DEF IInv, TypeOK
<1>2a. Working /\ op \in Op /\ op.kind = "alloc" /\ op.pc \notin DownPc
  BY <1>1 DEF IInv, OpOK, Working, WorkPc, AllocPc, DownPc
<1>2b. /\ v \in Vm /\ p \in Project /\ Allocating /\ ~Releasing
       /\ addr[v] = NoAddr /\ Leases(state, p, v, op.addr)
       /\ op.addr \in Subnet \X Host
  BY <1>2a DEF IInv, OpOK, Op, Allocating, Releasing, Leased
<1>2c. Owns(state, p, v)
  BY <1>2b DEF Leases, Owns
<1>3. /\ state' \in NetState
      /\ Consistent(state')
      /\ \A q \in Project : q # p => state'.subnet[q] = state.subnet[q]
      /\ state'.subnet[p] = IF \A h \in Host : state.vms[p][h] \in {NoVm, v}
                            THEN NoSubnet ELSE state.subnet[p]
  <2> HIDE DEF v, p
  <2> QED
    BY <1>1, <1>2, <1>2b, ForgetState, ForgetConsistent
<1>4. ASSUME NEW q \in Project, NEW w \in Vm, addr[w] # NoAddr
      PROVE  Leases(state', q, w, addr[w]) <=> Leases(state, q, w, addr[w])
  <2>1. addr[w] \in Subnet \X Host /\ w # v
    BY <1>2b, <1>4 DEF IInv, TypeOK
  <2> HIDE DEF v, p
  <2> QED
    BY <1>1, <1>2, <1>2b, <2>1, ForgetKeeps
<1>5. ASSUME NEW q \in Project, NEW w \in Vm, Owns(state', q, w)
      PROVE  w # v /\ Owns(state, q, w)
  <2> HIDE DEF v, p
  <2> QED
    BY <1>1, <1>2, <1>2b, <1>2c, <1>5, ForgetGone
<1>6. op' \in [pc : {"idle"} \cup DownPc] /\ op'.pc = "idle"
  BY <1>1
<1>7. ~Working' /\ op'.pc \notin DownPc /\ op'.pc \in OpPc
  BY <1>6 DEF Working, WorkPc, DownPc, OpPc
<1>7a. SettingUp => state'.subnet[p] = NoSubnet
  BY <1>2b, <1>3 DEF IInv, Sole, SettingUp
<1>7b. ~SettingUp => state'.subnet[p] = state.subnet[p]
  BY <1>2a, <1>2b, <1>3 DEF IInv, Sole, SettingUp
<1>9. TypeOK'
  BY <1>1, <1>3, <1>7 DEF IInv, TypeOK, NetState
<1>10. OpOK'
  BY <1>6, <1>7 DEF OpOK, Allocating, SetupPc, AllocPc
<1>11. Consistent(saved)' /\ Consistent(state)' /\ LiveIsSaved'
  BY <1>1, <1>3 DEF IInv, Consistent, LiveIsSaved
<1>13. Leased'
  BY <1>1, <1>4, <1>7 DEF IInv, Leased, Allocating
<1>14. Sole'
  BY <1>7 DEF Sole, Allocating, Releasing
<1>15. EntriesWired'
  BY <1>1, <1>2a, <1>3, <1>6, <1>7, <1>7a, <1>7b
  DEF IInv, EntriesWired, Wired, Allocating
<1>16. TapsOn'
  BY <1>1, <1>4, <1>7 DEF IInv, TapsOn, Allocating
<1>17. NoIdleLease'
  BY <1>1, <1>2a, <1>5 DEF IInv, NoIdleLease
<1>18. Gateways'
  <2>1. ASSUME "delete" \notin faults, NEW q \in Project, NEW s \in gateway[q]
        PROVE  s = state'.subnet[q]
    <3>1. s = state.subnet[q]
      BY <1>2a, <1>2b, <2>1 DEF IInv, Gateways
    <3>2. SettingUp => q # p
      BY <1>1, <2>1 DEF IInv, Gateways, Torn
    <3> QED
      BY <1>3, <1>7b, <3>1, <3>2
  <2> QED
    BY <1>1, <1>7, <2>1 DEF IInv, Gateways, Torn, SettingUp
<1> QED
  BY <1>9, <1>10, <1>11, <1>13, <1>14, <1>15, <1>16, <1>17, <1>18 DEF IInv

(* Saving ends the operation; with it an allocate hands out its lease. *)
LEMMA SaveStep ==
  ASSUME IInv, Save
  PROVE  IInv'
<1>1. /\ op.pc = "save" /\ op' = Rest("idle")
      /\ UNCHANGED <<state, bridges, gateway, nat, tap, faults>>
      /\ \/ /\ saved' = state
            /\ addr' = IF op.kind = "alloc" THEN [addr EXCEPT ![op.vm] = op.addr]
                                            ELSE addr
         \/ "save" \in faults /\ UNCHANGED <<saved, addr>>
  BY DEF Save
<1>2. Working /\ op \in Op /\ op.pc \notin DownPc
  BY <1>1 DEF IInv, OpOK, Working, WorkPc, DownPc
<1>3. /\ op.vm \in Vm /\ op.project \in Project
      /\ op.kind \in {"alloc", "release"}
      /\ Allocating <=> op.kind = "alloc"
      /\ Releasing <=> op.kind = "release"
  BY <1>2 DEF Op, Allocating, Releasing
<1>4. op' \in [pc : {"idle"} \cup DownPc] /\ op'.pc = "idle"
  BY <1>1
<1>5. ~Working' /\ op'.pc \notin DownPc /\ op'.pc \in OpPc
  BY <1>4 DEF Working, WorkPc, DownPc, OpPc
<1>6. Allocating => op.addr \in Subnet \X Host /\ op.addr # NoAddr
  BY DEF IInv, OpOK, NoAddr
<1>7. ASSUME NEW w \in Vm, addr'[w] # NoAddr
      PROVE  \/ addr'[w] = addr[w]
             \/ Allocating /\ saved' = state /\ w = op.vm /\ addr'[w] = op.addr
  BY <1>1, <1>3, <1>7 DEF IInv, TypeOK
<1>8. addr' \in [Vm -> (Subnet \X Host) \cup {NoAddr}]
  BY <1>1, <1>3, <1>6 DEF IInv, TypeOK
<1>9. TypeOK'
  BY <1>1, <1>5, <1>8 DEF IInv, TypeOK, NetState
<1>10. OpOK'
  BY <1>4, <1>5 DEF OpOK, Allocating, SetupPc, AllocPc
<1>11. Consistent(saved)' /\ Consistent(state)'
  BY <1>1 DEF IInv, Consistent
<1>12. ASSUME NEW w \in Vm, addr'[w] # NoAddr
       PROVE  \E q \in Project : Leases(state, q, w, addr'[w])
  BY <1>3, <1>7, <1>12 DEF IInv, Leased
<1>13. Leased'
  BY <1>1, <1>5, <1>12 DEF Leased, Allocating
<1>14. LiveIsSaved'
  <2>1. CASE saved' = state
    BY <1>12, <2>1 DEF LiveIsSaved, Leases
  <2>2. CASE UNCHANGED <<saved, addr>>
    BY <2>2 DEF IInv, LiveIsSaved
  <2> QED
    BY <1>1, <2>1, <2>2
<1>15. Sole'
  BY <1>5 DEF Sole, Allocating, Releasing
<1>16. EntriesWired'
  <2>1. SettingUp /\ HasEntry(op.project) => Wired(op.project)
    BY <1>1, <1>3 DEF IInv, SettingUp, Sole, EntriesWired
  <2> QED
    BY <1>1, <1>2, <1>4, <1>5, <2>1 DEF IInv, EntriesWired, Wired, Allocating
<1>17. TapsOn'
  <2>1. ASSUME NEW w \in Vm, NEW q \in Project, addr'[w] # NoAddr,
               Leases(state, q, w, addr'[w])
        PROVE  tap[w] = q
    <3>1. CASE addr'[w] = addr[w]
      BY <2>1, <3>1 DEF IInv, TapsOn
    <3>2. CASE Allocating /\ w = op.vm /\ addr'[w] = op.addr
      <4>1. /\ Leases(state, op.project, w, op.addr) /\ tap[w] = op.project
            /\ op.addr[2] \in Host /\ w # NoVm
        BY <1>1, <1>6, <3>2, VmAssumption DEF IInv, Leased, TapsOn
      <4>2. q = op.project
        BY <1>3, <2>1, <3>2, <4>1 DEF IInv, Leases, Consistent
      <4> QED
        BY <4>1, <4>2
    <3> QED
      BY <1>7, <2>1, <3>1, <3>2
  <2> QED
    BY <1>1, <1>5, <2>1 DEF TapsOn, Allocating
<1>18. NoIdleLease'
  <2>1. ASSUME "save" \notin faults, NEW w \in Vm, NEW q \in Project,
               Owns(state, q, w)
        PROVE  addr'[w] # NoAddr
    <3>1. addr[w] # NoAddr \/ (Allocating /\ w = op.vm)
      BY <1>2, <2>1 DEF IInv, NoIdleLease
    <3> QED
      BY <1>1, <1>3, <1>6, <2>1, <3>1 DEF IInv, TypeOK
  <2> QED
    BY <1>1, <2>1 DEF NoIdleLease, Owns
<1>19. Gateways'
  <2>1. ASSUME "delete" \notin faults, NEW q \in Project, NEW s \in gateway[q]
        PROVE  s = state.subnet[q]
    <3>1. s = state.subnet[q] \/ (Releasing /\ q = op.project /\ s = op.setup)
      BY <1>2, <2>1 DEF IInv, Gateways
    <3>2. s # NoSubnet
      BY SubnetAssumption DEF IInv, TypeOK, Subnet
    <3>3. Releasing /\ q = op.project /\ op.setup # NoSubnet => gateway[q] = {}
      BY <1>1, <1>2, <1>3, <2>1 DEF IInv, Gateways, Torn, SettingUp
    <3> QED
      BY <3>1, <3>2, <3>3
  <2> QED
    BY <1>1, <1>5, <2>1 DEF IInv, Gateways, Torn, SettingUp
<1> QED
  BY <1>9, <1>10, <1>11, <1>13, <1>14, <1>15, <1>16, <1>17, <1>18, <1>19 DEF IInv

-----------------------------------------------------------------------------
(* Crash, restart and reconciliation: nobody has an address. *)

LEMMA EmptyState ==
  /\ Empty \in NetState /\ Consistent(Empty)
  /\ \A p \in Project : Empty.subnet[p] = NoSubnet
  /\ \A p \in Project, v \in Vm : ~Owns(Empty, p, v)
BY VmAssumption DEF Empty, NetState, Consistent, Owns

(* What is left to show of a step that ends without hostd at work. *)
LEMMA NobodyLives ==
  ASSUME NEW pc \in DownPc, op' \in [pc : {"idle"} \cup DownPc], op'.pc = pc,
         \A v \in Vm : addr'[v] = NoAddr,
         Consistent(state'), Consistent(saved'), TypeOK',
         \A p \in Project : p \notin bridges' => gateway'[p] = {},
         "delete" \notin faults' =>
            \A p, q \in Project : p # q => gateway'[p] \cap gateway'[q] = {}
  PROVE  IInv'
<1>1. ~Working' /\ op'.pc \in DownPc /\ op'.pc \notin SetupPc \cup AllocPc
  BY DEF Working, WorkPc, DownPc, SetupPc, AllocPc
<1>2. op'.pc \notin {"address", "nat", "tap", "enslave", "save"}
  BY <1>1 DEF DownPc
<1>3. OpOK' /\ Sole'
  BY <1>1 DEF OpOK, Sole, Allocating, Releasing
<1>4. Leased' /\ LiveIsSaved' /\ TapsOn'
  BY <1>1 DEF Leased, LiveIsSaved, TapsOn, Allocating
<1>5. EntriesWired' /\ NoIdleLease'
  BY <1>1, <1>2 DEF EntriesWired, NoIdleLease
<1>6. Gateways'
  BY <1>1 DEF Gateways, Torn, SettingUp
<1> QED
  BY <1>3, <1>4, <1>5, <1>6 DEF IInv, Consistent

LEMMA CrashStep ==
  ASSUME IInv, Crash PROVE IInv'
<1>1. /\ op' \in [pc : {"idle"} \cup DownPc] /\ op'.pc = "down"
      /\ "down" \in DownPc /\ "down" \in OpPc
  BY DEF Crash, DownPc, OpPc
<1>2. TypeOK'
  BY <1>1, EmptyState DEF Crash, IInv, TypeOK, NetState
<1> QED
  BY <1>1, <1>2, EmptyState, NobodyLives DEF Crash, IInv, Gateways

(* The steps of reconciliation but the last. *)
LEMMA DownStep ==
  ASSUME IInv, op.pc \in DownPc
  PROVE  /\ op \in [pc : {"idle"} \cup DownPc]
         /\ \A v \in Vm : addr[v] = NoAddr
BY DEF IInv, OpOK, Leased, Working, WorkPc, DownPc

LEMMA RestartStep ==
  ASSUME IInv, Restart PROVE IInv'
<1>1. /\ op' \in [pc : {"idle"} \cup DownPc] /\ op'.pc = "recTaps"
      /\ "recTaps" \in DownPc /\ "recTaps" \in OpPc /\ op.pc \in DownPc
  BY DEF Restart, DownPc, OpPc
<1>2. TypeOK'
  BY <1>1 DEF Restart, IInv, TypeOK, NetState
<1> QED
  BY <1>1, <1>2, DownStep, NobodyLives DEF Restart, IInv, Gateways

LEMMA RecGotoStep ==
  ASSUME IInv, RecTapsDone \/ RecBridgesDone PROVE IInv'
<1>1. op.pc \in DownPc
  BY DEF RecTapsDone, RecBridgesDone, DownPc
<1>2. PICK pc \in {"recBridges", "recStray"} : op' = [op EXCEPT !.pc = pc]
  BY DEF RecTapsDone, RecBridgesDone
<1>3. pc \in DownPc /\ pc \in OpPc
  BY DEF DownPc, OpPc
<1>4. op' \in [pc : {"idle"} \cup DownPc] /\ op'.pc = pc
  BY <1>1, <1>2, <1>3, DownStep
<1>5. UNCHANGED <<mem, host, faults>>
  BY DEF RecTapsDone, RecBridgesDone
<1>6. TypeOK'
  BY <1>3, <1>4, <1>5 DEF IInv, TypeOK, NetState
<1> QED
  BY <1>1, <1>3, <1>4, <1>5, <1>6, DownStep, NobodyLives DEF IInv, Gateways

LEMMA RecDeviceStep ==
  ASSUME IInv,
         \/ \E v \in Vm : RecTap(v)
         \/ \E p \in Project : RecBridge(p) \/ RecStray(p)
  PROVE  IInv'
<1>1. op.pc \in DownPc /\ UNCHANGED <<state, saved, addr, op, faults>>
  BY DEF RecTap, RecBridge, RecStray, DownPc
<1>2. UNCHANGED <<bridges, gateway>> \/ \E p \in Project : LinkDel(p)
  BY DEF RecTap, RecBridge, RecStray
<1>3. /\ \A q \in Project : gateway'[q] \in {gateway[q], {}}
      /\ \A q \in Project : q \notin bridges' => gateway'[q] = {}
  BY <1>2 DEF IInv, TypeOK, Gateways
<1>4. TypeOK'
  <2>1. nat' \subseteq nat
    BY DEF RecTap, RecBridge, RecStray
  <2>2. bridges' \subseteq bridges /\ gateway' \in [Project -> SUBSET Subnet]
    BY <1>2 DEF IInv, TypeOK
  <2>3. tap' \in [Vm -> Project \cup {NoTap, Loose}]
    BY DEF RecTap, RecBridge, RecStray, IInv, TypeOK
  <2> QED
    BY <1>1, <2>1, <2>2, <2>3 DEF IInv, TypeOK, NetState
<1>5. "delete" \notin faults' =>
         \A q, r \in Project : q # r => gateway'[q] \cap gateway'[r] = {}
  BY <1>1, <1>3 DEF IInv, Gateways
<1>6. op' \in [pc : {"idle"} \cup DownPc] /\ \A w \in Vm : addr'[w] = NoAddr
  BY <1>1, DownStep
<1> QED
  BY <1>1, <1>3, <1>4, <1>5, <1>6, NobodyLives DEF IInv

LEMMA RecDoneStep ==
  ASSUME IInv, RecDone PROVE IInv'
<1>1. /\ op' \in [pc : {"idle"} \cup DownPc] /\ op'.pc = "idle"
      /\ state' = Empty /\ saved' = Empty
      /\ UNCHANGED <<addr, bridges, gateway, nat, tap, faults>>
      /\ "delete" \in faults \/ bridges = {}
  BY DEF RecDone, MayLeave
<1>2. op'.pc \notin DownPc /\ ~Working' /\ op'.pc \in OpPc
      /\ op'.pc \notin SetupPc \cup AllocPc
  BY <1>1 DEF DownPc, Working, WorkPc, OpPc, SetupPc, AllocPc
<1>3. \A v \in Vm : addr'[v] = NoAddr
  BY <1>1, DownStep DEF RecDone, DownPc
<1>4. TypeOK'
  BY <1>1, <1>2, EmptyState DEF IInv, TypeOK, NetState
<1>5. OpOK' /\ Sole' /\ Consistent(state)' /\ Consistent(saved)'
  BY <1>1, <1>2, EmptyState DEF OpOK, Sole, Allocating, Releasing, Consistent
<1>6. Leased' /\ LiveIsSaved' /\ TapsOn'
  BY <1>2, <1>3 DEF Leased, LiveIsSaved, TapsOn, Allocating
<1>7. EntriesWired' /\ NoIdleLease'
  BY <1>1, <1>2, EmptyState DEF EntriesWired, NoIdleLease, Allocating
<1>8. Gateways'
  BY <1>1, <1>2 DEF IInv, Gateways, Torn, SettingUp
<1> QED
  BY <1>4, <1>5, <1>6, <1>7, <1>8 DEF IInv

-----------------------------------------------------------------------------
(* The inductive invariant holds in every state of every behaviour. *)
THEOREM Inductive == Spec => []IInv
<1>1. Init => IInv
  <2> SUFFICES ASSUME Init PROVE IInv
    OBVIOUS
  <2>1. op.pc = "idle" /\ op \in [pc : {"idle"} \cup DownPc]
    BY DEF Init
  <2>2. /\ ~Working /\ op.pc \notin DownPc /\ op.pc \in OpPc
        /\ op.pc \notin SetupPc \cup AllocPc
    BY <2>1 DEF Working, WorkPc, DownPc, OpPc, SetupPc, AllocPc
  <2>3. TypeOK
    BY <2>2, EmptyState DEF Init, TypeOK, NetState
  <2>4. OpOK /\ Sole /\ Consistent(state) /\ Consistent(saved)
    BY <2>1, <2>2, EmptyState DEF Init, OpOK, Sole, Allocating, Releasing
  <2>5. Leased /\ LiveIsSaved /\ TapsOn
    BY <2>2 DEF Init, Leased, LiveIsSaved, TapsOn, Allocating
  <2>6. EntriesWired /\ NoIdleLease
    BY <2>1, <2>2, EmptyState DEF Init, EntriesWired, NoIdleLease, Allocating
  <2>7. Gateways
    BY <2>2 DEF Init, Gateways, Torn, SettingUp
  <2> QED
    BY <2>3, <2>4, <2>5, <2>6, <2>7 DEF IInv
<1>2. IInv /\ [Next]_vars => IInv'
  <2> SUFFICES ASSUME IInv, [Next]_vars PROVE IInv'
    OBVIOUS
  <2>1. ASSUME NEW v \in Vm, NEW p \in Project, Allocate(v, p) PROVE IInv'
    BY <2>1, AllocateStep
  <2>2. ASSUME NEW v \in Vm, NEW p \in Project, Release(v, p) PROVE IInv'
    BY <2>2, ReleaseStep
  <2>3. CASE AllocStep
    BY <2>3, AddBridgeStep, AddAddressStep, AddNatStep, AddTapStep,
       EnslaveStep, CreateFailsStep, RollbackStep, Zenon
  <2>4. CASE DeleteStep
    BY <2>4, DeleteTapStep, DeleteNatStep, DeleteBridgeStep, Zenon
  <2>5. CASE Save
    BY <2>5, SaveStep
  <2>6. CASE Crash
    BY <2>6, CrashStep
  <2>7. CASE Reconcile
    BY <2>7, RestartStep, RecGotoStep, RecDeviceStep, RecDoneStep, Zenon
    DEF Reconcile
  <2>8. CASE UNCHANGED vars
    <3> USE <2>8 DEF vars
    <3>1. TypeOK' /\ OpOK' /\ Consistent(state)' /\ Consistent(saved)'
      BY DEF IInv, TypeOK, OpOK, Working, Allocating, Consistent
    <3>2. Leased' /\ LiveIsSaved' /\ Sole'
      BY DEF IInv, Leased, LiveIsSaved, Sole, Leases, Working, Allocating, Releasing
    <3>3. EntriesWired' /\ TapsOn' /\ NoIdleLease'
      BY DEF IInv, EntriesWired, TapsOn, NoIdleLease, Wired, Leases, Owns,
             SettingUp, Working, Allocating
    <3>4. Gateways'
      BY DEF IInv, Gateways, Torn, SettingUp, Working, Releasing
    <3> QED
      BY <3>1, <3>2, <3>3, <3>4 DEF IInv
  <2> QED
    BY <2>1, <2>2, <2>3, <2>4, <2>5, <2>6, <2>7, <2>8, Zenon DEF Next
<1> QED
  BY <1>1, <1>2, PTL DEF Spec

-----------------------------------------------------------------------------
(* What follows. *)

(* The allocator state, the file and the devices have their types whatever *)
(* fails.                                                                  *)
THEOREM TypeCorrect == Spec => []TypeOK
<1>1. IInv => TypeOK
  BY DEF IInv
<1> QED
  BY <1>1, Inductive, PTL

(* No two VMs ever have the same guest address, however many VMs and       *)
(* subnets there are and whatever failed or crashed before: an address is  *)
(* leased to one VM and a subnet to one project.                           *)
THEOREM Unique == Spec => []AddressesUnique
<1>1. IInv => AddressesUnique
  <2> SUFFICES ASSUME IInv, NEW v \in Vm, NEW w \in Vm, addr[v] # NoAddr,
                      addr[v] = addr[w]
               PROVE  v = w
    BY Zenon DEF AddressesUnique
  <2>1. PICK p \in Project : Leases(state, p, v, addr[v])
    BY DEF IInv, Leased
  <2>2. PICK q \in Project : Leases(state, q, w, addr[v])
    BY DEF IInv, Leased
  <2>3. addr[v][1] # NoSubnet
    BY SubnetAssumption DEF IInv, TypeOK, Subnet
  <2>4. p = q
    BY <2>1, <2>2, <2>3 DEF IInv, Leases, Consistent
  <2> QED
    BY <2>1, <2>2, <2>4 DEF Leases
<1> QED
  BY <1>1, Inductive, PTL

(* A VM with an address has its TAP on the bridge of its project, with the *)
(* gateway and the NAT rules of its subnet: no failed setup or teardown of *)
(* another VM takes them away.                                             *)
THEOREM WiredLive == Spec => []LiveIsWired
<1>1. IInv => LiveIsWired
  <2> SUFFICES ASSUME IInv, NEW v \in Vm, addr[v] # NoAddr
               PROVE  \E p \in bridges :
                         /\ state.subnet[p] = addr[v][1]
                         /\ state.vms[p][addr[v][2]] = v
                         /\ tap[v] = p
                         /\ addr[v][1] \in gateway[p] \cap nat
    BY DEF LiveIsWired
  <2>1. PICK p \in Project : Leases(state, p, v, addr[v])
    BY DEF IInv, Leased
  <2>2. op.pc \notin DownPc
    BY DEF IInv, Leased
  <2>3. addr[v][1] # NoSubnet
    BY SubnetAssumption DEF IInv, TypeOK, Subnet
  <2>4. ~(SettingUp /\ p = op.project)
    BY <2>1, Alone
  <2>5. Wired(p)
    BY <2>1, <2>2, <2>3, <2>4 DEF IInv, EntriesWired, Leases
  <2>6. tap[v] = p
    BY <2>1 DEF IInv, TapsOn
  <2> QED
    BY <2>1, <2>5, <2>6 DEF Wired, Leases
<1> QED
  BY <1>1, Inductive, PTL

(* A VM with an address is in the state file, so a crash at any point      *)
(* leaves what it uses to be found by the next start.                      *)
THEOREM SavedLive == Spec => []LiveIsSaved
<1>1. IInv => LiveIsSaved
  BY DEF IInv
<1> QED
  BY <1>1, Inductive, PTL

(* Failed operations leave no lease without a VM while saving works, and   *)
(* no gateway on two bridges while deleting works.                         *)
THEOREM Leftovers == Spec => []NoLeftovers
<1>1. IInv => NoLeftovers
  <2> SUFFICES ASSUME IInv PROVE NoLeftovers
    OBVIOUS
  <2>1. op.pc = "idle" /\ "save" \notin faults => \A v \in Vm, p \in Project :
            Owns(state, p, v) => addr[v] # NoAddr
    BY Idle
  <2>2. bridges \subseteq Project
    BY DEF IInv, TypeOK
  <2> QED
    BY <2>1, <2>2 DEF IInv, Gateways, NoLeftovers
<1> QED
  BY <1>1, Inductive, PTL
=============================================================================

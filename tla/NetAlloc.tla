------------------------------ MODULE NetAlloc ------------------------------
(***************************************************************************)
(* Host networking: the IPAM state (which project owns which subnet, which *)
(* VM which guest address), the bridges, gateway addresses, NAT rules and  *)
(* TAP devices it is applied to, the state file, and what a crash and the  *)
(* reconciliation at the next start make of them (net/state.rs, manager.rs *)
(* and host.rs).                                                           *)
(*                                                                         *)
(* allocate, release and reconcile run under one mutex to their end, so    *)
(* one operation is in flight at a time; it is cut at every host command,  *)
(* where the command can fail and where a crash can strike.                *)
(***************************************************************************)
EXTENDS Integers, FiniteSetsExt

CONSTANTS
    Vm,            \* VM ids
    Project,       \* project ids
    NoVm,          \* an address nobody holds
    SubnetCount,   \* subnets in the supernet
    SubnetSize,    \* addresses in a subnet
    Faults         \* kinds of host commands that may fail

ASSUME VmAssumption == NoVm \notin Vm
ASSUME SubnetAssumption == SubnetCount \in Nat /\ SubnetSize \in Nat
ASSUME FaultsAssumption == Faults \subseteq {"create", "delete", "save"}

VARIABLES
    state,     \* NetworkManager.state
    saved,     \* network_state.json
    addr,      \* the VmNet (subnet and host) a VM was given
    bridges,   \* projects with a bridge device
    gateway,   \* the subnets whose gateway address a bridge carries
    nat,       \* subnets with NAT and FORWARD rules
    tap,       \* a VM's TAP device: NoTap, Loose, or the bridge it is on
    op,        \* the operation in flight
    faults     \* the kinds of commands that fail in this behaviour

mem == <<state, saved, addr>>
host == <<bridges, gateway, nat, tap>>
vars == <<mem, host, op, faults>>

Subnet == 0 .. SubnetCount - 1
NoSubnet == -1
NoAddr == <<>>
NoTap == "no tap"
Loose == "no master"

(* Host addresses: the network (0), gateway (1) and broadcast address are  *)
(* never handed out.                                                       *)
Host == 2 .. SubnetSize - 2

(* NetState: a project has an entry when it has a subnet. *)
NetState == [subnet : [Project -> Subnet \cup {NoSubnet}],
             vms : [Project -> [Host -> Vm \cup {NoVm}]]]
Empty == [subnet |-> [p \in Project |-> NoSubnet],
          vms |-> [p \in Project |-> [h \in Host |-> NoVm]]]

OpPc == {"idle", "down", "bridge", "address", "nat", "tap", "enslave",
         "delTap", "delNat", "delBridge", "rollback", "save",
         "recTaps", "recBridges", "recStray"}

(* op.setup is the subnet to set up or tear down with the operation, when  *)
(* the VM is the project's first or was its last.                          *)
At(pc) == op.pc = pc
Goto(pc) == op' = [op EXCEPT !.pc = pc]
Rest(pc) == [pc |-> pc]

Init ==
    /\ state = Empty /\ saved = Empty
    /\ addr = [v \in Vm |-> NoAddr]
    /\ bridges = {} /\ nat = {}
    /\ gateway = [p \in Project |-> {}]
    /\ tap = [v \in Vm |-> NoTap]
    /\ op = Rest("idle")
    /\ faults \in SUBSET Faults

-----------------------------------------------------------------------------
(* NetState: the pure allocator. *)

HasEntry(p) == state.subnet[p] # NoSubnet
Owns(s, p, v) == \E h \in Host : s.vms[p][h] = v

(* Mutant: the subnets of other projects are not spared. *)
FreeSubnetsAll == Subnet

FreeSubnets == {i \in Subnet : \A p \in Project : state.subnet[p] # i}

(* lowest_free_ip *)
FreeHosts(p) == {h \in Host : state.vms[p][h] = NoVm}

(* Mutant: the first VM is given the gateway's address. *)
LeaseGateway(p) ==
    IF HasEntry(p) THEN <<state.subnet[p], Min(FreeHosts(p))>>
                   ELSE <<Min(FreeSubnets), 1>>

(* The lease alloc makes: the lowest free address of the project's subnet, *)
(* or the first address of the lowest free subnet.                         *)
Lease(p) ==
    IF HasEntry(p) THEN <<state.subnet[p], Min(FreeHosts(p))>>
                   ELSE <<Min(FreeSubnets), 2>>

CanLease(p) ==
    IF HasEntry(p) THEN FreeHosts(p) # {}
                   ELSE FreeSubnets # {} /\ 2 \in Host

(* rollback_alloc and release: remove the VM, and the project's entry with *)
(* its last VM.                                                            *)
Forget(s, p, v) ==
    LET left == [h \in Host |-> IF s.vms[p][h] = v THEN NoVm ELSE s.vms[p][h]]
    IN  [subnet |-> [s.subnet EXCEPT ![p] =
                        IF \A h \in Host : left[h] = NoVm THEN NoSubnet ELSE @],
         vms |-> [s.vms EXCEPT ![p] = left]]

-----------------------------------------------------------------------------
(* allocate: lease, then bridge, gateway address and NAT rules for the     *)
(* project's first VM, the TAP, and the state file.                        *)

(* VM ids are random: a new one differs from every id still in use. *)
Fresh(v) ==
    /\ addr[v] = NoAddr /\ tap[v] = NoTap
    /\ \A p \in Project : ~Owns(state, p, v) /\ ~Owns(saved, p, v)

Allocate(v, p) ==
    /\ At("idle") /\ Fresh(v) /\ CanLease(p)
    /\ state' = [subnet |-> [state.subnet EXCEPT ![p] = Lease(p)[1]],
                 vms |-> [state.vms EXCEPT ![p][Lease(p)[2]] = v]]
    /\ op' = [kind |-> "alloc", vm |-> v, project |-> p, addr |-> Lease(p),
              setup |-> IF HasEntry(p) THEN NoSubnet ELSE Lease(p)[1],
              pc |-> IF HasEntry(p) THEN "tap" ELSE "bridge"]
    /\ UNCHANGED <<saved, addr, host, faults>>

(* A command that fails makes allocate undo what it did. *)
CreateFails ==
    /\ "create" \in faults
    /\ op.pc \in {"bridge", "address", "nat", "tap", "enslave"}
    /\ Goto("delTap")
    /\ UNCHANGED <<mem, host, faults>>

AddBridge ==
    /\ At("bridge")
    /\ bridges' = bridges \cup {op.project}
    /\ Goto("address")
    /\ UNCHANGED <<mem, gateway, nat, tap, faults>>

(* `ip addr replace` adds to the addresses an old bridge still carries. *)
AddAddress ==
    /\ At("address")
    /\ gateway' = [gateway EXCEPT ![op.project] = @ \cup {op.setup}]
    /\ Goto("nat")
    /\ UNCHANGED <<mem, bridges, nat, tap, faults>>

(* Mutant: no NAT rules. *)
AddNoNat == At("nat") /\ Goto("tap") /\ UNCHANGED <<mem, host, faults>>

AddNat ==
    /\ At("nat")
    /\ nat' = nat \cup {op.setup}
    /\ Goto("tap")
    /\ UNCHANGED <<mem, bridges, gateway, tap, faults>>

AddTap ==
    /\ At("tap")
    /\ tap' = [tap EXCEPT ![op.vm] = Loose]
    /\ Goto("enslave")
    /\ UNCHANGED <<mem, bridges, gateway, nat, faults>>

Enslave ==
    /\ At("enslave") /\ op.project \in bridges
    /\ tap' = [tap EXCEPT ![op.vm] = op.project]
    /\ Goto("save")
    /\ UNCHANGED <<mem, bridges, gateway, nat, faults>>

(* Mutant: a failed allocate keeps its lease. *)
RollbackNothing ==
    /\ At("rollback")
    /\ op' = Rest("idle")
    /\ UNCHANGED <<mem, host, faults>>

Rollback ==
    /\ At("rollback")
    /\ state' = Forget(state, op.project, op.vm)
    /\ op' = Rest("idle")
    /\ UNCHANGED <<saved, addr, host, faults>>

-----------------------------------------------------------------------------
(* release: the address and, with the last VM, the subnet are free before  *)
(* the devices are deleted, which is best effort.                          *)

Release(v, p) ==
    /\ At("idle") /\ addr[v] # NoAddr /\ Owns(state, p, v)
    /\ state' = Forget(state, p, v)
    /\ addr' = [addr EXCEPT ![v] = NoAddr]
    /\ op' = [kind |-> "release", vm |-> v, project |-> p, addr |-> NoAddr,
              setup |-> IF state'.subnet[p] = NoSubnet THEN state.subnet[p]
                                                       ELSE NoSubnet,
              pc |-> "delTap"]
    /\ UNCHANGED <<saved, host, faults>>

(* What follows the deletions: an undone allocate rolls back, a release    *)
(* saves.                                                                  *)
AfterDelete == IF op.kind = "alloc" THEN "rollback" ELSE "save"

DeleteTap ==
    /\ At("delTap")
    /\ \/ tap' = [tap EXCEPT ![op.vm] = NoTap]
       \/ "delete" \in faults /\ UNCHANGED tap
    /\ Goto(IF op.setup = NoSubnet THEN AfterDelete ELSE "delNat")
    /\ UNCHANGED <<mem, bridges, gateway, nat, faults>>

DeleteNat ==
    /\ At("delNat")
    /\ \/ nat' = nat \ {op.setup}
       \/ "delete" \in faults /\ UNCHANGED nat
    /\ Goto("delBridge")
    /\ UNCHANGED <<mem, bridges, gateway, tap, faults>>

(* `ip link del` takes the addresses along and frees the enslaved TAPs. *)
LinkDel(p) ==
    /\ bridges' = bridges \ {p}
    /\ gateway' = [gateway EXCEPT ![p] = {}]
    /\ tap' = [v \in Vm |-> IF tap[v] = p THEN Loose ELSE tap[v]]

DeleteBridge ==
    /\ At("delBridge")
    /\ \/ LinkDel(op.project)
       \/ "delete" \in faults /\ UNCHANGED <<bridges, gateway, tap>>
    /\ Goto(AfterDelete)
    /\ UNCHANGED <<mem, nat, faults>>

(* Mutant: allocate answers without saving. *)
SaveNothing ==
    /\ At("save")
    /\ addr' = IF op.kind = "alloc" THEN [addr EXCEPT ![op.vm] = op.addr] ELSE addr
    /\ op' = Rest("idle")
    /\ UNCHANGED <<state, saved, host, faults>>

(* persist, by write and rename.  When it fails the caller sees an error:  *)
(* allocate gives the VM no address, but the lease and devices stay.       *)
Save ==
    /\ At("save")
    /\ \/ /\ saved' = state
          /\ addr' = IF op.kind = "alloc" THEN [addr EXCEPT ![op.vm] = op.addr]
                                          ELSE addr
       \/ "save" \in faults /\ UNCHANGED <<saved, addr>>
    /\ op' = Rest("idle")
    /\ UNCHANGED <<state, host, faults>>

-----------------------------------------------------------------------------
(* hostd dies, and with it every VM; devices and the file remain. *)
Crash ==
    /\ ~At("down")
    /\ state' = Empty
    /\ addr' = [v \in Vm |-> NoAddr]
    /\ op' = Rest("down")
    /\ UNCHANGED <<saved, host, faults>>

Restart ==
    /\ At("down")
    /\ state' = saved
    /\ op' = Rest("recTaps")
    /\ UNCHANGED <<saved, addr, host, faults>>

(* reconcile_on_startup: delete the TAPs of the loaded state, its bridges  *)
(* and NAT rules, then any bridge left; forget the state.                  *)
MayLeave(rest) == rest = {} \/ "delete" \in faults

RecTap(v) ==
    /\ At("recTaps") /\ \E p \in Project : Owns(state, p, v)
    /\ tap[v] # NoTap
    /\ tap' = [tap EXCEPT ![v] = NoTap]
    /\ UNCHANGED <<mem, bridges, gateway, nat, op, faults>>

RecTapsDone ==
    /\ At("recTaps")
    /\ MayLeave({v \in Vm : tap[v] # NoTap /\ \E p \in Project : Owns(state, p, v)})
    /\ Goto("recBridges")
    /\ UNCHANGED <<mem, host, faults>>

RecBridge(p) ==
    /\ At("recBridges") /\ HasEntry(p)
    /\ p \in bridges \/ state.subnet[p] \in nat
    /\ nat' \in {nat \ {state.subnet[p]}} \cup {n \in {nat} : "delete" \in faults}
    /\ \/ LinkDel(p)
       \/ "delete" \in faults /\ UNCHANGED <<bridges, gateway, tap>>
    /\ UNCHANGED <<mem, op, faults>>

RecBridgesDone ==
    /\ At("recBridges")
    /\ MayLeave({p \in Project : HasEntry(p)
                    /\ (p \in bridges \/ state.subnet[p] \in nat)})
    /\ Goto("recStray")
    /\ UNCHANGED <<mem, host, faults>>

RecStray(p) ==
    /\ At("recStray") /\ p \in bridges
    /\ LinkDel(p)
    /\ UNCHANGED <<mem, nat, op, faults>>

(* The last step; when the file cannot be written hostd does not start. *)
RecDone ==
    /\ At("recStray")
    /\ MayLeave(bridges)
    /\ state' = Empty /\ saved' = Empty
    /\ op' = Rest("idle")
    /\ UNCHANGED <<addr, host, faults>>

-----------------------------------------------------------------------------
AllocStep ==
    \/ AddBridge \/ AddAddress \/ AddNat \/ AddTap \/ Enslave
    \/ CreateFails \/ Rollback

DeleteStep == DeleteTap \/ DeleteNat \/ DeleteBridge

Reconcile ==
    \/ Restart \/ RecTapsDone \/ RecBridgesDone \/ RecDone
    \/ \E v \in Vm : RecTap(v)
    \/ \E p \in Project : RecBridge(p) \/ RecStray(p)

Next ==
    \/ \E v \in Vm, p \in Project : Allocate(v, p) \/ Release(v, p)
    \/ AllocStep \/ DeleteStep \/ Save
    \/ Crash \/ Reconcile

Spec == Init /\ [][Next]_vars

-----------------------------------------------------------------------------
(* Properties *)

(* Types of the allocator state, the file and the devices. *)
TypeOK ==
    /\ state \in NetState /\ saved \in NetState
    /\ addr \in [Vm -> (Subnet \X Host) \cup {NoAddr}]
    /\ bridges \subseteq Project /\ nat \subseteq Subnet
    /\ gateway \in [Project -> SUBSET Subnet]
    /\ tap \in [Vm -> Project \cup {NoTap, Loose}]
    /\ op.pc \in OpPc /\ faults \subseteq Faults

(* No two VMs have the same guest address (nor, since it is derived from   *)
(* the address, the same MAC), whatever allocates, releases, failures and  *)
(* restarts came before.                                                   *)
AddressesUnique ==
    \A v, w \in Vm : v # w /\ addr[v] # NoAddr => addr[v] # addr[w]

(* A VM with an address is wired up: its TAP is on the bridge of the       *)
(* project that owns its subnet, the bridge carries the subnet's gateway,  *)
(* and the subnet has NAT.  Another VM's failed setup or teardown, or a    *)
(* bridge left over from an earlier use of the subnet, does not undo it.   *)
LiveIsWired ==
    \A v \in Vm : addr[v] # NoAddr =>
        \E p \in bridges :
            /\ state.subnet[p] = addr[v][1] /\ state.vms[p][addr[v][2]] = v
            /\ tap[v] = p
            /\ addr[v][1] \in gateway[p] \cap nat

(* Whatever a VM with an address uses is in the state file, even when      *)
(* later saves fail: after a crash reconciliation finds its TAP and subnet.*)
LiveIsSaved ==
    \A v \in Vm : addr[v] # NoAddr =>
        \E p \in Project : saved.subnet[p] = addr[v][1]
                           /\ saved.vms[p][addr[v][2]] = v

(* What failed operations leave behind harms nobody.  Between operations   *)
(* every lease belongs to a VM that has the address, as long as saving     *)
(* works; and two bridges never carry the gateway of the same subnet,      *)
(* though a subnet returns to the pool before its bridge is deleted, as    *)
(* long as deleting works.                                                 *)
NoLeftovers ==
    /\ At("idle") /\ "save" \notin faults => \A v \in Vm, p \in Project :
           Owns(state, p, v) => addr[v] # NoAddr
    /\ "delete" \notin faults =>
           \A p, q \in bridges : p # q => gateway[p] \cap gateway[q] = {}
=============================================================================

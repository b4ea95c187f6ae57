------------------------------ MODULE AbstractVm ------------------------------
(***************************************************************************)
(* What hostd's Vmm promises about one VM, without tasks, sockets, locks   *)
(* or files: the states of vm.rs, whether the VM is in the map, which      *)
(* Firecracker processes it has and whether a snapshot that matches its    *)
(* disks is on file.                                                       *)
(*                                                                         *)
(* Spec is the promise.  hostd keeps it but for one step, SnapshotUndone,  *)
(* which SpecButUndo lets it take: VmLifecycle implements SpecButUndo, and *)
(* not Spec, with any number of callers, dropped handlers and dying        *)
(* processes.  Schedule is built on the actions below, that one included.  *)
(***************************************************************************)
CONSTANT Proc    \* Firecracker processes

VARIABLES
    state,     \* VmInstance.state
    from,      \* the stable state it last left
    present,   \* the VM is in the map
    live,      \* its Firecracker processes
    saved      \* a complete snapshot that matches the disks

vars == <<state, from, present, live, saved>>

-----------------------------------------------------------------------------
(* The operations, named for the transitional state they work in: where    *)
(* each may begin, and where it ends when it succeeds.                     *)

Begins == [Starting |-> {"Created"}, Pausing |-> {"Started"},
           Resuming |-> {"Paused"}, Suspending |-> {"Started", "Paused"},
           Restoring |-> {"Suspended"}]

Operation == DOMAIN Begins

Completes == [Starting |-> "Started", Pausing |-> "Paused",
              Resuming |-> "Started", Suspending |-> "Suspended",
              Restoring |-> "Started"]

-----------------------------------------------------------------------------
Init ==
    /\ state = "Creating" /\ from = "Destroyed"
    /\ present = FALSE /\ live = {} /\ saved = FALSE

(* create_vm enters the VM in the map. *)
Create ==
    /\ state = "Creating" /\ ~present
    /\ state' = "Created" /\ present' = TRUE
    /\ UNCHANGED <<from, live, saved>>

(* An operation begins only from a stable state it is for.  It may also    *)
(* begin on a VM that was just destroyed: the caller still has it in hand. *)
Begin(op) ==
    /\ state \in Begins[op]
    /\ state' = op /\ from' = state
    /\ UNCHANGED <<present, live, saved>>

(* It ends in its own target.  A VM in the map that is suspended has no    *)
(* process left and a snapshot to come back from.                          *)
Complete ==
    /\ state \in Operation
    /\ present /\ state = "Suspending" => live = {} /\ saved
    /\ state' = Completes[state]
    /\ UNCHANGED <<from, present, live, saved>>

(* Or it rolls back to the previous stable state.  What a failed restore   *)
(* spawned is gone by then.                                                *)
RollBack ==
    /\ state \in Operation
    /\ state' = from
    /\ live' \in SUBSET live
    /\ present /\ state = "Restoring" => live' = {}
    /\ UNCHANGED <<from, present, saved>>

(* Only create and restore spawn, and never a second process beside a      *)
(* first one.                                                              *)
PowerOn(p) ==
    /\ state \in {"Creating", "Restoring"}
    /\ present => live = {}
    /\ live' = live \cup {p}
    /\ UNCHANGED <<state, from, present, saved>>

(* A process is killed or dies. *)
PowerOff(p) ==
    /\ p \in live
    /\ live' = live \ {p}
    /\ UNCHANGED <<state, from, present, saved>>

(* A snapshot is only written by a suspend.                                *)
Save ==
    /\ state = "Suspending"
    /\ saved' = TRUE
    /\ UNCHANGED <<state, from, present, live>>

(* It is lost when a suspend fails half-way, when the guest runs on, or    *)
(* with the VM.                                                            *)
Spoil ==
    /\ state = "Suspending" \/ live # {} \/ ~present
    /\ saved' = FALSE
    /\ UNCHANGED <<state, from, present, live>>

Destroy ==
    /\ present
    /\ present' = FALSE
    /\ UNCHANGED <<state, from, live, saved>>

(* Not promised, and what hostd does: a failed snapshot resumes the guest  *)
(* and leaves the VM Started, one that was Paused as well.                 *)
SnapshotUndone ==
    /\ state = "Suspending"
    /\ state' = "Started"
    /\ UNCHANGED <<from, present, live, saved>>

Next ==
    \/ Create \/ Complete \/ RollBack \/ Save \/ Spoil \/ Destroy
    \/ \E op \in Operation : Begin(op)
    \/ \E p \in Proc : PowerOn(p) \/ PowerOff(p)

Spec == Init /\ [][Next]_vars
SpecButUndo == Init /\ [][Next \/ SnapshotUndone]_vars
=============================================================================

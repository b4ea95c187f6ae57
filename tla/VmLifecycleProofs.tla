-------------------------- MODULE VmLifecycleProofs --------------------------
(***************************************************************************)
(* What VmLifecycle guarantees for every set of callers, every set of      *)
(* processes and every number of disconnects.                              *)
(*                                                                         *)
(* The inductive invariant says who may do what: one handler at a time is  *)
(* between its two transitions (Owner), every live Firecracker process has *)
(* a handle (Held), the map's handle is gone while a VM is suspended or    *)
(* being restored (EmptySlot), creating comes before everything and        *)
(* destroying after (Phases), and the snapshot files are complete where a  *)
(* restore may need them (Files).                                          *)
(*                                                                         *)
(* On top of it Layer2: the API socket, the map entry and the handlers     *)
(* mean the same process (Bound, Filled), a guest that is paused or saved  *)
(* does not run (Frozen, Matches), an operation knows where it began       *)
(* (Origins), and a destroy, or a create that failed, has only its own     *)
(* steps left to do (Released, Undone).                                    *)
(* With both, every step is a step of AbstractVm (or the one it does not   *)
(* promise, SnapshotUndone), and nothing waits for a handler that is not   *)
(* there (Guarded, Worked).                                                *)
(***************************************************************************)
EXTENDS VmLifecycle, TLAPS

(* Frames, jumps and the sets of steps, which every leaf may look into. *)
USE DEF life, fcvars, snaps, resources, books,
        Goto, Return, Transition, Settle, Begin, Accepts, Spawn, KillChild,
        RestoreFail, Pc, OwningPc, CreatePc, StartPc, PausePc, ResumePc,
        SnapPc, RestorePc, BeginPc, WakePc, DestroyPc, AwaitPc, EntrySteps,
        VmState, Stable, Transitional, ProcState, LiveState, Live,
        CreateStep, StartStep, PauseStep, SnapshotStep, RestoreStep,
        WakeStep, DestroyStep, Call, Firecracker, Enter

-----------------------------------------------------------------------------
(* Type correctness. *)

(* The Boolean variables start and stay Boolean. *)
LEMMA FlagsStep ==
  ASSUME FlagsOK, [Next]_vars
  PROVE  FlagsOK'
<1>1. CASE UNCHANGED vars
  BY <1>1, ZenonT(30) DEF FlagsOK, vars
<1>2. ASSUME NEW t \in Task, Call(t) \/ Disconnect(t) PROVE FlagsOK'
  BY <1>2, ZenonT(30) DEF FlagsOK, CreateBegin, WakeEnter, DestroyEnter, Disconnect
<1>3. ASSUME NEW t \in Task, CreateStep(t) PROVE FlagsOK'
  BY <1>3, ZenonT(30) DEF FlagsOK, CreateAttach, CreateSpawn, CreateConfigure,
     CreateUndo, CreateRegister
<1>4. ASSUME NEW t \in Task, StartStep(t) \/ PauseStep(t) PROVE FlagsOK'
  BY <1>4, ZenonT(30) DEF FlagsOK, StartBegin, StartPut, StartWait, PauseBegin,
     PausePatch, ResumeBegin, ResumePatch
<1>5. ASSUME NEW t \in Task, SnapshotStep(t) PROVE FlagsOK'
  BY <1>5, ZenonT(30) DEF FlagsOK, SnapBegin, SnapPatch, SnapCreate, SnapTake,
     SnapKill, SnapCommit, SnapUndo
<1>6. ASSUME NEW t \in Task, RestoreStep(t) PROVE FlagsOK'
  BY <1>6, ZenonT(30) DEF FlagsOK, RestoreEnter, RestoreBegin, RestoreSpawn,
     RestoreLoad, RestoreWait, RestoreCommit, RestoreFinish
<1>7. ASSUME NEW t \in Task, WakeStep(t) \/ DestroyStep(t) PROVE FlagsOK'
  BY <1>7, ZenonT(30) DEF FlagsOK, WakeAcquire, WakeRead, DestroyKill,
     DestroyDetach, DestroyCleanup
<1>8. ASSUME NEW p \in Proc, Firecracker(p) PROVE FlagsOK'
  BY <1>8, ZenonT(30) DEF FlagsOK, FcExit, GuestRuns
<1> QED
  BY <1>1, <1>2, <1>3, <1>4, <1>5, <1>6, <1>7, <1>8 DEF Next, Step

(* The other variables keep their types. *)
LEMMA ShapesStep ==
  ASSUME ShapesOK, [Next]_vars
  PROVE  ShapesOK'
<1> USE TaskAssumption, ProcAssumption, DisconnectAssumption DEF ShapesOK
<1>1. CASE UNCHANGED vars
  BY <1>1 DEF vars
<1>2. ASSUME NEW t \in Task, Call(t) \/ Disconnect(t) PROVE ShapesOK'
  BY <1>2 DEF CreateBegin, WakeEnter, DestroyEnter, Disconnect
<1>3. ASSUME NEW t \in Task, CreateStep(t) PROVE ShapesOK'
  BY <1>3 DEF CreateAttach, CreateSpawn, CreateConfigure,
     CreateUndo, CreateRegister
<1>4. ASSUME NEW t \in Task, StartStep(t) \/ PauseStep(t) PROVE ShapesOK'
  BY <1>4 DEF StartBegin, StartPut, StartWait, PauseBegin,
     PausePatch, ResumeBegin, ResumePatch
<1>5. ASSUME NEW t \in Task, SnapshotStep(t) PROVE ShapesOK'
  BY <1>5 DEF SnapBegin, SnapPatch, SnapCreate, SnapTake,
     SnapKill, SnapCommit, SnapUndo
<1>6. ASSUME NEW t \in Task, RestoreStep(t) PROVE ShapesOK'
  BY <1>6 DEF RestoreEnter, RestoreBegin, RestoreSpawn,
     RestoreLoad, RestoreWait, RestoreCommit, RestoreFinish
<1>7. ASSUME NEW t \in Task, WakeStep(t) \/ DestroyStep(t) PROVE ShapesOK'
  BY <1>7 DEF WakeAcquire, WakeRead, DestroyKill,
     DestroyDetach, DestroyCleanup
<1>8. ASSUME NEW p \in Proc, Firecracker(p) PROVE ShapesOK'
  BY <1>8 DEF FcExit, GuestRuns
<1> QED
  BY <1>1, <1>2, <1>3, <1>4, <1>5, <1>6, <1>7, <1>8 DEF Next, Step

(* Type correctness of the lifecycle, for every number of callers. *)
THEOREM TypeCorrect == Spec => []TypeOK
<1>1. Init => FlagsOK
  BY Zenon DEF Init, FlagsOK
<1>2. Init => ShapesOK
  BY TaskAssumption, ProcAssumption, DisconnectAssumption
     DEF Init, ShapesOK
<1>3. TypeOK /\ [Next]_vars => TypeOK'
  BY FlagsStep, ShapesStep DEF TypeOK
<1> QED
  BY <1>1, <1>2, <1>3, PTL DEF Spec, TypeOK

-----------------------------------------------------------------------------
(* The inductive invariant. *)

(* One operation at a time, with WorksIn spelled out step by step. *)
Owner ==
    /\ \A t, u \in Task :
           pc[t] \in OwningPc /\ pc[u] \in OwningPc => t = u
    /\ \A t \in Task :
           /\ pc[t] \in CreatePc => vmState = "Creating"
           /\ pc[t] \in StartPc => vmState = "Starting"
           /\ pc[t] \in PausePc => vmState = "Pausing"
           /\ pc[t] \in ResumePc => vmState = "Resuming"
           /\ pc[t] \in SnapPc => vmState = "Suspending"
           /\ pc[t] \in RestorePc => vmState = "Restoring"

(* The steps at which a handler holds a Child as a local. *)
ChildPc == {"createConfigure", "createRegister", "snapKill", "restoreLoad",
            "restoreWait", "restoreCommit", "destroyKill"}

(* A live process is the child of the map entry or of one such handler. *)
Held ==
    /\ \A p \in Proc : Live(p) => slot = p \/ \E t \in Task : child[t] = p
    /\ slot # NoProc => registered
    /\ \A t \in Task : child[t] # NoProc => pc[t] \in ChildPc

(* Between the kill of a snapshot and the end of a restore the map entry   *)
(* has no child.                                                           *)
EmptySlotPc == {"snapKill", "snapCommit", "restoreSpawn", "restoreLoad",
                "restoreWait", "restoreCommit"}

EmptySlot ==
    /\ vmState = "Suspended" => slot = NoProc
    /\ \A t \in Task : pc[t] \in EmptySlotPc => slot = NoProc

(* A VM is created once, then used, then destroyed. *)
Phases ==
    /\ registered => vmState # "Creating"
    /\ vmState # "Creating" => born
    /\ \A t \in Task :
           /\ pc[t] \in CreatePc => born
           /\ pc[t] \in BeginPc \cup WakePc => vmState # "Creating"
           /\ pc[t] \in DestroyPc => ~registered /\ vmState # "Creating"

Complete == files \in {"full", "stale"}

(* The snapshot a suspended or restoring VM rests on. *)
Files ==
    /\ registered /\ vmState = "Suspended" => snapshot /\ Complete
    /\ \A t \in Task :
          registered /\ pc[t] \in RestorePc => snapshot /\ Complete
    /\ \A t \in Task :
          registered /\ pc[t] \in {"snapTake", "snapKill", "snapCommit"}
          => Complete

IInv == TypeOK /\ Owner /\ Held /\ EmptySlot /\ Phases /\ Files

(* Only an accepted first transition makes an owner, and it needs a stable
   state, which no owner leaves behind. *)
LEMMA OwnerStep ==
  ASSUME ShapesOK, ShapesOK', Owner, Phases, [Next]_vars
  PROVE  Owner'
<1> USE TaskAssumption, ProcAssumption
    DEF ShapesOK, Owner, Phases, CanTransition
<1>1. CASE UNCHANGED vars
  BY <1>1 DEF vars
<1>2. ASSUME NEW t \in Task, Call(t) \/ Disconnect(t) PROVE Owner'
  BY <1>2 DEF CreateBegin, WakeEnter, DestroyEnter, Disconnect
<1>3. ASSUME NEW t \in Task, CreateStep(t) PROVE Owner'
  BY <1>3 DEF CreateAttach, CreateSpawn, CreateConfigure,
     CreateUndo, CreateRegister
<1>4. ASSUME NEW t \in Task, StartStep(t) \/ PauseStep(t) PROVE Owner'
  BY <1>4 DEF StartBegin, StartPut, StartWait, PauseBegin,
     PausePatch, ResumeBegin, ResumePatch
<1>5. ASSUME NEW t \in Task, SnapshotStep(t) PROVE Owner'
  BY <1>5 DEF SnapBegin, SnapPatch, SnapCreate, SnapTake,
     SnapKill, SnapCommit, SnapUndo
<1>6. ASSUME NEW t \in Task, RestoreStep(t) PROVE Owner'
  BY <1>6 DEF RestoreEnter, RestoreBegin, RestoreSpawn,
     RestoreLoad, RestoreWait, RestoreCommit, RestoreFinish
<1>7. ASSUME NEW t \in Task, WakeStep(t) \/ DestroyStep(t) PROVE Owner'
  BY <1>7 DEF WakeAcquire, WakeRead, DestroyKill,
     DestroyDetach, DestroyCleanup
<1>8. ASSUME NEW p \in Proc, Firecracker(p) PROVE Owner'
  BY <1>8 DEF FcExit, GuestRuns
<1> QED
  BY <1>1, <1>2, <1>3, <1>4, <1>5, <1>6, <1>7, <1>8 DEF Next, Step

(* Nothing returns to Creating, and only create_vm registers. *)
LEMMA PhasesStep ==
  ASSUME ShapesOK, ShapesOK', Phases, Owner, [Next]_vars
  PROVE  Phases'
<1> USE TaskAssumption, ProcAssumption
    DEF ShapesOK, Phases, Owner, CanTransition
<1>1. CASE UNCHANGED vars
  BY <1>1 DEF vars
<1>2. ASSUME NEW t \in Task, Call(t) \/ Disconnect(t) PROVE Phases'
  BY <1>2 DEF CreateBegin, WakeEnter, DestroyEnter, Disconnect
<1>3. ASSUME NEW t \in Task, CreateStep(t) PROVE Phases'
  BY <1>3 DEF CreateAttach, CreateSpawn, CreateConfigure,
     CreateUndo, CreateRegister
<1>4. ASSUME NEW t \in Task, StartStep(t) \/ PauseStep(t) PROVE Phases'
  BY <1>4 DEF StartBegin, StartPut, StartWait, PauseBegin,
     PausePatch, ResumeBegin, ResumePatch
<1>5. ASSUME NEW t \in Task, SnapshotStep(t) PROVE Phases'
  BY <1>5 DEF SnapBegin, SnapPatch, SnapCreate, SnapTake,
     SnapKill, SnapCommit, SnapUndo
<1>6. ASSUME NEW t \in Task, RestoreStep(t) PROVE Phases'
  BY <1>6 DEF RestoreEnter, RestoreBegin, RestoreSpawn,
     RestoreLoad, RestoreWait, RestoreCommit, RestoreFinish
<1>7. ASSUME NEW t \in Task, WakeStep(t) \/ DestroyStep(t) PROVE Phases'
  BY <1>7 DEF WakeAcquire, WakeRead, DestroyKill,
     DestroyDetach, DestroyCleanup
<1>8. ASSUME NEW p \in Proc, Firecracker(p) PROVE Phases'
  BY <1>8 DEF FcExit, GuestRuns
<1> QED
  BY <1>1, <1>2, <1>3, <1>4, <1>5, <1>6, <1>7, <1>8 DEF Next, Step

(* The only writers of a child into the entry are owners. *)
LEMMA EmptySlotStep ==
  ASSUME ShapesOK, ShapesOK', EmptySlot, Owner, Phases, [Next]_vars
  PROVE  EmptySlot'
<1> USE TaskAssumption, ProcAssumption
    DEF ShapesOK, EmptySlot, Owner, Phases, CanTransition, EmptySlotPc
<1>1. CASE UNCHANGED vars
  BY <1>1 DEF vars
<1>2. ASSUME NEW t \in Task, Call(t) \/ Disconnect(t) PROVE EmptySlot'
  BY <1>2 DEF CreateBegin, WakeEnter, DestroyEnter, Disconnect
<1>3. ASSUME NEW t \in Task, CreateStep(t) PROVE EmptySlot'
  BY <1>3 DEF CreateAttach, CreateSpawn, CreateConfigure,
     CreateUndo, CreateRegister
<1>4. ASSUME NEW t \in Task, StartStep(t) \/ PauseStep(t) PROVE EmptySlot'
  BY <1>4 DEF StartBegin, StartPut, StartWait, PauseBegin,
     PausePatch, ResumeBegin, ResumePatch
<1>5. ASSUME NEW t \in Task, SnapshotStep(t) PROVE EmptySlot'
  BY <1>5 DEF SnapBegin, SnapPatch, SnapCreate, SnapTake,
     SnapKill, SnapCommit, SnapUndo
<1>6. ASSUME NEW t \in Task, RestoreStep(t) PROVE EmptySlot'
  BY <1>6 DEF RestoreEnter, RestoreBegin, RestoreSpawn,
     RestoreLoad, RestoreWait, RestoreCommit, RestoreFinish
<1>7. ASSUME NEW t \in Task, WakeStep(t) \/ DestroyStep(t) PROVE EmptySlot'
  BY <1>7 DEF WakeAcquire, WakeRead, DestroyKill,
     DestroyDetach, DestroyCleanup
<1>8. ASSUME NEW p \in Proc, Firecracker(p) PROVE EmptySlot'
  BY <1>8 DEF FcExit, GuestRuns
<1> QED
  BY <1>1, <1>2, <1>3, <1>4, <1>5, <1>6, <1>7, <1>8 DEF Next, Step

(* A handle is dropped only with its process, and overwritten only when
   empty. *)
LEMMA HeldStep ==
  ASSUME ShapesOK, ShapesOK', Held, EmptySlot, Owner, Phases, [Next]_vars
  PROVE  Held'
<1> USE TaskAssumption, ProcAssumption
    DEF ShapesOK, Held, EmptySlot, Owner, Phases, ChildPc, EmptySlotPc
<1>1. CASE UNCHANGED vars
  BY <1>1 DEF vars
<1>2. ASSUME NEW t \in Task, Call(t) \/ Disconnect(t) PROVE Held'
  BY <1>2 DEF CreateBegin, WakeEnter, DestroyEnter, Disconnect
<1>3. ASSUME NEW t \in Task, CreateStep(t) PROVE Held'
  BY <1>3 DEF CreateAttach, CreateSpawn, CreateConfigure,
     CreateUndo, CreateRegister
<1>4. ASSUME NEW t \in Task, StartStep(t) \/ PauseStep(t) PROVE Held'
  BY <1>4 DEF StartBegin, StartPut, StartWait, PauseBegin,
     PausePatch, ResumeBegin, ResumePatch
<1>5. ASSUME NEW t \in Task, SnapshotStep(t) PROVE Held'
  BY <1>5 DEF SnapBegin, SnapPatch, SnapCreate, SnapTake,
     SnapKill, SnapCommit, SnapUndo
<1>6. ASSUME NEW t \in Task, RestoreStep(t) PROVE Held'
  BY <1>6 DEF RestoreEnter, RestoreBegin, RestoreSpawn,
     RestoreLoad, RestoreWait, RestoreCommit, RestoreFinish
<1>7. ASSUME NEW t \in Task, WakeStep(t) \/ DestroyStep(t) PROVE Held'
  BY <1>7 DEF WakeAcquire, WakeRead, DestroyKill,
     DestroyDetach, DestroyCleanup
<1>8. ASSUME NEW p \in Proc, Firecracker(p) PROVE Held'
  BY <1>8 DEF FcExit, GuestRuns
<1> QED
  BY <1>1, <1>2, <1>3, <1>4, <1>5, <1>6, <1>7, <1>8 DEF Next, Step

(* The files change only under a snapshot or after the entry is gone. *)
LEMMA FilesStep ==
  ASSUME ShapesOK, ShapesOK', Files, Owner, Phases, [Next]_vars
  PROVE  Files'
<1> USE TaskAssumption, ProcAssumption
    DEF ShapesOK, Files, Owner, Phases, CanTransition, Complete
<1>1. CASE UNCHANGED vars
  BY <1>1 DEF vars
<1>2. ASSUME NEW t \in Task, Call(t) \/ Disconnect(t) PROVE Files'
  BY <1>2 DEF CreateBegin, WakeEnter, DestroyEnter, Disconnect
<1>3. ASSUME NEW t \in Task, CreateStep(t) PROVE Files'
  BY <1>3 DEF CreateAttach, CreateSpawn, CreateConfigure,
     CreateUndo, CreateRegister
<1>4. ASSUME NEW t \in Task, StartStep(t) \/ PauseStep(t) PROVE Files'
  BY <1>4 DEF StartBegin, StartPut, StartWait, PauseBegin,
     PausePatch, ResumeBegin, ResumePatch
<1>5. ASSUME NEW t \in Task, SnapshotStep(t) PROVE Files'
  BY <1>5 DEF SnapBegin, SnapPatch, SnapCreate, SnapTake,
     SnapKill, SnapCommit, SnapUndo
<1>6. ASSUME NEW t \in Task, RestoreStep(t) PROVE Files'
  BY <1>6 DEF RestoreEnter, RestoreBegin, RestoreSpawn,
     RestoreLoad, RestoreWait, RestoreCommit, RestoreFinish
<1>7. ASSUME NEW t \in Task, WakeStep(t) \/ DestroyStep(t) PROVE Files'
  BY <1>7 DEF WakeAcquire, WakeRead, DestroyKill,
     DestroyDetach, DestroyCleanup
<1>8. ASSUME NEW p \in Proc, Firecracker(p) PROVE Files'
  BY <1>8 DEF FcExit, GuestRuns
<1> QED
  BY <1>1, <1>2, <1>3, <1>4, <1>5, <1>6, <1>7, <1>8 DEF Next, Step

(* IInv holds in every reachable state. *)
THEOREM Inductive == Spec => []IInv
<1>1. Init => Owner /\ Held /\ EmptySlot /\ Phases /\ Files
  BY DEF Init, Owner, Held, EmptySlot, Phases, Files, EmptySlotPc
<1>2. IInv /\ TypeOK' /\ [Next]_vars => IInv'
  BY OwnerStep, HeldStep, EmptySlotStep, PhasesStep, FilesStep
     DEF IInv, TypeOK
<1> QED
  BY <1>1, <1>2, TypeCorrect, PTL DEF Spec, IInv

(* While the VM is in the map, a handler that holds a child is the owner,  *)
(* and the entry has none.                                                 *)
LEMMA Holder ==
  ASSUME Held, Phases, Owner, EmptySlot, registered,
         NEW t \in Task, child[t] # NoProc
  PROVE  pc[t] \in OwningPc /\ pc[t] \in EmptySlotPc /\ slot = NoProc
<1>1. pc[t] \in ChildPc
  BY DEF Held
<1>2. pc[t] \notin DestroyPc /\ vmState # "Creating"
  BY Zenon DEF Phases
<1>3. pc[t] \notin CreatePc
  BY <1>2 DEF Owner
<1> QED
  BY <1>1, <1>2, <1>3 DEF ChildPc, EmptySlotPc, EmptySlot

(* So the child of the entry is the only process. *)
LEMMA OnlyChild ==
  ASSUME ShapesOK, Held, Phases, Owner, EmptySlot, registered,
         slot # NoProc, NEW p \in Proc, Live(p)
  PROVE  p = slot
<1>1. ASSUME NEW t \in Task, child[t] = p PROVE FALSE
  <2>1. child[t] # NoProc
    BY <1>1, ProcAssumption
  <2> QED
    BY <2>1, Holder
<1> QED
  BY <1>1, Zenon DEF Held

-----------------------------------------------------------------------------
(* What follows. *)

(* At most one operation is between its transitions, in its own state. *)
THEOREM Exclusion == Spec => []OneOperationAtATime
<1>1. Owner => OneOperationAtATime
  BY DEF Owner, OneOperationAtATime, WorksIn
<1> QED
  BY <1>1, Inductive, PTL DEF IInv

(* A suspended VM has no process and complete snapshot files. *)
THEOREM Rest == Spec => []SuspendedAtRest
<1>1. ASSUME IInv, registered, vmState = "Suspended"
      PROVE  /\ \A p \in Proc : ~Live(p)
             /\ snapshot /\ files \in {"full", "stale"}
  <2>1. snapshot /\ files \in {"full", "stale"}
    BY <1>1 DEF IInv, Files, Complete
  <2>2. ASSUME NEW p \in Proc, Live(p) PROVE FALSE
    <3>1. slot = NoProc
      BY <1>1 DEF IInv, EmptySlot
    <3>2. PICK t \in Task : child[t] = p
      BY <1>1, <2>2, <3>1, ProcAssumption DEF IInv, Held
    <3>3. pc[t] \in ChildPc
      BY <1>1, <3>2, ProcAssumption DEF IInv, Held
    <3>4. pc[t] \notin DestroyPc
      BY <1>1, Zenon DEF IInv, Phases
    <3> QED
      BY <1>1, <3>3, <3>4 DEF IInv, Owner, ChildPc
  <2> QED
    BY <2>1, <2>2
<1>2. IInv => SuspendedAtRest
  BY <1>1, Zenon DEF SuspendedAtRest
<1> QED
  BY <1>2, Inductive, PTL

(* A VM in the map has at most one Firecracker process. *)
THEOREM SingleProcess == Spec => []OneProcess
<1>1. ASSUME IInv, registered, NEW p \in Proc, NEW q \in Proc,
             Live(p), Live(q)
      PROVE  p = q
  <2>1. \A t \in Task : child[t] # NoProc =>
                        pc[t] \in OwningPc /\ slot = NoProc
    BY <1>1, Holder DEF IInv
  <2>2. CASE slot = NoProc
    BY <1>1, <2>1, <2>2, ProcAssumption DEF IInv, Held, Owner
  <2>3. CASE slot # NoProc
    BY <1>1, <2>3, OnlyChild DEF IInv, TypeOK
  <2> QED
    BY <2>2, <2>3
<1>2. IInv => OneProcess
  BY <1>1, Zenon DEF OneProcess
<1> QED
  BY <1>2, Inductive, PTL

(* When no handler is running, a live process belongs to a VM in the map. *)
THEOREM NoStrays == Spec => []NoStrayProcess
<1>1. IInv => NoStrayProcess
  BY ProcAssumption
     DEF IInv, TypeOK, ShapesOK, Held, ChildPc, NoStrayProcess, Quiet
<1> QED
  BY <1>1, Inductive, PTL
-----------------------------------------------------------------------------
(* The second layer: which process the socket, the map entry and the       *)
(* handlers agree on, and what the rest of the system is owed.             *)

(* The steps at which a handler holds the process it spawned. *)
HandPc == {"createConfigure", "createRegister", "restoreLoad", "restoreWait",
           "restoreCommit"}

(* The API socket belongs to the process of the map entry, or to the one   *)
(* that is about to become it.                                             *)
Bound ==
    /\ registered /\ slot # NoProc => sock = slot
    /\ \A t \in Task : pc[t] \in HandPc => child[t] # NoProc
    /\ \A t \in Task : pc[t] \in HandPc /\ (registered \/ pc[t] \in CreatePc)
                       => sock = child[t]

(* The steps of a snapshot before it takes the child, and of a restore     *)
(* after it gave it.                                                       *)
FilledPc == {"snapPatch", "snapCreate", "snapTake", "snapUndo",
             "restoreFinish"}

(* A VM in the map has a child unless it is suspended, on the way there or *)
(* on the way back.                                                        *)
Filled ==
    /\ registered /\ vmState \notin {"Suspending", "Suspended", "Restoring"}
       => slot # NoProc
    /\ \A t \in Task : registered /\ pc[t] \in FilledPc => slot # NoProc

(* A paused guest stays frozen until a resume is accepted. *)
Frozen ==
    registered /\ vmState \in {"Paused", "Resuming"}
    => proc[slot] \in {"paused", "exited"}

(* From the moment its snapshot is complete a guest does not run. *)
SavedPc == {"snapTake", "snapKill", "snapCommit"}

Matches ==
    \A t \in Task : registered /\ pc[t] \in SavedPc =>
        files = "full" /\ \A p \in Proc : proc[p] # "running"

(* The stable state an operation was begun in. *)
Origins ==
    /\ vmState = "Starting" => origin = "Created"
    /\ vmState = "Pausing" => origin = "Started"
    /\ vmState = "Resuming" => origin = "Paused"
    /\ vmState = "Suspending" => origin \in {"Started", "Paused"}
    /\ vmState = "Restoring" => origin = "Suspended"

(* What a destroy that nobody cut off has still to do. *)
Released ==
    disconnects = 0 /\ ~registered /\ vmState # "Creating" =>
        \/ \E t \in Task : pc[t] = "destroyKill"
        \/ ~net /\ \E t \in Task : pc[t] = "destroyDetach"
        \/ ~net /\ ~vol /\ \E t \in Task : pc[t] = "destroyCleanup"
        \/ ~net /\ ~vol /\ ~dir /\ files = "none"

(* And what a create under way, or one that failed, has to give back.      *)
AttachedPc == {"createSpawn", "createConfigure", "createUndo", "createRegister"}

Undone ==
    disconnects = 0 /\ vmState = "Creating" =>
        /\ files = "none" /\ (net => dir)
        /\ vol => \E t \in Task : pc[t] \in AttachedPc

Layer2 == Bound /\ Filled /\ Frozen /\ Matches /\ Origins /\ Released /\ Undone

(* An operation begins in a stable state, and only an owner ends it. *)
LEMMA OriginsStep ==
  ASSUME ShapesOK, Origins, Owner, Phases, [Next]_vars
  PROVE  Origins'
<1> USE TaskAssumption, ProcAssumption
    DEF ShapesOK, Origins, Owner, Phases, CanTransition
<1>1. CASE UNCHANGED vars
  BY <1>1 DEF vars
<1>2. ASSUME NEW t \in Task, Call(t) \/ Disconnect(t) PROVE Origins'
  BY <1>2 DEF CreateBegin, WakeEnter, DestroyEnter, Disconnect
<1>3. ASSUME NEW t \in Task, CreateStep(t) PROVE Origins'
  BY <1>3 DEF CreateAttach, CreateSpawn, CreateConfigure,
     CreateUndo, CreateRegister
<1>4. ASSUME NEW t \in Task, StartStep(t) \/ PauseStep(t) PROVE Origins'
  BY <1>4 DEF StartBegin, StartPut, StartWait, PauseBegin,
     PausePatch, ResumeBegin, ResumePatch
<1>5. ASSUME NEW t \in Task, SnapshotStep(t) PROVE Origins'
  BY <1>5 DEF SnapBegin, SnapPatch, SnapCreate, SnapTake,
     SnapKill, SnapCommit, SnapUndo
<1>6. ASSUME NEW t \in Task, RestoreStep(t) PROVE Origins'
  BY <1>6 DEF RestoreEnter, RestoreBegin, RestoreSpawn,
     RestoreLoad, RestoreWait, RestoreCommit, RestoreFinish
<1>7. ASSUME NEW t \in Task, WakeStep(t) \/ DestroyStep(t) PROVE Origins'
  BY <1>7 DEF WakeAcquire, WakeRead, DestroyKill,
     DestroyDetach, DestroyCleanup
<1>8. ASSUME NEW p \in Proc, Firecracker(p) PROVE Origins'
  BY <1>8 DEF FcExit, GuestRuns
<1> QED
  BY <1>1, <1>2, <1>3, <1>4, <1>5, <1>6, <1>7, <1>8 DEF Next, Step

(* The socket changes hands only with a spawn, a commit or a clean-up. *)
LEMMA BoundStep ==
  ASSUME ShapesOK, ShapesOK', Bound, Owner, Held, EmptySlot, Phases, [Next]_vars
  PROVE  Bound'
<1> USE TaskAssumption, ProcAssumption
    DEF ShapesOK, Bound, Owner, Held, EmptySlot, Phases,
        CanTransition, HandPc, ChildPc, EmptySlotPc
<1>1. CASE UNCHANGED vars
  BY <1>1 DEF vars
<1>2. ASSUME NEW t \in Task, Call(t) \/ Disconnect(t) PROVE Bound'
  BY <1>2 DEF CreateBegin, WakeEnter, DestroyEnter, Disconnect
<1>3. ASSUME NEW t \in Task, CreateStep(t) PROVE Bound'
  BY <1>3 DEF CreateAttach, CreateSpawn, CreateConfigure,
     CreateUndo, CreateRegister
<1>4. ASSUME NEW t \in Task, StartStep(t) \/ PauseStep(t) PROVE Bound'
  BY <1>4 DEF StartBegin, StartPut, StartWait, PauseBegin,
     PausePatch, ResumeBegin, ResumePatch
<1>5. ASSUME NEW t \in Task, SnapshotStep(t) PROVE Bound'
  BY <1>5 DEF SnapBegin, SnapPatch, SnapCreate, SnapTake,
     SnapKill, SnapCommit, SnapUndo
<1>6. ASSUME NEW t \in Task, RestoreStep(t) PROVE Bound'
  BY <1>6 DEF RestoreEnter, RestoreBegin, RestoreSpawn,
     RestoreLoad, RestoreWait, RestoreCommit, RestoreFinish
<1>7. ASSUME NEW t \in Task, WakeStep(t) \/ DestroyStep(t) PROVE Bound'
  BY <1>7 DEF WakeAcquire, WakeRead, DestroyKill,
     DestroyDetach, DestroyCleanup
<1>8. ASSUME NEW p \in Proc, Firecracker(p) PROVE Bound'
  BY <1>8 DEF FcExit, GuestRuns
<1> QED
  BY <1>1, <1>2, <1>3, <1>4, <1>5, <1>6, <1>7, <1>8 DEF Next, Step

(* The entry loses its child to a snapshot or with the entry. *)
LEMMA FilledStep ==
  ASSUME ShapesOK, ShapesOK', Filled, Bound, Owner, Phases, [Next]_vars
  PROVE  Filled'
<1> USE TaskAssumption, ProcAssumption
    DEF ShapesOK, Filled, Bound, Owner, Phases, CanTransition, HandPc,
        FilledPc
<1>1. CASE UNCHANGED vars
  BY <1>1 DEF vars
<1>2. ASSUME NEW t \in Task, Call(t) \/ Disconnect(t) PROVE Filled'
  BY <1>2 DEF CreateBegin, WakeEnter, DestroyEnter, Disconnect
<1>3. ASSUME NEW t \in Task, CreateStep(t) PROVE Filled'
  BY <1>3 DEF CreateAttach, CreateSpawn, CreateConfigure,
     CreateUndo, CreateRegister
<1>4. ASSUME NEW t \in Task, StartStep(t) \/ PauseStep(t) PROVE Filled'
  BY <1>4 DEF StartBegin, StartPut, StartWait, PauseBegin,
     PausePatch, ResumeBegin, ResumePatch
<1>5. ASSUME NEW t \in Task, SnapshotStep(t) PROVE Filled'
  BY <1>5 DEF SnapBegin, SnapPatch, SnapCreate, SnapTake,
     SnapKill, SnapCommit, SnapUndo
<1>6. ASSUME NEW t \in Task, RestoreStep(t) PROVE Filled'
  BY <1>6 DEF RestoreEnter, RestoreBegin, RestoreSpawn,
     RestoreLoad, RestoreWait, RestoreCommit, RestoreFinish
<1>7. ASSUME NEW t \in Task, WakeStep(t) \/ DestroyStep(t) PROVE Filled'
  BY <1>7 DEF WakeAcquire, WakeRead, DestroyKill,
     DestroyDetach, DestroyCleanup
<1>8. ASSUME NEW p \in Proc, Firecracker(p) PROVE Filled'
  BY <1>8 DEF FcExit, GuestRuns
<1> QED
  BY <1>1, <1>2, <1>3, <1>4, <1>5, <1>6, <1>7, <1>8 DEF Next, Step

(* Only the owner of the VM talks to its process. *)
LEMMA FrozenStep ==
  ASSUME ShapesOK, ShapesOK', Frozen, Filled, Bound, Held, EmptySlot, Owner,
         Phases, [Next]_vars
  PROVE  Frozen'
<1> USE TaskAssumption, ProcAssumption
    DEF ShapesOK, Frozen, Filled, Owner, CanTransition
<1>a. registered => \A t \in Task : child[t] # NoProc => slot = NoProc
  BY Holder, Zenon
<1>b. registered => vmState # "Creating"
  BY Zenon DEF Phases
<1>1. CASE UNCHANGED vars
  BY <1>1 DEF vars
<1>2. ASSUME NEW t \in Task, Call(t) \/ Disconnect(t) PROVE Frozen'
  BY <1>2, <1>a DEF CreateBegin, WakeEnter, DestroyEnter, Disconnect
<1>3. ASSUME NEW t \in Task, CreateStep(t) PROVE Frozen'
  BY <1>3, <1>b DEF CreateAttach, CreateSpawn, CreateConfigure,
     CreateUndo, CreateRegister
<1>4. ASSUME NEW t \in Task, StartStep(t) \/ PauseStep(t) PROVE Frozen'
  <2>1. registered /\ slot # NoProc => sock = slot
    BY DEF Bound
  <2>2. CASE PausePatch(t)
    <3>1. vmState = "Pausing"
      BY <2>2 DEF PausePatch
    <3> QED
      BY <2>1, <2>2, <3>1 DEF PausePatch
  <2>5. CASE ResumePatch(t)
    <3>1. vmState = "Resuming"
      BY <2>5 DEF ResumePatch
    <3> QED
      BY <2>1, <2>5, <3>1 DEF ResumePatch
  <2>3. CASE StartBegin(t) \/ PauseBegin(t) \/ ResumeBegin(t)
    BY <2>3 DEF StartBegin, PauseBegin, ResumeBegin
  <2>4. CASE StartPut(t) \/ StartWait(t)
    BY <2>4 DEF StartPut, StartWait
  <2> QED
    BY <1>4, <2>2, <2>3, <2>4, <2>5
<1>5. ASSUME NEW t \in Task, SnapshotStep(t) PROVE Frozen'
  BY <1>5 DEF SnapBegin, SnapPatch, SnapCreate, SnapTake,
     SnapKill, SnapCommit, SnapUndo
<1>6. ASSUME NEW t \in Task, RestoreStep(t) PROVE Frozen'
  BY <1>6, <1>a DEF RestoreEnter, RestoreBegin, RestoreSpawn,
     RestoreLoad, RestoreWait, RestoreCommit, RestoreFinish
<1>7. ASSUME NEW t \in Task, WakeStep(t) \/ DestroyStep(t) PROVE Frozen'
  BY <1>7, <1>a DEF WakeAcquire, WakeRead, DestroyKill,
     DestroyDetach, DestroyCleanup
<1>8. ASSUME NEW p \in Proc, Firecracker(p) PROVE Frozen'
  <2>1. CASE FcExit(p)
    BY <2>1 DEF FcExit
  <2>2. CASE GuestRuns(p)
    BY <2>2 DEF GuestRuns
  <2> QED
    BY <1>8, <2>1, <2>2
<1> QED
  BY <1>1, <1>2, <1>3, <1>4, <1>5, <1>6, <1>7, <1>8 DEF Next, Step

(* A snapshot is taken of the only process, which is paused. *)
LEMMA MatchesStep ==
  ASSUME ShapesOK, ShapesOK', Matches, Filled, Bound, Held, EmptySlot, Owner,
         Phases, [Next]_vars
  PROVE  Matches'
<1> DEFINE Still == files = "full" /\ \A p \in Proc : proc[p] # "running"
<1> SUFFICES ASSUME NEW u \in Task, registered', pc'[u] \in SavedPc
             PROVE  Still'
  BY DEF Matches
<1>a. pc[u] \in SavedPc /\ registered => Still
  BY DEF Matches
<1>b. registered => vmState # "Creating"
  BY Zenon DEF Phases
<1>c. pc[u] \in SavedPc => vmState = "Suspending"
                           /\ \A t \in Task : pc[t] \in OwningPc => t = u
  BY DEF Owner, SavedPc
<1> USE TaskAssumption, ProcAssumption, <1>a, <1>b, <1>c
    DEF ShapesOK, SavedPc
<1> HIDE DEF Pc, VmState, ProcState
<1>1. CASE UNCHANGED vars
  BY <1>1 DEF vars
<1>2. ASSUME NEW t \in Task, Call(t) \/ Disconnect(t) PROVE Still'
  <2>1. pc[u] \in SavedPc /\ registered
    BY <1>2 DEF CreateBegin, WakeEnter, DestroyEnter, Disconnect
  <2> QED
    BY <1>2, <2>1 DEF CreateBegin, WakeEnter, DestroyEnter, Disconnect
<1>3. ASSUME NEW t \in Task, CreateStep(t) PROVE Still'
  <2>1. pc[u] \in SavedPc
    BY <1>3 DEF CreateAttach, CreateSpawn, CreateConfigure,
       CreateUndo, CreateRegister
  <2> QED
    BY <1>3, <2>1, Zenon DEF CreateAttach, CreateSpawn, CreateConfigure,
       CreateUndo, CreateRegister, Owner
<1>4. ASSUME NEW t \in Task, StartStep(t) \/ PauseStep(t) PROVE Still'
  BY <1>4 DEF StartBegin, StartPut, StartWait, PauseBegin,
     PausePatch, ResumeBegin, ResumePatch
<1>5. ASSUME NEW t \in Task, SnapshotStep(t) PROVE Still'
  <2>1. CASE SnapCreate(t)
    <3>1. ASSUME registered, pc[t] = "snapCreate", Accepts({"paused"}),
                 NEW p \in Proc
          PROVE  proc[p] # "running"
      <4>1. sock = slot /\ slot # NoProc
        BY <3>1 DEF Filled, FilledPc, Bound
      <4>2. Live(p) => p = slot
        BY <3>1, <4>1, OnlyChild
      <4> QED
        BY <3>1, <4>1, <4>2
    <3> QED
      BY <2>1, <3>1 DEF SnapCreate
  <2> QED
    BY <1>5, <2>1 DEF SnapBegin, SnapPatch, SnapTake,
       SnapKill, SnapCommit, SnapUndo
<1>6. ASSUME NEW t \in Task, RestoreStep(t) PROVE Still'
  BY <1>6 DEF RestoreEnter, RestoreBegin, RestoreSpawn,
     RestoreLoad, RestoreWait, RestoreCommit, RestoreFinish
<1>7. ASSUME NEW t \in Task, WakeStep(t) \/ DestroyStep(t) PROVE Still'
  <2>1. pc[u] \in SavedPc /\ registered
    BY <1>7 DEF WakeAcquire, WakeRead, DestroyKill,
       DestroyDetach, DestroyCleanup
  <2>2. pc[t] \notin DestroyPc
    BY <2>1, Zenon DEF Phases
  <2> QED
    BY <1>7, <2>1, <2>2 DEF WakeAcquire, WakeRead, DestroyKill,
       DestroyDetach, DestroyCleanup
<1>8. ASSUME NEW p \in Proc, Firecracker(p) PROVE Still'
  BY <1>8 DEF FcExit, GuestRuns
<1> QED
  BY <1>1, <1>2, <1>3, <1>4, <1>5, <1>6, <1>7, <1>8 DEF Next, Step

(* Once a destroy has begun nobody acquires anything. *)
LEMMA ReleasedStep ==
  ASSUME FlagsOK, ShapesOK, Released, Owner, Phases, [Next]_vars
  PROVE  Released'
<1> USE TaskAssumption, ProcAssumption, DisconnectAssumption
    DEF FlagsOK, ShapesOK, Released, Owner, Phases, CanTransition
<1>1. CASE UNCHANGED vars
  BY <1>1 DEF vars
<1>2. ASSUME NEW t \in Task, Call(t) \/ Disconnect(t) PROVE Released'
  BY <1>2 DEF CreateBegin, WakeEnter, DestroyEnter, Disconnect
<1>3. ASSUME NEW t \in Task, CreateStep(t) PROVE Released'
  BY <1>3 DEF CreateAttach, CreateSpawn, CreateConfigure,
     CreateUndo, CreateRegister
<1>4. ASSUME NEW t \in Task, StartStep(t) \/ PauseStep(t) PROVE Released'
  BY <1>4 DEF StartBegin, StartPut, StartWait, PauseBegin,
     PausePatch, ResumeBegin, ResumePatch
<1>5. ASSUME NEW t \in Task, SnapshotStep(t) PROVE Released'
  BY <1>5 DEF SnapBegin, SnapPatch, SnapCreate, SnapTake,
     SnapKill, SnapCommit, SnapUndo
<1>6. ASSUME NEW t \in Task, RestoreStep(t) PROVE Released'
  BY <1>6 DEF RestoreEnter, RestoreBegin, RestoreSpawn,
     RestoreLoad, RestoreWait, RestoreCommit, RestoreFinish
<1>7. ASSUME NEW t \in Task, WakeStep(t) \/ DestroyStep(t) PROVE Released'
  BY <1>7 DEF WakeAcquire, WakeRead, DestroyKill,
     DestroyDetach, DestroyCleanup
<1>8. ASSUME NEW p \in Proc, Firecracker(p) PROVE Released'
  BY <1>8 DEF FcExit, GuestRuns
<1> QED
  BY <1>1, <1>2, <1>3, <1>4, <1>5, <1>6, <1>7, <1>8 DEF Next, Step

(* A create gives its volume back before it returns, or registers the VM.  *)
LEMMA UndoneStep ==
  ASSUME FlagsOK, ShapesOK, Undone, Owner, Phases, [Next]_vars
  PROVE  Undone'
<1> USE TaskAssumption, ProcAssumption, DisconnectAssumption
    DEF FlagsOK, ShapesOK, Undone, AttachedPc, Owner, Phases, CanTransition
<1>1. CASE UNCHANGED vars
  BY <1>1 DEF vars
<1>2. ASSUME NEW t \in Task, Call(t) \/ Disconnect(t) PROVE Undone'
  BY <1>2 DEF CreateBegin, WakeEnter, DestroyEnter, Disconnect
<1>3. ASSUME NEW t \in Task, CreateStep(t) PROVE Undone'
  BY <1>3 DEF CreateAttach, CreateSpawn, CreateConfigure,
     CreateUndo, CreateRegister
<1>4. ASSUME NEW t \in Task, StartStep(t) \/ PauseStep(t) PROVE Undone'
  BY <1>4 DEF StartBegin, StartPut, StartWait, PauseBegin,
     PausePatch, ResumeBegin, ResumePatch
<1>5. ASSUME NEW t \in Task, SnapshotStep(t) PROVE Undone'
  BY <1>5 DEF SnapBegin, SnapPatch, SnapCreate, SnapTake,
     SnapKill, SnapCommit, SnapUndo
<1>6. ASSUME NEW t \in Task, RestoreStep(t) PROVE Undone'
  BY <1>6 DEF RestoreEnter, RestoreBegin, RestoreSpawn,
     RestoreLoad, RestoreWait, RestoreCommit, RestoreFinish
<1>7. ASSUME NEW t \in Task, WakeStep(t) \/ DestroyStep(t) PROVE Undone'
  BY <1>7 DEF WakeAcquire, WakeRead, DestroyKill,
     DestroyDetach, DestroyCleanup
<1>8. ASSUME NEW p \in Proc, Firecracker(p) PROVE Undone'
  BY <1>8 DEF FcExit, GuestRuns
<1> QED
  BY <1>1, <1>2, <1>3, <1>4, <1>5, <1>6, <1>7, <1>8 DEF Next, Step

(* Layer2 holds in every reachable state. *)
THEOREM Inductive2 == Spec => []Layer2
<1>1. Init => Layer2
  BY DEF Init, Layer2, Bound, Filled, Frozen, Matches, Origins, Released,
     Undone, HandPc, FilledPc, SavedPc
<1>2. IInv /\ IInv' /\ Layer2 /\ [Next]_vars => Layer2'
  BY BoundStep, FilledStep, FrozenStep, MatchesStep, OriginsStep,
     ReleasedStep, UndoneStep DEF IInv, TypeOK, Layer2
<1> QED
  BY <1>1, <1>2, Inductive, PTL DEF Spec

(* A paused guest is frozen, and the frozen process is the entry's. *)
THEOREM PausedFrozen == Spec => []PausedIsFrozen
<1>1. Layer2 => PausedIsFrozen
  BY DEF Layer2, Filled, Frozen, PausedIsFrozen
<1> QED
  BY <1>1, Inductive2, PTL

(* Neither a destroyed VM nor a failed create leaves anything, when no     *)
(* handler was cut off.                                                    *)
THEOREM DestroyedReleases == Spec => []DestroyReleases
<1>1. ASSUME Layer2 PROVE DestroyReleases
  <2>1. CASE vmState # "Creating"
    BY <1>1, <2>1, Zenon DEF Layer2, Released, DestroyReleases, Quiet
  <2>2. CASE vmState = "Creating"
    BY <1>1, <2>2 DEF Layer2, Undone, AttachedPc, DestroyReleases, Quiet
  <2> QED
    BY <2>1, <2>2
<1> QED
  BY <1>1, Inductive2, PTL

(* A handler gives its VM back: the step with which it leaves the section  *)
(* between its two transitions leaves a stable state.                      *)
Returns(t) ==
    /\ registered /\ pc[t] \in OwningPc
    /\ pc'[t] \notin OwningPc /\ disconnects' = disconnects

LEMMA ReturnSettles ==
  ASSUME IInv, [Next]_vars, NEW t \in Task, Returns(t)
  PROVE  vmState' \in Stable
<1> USE TaskAssumption, ProcAssumption
    DEF Returns, ShapesOK, Owner, CanTransition
<1>a. ShapesOK /\ Owner
  BY Zenon DEF IInv, TypeOK
<1>b. vmState # "Creating"
  BY Zenon DEF IInv, Phases
<1> HIDE DEF Pc, VmState, ProcState
<1>1. CASE UNCHANGED vars
  BY <1>1 DEF vars
<1>2. ASSUME NEW u \in Task, Call(u) \/ Disconnect(u)
      PROVE  vmState' \in Stable
  <2>1. CASE Disconnect(u)
    BY <2>1, <1>a, DisconnectAssumption DEF Disconnect
  <2>2. CASE Call(u)
    <3>1. pc[u] = "idle" /\ pc' = [pc EXCEPT ![u] = pc'[u]]
      BY <2>2, <1>a DEF CreateBegin, WakeEnter, DestroyEnter
    <3> QED
      BY <3>1, <1>a
  <2> QED
    BY <1>2, <2>1, <2>2
<1>3. ASSUME NEW u \in Task, CreateStep(u) PROVE vmState' \in Stable
  BY <1>3, <1>a, <1>b DEF CreateAttach, CreateSpawn, CreateConfigure,
     CreateUndo, CreateRegister
<1>4. ASSUME NEW u \in Task, StartStep(u) \/ PauseStep(u)
      PROVE  vmState' \in Stable
  <2>1. CASE StartStep(u)
    <3>1. CASE StartBegin(u)
      BY <3>1, <1>a DEF StartBegin
    <3>2. CASE StartPut(u)
      BY <3>2, <1>a DEF StartPut
    <3>3. CASE StartWait(u)
      BY <3>3, <1>a DEF StartWait
    <3> QED
      BY <2>1, <3>1, <3>2, <3>3
  <2>2. CASE PauseStep(u)
    <3>1. CASE PauseBegin(u)
      BY <3>1, <1>a DEF PauseBegin
    <3>2. CASE ResumeBegin(u)
      BY <3>2, <1>a DEF ResumeBegin
    <3>3. CASE PausePatch(u)
      BY <3>3, <1>a DEF PausePatch
    <3>4. CASE ResumePatch(u)
      BY <3>4, <1>a DEF ResumePatch
    <3> QED
      BY <2>2, <3>1, <3>2, <3>3, <3>4
  <2> QED
    BY <1>4, <2>1, <2>2
<1>5. ASSUME NEW u \in Task, SnapshotStep(u) PROVE vmState' \in Stable
  <2>1. CASE SnapBegin(u)
    BY <2>1, <1>a DEF SnapBegin
  <2>2. CASE SnapPatch(u)
    BY <2>2, <1>a DEF SnapPatch
  <2>3. CASE SnapCreate(u)
    BY <2>3, <1>a DEF SnapCreate
  <2>4. CASE SnapTake(u) \/ SnapKill(u)
    BY <2>4, <1>a DEF SnapTake, SnapKill
  <2>5. CASE SnapCommit(u)
    BY <2>5, <1>a DEF SnapCommit
  <2>6. CASE SnapUndo(u)
    BY <2>6, <1>a DEF SnapUndo
  <2> QED
    BY <1>5, <2>1, <2>2, <2>3, <2>4, <2>5, <2>6
<1>6. ASSUME NEW u \in Task, RestoreStep(u) PROVE vmState' \in Stable
  <2>1. CASE RestoreEnter(u)
    BY <2>1, <1>a DEF RestoreEnter
  <2>2. CASE RestoreBegin(u)
    BY <2>2, <1>a DEF RestoreBegin
  <2>3. CASE RestoreSpawn(u)
    BY <2>3, <1>a DEF RestoreSpawn
  <2>4. CASE RestoreLoad(u)
    BY <2>4, <1>a DEF RestoreLoad
  <2>5. CASE RestoreWait(u)
    BY <2>5, <1>a DEF RestoreWait
  <2>6. CASE RestoreCommit(u)
    BY <2>6, <1>a DEF RestoreCommit
  <2>7. CASE RestoreFinish(u)
    BY <2>7, <1>a DEF RestoreFinish
  <2> QED
    BY <1>6, <2>1, <2>2, <2>3, <2>4, <2>5, <2>6, <2>7
<1>7. ASSUME NEW u \in Task, WakeStep(u) \/ DestroyStep(u)
      PROVE  vmState' \in Stable
  BY <1>7, <1>a DEF WakeAcquire, WakeRead, DestroyKill,
     DestroyDetach, DestroyCleanup
<1>8. ASSUME NEW p \in Proc, Firecracker(p) PROVE vmState' \in Stable
  BY <1>8, <1>a DEF FcExit, GuestRuns
<1> QED
  BY <1>1, <1>2, <1>3, <1>4, <1>5, <1>6, <1>7, <1>8 DEF Next, Step

(* The second transition of an operation on a VM in the map is accepted. *)
THEOREM Settles == Spec => OperationsSettle
<1>1. IInv /\ [Next]_vars =>
        [\A t \in Task : Returns(t) => vmState' \in Stable]_vars
  BY ReturnSettles, Zenon
<1>2. OperationsSettle <=>
        [][\A t \in Task : Returns(t) => vmState' \in Stable]_vars
  BY Zenon DEF OperationsSettle, Returns
<1> QED
  BY <1>1, <1>2, Inductive, PTL DEF Spec

-----------------------------------------------------------------------------
(* What a transitional state, a process without a VM and a caller of       *)
(* ensure_started wait for.                                                *)

(* The steps under the wake lock (a restore of the API gets there without, *)
(* but by no other way than through Enter).                                *)
LockedPc == {"wakeRead", "restoreEnter", "restoreBegin"} \cup RestorePc

(* The guard of the wake lock is a local of ensure_started: whoever holds  *)
(* the lock is still inside, and who reads the state there holds it.       *)
Guarded ==
    /\ wakeLock # NoTask => pc[wakeLock] \in LockedPc
    /\ \A t \in Task : pc[t] \in {"wakeRead", "restoreEnter"} => wakeLock = t

(* A VM in the map is in a transitional state because a handler put it     *)
(* there and has not returned.                                             *)
Worked ==
    registered /\ vmState \in Transitional /\ disconnects = 0 =>
        \E t \in Task : pc[t] \in OwningPc

(* Nothing waits for nobody: a transitional state has the handler that     *)
(* will end it, unless one was cut off; a process that is alive outside    *)
(* the map is in the hands of a handler that hands it on or kills it; and  *)
(* the wake lock a caller of ensure_started waits for has a holder at work *)
(* under it.  The safety half of WorkEnds.                                 *)
WorkHasItsHandler ==
    /\ registered /\ vmState \in Transitional =>
           disconnects > 0 \/ \E t \in Task : pc[t] \in OwningPc
    /\ ~registered => \A p \in Proc : Live(p) =>
           \E t \in Task : child[t] = p /\ pc[t] \in ChildPc
    /\ \A t \in Task : pc[t] = "wakeLock" /\ wakeLock # NoTask =>
           wakeLock # t /\ pc[wakeLock] \in LockedPc

(* Every return, and every disconnect, lets go of the lock. *)
LEMMA GuardedStep ==
  ASSUME ShapesOK, Guarded, [Next]_vars
  PROVE  Guarded'
<1> USE TaskAssumption, ProcAssumption, DisconnectAssumption
    DEF ShapesOK, Guarded, LockedPc
<1>1. CASE UNCHANGED vars
  BY <1>1 DEF vars
<1>2. ASSUME NEW t \in Task, Call(t) \/ Disconnect(t) PROVE Guarded'
  BY <1>2 DEF CreateBegin, WakeEnter, DestroyEnter, Disconnect
<1>3. ASSUME NEW t \in Task, CreateStep(t) PROVE Guarded'
  BY <1>3 DEF CreateAttach, CreateSpawn, CreateConfigure,
     CreateUndo, CreateRegister
<1>4. ASSUME NEW t \in Task, StartStep(t) \/ PauseStep(t) PROVE Guarded'
  BY <1>4 DEF StartBegin, StartPut, StartWait, PauseBegin,
     PausePatch, ResumeBegin, ResumePatch
<1>5. ASSUME NEW t \in Task, SnapshotStep(t) PROVE Guarded'
  BY <1>5 DEF SnapBegin, SnapPatch, SnapCreate, SnapTake,
     SnapKill, SnapCommit, SnapUndo
<1>6. ASSUME NEW t \in Task, RestoreStep(t) PROVE Guarded'
  BY <1>6 DEF RestoreEnter, RestoreBegin, RestoreSpawn,
     RestoreLoad, RestoreWait, RestoreCommit, RestoreFinish
<1>7. ASSUME NEW t \in Task, WakeStep(t) \/ DestroyStep(t) PROVE Guarded'
  BY <1>7 DEF WakeAcquire, WakeRead, DestroyKill,
     DestroyDetach, DestroyCleanup
<1>8. ASSUME NEW p \in Proc, Firecracker(p) PROVE Guarded'
  BY <1>8 DEF FcExit, GuestRuns
<1> QED
  BY <1>1, <1>2, <1>3, <1>4, <1>5, <1>6, <1>7, <1>8 DEF Next, Step

(* Only the first transition of an operation leads to a transitional state,
   and the handler that made it owns the VM from then on. *)
LEMMA BeginOwns ==
  ASSUME ShapesOK, Owner, [Next]_vars,
         vmState' # vmState, vmState' \in Transitional
  PROVE  \E u \in Task : pc'[u] \in OwningPc
<1> USE TaskAssumption, ProcAssumption, DisconnectAssumption
    DEF ShapesOK, Owner, CanTransition
<1> DEFINE G == \E u \in Task : pc'[u] \in OwningPc
<1>1. CASE UNCHANGED vars
  BY <1>1 DEF vars
<1>2. ASSUME NEW t \in Task, Call(t) \/ Disconnect(t) PROVE G
  BY <1>2 DEF CreateBegin, WakeEnter, DestroyEnter, Disconnect
<1>3. ASSUME NEW t \in Task, CreateStep(t) PROVE G
  BY <1>3 DEF CreateAttach, CreateSpawn, CreateConfigure,
     CreateUndo, CreateRegister
<1>4. ASSUME NEW t \in Task, StartStep(t) \/ PauseStep(t) PROVE G
  BY <1>4 DEF StartBegin, StartPut, StartWait, PauseBegin,
     PausePatch, ResumeBegin, ResumePatch
<1>5. ASSUME NEW t \in Task, SnapshotStep(t) PROVE G
  BY <1>5 DEF SnapBegin, SnapPatch, SnapCreate, SnapTake,
     SnapKill, SnapCommit, SnapUndo
<1>6. ASSUME NEW t \in Task, RestoreStep(t) PROVE G
  BY <1>6 DEF RestoreEnter, RestoreBegin, RestoreSpawn,
     RestoreLoad, RestoreWait, RestoreCommit, RestoreFinish
<1>7. ASSUME NEW t \in Task, WakeStep(t) \/ DestroyStep(t) PROVE G
  BY <1>7 DEF WakeAcquire, WakeRead, DestroyKill,
     DestroyDetach, DestroyCleanup
<1>8. ASSUME NEW p \in Proc, Firecracker(p) PROVE G
  BY <1>8 DEF FcExit, GuestRuns
<1> QED
  BY <1>1, <1>2, <1>3, <1>4, <1>5, <1>6, <1>7, <1>8 DEF Next, Step

(* A VM enters the map in the state Created, and a disconnect is counted. *)
LEMMA Entered ==
  ASSUME ShapesOK, Owner, [Next]_vars
  PROVE  /\ ~registered /\ registered' => vmState' = "Created"
         /\ disconnects' = disconnects \/ disconnects' > 0
<1> USE TaskAssumption, ProcAssumption, DisconnectAssumption
    DEF ShapesOK, Owner, CanTransition
<1> DEFINE G == /\ ~registered /\ registered' => vmState' = "Created"
                /\ disconnects' = disconnects \/ disconnects' > 0
<1>1. CASE UNCHANGED vars
  BY <1>1 DEF vars
<1>2. ASSUME NEW t \in Task, Call(t) \/ Disconnect(t) PROVE G
  BY <1>2 DEF CreateBegin, WakeEnter, DestroyEnter, Disconnect
<1>3. ASSUME NEW t \in Task, CreateStep(t) PROVE G
  BY <1>3 DEF CreateAttach, CreateSpawn, CreateConfigure,
     CreateUndo, CreateRegister
<1>4. ASSUME NEW t \in Task, StartStep(t) \/ PauseStep(t) PROVE G
  BY <1>4 DEF StartBegin, StartPut, StartWait, PauseBegin,
     PausePatch, ResumeBegin, ResumePatch
<1>5. ASSUME NEW t \in Task, SnapshotStep(t) PROVE G
  BY <1>5 DEF SnapBegin, SnapPatch, SnapCreate, SnapTake,
     SnapKill, SnapCommit, SnapUndo
<1>6. ASSUME NEW t \in Task, RestoreStep(t) PROVE G
  BY <1>6 DEF RestoreEnter, RestoreBegin, RestoreSpawn,
     RestoreLoad, RestoreWait, RestoreCommit, RestoreFinish
<1>7. ASSUME NEW t \in Task, WakeStep(t) \/ DestroyStep(t) PROVE G
  BY <1>7 DEF WakeAcquire, WakeRead, DestroyKill,
     DestroyDetach, DestroyCleanup
<1>8. ASSUME NEW p \in Proc, Firecracker(p) PROVE G
  BY <1>8 DEF FcExit, GuestRuns
<1> QED
  BY <1>1, <1>2, <1>3, <1>4, <1>5, <1>6, <1>7, <1>8 DEF Next, Step

(* An owner that returns with its VM in the map leaves a stable state, so a
   transitional state keeps its owner. *)
LEMMA WorkedStep ==
  ASSUME IInv, Worked, [Next]_vars
  PROVE  Worked'
<1>a. ShapesOK /\ Owner
  BY Zenon DEF IInv, TypeOK
<1> SUFFICES ASSUME registered', vmState' \in Transitional, disconnects' = 0
             PROVE  \E u \in Task : pc'[u] \in OwningPc
  BY Zenon DEF Worked
<1> HIDE DEF OwningPc, Transitional, Stable
<1>1. registered /\ disconnects = 0 /\ disconnects' = disconnects
  <2>1. vmState' # "Created"
    BY DEF Transitional
  <2> QED
    BY <1>a, <2>1, Entered
<1>2. CASE vmState' # vmState
  BY <1>a, <1>2, BeginOwns, Zenon
<1>3. CASE vmState' = vmState
  <2>1. PICK u \in Task : pc[u] \in OwningPc
    BY <1>1, <1>3, Zenon DEF Worked
  <2>2. vmState' \notin Stable
    BY DEF Transitional, Stable
  <2> QED
    BY <1>1, <2>1, <2>2, ReturnSettles, Zenon DEF Returns
<1> QED
  BY <1>2, <1>3

(* No one is forgotten: see WorkHasItsHandler. *)
THEOREM HandlersAtWork == Spec => []WorkHasItsHandler
<1> DEFINE I == Guarded /\ Worked
<1>1. Init => I
  BY TaskAssumption DEF Init, Guarded, Worked
<1>2. IInv /\ I /\ [Next]_vars => I'
  BY GuardedStep, WorkedStep DEF IInv, TypeOK
<1>3. IInv /\ I => WorkHasItsHandler
  <2> SUFFICES ASSUME IInv, I PROVE WorkHasItsHandler
    OBVIOUS
  <2>1. ShapesOK /\ Held
    BY Zenon DEF IInv, TypeOK
  <2>2. registered /\ vmState \in Transitional =>
            disconnects > 0 \/ \E t \in Task : pc[t] \in OwningPc
    BY <2>1, DisconnectAssumption DEF ShapesOK, Worked
  <2>3. ASSUME ~registered, NEW p \in Proc, Live(p)
        PROVE  \E t \in Task : child[t] = p /\ pc[t] \in ChildPc
    BY <2>1, <2>3, ProcAssumption DEF Held, ShapesOK
  <2>4. ASSUME NEW t \in Task, pc[t] = "wakeLock", wakeLock # NoTask
        PROVE  wakeLock # t /\ pc[wakeLock] \in LockedPc
    BY <2>4 DEF Guarded, LockedPc
  <2> QED
    BY <2>2, <2>3, <2>4 DEF WorkHasItsHandler
<1> QED
  BY <1>1, <1>2, <1>3, Inductive, PTL DEF Spec

-----------------------------------------------------------------------------
(* VmLifecycle implements AbstractVm. *)

Alive == {p \in Proc : Live(p)}

(* A step of the abstract VM, or one it does not see. *)
Mapped == [Abstract!Next \/ Abstract!SnapshotUndone]_Abstract!vars

(* The handle a handler drops takes at most its own process with it. *)
LEMMA KillAlive ==
  ASSUME ShapesOK, NEW t \in Task, KillChild(t)
  PROVE  Alive' = Alive \ {child[t]}
  BY ProcAssumption DEF Alive, ShapesOK

(* The rest of the abstract state left alone, that is a stutter or the end
   of a process. *)
LEMMA KillStep ==
  ASSUME ShapesOK, NEW t \in Task, KillChild(t),
         UNCHANGED <<vmState, origin, registered, files>>
  PROVE  Mapped
<1>1. Alive' = Alive \ {child[t]}
  BY KillAlive
<1>2. CASE child[t] \notin Alive
  BY <1>1, <1>2 DEF Mapped, Abstract!vars, Alive
<1>3. CASE child[t] \in Alive
  <2>1. PICK p \in Proc : p = child[t]
    BY <1>3 DEF Alive
  <2>2. Abstract!PowerOff(p)
    BY <1>1, <1>3, <2>1 DEF Abstract!PowerOff, Alive
  <2> QED
    BY <2>2, Zenon DEF Mapped, Abstract!Next
<1> QED
  BY <1>2, <1>3

(* No abstract variable changes. *)
LEMMA Stutters ==
  ASSUME UNCHANGED <<vmState, origin, registered, files>>, Alive' = Alive
  PROVE  Mapped
  BY DEF Mapped, Abstract!vars, Alive

(* An accepted API call leaves a live process live. *)
LEMMA CallAlive ==
  ASSUME ShapesOK, Accepts(LiveState), NEW s \in LiveState,
         proc' = [proc EXCEPT ![sock] = s]
  PROVE  Alive' = Alive
  BY DEF ShapesOK, Alive

LEMMA SameProcs ==
  ASSUME UNCHANGED proc
  PROVE  Alive' = Alive
  BY DEF Alive

(* A first transition that is accepted begins the abstract operation. *)
LEMMA BeginMapped ==
  ASSUME NEW op \in Abstract!Operation,
         Transition(op), UNCHANGED <<registered, proc, files>>
  PROVE  Mapped
<1> USE DEF Abstract!Operation, Abstract!Begins
<1>1. CASE <<vmState, op>> \in CanTransition
  <2>1. Abstract!Begin(op)
    BY <1>1 DEF CanTransition, Abstract!Begin
  <2> QED
    BY <2>1, Zenon DEF Mapped, Abstract!Next
<1>2. CASE <<vmState, op>> \notin CanTransition
  BY <1>2, SameProcs, Stutters
<1> QED
  BY <1>1, <1>2

(* A second transition to the operation's target completes it. *)
LEMMA CompleteMapped ==
  ASSUME vmState \in Abstract!Operation,
         vmState' = Abstract!Completes[vmState], Alive' = Alive,
         UNCHANGED <<origin, registered, files>>,
         registered /\ vmState = "Suspending" => Alive = {} /\ files = "full"
  PROVE  Mapped
<1>1. Abstract!Complete
  BY DEF Abstract!Complete, Alive
<1> QED
  BY <1>1 DEF Mapped, Abstract!Next

(* One to the state it came from rolls it back. *)
LEMMA RollBackMapped ==
  ASSUME vmState \in Abstract!Operation, Origins,
         vmState' = origin,
         Alive' \subseteq Alive, UNCHANGED <<origin, registered, files>>,
         registered /\ vmState = "Restoring" => Alive' = {}
  PROVE  Mapped
<1>1. Abstract!RollBack
  BY DEF Abstract!RollBack, Alive
<1> QED
  BY <1>1 DEF Mapped, Abstract!Next

(* A spawn, with no process beside it when the VM is in the map. *)
LEMMA SpawnMapped ==
  ASSUME ShapesOK, NEW t \in Task, Spawn(t),
         vmState \in {"Creating", "Restoring"}, registered => Alive = {},
         UNCHANGED <<vmState, origin, registered, files>>
  PROVE  Mapped
<1>1. PICK p \in Proc : proc' = [proc EXCEPT ![p] = "ready"]
  BY Zenon
<1>2. Alive' = Alive \cup {p}
  BY <1>1 DEF ShapesOK, Alive
<1>3. Abstract!PowerOn(p)
  BY <1>2 DEF Abstract!PowerOn, Alive
<1> QED
  BY <1>3, Zenon DEF Mapped, Abstract!Next

(* The files of a snapshot are written, or lost, under it. *)
LEMMA FilesMapped ==
  ASSUME UNCHANGED <<vmState, origin, registered, proc>>,
         vmState = "Suspending" \/ (files' # "full" /\ ~registered)
  PROVE  Mapped
<1>1. Alive' = Alive
  BY SameProcs
<1>2. CASE (files = "full") = (files' = "full")
  BY <1>1, <1>2 DEF Mapped, Abstract!vars, Alive
<1>3. CASE files # "full" /\ files' = "full"
  <2>1. Abstract!Save
    BY <1>1, <1>3 DEF Abstract!Save, Alive
  <2> QED
    BY <2>1 DEF Mapped, Abstract!Next
<1>4. CASE files = "full" /\ files' # "full"
  <2>1. Abstract!Spoil
    BY <1>1, <1>4 DEF Abstract!Spoil, Alive
  <2> QED
    BY <2>1 DEF Mapped, Abstract!Next
<1> QED
  BY <1>2, <1>3, <1>4

(* While the map entry has no child, the owner's is the only process. *)
LEMMA OnlyHand ==
  ASSUME ShapesOK, Held, Phases, Owner, EmptySlot, registered,
         NEW t \in Task, pc[t] \in EmptySlotPc
  PROVE  /\ Alive \subseteq {child[t]}
         /\ pc[t] \in {"snapCommit", "restoreSpawn"} => Alive = {}
<1>1. slot = NoProc /\ pc[t] \in OwningPc
  BY DEF EmptySlot, EmptySlotPc
<1>2. ASSUME NEW p \in Alive PROVE p = child[t] /\ child[t] # NoProc
  <2>1. p \in Proc /\ Live(p)
    BY DEF Alive
  <2>2. PICK u \in Task : child[u] = p
    BY <1>1, <2>1, ProcAssumption DEF Held
  <2>3. child[u] # NoProc
    BY <2>1, <2>2, ProcAssumption
  <2>4. pc[u] \in OwningPc
    BY <2>3, Holder
  <2>5. u = t
    BY <1>1, <2>4 DEF Owner
  <2> QED
    BY <2>2, <2>3, <2>5
<1>3. pc[t] \in {"snapCommit", "restoreSpawn"} => child[t] = NoProc
  BY DEF Held, ChildPc
<1> QED
  BY <1>2, <1>3

(* Every step of a handler or of Firecracker is one of the abstract VM. *)
LEMMA StepMapped ==
  ASSUME IInv, Layer2, [Next]_vars
  PROVE  Mapped
<1>0. /\ ShapesOK /\ Owner /\ Held /\ EmptySlot /\ Phases
      /\ Bound /\ Matches /\ Origins
  BY Zenon DEF IInv, TypeOK, Layer2
<1>a. ASSUME NEW op \in Abstract!Operation, NEW t \in Task,
             NEW step, NEW first, Begin(t, step, op, first)
      PROVE  Mapped
  BY <1>a, BeginMapped
<1> USE DEF Abstract!Operation, Abstract!Begins, Abstract!Completes
<1>1. CASE UNCHANGED vars
  BY <1>1, SameProcs, Stutters DEF vars
<1>2. ASSUME NEW t \in Task, Call(t) \/ Disconnect(t) PROVE Mapped
  <2>1. CASE Disconnect(t)
    BY <2>1, <1>0, KillStep DEF Disconnect
  <2>2. CASE DestroyEnter(t)
    <3>1. Abstract!Destroy
      BY <2>2 DEF DestroyEnter, Abstract!Destroy
    <3> QED
      BY <3>1 DEF Mapped, Abstract!Next
  <2>3. CASE CreateBegin(t) \/ WakeEnter(t) \/ \E s \in EntrySteps : Enter(t, s)
    BY <2>3, SameProcs, Stutters DEF CreateBegin, WakeEnter
  <2> QED
    BY <1>2, <2>1, <2>2, <2>3
<1>3. ASSUME NEW t \in Task, CreateStep(t) PROVE Mapped
  <2>1. CASE CreateAttach(t) \/ CreateUndo(t)
    BY <2>1, SameProcs, Stutters DEF CreateAttach, CreateUndo
  <2>2. CASE CreateSpawn(t)
    <3>1. vmState = "Creating"
      BY <2>2, <1>0 DEF CreateSpawn, Owner
    <3>2. ~registered
      BY <3>1, <1>0, Zenon DEF Phases
    <3>3. CASE Spawn(t)
      BY <2>2, <3>1, <3>2, <3>3, <1>0, SpawnMapped DEF CreateSpawn
    <3>4. CASE UNCHANGED fcvars
      BY <2>2, <3>4, SameProcs, Stutters DEF CreateSpawn
    <3> QED
      BY <2>2, <3>3, <3>4 DEF CreateSpawn
  <2>3. CASE CreateConfigure(t)
    <3>1. CASE KillChild(t)
      BY <2>3, <3>1, <1>0, KillStep DEF CreateConfigure
    <3>2. CASE UNCHANGED proc
      BY <2>3, <3>2, SameProcs, Stutters DEF CreateConfigure
    <3> QED
      BY <2>3, <3>1, <3>2 DEF CreateConfigure
  <2>4. CASE CreateRegister(t)
    <3>1. vmState = "Creating"
      BY <2>4, <1>0 DEF CreateRegister, Owner
    <3>2. ~registered
      BY <3>1, <1>0, Zenon DEF Phases
    <3>3. Abstract!Create
      BY <2>4, <3>1, <3>2
         DEF CreateRegister, CanTransition, Abstract!Create
    <3> QED
      BY <3>3 DEF Mapped, Abstract!Next
  <2> QED
    BY <1>3, <2>1, <2>2, <2>3, <2>4
<1>4. ASSUME NEW t \in Task, StartStep(t) \/ PauseStep(t) PROVE Mapped
  <2>1. CASE StartBegin(t) \/ PauseBegin(t) \/ ResumeBegin(t)
    BY <2>1, <1>a DEF StartBegin, PauseBegin, ResumeBegin
  <2>2. CASE StartPut(t)
    <3>1. vmState = "Starting"
      BY <2>2, <1>0 DEF StartPut, Owner
    <3>2. CASE Accepts({"ready"}) /\ proc' = [proc EXCEPT ![sock] = "running"]
               /\ UNCHANGED life
      BY <2>2, <3>2, <1>0, CallAlive, Stutters DEF StartPut
    <3>3. CASE Settle(t, "Created") /\ UNCHANGED proc
      BY <2>2, <3>1, <3>3, <1>0, SameProcs, RollBackMapped
         DEF StartPut, CanTransition, Origins
    <3> QED
      BY <2>2, <3>2, <3>3 DEF StartPut
  <2>3. CASE StartWait(t)
    <3>1. vmState = "Starting" /\ Alive' = Alive
      BY <2>3, <1>0, SameProcs DEF StartWait, Owner
    <3>2. CASE Settle(t, "Started")
      BY <2>3, <3>1, <3>2, CompleteMapped DEF StartWait, CanTransition
    <3>3. CASE Settle(t, "Created")
      BY <2>3, <3>1, <3>3, <1>0, RollBackMapped
         DEF StartWait, CanTransition, Origins
    <3> QED
      BY <2>3, <3>2, <3>3 DEF StartWait
  <2>4. CASE PausePatch(t)
    <3>1. vmState = "Pausing" /\ Alive' = Alive
      BY <2>4, <1>0, SameProcs, CallAlive DEF PausePatch, Owner
    <3>2. CASE Settle(t, "Paused")
      BY <2>4, <3>1, <3>2, CompleteMapped DEF PausePatch, CanTransition
    <3>3. CASE Settle(t, "Started")
      BY <2>4, <3>1, <3>3, <1>0, RollBackMapped
         DEF PausePatch, CanTransition, Origins
    <3> QED
      BY <2>4, <3>2, <3>3 DEF PausePatch
  <2>5. CASE ResumePatch(t)
    <3>1. vmState = "Resuming" /\ Alive' = Alive
      BY <2>5, <1>0, SameProcs, CallAlive DEF ResumePatch, Owner
    <3>2. CASE Settle(t, "Started")
      BY <2>5, <3>1, <3>2, CompleteMapped DEF ResumePatch, CanTransition
    <3>3. CASE Settle(t, "Paused")
      BY <2>5, <3>1, <3>3, <1>0, RollBackMapped
         DEF ResumePatch, CanTransition, Origins
    <3> QED
      BY <2>5, <3>2, <3>3 DEF ResumePatch
  <2> QED
    BY <1>4, <2>1, <2>2, <2>3, <2>4, <2>5
<1>5. ASSUME NEW t \in Task, SnapshotStep(t) PROVE Mapped
  <2>1. CASE SnapBegin(t)
    BY <2>1, <1>a DEF SnapBegin
  <2>2. CASE SnapPatch(t)
    <3>1. Alive' = Alive
      BY <2>2, <1>0, SameProcs, CallAlive DEF SnapPatch
    <3> QED
      BY <2>2, <3>1, Stutters DEF SnapPatch
  <2>3. CASE SnapCreate(t)
    <3>1. vmState = "Suspending"
      BY <2>3, <1>0 DEF SnapCreate, Owner
    <3> QED
      BY <2>3, <3>1, FilesMapped DEF SnapCreate
  <2>4. CASE SnapTake(t)
    BY <2>4, SameProcs, Stutters DEF SnapTake
  <2>5. CASE SnapKill(t)
    BY <2>5, <1>0, KillStep DEF SnapKill
  <2>6. CASE SnapCommit(t)
    <3>1. vmState = "Suspending" /\ Alive' = Alive
      BY <2>6, <1>0, SameProcs DEF SnapCommit, Owner
    <3>2. registered => Alive = {} /\ files = "full"
      BY <2>6, <1>0, OnlyHand DEF SnapCommit, EmptySlotPc, Matches, SavedPc
    <3> QED
      BY <2>6, <3>1, <3>2, CompleteMapped DEF SnapCommit, CanTransition
  <2>7. CASE SnapUndo(t)
    <3>1. vmState = "Suspending" /\ Alive' = Alive
      BY <2>7, <1>0, SameProcs, CallAlive DEF SnapUndo, Owner
    <3>2. Abstract!SnapshotUndone
      BY <2>7, <3>1
         DEF SnapUndo, CanTransition, Abstract!SnapshotUndone, Alive
    <3> QED
      BY <3>2, Zenon DEF Mapped
  <2> QED
    BY <1>5, <2>1, <2>2, <2>3, <2>4, <2>5, <2>6, <2>7
<1>6. ASSUME NEW t \in Task, RestoreStep(t) PROVE Mapped
  <2>1. CASE RestoreEnter(t)
    BY <2>1, SameProcs, Stutters DEF RestoreEnter
  <2>2. CASE RestoreBegin(t)
    BY <2>2, <1>a DEF RestoreBegin
  <2>3. ASSUME pc[t] \in {"restoreSpawn", "restoreLoad", "restoreWait"},
               RestoreFail(t), UNCHANGED <<registered, files>>
        PROVE  Mapped
    <3>1. vmState = "Restoring"
      BY <2>3, <1>0 DEF Owner
    <3>2. Alive' = Alive \ {child[t]}
      BY <2>3, <1>0, KillAlive
    <3>3. registered => Alive' = {}
      BY <2>3, <3>2, <1>0, OnlyHand DEF EmptySlotPc
    <3> QED
      BY <2>3, <3>1, <3>2, <3>3, <1>0, RollBackMapped
         DEF CanTransition, Origins
  <2>4. CASE RestoreSpawn(t)
    <3>1. CASE RestoreFail(t)
      BY <2>3, <2>4, <3>1 DEF RestoreSpawn
    <3>2. CASE Spawn(t) /\ UNCHANGED life
      <4>1. vmState = "Restoring"
        BY <2>4, <1>0 DEF RestoreSpawn, Owner
      <4>2. registered => Alive = {}
        BY <2>4, <1>0, OnlyHand DEF RestoreSpawn, EmptySlotPc
      <4> QED
        BY <2>4, <3>2, <4>1, <4>2, <1>0, SpawnMapped DEF RestoreSpawn
    <3> QED
      BY <2>4, <3>1, <3>2 DEF RestoreSpawn
  <2>5. CASE RestoreLoad(t)
    <3>1. CASE RestoreFail(t)
      BY <2>3, <2>5, <3>1 DEF RestoreLoad
    <3>2. CASE Accepts({"ready"}) /\ proc' = [proc EXCEPT ![sock] = "running"]
               /\ UNCHANGED life
      BY <2>5, <3>2, <1>0, CallAlive, Stutters DEF RestoreLoad
    <3> QED
      BY <2>5, <3>1, <3>2 DEF RestoreLoad
  <2>6. CASE RestoreWait(t)
    <3>1. CASE RestoreFail(t)
      BY <2>3, <2>6, <3>1 DEF RestoreWait
    <3>2. CASE UNCHANGED <<proc, life>>
      BY <2>6, <3>2, SameProcs, Stutters DEF RestoreWait
    <3> QED
      BY <2>6, <3>1, <3>2 DEF RestoreWait
  <2>7. CASE RestoreCommit(t)
    <3>1. CASE registered
      BY <2>7, <3>1, SameProcs, Stutters DEF RestoreCommit
    <3>2. CASE ~registered
      BY <2>7, <3>2, <1>0, KillStep DEF RestoreCommit
    <3> QED
      BY <3>1, <3>2
  <2>8. CASE RestoreFinish(t)
    <3>1. vmState = "Restoring" /\ Alive' = Alive
      BY <2>8, <1>0, SameProcs DEF RestoreFinish, Owner
    <3> QED
      BY <2>8, <3>1, CompleteMapped DEF RestoreFinish, CanTransition
  <2> QED
    BY <1>6, <2>1, <2>2, <2>4, <2>5, <2>6, <2>7, <2>8
<1>7. ASSUME NEW t \in Task, WakeStep(t) \/ DestroyStep(t) PROVE Mapped
  <2>1. CASE WakeStep(t)
    BY <2>1, SameProcs, Stutters DEF WakeAcquire, WakeRead
  <2>2. CASE DestroyKill(t)
    BY <2>2, <1>0, KillStep DEF DestroyKill
  <2>3. CASE DestroyDetach(t)
    BY <2>3, SameProcs, Stutters DEF DestroyDetach
  <2>4. CASE DestroyCleanup(t)
    <3>1. ~registered
      BY <2>4, <1>0, Zenon DEF DestroyCleanup, Phases
    <3> QED
      BY <2>4, <3>1, FilesMapped DEF DestroyCleanup
  <2> QED
    BY <1>7, <2>1, <2>2, <2>3, <2>4
<1>8. ASSUME NEW p \in Proc, Firecracker(p) PROVE Mapped
  <2>1. CASE FcExit(p)
    <3>1. Abstract!PowerOff(p)
      BY <2>1, <1>0 DEF FcExit, ShapesOK, Abstract!PowerOff
    <3> QED
      BY <3>1, Zenon DEF Mapped, Abstract!Next
  <2>2. CASE GuestRuns(p)
    <3>1. Abstract!Spoil
      BY <2>2, <1>0 DEF GuestRuns, ShapesOK, Abstract!Spoil
    <3> QED
      BY <3>1 DEF Mapped, Abstract!Next
  <2> QED
    BY <1>8, <2>1, <2>2
<1> QED
  BY <1>1, <1>2, <1>3, <1>4, <1>5, <1>6, <1>7, <1>8 DEF Next, Step

(* The detailed lifecycle implements the abstract VM, on which Schedule is *)
(* built, but for the end of a snapshot that failed.                       *)
THEOREM Implements == Spec => ImplementsVmButUndo
<1>1. Init => Abstract!Init
  BY DEF Init, Abstract!Init
<1>2. IInv /\ Layer2 /\ [Next]_vars
         => [Abstract!Next \/ Abstract!SnapshotUndone]_Abstract!vars
  BY StepMapped DEF Mapped
<1> QED
  BY <1>1, <1>2, Inductive, Inductive2, PTL
     DEF Spec, ImplementsVmButUndo, Abstract!SpecButUndo
=============================================================================

----------------------------- MODULE VmLifecycle -----------------------------
(***************************************************************************)
(* The life of ONE virtual machine under hostd's FirecrackerVmm: create,   *)
(* start, pause, resume, snapshot (suspend), restore, ensure_started       *)
(* (wake) and destroy, called concurrently by any number of tokio tasks.   *)
(*                                                                         *)
(* Every handler is cut where the code awaits or lets go of a mutex, so    *)
(* the interleavings are those of the multi-threaded runtime.  Operations  *)
(* on different VMs share nothing but the map's mutex, which no step holds *)
(* across an await, so one VM is enough.                                   *)
(*                                                                         *)
(* A task is an axum/hyper request handler: when the client disconnects    *)
(* the handler's future is dropped at its current await, with its locals   *)
(* (the Child handle is kill_on_drop, the wake guard unlocks) and nothing  *)
(* else (Disconnect).  Firecracker is external: a process that answers or  *)
(* refuses an API call and may exit at any moment.                         *)
(***************************************************************************)
EXTENDS Naturals, FiniteSets

CONSTANTS
    Task,            \* concurrent callers of the Vmm operations
    Proc,            \* Firecracker processes that can exist at one time
    NoTask,          \* nobody holds the wake lock
    NoProc,          \* Option<Child>::None
    MaxDisconnects   \* bound: handler futures dropped by a disconnect

ASSUME TaskAssumption == NoTask \notin Task
ASSUME ProcAssumption == NoProc \notin Proc
ASSUME DisconnectAssumption == MaxDisconnects \in Nat

VARIABLES
    pc,           \* where each task is
    child,        \* the Child handle a task holds as a local
    vmState,      \* VmInstance.state
    origin,       \* history: the stable state vmState last left
    born,         \* create_vm was called (VM ids are fresh, so once)
    registered,   \* the VM has an entry in FirecrackerVmm.vms
    slot,         \* FcVmEntry.fc
    proc,         \* what each Firecracker process is doing
    sock,         \* the process bound to the VM's API socket path
    snapshot,     \* VmInstance.snapshot is Some
    files,        \* the snapshot files in the work dir
    net,          \* the VM holds a network allocation
    vol,          \* the VM holds a block volume
    dir,          \* the work dir exists
    wakeLock,     \* the task inside ensure_started's critical section
    wakeEntry,    \* the VM has an entry in wake_locks
    wakeTime,     \* the VM has an entry in wake_times
    disconnects   \* disconnects so far (bounded)

life == <<vmState, origin>>
fcvars == <<slot, proc, sock>>
snaps == <<snapshot, files>>
resources == <<net, vol, dir>>
books == <<wakeEntry, wakeTime>>

vars == <<pc, child, vmState, origin, born, registered, slot, proc, sock,
          snapshot, files, net, vol, dir, wakeLock, wakeEntry, wakeTime,
          disconnects>>

-----------------------------------------------------------------------------
(* The state machine of VmState. *)

Stable == {"Created", "Started", "Paused", "Suspended", "Destroyed"}

Transitional == {"Creating", "Starting", "Pausing", "Resuming",
                 "Suspending", "Restoring", "Destroying"}

VmState == Stable \cup Transitional

CanTransition ==
    ({"Creating", "Starting"} \X {"Created"})
    \cup ({"Creating", "Destroying"} \X {"Destroyed"})
    \cup ({"Created"} \X {"Starting", "Destroying"})
    \cup ({"Starting", "Pausing", "Resuming", "Suspending", "Restoring"}
            \X {"Started"})
    \cup ({"Started"} \X {"Pausing", "Suspending", "Destroying"})
    \cup ({"Pausing", "Resuming"} \X {"Paused"})
    \cup ({"Paused"} \X {"Resuming", "Suspending", "Destroying"})
    \cup ({"Suspending", "Restoring"} \X {"Suspended"})
    \cup ({"Suspended"} \X {"Restoring", "Destroying"})

(* Mutant: remembers the transitional states too. *)
TransitionFromAnywhere(next) ==
    IF <<vmState, next>> \in CanTransition
    THEN vmState' = next /\ origin' = vmState
    ELSE UNCHANGED life

(* transition(next): a refused transition leaves the state alone. *)
Transition(next) ==
    IF <<vmState, next>> \in CanTransition
    THEN /\ vmState' = next
         /\ origin' = IF vmState \in Stable THEN vmState ELSE origin
    ELSE UNCHANGED life

-----------------------------------------------------------------------------
(* Where a task can be.  The first group are the steps of an operation     *)
(* whose first transition was accepted; each is named with the             *)
(* transitional state it works in.                                         *)

CreatePc == {"createAttach", "createSpawn", "createConfigure",
             "createRegister", "createUndo"}
StartPc == {"startPut", "startWait"}
PausePc == {"pausePatch"}
ResumePc == {"resumePatch"}
SnapPc == {"snapPatch", "snapCreate", "snapTake", "snapKill", "snapCommit",
           "snapUndo"}
RestorePc == {"restoreSpawn", "restoreLoad", "restoreWait", "restoreCommit",
              "restoreFinish"}
OwningPc == CreatePc \cup StartPc \cup PausePc \cup ResumePc \cup SnapPc
            \cup RestorePc

WorksIn(step) ==
    CASE step \in CreatePc  -> "Creating"
      [] step \in StartPc   -> "Starting"
      [] step \in PausePc   -> "Pausing"
      [] step \in ResumePc  -> "Resuming"
      [] step \in SnapPc    -> "Suspending"
      [] step \in RestorePc -> "Restoring"

BeginPc == {"startBegin", "pauseBegin", "resumeBegin", "snapBegin",
            "restoreEnter", "restoreBegin"}
WakePc == {"wakeLock", "wakeRead"}
DestroyPc == {"destroyKill", "destroyDetach", "destroyCleanup"}

Pc == {"idle"} \cup OwningPc \cup BeginPc \cup WakePc \cup DestroyPc

(* The steps that end in an await: where a dropped future can stop. *)
AwaitPc == {"createAttach", "createSpawn", "createConfigure", "createUndo",
            "startPut", "startWait", "pausePatch", "resumePatch",
            "snapPatch", "snapCreate", "snapKill", "snapUndo",
            "restoreSpawn", "restoreLoad", "restoreWait",
            "wakeLock", "wakeRead", "destroyKill", "destroyDetach"}

ProcState == {"free", "ready", "running", "paused", "exited"}
LiveState == {"ready", "running", "paused"}
Live(p) == proc[p] \in LiveState

Goto(t, step) == pc' = [pc EXCEPT ![t] = step] /\ UNCHANGED wakeLock

(* Mutant: a return that leaves the wake lock held. *)
ReturnStillLocked(t) == pc' = [pc EXCEPT ![t] = "idle"] /\ UNCHANGED wakeLock

(* The handler returns (Ok or Err): its wake guard, if any, is dropped. *)
Return(t) ==
    /\ pc' = [pc EXCEPT ![t] = "idle"]
    /\ wakeLock' = IF wakeLock = t THEN NoTask ELSE wakeLock

-----------------------------------------------------------------------------
Init ==
    /\ pc = [t \in Task |-> "idle"]
    /\ child = [t \in Task |-> NoProc]
    /\ vmState = "Creating" /\ origin = "Destroyed"
    /\ born = FALSE /\ registered = FALSE
    /\ slot = NoProc /\ sock = NoProc
    /\ proc = [p \in Proc |-> "free"]
    /\ snapshot = FALSE /\ files = "none"
    /\ net = FALSE /\ vol = FALSE /\ dir = FALSE
    /\ wakeLock = NoTask /\ wakeEntry = FALSE /\ wakeTime = FALSE
    /\ disconnects = 0

-----------------------------------------------------------------------------
(* Firecracker, as the code uses it. *)

(* An API call is answered by the live process bound to the socket path,   *)
(* if that process is in a state that accepts the call.                    *)
Accepts(states) == /\ sock # NoProc
                   /\ proc[sock] \in states

(* spawn_fc_process: remove the stale socket, create the error log in the  *)
(* work dir, spawn, wait for the socket.                                   *)
Spawn(t) ==
    \E p \in Proc :
        /\ proc[p] = "free" /\ dir
        /\ proc' = [proc EXCEPT ![p] = "ready"]
        /\ child' = [child EXCEPT ![t] = p]
        /\ sock' = p
        /\ UNCHANGED slot

(* Kill, or drop (kill_on_drop), the child handle task t holds. *)
KillChild(t) ==
    /\ proc' = IF child[t] = NoProc THEN proc
               ELSE [proc EXCEPT ![child[t]] = "free"]
    /\ child' = [child EXCEPT ![t] = NoProc]

FcExit(p) ==
    /\ Live(p)
    /\ proc' = [proc EXCEPT ![p] = "exited"]
    /\ UNCHANGED <<pc, child, life, born, registered, slot, sock, snaps,
                   resources, wakeLock, books, disconnects>>

(* A running guest writes to its disks: a complete snapshot taken before   *)
(* no longer matches them.                                                 *)
GuestRuns(p) ==
    /\ proc[p] = "running"
    /\ files = "full"
    /\ files' = "stale"
    /\ UNCHANGED <<pc, child, life, born, registered, fcvars, snapshot,
                   resources, wakeLock, books, disconnects>>

-----------------------------------------------------------------------------
(* create_vm *)

(* Work dir and network, before the first await.  A refused allocation     *)
(* returns at once: the dir stays, and with it the allocation when only    *)
(* saving it failed.                                                       *)
CreateBegin(t) ==
    /\ pc[t] = "idle" /\ ~born
    /\ born' = TRUE /\ dir' = TRUE
    /\ \/ \E step \in {"createAttach", "createSpawn"} :
              net' = TRUE /\ Goto(t, step)
       \/ net' \in BOOLEAN /\ Return(t)
    /\ UNCHANGED <<child, life, registered, fcvars, snaps, vol, books,
                   disconnects>>

CreateAttach(t) ==
    /\ pc[t] = "createAttach"
    /\ \/ vol' = TRUE /\ Goto(t, "createSpawn")
       \/ UNCHANGED vol /\ Goto(t, "createUndo")
    /\ UNCHANGED <<child, life, born, registered, fcvars, snaps, net, dir,
                   books, disconnects>>

CreateSpawn(t) ==
    /\ pc[t] = "createSpawn"
    /\ \/ Spawn(t) /\ Goto(t, "createConfigure")
       \/ UNCHANGED <<child, fcvars>> /\ Goto(t, "createUndo")
    /\ UNCHANGED <<life, born, registered, snaps, resources, books,
                   disconnects>>

CreateConfigure(t) ==
    /\ pc[t] = "createConfigure"
    /\ \/ Accepts({"ready"}) /\ Goto(t, "createRegister")
          /\ UNCHANGED <<child, proc>>
       \/ KillChild(t) /\ Goto(t, "createUndo")
    /\ UNCHANGED <<life, born, registered, slot, sock, snaps, resources,
                   books, disconnects>>

CreateUndo(t) ==
    /\ pc[t] = "createUndo"
    /\ vol' = FALSE /\ net' = FALSE /\ dir' = FALSE /\ sock' = NoProc
    /\ Return(t)
    /\ UNCHANGED <<child, life, born, registered, slot, proc, snaps, books,
                   disconnects>>

(* The API handler goes on to start_vm, except for a schedule VM. *)
CreateRegister(t) ==
    /\ pc[t] = "createRegister"
    /\ registered' = TRUE
    /\ slot' = child[t]
    /\ child' = [child EXCEPT ![t] = NoProc]
    /\ Transition("Created")
    /\ \E step \in {"idle", "startBegin"} : Goto(t, step)
    /\ UNCHANGED <<born, proc, sock, snaps, resources, books, disconnects>>

-----------------------------------------------------------------------------
(* Entering an operation: entry_parts finds the VM and clones the instance *)
(* Arc, which outlives the map entry; the transition is a second lock      *)
(* scope (Begin).                                                          *)

Enter(t, step) ==
    /\ pc[t] = "idle" /\ registered
    /\ step = "restoreBegin" => snapshot
    /\ Goto(t, step)
    /\ UNCHANGED <<child, life, born, registered, fcvars, snaps, resources,
                   books, disconnects>>

EntrySteps == {"startBegin", "pauseBegin", "resumeBegin", "snapBegin",
               "restoreBegin"}

(* Mutant: the first transition is not checked. *)
BeginUnchecked(t, step, next, first) ==
    /\ pc[t] = step
    /\ vmState' = next /\ UNCHANGED origin
    /\ Goto(t, first)
    /\ UNCHANGED <<child, born, registered, fcvars, snaps, resources, books,
                   disconnects>>

Begin(t, step, next, first) ==
    /\ pc[t] = step
    /\ Transition(next)
    /\ IF <<vmState, next>> \in CanTransition THEN Goto(t, first)
                                              ELSE Return(t)
    /\ UNCHANGED <<child, born, registered, fcvars, snaps, resources, books,
                   disconnects>>

StartBegin(t) == Begin(t, "startBegin", "Starting", "startPut")
PauseBegin(t) == Begin(t, "pauseBegin", "Pausing", "pausePatch")
ResumeBegin(t) == Begin(t, "resumeBegin", "Resuming", "resumePatch")
SnapBegin(t) == Begin(t, "snapBegin", "Suspending", "snapPatch")
(* Mutant: a started VM can be restored. *)
RestoreBeginStarted(t) ==
    /\ pc[t] = "restoreBegin"
    /\ vmState \in {"Suspended", "Started"}
    /\ vmState' = "Restoring" /\ origin' = vmState
    /\ Goto(t, "restoreSpawn")
    /\ UNCHANGED <<child, born, registered, fcvars, snaps, resources, books,
                   disconnects>>

RestoreBegin(t) == Begin(t, "restoreBegin", "Restoring", "restoreSpawn")

(* The second transition of an operation, after which the handler returns. *)
Settle(t, next) == Transition(next) /\ Return(t)

-----------------------------------------------------------------------------
(* start_vm *)

StartPut(t) ==
    /\ pc[t] = "startPut"
    /\ \/ /\ Accepts({"ready"})
          /\ proc' = [proc EXCEPT ![sock] = "running"]
          /\ Goto(t, "startWait") /\ UNCHANGED life
       \/ Settle(t, "Created") /\ UNCHANGED proc
    /\ UNCHANGED <<child, born, registered, slot, sock, snaps, resources,
                   books, disconnects>>

StartWait(t) ==
    /\ pc[t] = "startWait"
    /\ \/ Accepts({"running"}) /\ Settle(t, "Started") /\ wakeTime' = TRUE
       \/ Settle(t, "Created") /\ UNCHANGED wakeTime
    /\ UNCHANGED <<child, born, registered, fcvars, snaps, resources,
                   wakeEntry, disconnects>>

-----------------------------------------------------------------------------
(* pause_vm and resume_vm *)

PausePatch(t) ==
    /\ pc[t] = "pausePatch"
    /\ \/ /\ Accepts({"running", "paused"})
          /\ proc' = [proc EXCEPT ![sock] = "paused"]
          /\ Settle(t, "Paused")
       \/ Settle(t, "Started") /\ UNCHANGED proc
    /\ UNCHANGED <<child, born, registered, slot, sock, snaps, resources,
                   books, disconnects>>

(* Mutant: a resume reported as failed after Firecracker applied it. *)
ResumePatchLate(t) ==
    /\ pc[t] = "resumePatch"
    /\ Accepts({"running", "paused"})
    /\ proc' = [proc EXCEPT ![sock] = "running"]
    /\ Settle(t, "Paused")
    /\ UNCHANGED <<child, born, registered, slot, sock, snaps, resources,
                   books, disconnects>>

ResumePatch(t) ==
    /\ pc[t] = "resumePatch"
    /\ \/ /\ Accepts({"running", "paused"})
          /\ proc' = [proc EXCEPT ![sock] = "running"]
          /\ Settle(t, "Started")
       \/ Settle(t, "Paused") /\ UNCHANGED proc
    /\ UNCHANGED <<child, born, registered, slot, sock, snaps, resources,
                   books, disconnects>>

-----------------------------------------------------------------------------
(* snapshot_vm *)

SnapPatch(t) ==
    /\ pc[t] = "snapPatch"
    /\ \/ /\ Accepts({"running", "paused"})
          /\ proc' = [proc EXCEPT ![sock] = "paused"]
          /\ Goto(t, "snapCreate")
       \/ Goto(t, "snapUndo") /\ UNCHANGED proc
    /\ UNCHANGED <<child, life, born, registered, slot, sock, snaps,
                   resources, books, disconnects>>

(* Mutant: the guest is resumed once the snapshot is written. *)
SnapCreateResumes(t) ==
    /\ pc[t] = "snapCreate"
    /\ Accepts({"paused"}) /\ files' = "full" /\ Goto(t, "snapTake")
    /\ proc' = [proc EXCEPT ![sock] = "running"]
    /\ UNCHANGED <<child, life, born, registered, slot, sock, snapshot,
                   resources, books, disconnects>>

(* The files have fixed names: a failed attempt may have overwritten them. *)
SnapCreate(t) ==
    /\ pc[t] = "snapCreate"
    /\ \/ Accepts({"paused"}) /\ dir /\ files' = "full" /\ Goto(t, "snapTake")
       \/ /\ files' \in {files} \cup {f \in {"torn"} : dir}
          /\ Goto(t, "snapUndo")
    /\ UNCHANGED <<child, life, born, registered, fcvars, snapshot,
                   resources, books, disconnects>>

(* Mutant: the old process is not stopped. *)
SnapTakeNothing(t) ==
    /\ pc[t] = "snapTake"
    /\ Goto(t, "snapKill")
    /\ UNCHANGED <<child, life, born, registered, fcvars, snaps, resources,
                   books, disconnects>>

SnapTake(t) ==
    /\ pc[t] = "snapTake"
    /\ child' = [child EXCEPT ![t] = slot]
    /\ slot' = NoProc
    /\ Goto(t, "snapKill")
    /\ UNCHANGED <<life, born, registered, proc, sock, snaps, resources,
                   books, disconnects>>

SnapKill(t) ==
    /\ pc[t] = "snapKill"
    /\ KillChild(t)
    /\ Goto(t, "snapCommit")
    /\ UNCHANGED <<life, born, registered, slot, sock, snaps, resources,
                   books, disconnects>>

SnapCommit(t) ==
    /\ pc[t] = "snapCommit"
    /\ sock' = NoProc
    /\ snapshot' = TRUE
    /\ Settle(t, "Suspended")
    /\ UNCHANGED <<child, born, registered, slot, proc, files, resources,
                   books, disconnects>>

(* Best-effort resume, then Started whatever it answered. *)
SnapUndo(t) ==
    /\ pc[t] = "snapUndo"
    /\ \/ /\ Accepts({"running", "paused"})
          /\ proc' = [proc EXCEPT ![sock] = "running"]
       \/ UNCHANGED proc
    /\ Settle(t, "Started")
    /\ UNCHANGED <<child, born, registered, slot, sock, snaps, resources,
                   books, disconnects>>

-----------------------------------------------------------------------------
(* restore_vm *)

(* Mutant: a failed restore does not roll back. *)
RestoreFailNoRollback(t) == KillChild(t) /\ Return(t) /\ UNCHANGED life

RestoreFail(t) == KillChild(t) /\ Settle(t, "Suspended")

RestoreSpawn(t) ==
    /\ pc[t] = "restoreSpawn"
    /\ \/ Spawn(t) /\ Goto(t, "restoreLoad") /\ UNCHANGED life
       \/ RestoreFail(t) /\ UNCHANGED <<slot, sock>>
    /\ UNCHANGED <<born, registered, snaps, resources, books, disconnects>>

(* resume_vm: true, so the guest runs as soon as the load is accepted. *)
RestoreLoad(t) ==
    /\ pc[t] = "restoreLoad"
    /\ \/ /\ Accepts({"ready"}) /\ files \in {"full", "stale"}
          /\ proc' = [proc EXCEPT ![sock] = "running"]
          /\ Goto(t, "restoreWait") /\ UNCHANGED <<child, life>>
       \/ RestoreFail(t)
    /\ UNCHANGED <<born, registered, slot, sock, snaps, resources, books,
                   disconnects>>

RestoreWait(t) ==
    /\ pc[t] = "restoreWait"
    /\ \/ Accepts({"running"}) /\ Goto(t, "restoreCommit")
          /\ UNCHANGED <<child, proc, life>>
       \/ RestoreFail(t)
    /\ UNCHANGED <<born, registered, slot, sock, snaps, resources, books,
                   disconnects>>

(* Mutant: the child of a destroyed VM is let go without a kill. *)
RestoreCommitLeaks(t) ==
    /\ pc[t] = "restoreCommit"
    /\ slot' = IF registered THEN child[t] ELSE slot
    /\ child' = [child EXCEPT ![t] = NoProc]
    /\ IF registered THEN Goto(t, "restoreFinish") ELSE Return(t)
    /\ UNCHANGED <<life, born, registered, proc, sock, snaps, resources,
                   books, disconnects>>

(* Hand the child to the map entry.  A VM destroyed meanwhile has none:    *)
(* the error returns past every transition and drops the child.            *)
RestoreCommit(t) ==
    /\ pc[t] = "restoreCommit"
    /\ IF registered
       THEN /\ slot' = child[t]
            /\ child' = [child EXCEPT ![t] = NoProc]
            /\ Goto(t, "restoreFinish") /\ UNCHANGED proc
       ELSE KillChild(t) /\ Return(t) /\ UNCHANGED slot
    /\ UNCHANGED <<life, born, registered, sock, snaps, resources, books,
                   disconnects>>

RestoreFinish(t) ==
    /\ pc[t] = "restoreFinish"
    /\ Settle(t, "Started")
    /\ wakeTime' = TRUE
    /\ UNCHANGED <<child, born, registered, fcvars, snaps, resources,
                   wakeEntry, disconnects>>

-----------------------------------------------------------------------------
(* ensure_started *)

(* For a VM id that create_vm has handed out.  The lock entry is created   *)
(* even when the VM is gone; such a caller learns VmNotFound under it.     *)
WakeEnter(t) ==
    /\ pc[t] = "idle" /\ vmState # "Creating"
    /\ wakeEntry' = TRUE
    /\ IF registered THEN Goto(t, "wakeLock") ELSE UNCHANGED <<pc, wakeLock>>
    /\ UNCHANGED <<child, life, born, registered, fcvars, snaps, resources,
                   wakeTime, disconnects>>

WakeAcquire(t) ==
    /\ pc[t] = "wakeLock" /\ wakeLock = NoTask
    /\ wakeLock' = t
    /\ pc' = [pc EXCEPT ![t] = "wakeRead"]
    /\ UNCHANGED <<child, life, born, registered, fcvars, snaps, resources,
                   books, disconnects>>

(* One round of the loop.  While a snapshot or restore is in flight it     *)
(* sleeps and reads again, until the 30 s deadline makes it give up.       *)
WakeRead(t) ==
    /\ pc[t] = "wakeRead"
    /\ IF registered /\ vmState = "Suspended" THEN Goto(t, "restoreEnter")
                                              ELSE Return(t)
    /\ UNCHANGED <<child, life, born, registered, fcvars, snaps, resources,
                   books, disconnects>>

(* restore_vm called by the waker: its prologue looks the VM up again. *)
RestoreEnter(t) ==
    /\ pc[t] = "restoreEnter"
    /\ IF registered /\ snapshot THEN Goto(t, "restoreBegin") ELSE Return(t)
    /\ UNCHANGED <<child, life, born, registered, fcvars, snaps, resources,
                   books, disconnects>>

-----------------------------------------------------------------------------
(* destroy_vm *)

DestroyEnter(t) ==
    /\ pc[t] = "idle" /\ registered
    /\ registered' = FALSE
    /\ child' = [child EXCEPT ![t] = slot]
    /\ slot' = NoProc
    /\ Goto(t, "destroyKill")
    /\ UNCHANGED <<life, born, proc, sock, snaps, resources, books,
                   disconnects>>

DestroyKill(t) ==
    /\ pc[t] = "destroyKill"
    /\ KillChild(t)
    /\ net' = FALSE
    /\ Goto(t, "destroyDetach")
    /\ UNCHANGED <<life, born, registered, slot, sock, snaps, vol, dir,
                   books, disconnects>>

(* Mutant: the block volume is not detached. *)
DestroyKeepsVolume(t) ==
    /\ pc[t] = "destroyDetach"
    /\ Goto(t, "destroyCleanup")
    /\ UNCHANGED <<child, life, born, registered, fcvars, snaps, resources,
                   books, disconnects>>

DestroyDetach(t) ==
    /\ pc[t] = "destroyDetach"
    /\ vol' = FALSE
    /\ Goto(t, "destroyCleanup")
    /\ UNCHANGED <<child, life, born, registered, fcvars, snaps, net, dir,
                   books, disconnects>>

(* Removes the work dir, the snapshot files and the socket in it, and the  *)
(* auto-suspend bookkeeping.                                               *)
DestroyCleanup(t) ==
    /\ pc[t] = "destroyCleanup"
    /\ dir' = FALSE /\ files' = "none" /\ sock' = NoProc
    /\ wakeTime' = FALSE /\ wakeEntry' = FALSE
    /\ Return(t)
    /\ UNCHANGED <<child, life, born, registered, slot, proc, snapshot, net,
                   vol, disconnects>>

-----------------------------------------------------------------------------
(* The client goes away: hyper drops the handler's future at its await.    *)
Disconnect(t) ==
    /\ disconnects < MaxDisconnects
    /\ pc[t] \in AwaitPc
    /\ pc[t] = "createUndo" => vol      \* it awaits only the detach
    /\ disconnects' = disconnects + 1
    /\ KillChild(t)
    /\ Return(t)
    /\ UNCHANGED <<life, born, registered, slot, sock, snaps, resources,
                   books>>

-----------------------------------------------------------------------------
CreateStep(t) ==
    \/ CreateAttach(t) \/ CreateSpawn(t) \/ CreateConfigure(t)
    \/ CreateUndo(t) \/ CreateRegister(t)

StartStep(t) == StartBegin(t) \/ StartPut(t) \/ StartWait(t)

PauseStep(t) ==
    PauseBegin(t) \/ PausePatch(t) \/ ResumeBegin(t) \/ ResumePatch(t)

SnapshotStep(t) ==
    \/ SnapBegin(t) \/ SnapPatch(t) \/ SnapCreate(t) \/ SnapTake(t)
    \/ SnapKill(t) \/ SnapCommit(t) \/ SnapUndo(t)

RestoreStep(t) ==
    \/ RestoreEnter(t) \/ RestoreBegin(t) \/ RestoreSpawn(t)
    \/ RestoreLoad(t) \/ RestoreWait(t) \/ RestoreCommit(t)
    \/ RestoreFinish(t)

WakeStep(t) == WakeAcquire(t) \/ WakeRead(t)

DestroyStep(t) == DestroyKill(t) \/ DestroyDetach(t) \/ DestroyCleanup(t)

(* A handler that was entered moves on. *)
Step(t) ==
    \/ CreateStep(t) \/ StartStep(t) \/ PauseStep(t) \/ SnapshotStep(t)
    \/ RestoreStep(t) \/ WakeStep(t) \/ DestroyStep(t)

(* A request arrives. *)
Call(t) ==
    \/ CreateBegin(t) \/ WakeEnter(t) \/ DestroyEnter(t)
    \/ \E step \in EntrySteps : Enter(t, step)

Firecracker(p) == FcExit(p) \/ GuestRuns(p)

Next ==
    \/ \E t \in Task : Call(t) \/ Step(t) \/ Disconnect(t)
    \/ \E p \in Proc : Firecracker(p)

(* A task that is inside a handler is polled until it returns: the runtime *)
(* runs ready tasks, Firecracker answers or its socket reports an error.   *)
(* The wake lock is a tokio mutex, which serves its waiters in turn.       *)
Fairness == \A t \in Task : WF_vars(Step(t)) /\ SF_vars(WakeAcquire(t))

Spec == Init /\ [][Next]_vars
FairSpec == Spec /\ Fairness
-----------------------------------------------------------------------------
(* Properties *)

FlagsOK ==
    /\ born \in BOOLEAN /\ registered \in BOOLEAN
    /\ snapshot \in BOOLEAN
    /\ net \in BOOLEAN /\ vol \in BOOLEAN /\ dir \in BOOLEAN
    /\ wakeEntry \in BOOLEAN /\ wakeTime \in BOOLEAN

ShapesOK ==
    /\ pc \in [Task -> Pc]
    /\ child \in [Task -> Proc \cup {NoProc}]
    /\ vmState \in VmState /\ origin \in Stable
    /\ slot \in Proc \cup {NoProc} /\ sock \in Proc \cup {NoProc}
    /\ proc \in [Proc -> ProcState]
    /\ files \in {"none", "torn", "full", "stale"}
    /\ wakeLock \in Task \cup {NoTask}
    /\ disconnects \in 0..MaxDisconnects

(* Every variable of the model keeps its type (the fields of VmInstance,   *)
(* FcVmEntry and FirecrackerVmm they stand for have it by declaration; the *)
(* history of stable states in origin has it by the state machine).        *)
TypeOK == FlagsOK /\ ShapesOK

(* The transitional states work as a lock: at most one handler is between  *)
(* its two transitions, and the VM is still in the state that handler put  *)
(* it in, whatever the others (destroy included) did meanwhile.            *)
OneOperationAtATime ==
    /\ \A t, u \in Task :
           pc[t] \in OwningPc /\ pc[u] \in OwningPc => t = u
    /\ \A t \in Task : pc[t] \in OwningPc => vmState = WorksIn(pc[t])

(* snapshot_vm's promise: a suspended VM consumes no resources and rests   *)
(* on complete snapshot files, so that a restore has something to load.    *)
SuspendedAtRest ==
    registered /\ vmState = "Suspended" =>
        /\ \A p \in Proc : ~Live(p)
        /\ snapshot /\ files \in {"full", "stale"}

(* A VM in the map never has two Firecracker processes at once (they would *)
(* share the overlay disk, the TAP device and the API socket).             *)
OneProcess ==
    registered => \A p, q \in Proc : Live(p) /\ Live(q) => p = q

Quiet == \A t \in Task : pc[t] = "idle"

(* Once every handler has returned, a Firecracker process is alive only as *)
(* the child of a VM in the map: failed creates, destroys and restores     *)
(* that lost the race with a destroy leave none behind, cut off or not.    *)
NoStrayProcess ==
    Quiet => \A p \in Proc : Live(p) => registered /\ slot = p

(* Neither a destroyed VM nor a create that failed leaves anything on the  *)
(* host, except that a create whose network was refused keeps its work dir *)
(* (and, when only saving the allocation failed, the allocation).  Only    *)
(* without disconnects: a destroy cut off at an await is not resumed, and  *)
(* the VM is no longer in the map to be destroyed again.                   *)
DestroyReleases ==
    Quiet /\ ~registered /\ disconnects = 0 =>
        /\ ~vol /\ files = "none" /\ (net => dir)
        /\ vmState # "Creating" => ~net /\ ~dir

(* The second transition of an operation is never refused: a handler that  *)
(* was not cut off and whose VM is still in the map returns with the VM in *)
(* a stable state.                                                         *)
OperationsSettle ==
    [][\A t \in Task :
          /\ registered /\ pc[t] \in OwningPc
          /\ pc'[t] \notin OwningPc /\ disconnects' = disconnects
          => vmState' \in Stable]_vars

(* A paused guest does not run, and the process that is paused is the one  *)
(* the map entry holds; a failed resume leaves it frozen.                  *)
PausedIsFrozen ==
    registered /\ vmState = "Paused" =>
        slot # NoProc /\ proc[slot] \in {"paused", "exited"}

(* An operation on a VM in the map ends: unless a handler was cut off the  *)
(* VM does not stay in a transitional state for ever.  And Firecracker     *)
(* does not outlive its VM: after a destroy, or a create that failed,      *)
(* every process dies, even one a restore is spawning.  And every caller   *)
(* of ensure_started is answered, however many queue for the wake lock.    *)
WorkEnds ==
    /\ registered /\ vmState \in Transitional
           ~> ~registered \/ vmState \in Stable \/ disconnects > 0
    /\ born /\ ~registered ~> registered \/ \A p \in Proc : ~Live(p)
    /\ \A t \in Task : pc[t] = "wakeLock" ~> pc[t] = "idle"

Abstract == INSTANCE AbstractVm WITH
    state <- vmState, from <- origin, present <- registered,
    live <- {p \in Proc : Live(p)}, saved <- (files = "full")

(* The comment on VmState (vm.rs:81-83): the second step of an operation   *)
(* "either completes the operation or rolls back to the previous stable    *)
(* state on failure".  A snapshot of a Paused VM that fails rolls forward, *)
(* to Started.                                                             *)
ImplementsVm == Abstract!Spec

(* But for that one step, the promise is kept: operations begin where they *)
(* may and end in their target or where they came from; processes appear   *)
(* only in create and restore, one at a time; a VM that ends up Suspended  *)
(* in the map has no process and a snapshot that matches its disks,        *)
(* because the guest does not run between the snapshot and the kill.       *)
ImplementsVmButUndo == Abstract!SpecButUndo
=============================================================================

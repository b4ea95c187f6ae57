------------------------------- MODULE Storage -------------------------------
(***************************************************************************)
(* StorageManager: the block volumes of all VMs, each served by a worker   *)
(* process on a ublk device.  attach and detach run in request handlers,   *)
(* one monitor task per volume reaps its worker and respawns it with       *)
(* --recover (storage/manager.rs, worker.rs, ublk_worker.rs).              *)
(*                                                                         *)
(* The kernel's ublk driver is external: a device is live while a worker   *)
(* serves it and parked (USER_RECOVERY) once that worker is dead; a parked *)
(* device can be recovered by a new worker; deleting a device frees its    *)
(* id.  Pids too are free again once the process is reaped.                *)
(***************************************************************************)
EXTENDS Naturals, FiniteSets

CONSTANTS
    Vm,            \* VM ids, each with one volume
    Dev,           \* ublk device ids
    Pid,           \* process ids of workers
    None,          \* no entry, no device, no process
    MAX_RESPAWNS,  \* respawns of one volume's worker
    MaxCrashes     \* bound: workers that die by themselves

ASSUME BoundsAssumption == MAX_RESPAWNS \in Nat /\ MaxCrashes \in Nat

VARIABLES
    entry,     \* StorageManager.workers: [dev, pid, respawns] per VM
    task,      \* the attach or detach of a VM: [pc, dev, pid]
    mon,       \* the monitor of a VM: [pc, dev, child]
    proc,      \* worker processes: [st, vm, dev]
    device,    \* ublk devices: [vm, server]
    dir,       \* VMs with a volume directory
    crashes    \* workers that died by themselves (bounded)

vars == <<entry, task, mon, proc, device, dir, crashes>>

TaskPc == {"new", "spawn", "mkfs", "mkfsDel", "mkfsKill", "up",
           "kill", "del", "rm", "done"}
MonPc == {"none", "wait", "respawn", "insert", "failed", "stopDel",
          "stopKill", "done"}

(* A worker is live, or dead and not reaped yet.  A live worker is lost    *)
(* when hostd dropped its Child, which is not kill_on_drop.                *)
ProcSt == {"live", "lost", "zombie"}
Process == [st : ProcSt, vm : Vm, dev : Dev]

(* A device, and the worker that serves it. *)
Device == [vm : Vm, server : Pid \cup {None}]

(* What the map keeps of a worker. *)
WorkerEntry == [dev : Dev, pid : Pid, respawns : 0 .. MAX_RESPAWNS]

ASSUME NoneAssumption ==
    None \notin Pid \cup Dev \cup Vm \cup Process \cup Device \cup WorkerEntry

Running(p) == proc[p] # None /\ proc[p].st \in {"live", "lost"}
Serves(p, v) == Running(p) /\ proc[p].vm = v

Init ==
    /\ entry = [v \in Vm |-> None]
    /\ task = [v \in Vm |-> [pc |-> "new", dev |-> None, pid |-> None]]
    /\ mon = [v \in Vm |-> [pc |-> "none", dev |-> None, child |-> None]]
    /\ proc = [p \in Pid |-> None]
    /\ device = [d \in Dev |-> None]
    /\ dir = {} /\ crashes = 0

TaskGoto(v, pc) == task' = [task EXCEPT ![v].pc = pc]
MonGoto(v, pc) == mon' = [mon EXCEPT ![v].pc = pc]

-----------------------------------------------------------------------------
(* Processes and devices. *)

(* SIGKILL, or exit: the process is gone and the device it served parked. *)
Park(devs, p) ==
    [d \in Dev |-> IF devs[d] # None /\ devs[d].server = p
                   THEN [devs[d] EXCEPT !.server = None] ELSE devs[d]]

(* Child::kill waits for the process and reaps it. *)
KillReap(p) == /\ proc' = [proc EXCEPT ![p] = None]
               /\ device' = Park(device, p)

WorkerExit(p) ==
    /\ Running(p)
    /\ \/ crashes < MaxCrashes /\ crashes' = crashes + 1
       \/ device[proc[p].dev] = None /\ UNCHANGED crashes   \* device deleted
       \/ /\ device[proc[p].dev] # None                     \* served by another
          /\ device[proc[p].dev].server # p /\ UNCHANGED crashes
    /\ proc' = [proc EXCEPT ![p] = IF @.st = "lost" THEN None
                                   ELSE [@ EXCEPT !.st = "zombie"]]
    /\ device' = Park(device, p)
    /\ UNCHANGED <<entry, task, mon, dir>>

-----------------------------------------------------------------------------
(* attach *)

Attach(v) ==
    /\ task[v].pc = "new"
    /\ dir' = dir \cup {v}
    /\ TaskGoto(v, "spawn")
    /\ UNCHANGED <<entry, mon, proc, device, crashes>>

(* worker::spawn for a new device.  When the handshake or the device node  *)
(* times out, the worker goes on without its parent's knowledge.           *)
AttachSpawn(v) ==
    /\ task[v].pc = "spawn"
    /\ \/ \E p \in Pid, d \in Dev, st \in {"live", "lost"} :
              /\ proc[p] = None /\ device[d] = None
              /\ proc' = [proc EXCEPT ![p] = [st |-> st, vm |-> v, dev |-> d]]
              /\ device' = [device EXCEPT ![d] = [vm |-> v, server |-> p]]
              /\ task' = [task EXCEPT ![v] =
                            IF st = "live" THEN [pc |-> "mkfs", dev |-> d, pid |-> p]
                                           ELSE [@ EXCEPT !.pc = "done"]]
       \/ TaskGoto(v, "done") /\ UNCHANGED <<proc, device>>
    /\ UNCHANGED <<entry, mon, dir, crashes>>

(* Format, then register the worker and start its monitor. *)
AttachMkfs(v) ==
    /\ task[v].pc = "mkfs"
    /\ entry' = [entry EXCEPT ![v] = [dev |-> task[v].dev, pid |-> task[v].pid,
                                      respawns |-> 0]]
    /\ mon' = [mon EXCEPT ![v] = [pc |-> "wait", dev |-> task[v].dev,
                                  child |-> task[v].pid]]
    /\ TaskGoto(v, "up")
    /\ UNCHANGED <<proc, device, dir, crashes>>

(* mkfs failed: worker::stop deletes the device, then kills the worker. *)
AttachMkfsFails(v) ==
    /\ task[v].pc = "mkfs"
    /\ TaskGoto(v, "mkfsDel")
    /\ UNCHANGED <<entry, mon, proc, device, dir, crashes>>

AttachStopDelete(v) ==
    /\ task[v].pc = "mkfsDel"
    /\ device' = [device EXCEPT ![task[v].dev] = None]
    /\ TaskGoto(v, "mkfsKill")
    /\ UNCHANGED <<entry, mon, proc, dir, crashes>>

AttachStopKill(v) ==
    /\ task[v].pc = "mkfsKill"
    /\ KillReap(task[v].pid)
    /\ dir' = dir \ {v}
    /\ TaskGoto(v, "done")
    /\ UNCHANGED <<entry, mon, crashes>>

(* The client goes away while mkfs runs: the handler is dropped, and with  *)
(* it the Child, whose worker goes on.                                     *)
AttachDropped(v) ==
    /\ task[v].pc = "mkfs"
    /\ proc' = [proc EXCEPT ![task[v].pid] =
                  IF @.st = "live" THEN [@ EXCEPT !.st = "lost"] ELSE None]
    /\ TaskGoto(v, "done")
    /\ UNCHANGED <<entry, mon, device, dir, crashes>>

-----------------------------------------------------------------------------
(* detach *)

DetachRemove(v) ==
    /\ task[v].pc = "up"
    /\ task' = [task EXCEPT ![v] = [pc |-> "kill", dev |-> entry[v].dev,
                                    pid |-> entry[v].pid]]
    /\ entry' = [entry EXCEPT ![v] = None]
    /\ UNCHANGED <<mon, proc, device, dir, crashes>>

(* kill(pid, SIGKILL): whoever has that pid by now. *)
DetachKill(v) ==
    LET p == task[v].pid IN
    /\ task[v].pc = "kill"
    /\ IF Running(p)
       THEN /\ proc' = [proc EXCEPT ![p] = IF @.st = "lost" THEN None
                                           ELSE [@ EXCEPT !.st = "zombie"]]
            /\ device' = Park(device, p)
       ELSE UNCHANGED <<proc, device>>
    /\ TaskGoto(v, "del")
    /\ UNCHANGED <<entry, mon, dir, crashes>>

DetachDelete(v) ==
    /\ task[v].pc = "del"
    /\ device' = [device EXCEPT ![task[v].dev] = None]
    /\ TaskGoto(v, "rm")
    /\ UNCHANGED <<entry, mon, proc, dir, crashes>>

(* In the background. *)
DetachRemoveDir(v) ==
    /\ task[v].pc = "rm"
    /\ dir' = dir \ {v}
    /\ TaskGoto(v, "done")
    /\ UNCHANGED <<entry, mon, proc, device, crashes>>

-----------------------------------------------------------------------------
(* The monitor. *)

Exhausted(v) == entry[v].respawns >= MAX_RESPAWNS

(* Mutant: no limit on respawns. *)
MonWaitUnbounded(v) ==
    LET c == mon[v].child IN
    /\ mon[v].pc = "wait"
    /\ c # None => proc[c].st = "zombie"
    /\ proc' = [p \in Pid |-> IF p = c THEN None ELSE proc[p]]
    /\ mon' = [mon EXCEPT ![v].pc = IF entry[v] = None THEN "done" ELSE "respawn",
                          ![v].child = None]
    /\ UNCHANGED <<entry, task, device, dir, crashes>>

(* wait() reaps the worker, or returns at once when that was done before;  *)
(* then the entry tells a detach from a crash.                             *)
MonWait(v) ==
    LET c == mon[v].child IN
    /\ mon[v].pc = "wait"
    /\ c # None => proc[c].st = "zombie"
    /\ proc' = [p \in Pid |-> IF p = c THEN None ELSE proc[p]]
    /\ mon' = [mon EXCEPT
                 ![v].pc = IF entry[v] = None \/ Exhausted(v) THEN "done"
                                                              ELSE "respawn",
                 ![v].child = None]
    /\ UNCHANGED <<entry, task, device, dir, crashes>>

(* worker::spawn --recover, after the backoff: it needs the volume's files *)
(* and a parked device with the id of old.                                 *)
MonRespawn(v) ==
    LET d == mon[v].dev IN
    /\ mon[v].pc = "respawn"
    /\ \/ \E p \in Pid, st \in {"live", "lost"} :
              /\ proc[p] = None /\ v \in dir
              /\ device[d] # None /\ device[d].server = None
              /\ proc' = [proc EXCEPT ![p] = [st |-> st, vm |-> v, dev |-> d]]
              /\ device' = [device EXCEPT ![d].server = p]
              /\ mon' = [mon EXCEPT ![v] =
                           IF st = "live" THEN [@ EXCEPT !.pc = "insert", !.child = p]
                                          ELSE [@ EXCEPT !.pc = "failed"]]
       \/ MonGoto(v, "failed") /\ UNCHANGED <<proc, device>>
    /\ UNCHANGED <<entry, task, dir, crashes>>

(* Mutant: a worker respawned for a detached volume is forgotten. *)
MonInsertForgets(v) ==
    /\ mon[v].pc = "insert"
    /\ entry' = IF entry[v] = None THEN entry
                ELSE [entry EXCEPT ![v].pid = mon[v].child, ![v].respawns = @ + 1]
    /\ MonGoto(v, IF entry[v] = None THEN "done" ELSE "wait")
    /\ UNCHANGED <<task, proc, device, dir, crashes>>

(* Mutant: the entry keeps the pid of the dead worker. *)
MonInsertKeepsPid(v) ==
    /\ mon[v].pc = "insert"
    /\ IF entry[v] = None
       THEN MonGoto(v, "stopDel") /\ UNCHANGED entry
       ELSE entry' = [entry EXCEPT ![v].respawns = @ + 1] /\ MonGoto(v, "wait")
    /\ UNCHANGED <<task, proc, device, dir, crashes>>

MonInsert(v) ==
    /\ mon[v].pc = "insert"
    /\ IF entry[v] = None
       THEN MonGoto(v, "stopDel") /\ UNCHANGED entry
       ELSE /\ entry' = [entry EXCEPT ![v].pid = mon[v].child, ![v].respawns = @ + 1]
            /\ MonGoto(v, "wait")
    /\ UNCHANGED <<task, proc, device, dir, crashes>>

(* Mutant: a failed respawn does not count. *)
MonFailedUncounted(v) ==
    /\ mon[v].pc = "failed"
    /\ MonGoto(v, IF entry[v] = None THEN "done" ELSE "wait")
    /\ UNCHANGED <<entry, task, proc, device, dir, crashes>>

MonFailed(v) ==
    /\ mon[v].pc = "failed"
    /\ IF entry[v] = None
       THEN MonGoto(v, "done") /\ UNCHANGED entry
       ELSE /\ entry' = [entry EXCEPT ![v].respawns = @ + 1]
            /\ MonGoto(v, IF entry[v].respawns + 1 >= MAX_RESPAWNS THEN "done"
                                                                   ELSE "wait")
    /\ UNCHANGED <<task, proc, device, dir, crashes>>

(* The VM was destroyed meanwhile: worker::stop. *)
MonStopDelete(v) ==
    /\ mon[v].pc = "stopDel"
    /\ device' = [device EXCEPT ![mon[v].dev] = None]
    /\ MonGoto(v, "stopKill")
    /\ UNCHANGED <<entry, task, proc, dir, crashes>>

MonStopKill(v) ==
    /\ mon[v].pc = "stopKill"
    /\ KillReap(mon[v].child)
    /\ mon' = [mon EXCEPT ![v].pc = "done", ![v].child = None]
    /\ UNCHANGED <<entry, task, dir, crashes>>

-----------------------------------------------------------------------------
(* hostd restarts: its tasks are gone, its workers die with it             *)
(* (PR_SET_PDEATHSIG), and reconcile_on_startup deletes the devices they   *)
(* left parked, one by one and best effort.  Volume directories stay.      *)
Restart ==
    /\ entry' = [v \in Vm |-> None]
    /\ task' = [v \in Vm |-> IF task[v].pc = "new" THEN task[v]
                              ELSE [pc |-> "done", dev |-> None, pid |-> None]]
    /\ mon' = [v \in Vm |-> [pc |-> IF mon[v].pc = "none" THEN "none" ELSE "done",
                              dev |-> None, child |-> None]]
    /\ proc' = [p \in Pid |-> None]
    /\ \E left \in SUBSET {d \in Dev : device[d] # None} :
          device' = [d \in Dev |-> IF d \in left THEN [device[d] EXCEPT !.server = None]
                                   ELSE None]
    /\ UNCHANGED <<dir, crashes>>

-----------------------------------------------------------------------------
AttachStep(v) ==
    \/ Attach(v) \/ AttachSpawn(v) \/ AttachMkfs(v) \/ AttachMkfsFails(v)
    \/ AttachStopDelete(v) \/ AttachStopKill(v) \/ AttachDropped(v)

DetachStep(v) == DetachKill(v) \/ DetachDelete(v) \/ DetachRemoveDir(v)

MonStep(v) ==
    \/ MonWait(v) \/ MonRespawn(v) \/ MonInsert(v) \/ MonFailed(v)
    \/ MonStopDelete(v) \/ MonStopKill(v)

Next ==
    \/ \E v \in Vm : AttachStep(v) \/ DetachRemove(v) \/ DetachStep(v) \/ MonStep(v)
    \/ \E p \in Pid : WorkerExit(p)
    \/ Restart

(* The monitor is a task of its own that nobody cancels; detach goes on    *)
(* once its caller waits for it.                                           *)
Fairness == \A v \in Vm : WF_vars(MonStep(v)) /\ WF_vars(DetachStep(v))

Spec == Init /\ [][Next]_vars
FairSpec == Spec /\ Fairness

-----------------------------------------------------------------------------
(* Properties *)

(* Types of the map, the tasks, processes and devices. *)
TypeOK ==
    /\ entry \in [Vm -> WorkerEntry \cup {None}]
    /\ task \in [Vm -> [pc : TaskPc, dev : Dev \cup {None}, pid : Pid \cup {None}]]
    /\ mon \in [Vm -> [pc : MonPc, dev : Dev \cup {None}, child : Pid \cup {None}]]
    /\ proc \in [Pid -> Process \cup {None}]
    /\ device \in [Dev -> Device \cup {None}]
    /\ dir \subseteq Vm /\ crashes \in 0 .. MaxCrashes

Over(v) == task[v].pc = "done" /\ mon[v].pc \in {"none", "done"}

(* spawn_monitor: a VM destroyed in the middle of a respawn does not leak  *)
(* the new worker; nor does a failed attach.  Only a worker whose spawn    *)
(* timed out or whose attach was dropped outlives its volume.              *)
NoOrphanWorker ==
    \A v \in Vm, p \in Pid : Over(v) /\ Serves(p, v) => proc[p].st = "lost"

(* Module docs: the map entry has all detach needs to stop the pair: at    *)
(* the time of the kill, a worker the monitor waits for has the pid detach *)
(* took from the entry, respawned or not.                                  *)
DetachFindsWorker ==
    \A v \in Vm, p \in Pid :
        task[v].pc = "kill" /\ mon[v].pc = "wait" /\ mon[v].child = p
            => task[v].pid = p

(* Module docs: a dead worker is respawned, or its respawns are exhausted  *)
(* and the device stays dead; the monitor does not give up before, and     *)
(* does not try for ever.                                                  *)
Attached(v) == entry[v] # None
CrashHandled ==
    \A v \in Vm :
        Attached(v) /\ ~(\E p \in Pid : Serves(p, v))
            ~> ~Attached(v) \/ (\E p \in Pid : Serves(p, v)) \/ Exhausted(v)
=============================================================================

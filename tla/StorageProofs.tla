---------------------------- MODULE StorageProofs ----------------------------
(***************************************************************************)
(* What the storage manager guarantees for every number of VMs, devices,   *)
(* pids, respawns and crashes: no worker outlives its volume but the ones  *)
(* hostd has lost, and detach kills the worker that is there, although it  *)
(* knows it by its pid only, pids are used again, and a monitor may be     *)
(* respawning the worker meanwhile.                                        *)
(*                                                                         *)
(* The argument: a worker that hostd started is the child of one attach or *)
(* one monitor until that one reaps it, and keeps its pid as long          *)
(* (ChildrenOK); the map entry, which exists exactly between attach and    *)
(* detach (PhaseOK), names that child whenever the monitor waits for it    *)
(* (EntryNames), and detach takes the pid from there.                      *)
(*                                                                         *)
(* And no attached volume is left to itself (Attend, at the end): the      *)
(* monitor that handles the next crash waits, tries, or has given up for   *)
(* want of respawns.                                                       *)
(***************************************************************************)
EXTENDS Storage, TLAPS

(* The phases of an attach that has a worker of its own, and of a detach   *)
(* that has taken one from the map.                                        *)
Formatting == {"mkfs", "mkfsDel", "mkfsKill"}
Stopping == {"kill", "del"}

(* What a task and a monitor have in hand in each phase: the entry is in   *)
(* the map exactly between attach and detach, and the monitor starts with  *)
(* it.                                                                     *)
PhaseOK(v) ==
    /\ task[v].pc \in Formatting \cup Stopping =>
           task[v].pid \in Pid /\ task[v].dev \in Dev
    /\ task[v].pc \in Formatting \cup {"new", "spawn"} => mon[v].pc = "none"
    /\ task[v].pc = "up" <=> entry[v] # None
    /\ mon[v].pc \in {"none", "respawn", "failed", "done"} => mon[v].child = None
    /\ mon[v].pc \in {"insert", "stopDel", "stopKill"} => mon[v].child # None
    /\ mon[v].pc \notin {"none", "done"} => mon[v].dev \in Dev

(* The count leaves room for the respawn that is under way. *)
Respawning(v) ==
    entry[v] # None /\ mon[v].pc \in {"respawn", "insert", "failed"} =>
        entry[v].respawns < MAX_RESPAWNS

(* The map entry names the worker the monitor waits for, and so does a     *)
(* detach that has removed it.                                             *)
EntryNames(v) ==
    mon[v].pc = "wait" /\ mon[v].child # None =>
        /\ entry[v] # None => entry[v].pid = mon[v].child
        /\ task[v].pc = "kill" => task[v].pid = mon[v].child

VolumeOK(v) == PhaseOK(v) /\ Respawning(v) /\ EntryNames(v)

(* A worker that hostd has not lost and that is v's. *)
Known(p, v) == /\ p \in Pid /\ proc[p] # None
               /\ proc[p].vm = v /\ proc[p].st \in {"live", "zombie"}

(* The child of an attach or a monitor is a process of its volume, and a   *)
(* live worker that is not lost is somebody's child.                       *)
ChildrenOK ==
    /\ \A v \in Vm : task[v].pc \in Formatting => Known(task[v].pid, v)
    /\ \A v \in Vm : mon[v].child # None => Known(mon[v].child, v)
    /\ \A p \in Pid : \A v \in Vm :
           proc[p] # None /\ proc[p].st = "live" /\ proc[p].vm = v =>
               \/ mon[v].child = p
               \/ task[v].pc \in Formatting /\ task[v].pid = p

IInv == TypeOK /\ (\A v \in Vm : VolumeOK(v)) /\ ChildrenOK

-----------------------------------------------------------------------------
(* Types, and what the pieces that the actions are made of do. *)

Entries == [Vm -> WorkerEntry \cup {None}]
Tasks == [Vm -> [pc : TaskPc, dev : Dev \cup {None}, pid : Pid \cup {None}]]
Mons == [Vm -> [pc : MonPc, dev : Dev \cup {None}, child : Pid \cup {None}]]
Procs == [Pid -> Process \cup {None}]
Devices == [Dev -> Device \cup {None}]

LEMMA TypeParts ==
  TypeOK <=> /\ entry \in Entries /\ task \in Tasks /\ mon \in Mons
             /\ proc \in Procs /\ device \in Devices
             /\ dir \subseteq Vm /\ crashes \in 0 .. MaxCrashes
BY Zenon DEF TypeOK, Entries, Tasks, Mons, Procs, Devices

LEMMA TaskTo ==
  ASSUME task \in Tasks, NEW v \in Vm, NEW pc \in TaskPc, TaskGoto(v, pc)
  PROVE  /\ task' \in Tasks
         /\ \A w \in Vm : w # v => task'[w] = task[w]
         /\ task'[v].pc = pc /\ task'[v].dev = task[v].dev
         /\ task'[v].pid = task[v].pid
BY DEF Tasks, TaskGoto

LEMMA MonTo ==
  ASSUME mon \in Mons, NEW v \in Vm, NEW pc \in MonPc, MonGoto(v, pc)
  PROVE  /\ mon' \in Mons
         /\ \A w \in Vm : w # v => mon'[w] = mon[w]
         /\ mon'[v].pc = pc /\ mon'[v].dev = mon[v].dev
         /\ mon'[v].child = mon[v].child
BY DEF Mons, MonGoto

LEMMA ParkType ==
  ASSUME NEW devs \in Devices, NEW p
  PROVE  Park(devs, p) \in Devices
BY DEF Devices, Device, Park

LEMMA DeleteType ==
  ASSUME NEW devs \in Devices, NEW d
  PROVE  [devs EXCEPT ![d] = None] \in Devices
BY DEF Devices

LEMMA ReapType ==
  ASSUME NEW procs \in Procs, NEW p
  PROVE  [procs EXCEPT ![p] = None] \in Procs
BY DEF Procs

(* A process that ends: a lost one is reaped by nobody of hostd's. *)
Ended(p) == [proc EXCEPT ![p] = IF @.st = "lost" THEN None
                                ELSE [@ EXCEPT !.st = "zombie"]]

LEMMA EndedProc ==
  ASSUME proc \in Procs, NEW p \in Pid, Running(p)
  PROVE  /\ Ended(p) \in Procs
         /\ \A q \in Pid : q # p => Ended(p)[q] = proc[q]
         /\ proc[p].st = "lost" => Ended(p)[p] = None
         /\ proc[p].st = "live" => /\ Ended(p)[p] # None
                                   /\ Ended(p)[p].st = "zombie"
                                   /\ Ended(p)[p].vm = proc[p].vm
<1> USE NoneAssumption DEF Procs, Process, ProcSt, Running
<1>1. proc[p] \in Process /\ proc[p] # None
  OBVIOUS
<1>2. CASE proc[p].st = "lost"
  BY <1>2 DEF Ended
<1>3. CASE proc[p].st = "live"
  <2>1. [proc[p] EXCEPT !.st = "zombie"] \in Process
    BY <1>1
  <2>2. Ended(p) = [proc EXCEPT ![p] = [proc[p] EXCEPT !.st = "zombie"]]
    BY <1>3 DEF Ended
  <2>3. [proc[p] EXCEPT !.st = "zombie"] # None
    BY <2>1
  <2> QED
    BY <1>1, <1>3, <2>1, <2>2, <2>3
<1> QED
  BY <1>1, <1>2, <1>3

(* The types of the variables are kept. *)
Typed == /\ entry \in Entries /\ task \in Tasks /\ mon \in Mons
         /\ proc \in Procs /\ device \in Devices
         /\ dir \subseteq Vm /\ crashes \in 0 .. MaxCrashes

LEMMA TypeAttach ==
  ASSUME Typed, ChildrenOK, NEW v \in Vm, VolumeOK(v), AttachStep(v)
  PROVE  Typed'
<1> USE NoneAssumption, BoundsAssumption DEF Typed
<1>0. \A pc \in {"spawn", "done", "up", "mkfsDel", "mkfsKill"} : pc \in TaskPc
  BY DEF TaskPc
<1>1. CASE Attach(v) \/ AttachMkfsFails(v)
  BY <1>0, <1>1, TaskTo DEF Attach, AttachMkfsFails
<1>2. CASE AttachSpawn(v)
  <2>1. CASE TaskGoto(v, "done") /\ UNCHANGED <<proc, device>>
    BY <1>0, <1>2, <2>1, TaskTo DEF AttachSpawn
  <2>2. ASSUME NEW p \in Pid, NEW d \in Dev, NEW st \in {"live", "lost"},
               proc' = [proc EXCEPT ![p] = [st |-> st, vm |-> v, dev |-> d]],
               device' = [device EXCEPT ![d] = [vm |-> v, server |-> p]],
               task' = [task EXCEPT ![v] =
                          IF st = "live" THEN [pc |-> "mkfs", dev |-> d, pid |-> p]
                                         ELSE [@ EXCEPT !.pc = "done"]]
        PROVE  Typed'
    <3>1. proc' \in Procs
      BY <2>2 DEF Procs, Process, ProcSt
    <3>2. device' \in Devices
      BY <2>2 DEF Devices, Device
    <3>3. task' \in Tasks
      BY <2>2 DEF Tasks, TaskPc
    <3> QED
      BY <1>2, <3>1, <3>2, <3>3 DEF AttachSpawn
  <2> QED
    BY <1>2, <2>1, <2>2 DEF AttachSpawn
<1>3. CASE AttachMkfs(v)
  <2>1. task[v].pid \in Pid /\ task[v].dev \in Dev
    BY <1>3 DEF AttachMkfs, VolumeOK, PhaseOK, Formatting
  <2>2. entry' \in Entries
    BY <1>3, <2>1 DEF AttachMkfs, Entries, WorkerEntry
  <2>3. mon' \in Mons
    BY <1>3, <2>1 DEF AttachMkfs, Mons, MonPc
  <2> QED
    BY <1>0, <1>3, <2>2, <2>3, TaskTo DEF AttachMkfs
<1>4. CASE AttachStopDelete(v)
  BY <1>0, <1>4, TaskTo, DeleteType DEF AttachStopDelete
<1>5. CASE AttachStopKill(v)
  BY <1>0, <1>5, TaskTo, ReapType, ParkType DEF AttachStopKill, KillReap
<1>6. CASE AttachDropped(v)
  <2>1. task[v].pid \in Pid /\ proc[task[v].pid] # None
    BY <1>6 DEF AttachDropped, ChildrenOK, Known, Formatting
  <2>2. proc' \in Procs
    BY <1>6, <2>1 DEF AttachDropped, Procs, Process, ProcSt
  <2> QED
    BY <1>0, <1>6, <2>2, TaskTo DEF AttachDropped
<1> QED
  BY <1>1, <1>2, <1>3, <1>4, <1>5, <1>6 DEF AttachStep

LEMMA TypeDetach ==
  ASSUME Typed, NEW v \in Vm, VolumeOK(v), DetachRemove(v) \/ DetachStep(v)
  PROVE  Typed'
<1> USE NoneAssumption, BoundsAssumption DEF Typed
<1>0. \A pc \in {"del", "rm", "done"} : pc \in TaskPc
  BY DEF TaskPc
<1>1. CASE DetachRemove(v)
  <2>1. entry[v] \in WorkerEntry
    BY <1>1 DEF DetachRemove, VolumeOK, PhaseOK, Entries
  <2>2. task' \in Tasks
    BY <1>1, <2>1 DEF DetachRemove, Tasks, TaskPc, WorkerEntry
  <2>3. entry' \in Entries
    BY <1>1 DEF DetachRemove, Entries
  <2> QED
    BY <1>1, <2>2, <2>3 DEF DetachRemove
<1>2. CASE DetachKill(v)
  <2>1. task[v].pid \in Pid
    BY <1>2 DEF DetachKill, VolumeOK, PhaseOK, Stopping
  <2>2. CASE Running(task[v].pid)
    BY <1>0, <1>2, <2>1, <2>2, TaskTo, EndedProc, ParkType DEF DetachKill, Ended
  <2>3. CASE ~Running(task[v].pid)
    BY <1>0, <1>2, <2>3, TaskTo DEF DetachKill
  <2> QED
    BY <2>2, <2>3
<1>3. CASE DetachDelete(v)
  BY <1>0, <1>3, TaskTo, DeleteType DEF DetachDelete
<1>4. CASE DetachRemoveDir(v)
  BY <1>0, <1>4, TaskTo DEF DetachRemoveDir
<1> QED
  BY <1>1, <1>2, <1>3, <1>4 DEF DetachStep

LEMMA TypeMon ==
  ASSUME Typed, NEW v \in Vm, VolumeOK(v), MonStep(v)
  PROVE  Typed'
<1> USE NoneAssumption, BoundsAssumption DEF Typed
<1>0. \A pc \in {"failed", "insert", "wait", "done", "stopDel", "stopKill"} :
         pc \in MonPc
  BY DEF MonPc
<1>1. CASE MonWait(v)
  <2>1. proc' \in Procs
    BY <1>1 DEF MonWait, Procs
  <2>2. PICK pc \in {"done", "respawn"} :
           mon' = [mon EXCEPT ![v].pc = pc, ![v].child = None]
    BY <1>1 DEF MonWait
  <2>3. mon' \in Mons
    BY <2>2, ZenonT(30) DEF Mons, MonPc
  <2> QED
    BY <1>1, <2>1, <2>3 DEF MonWait
<1>2. CASE MonRespawn(v)
  <2>1. CASE MonGoto(v, "failed") /\ UNCHANGED <<proc, device>>
    BY <1>0, <1>2, <2>1, MonTo DEF MonRespawn
  <2>2. ASSUME NEW p \in Pid, NEW st \in {"live", "lost"},
               device[mon[v].dev] # None,
               proc' = [proc EXCEPT ![p] = [st |-> st, vm |-> v, dev |-> mon[v].dev]],
               device' = [device EXCEPT ![mon[v].dev].server = p],
               mon' = [mon EXCEPT ![v] =
                         IF st = "live" THEN [@ EXCEPT !.pc = "insert", !.child = p]
                                        ELSE [@ EXCEPT !.pc = "failed"]]
        PROVE  Typed'
    <3>0. mon[v].dev \in Dev
      BY <1>2 DEF MonRespawn, VolumeOK, PhaseOK
    <3>1. proc' \in Procs
      BY <2>2, <3>0 DEF Procs, Process, ProcSt
    <3>2. device' \in Devices
      BY <2>2, <3>0 DEF Devices, Device
    <3>3. mon' \in Mons
      <4>1. CASE st = "live"
        <5>1. mon' = [mon EXCEPT ![v] = [@ EXCEPT !.pc = "insert", !.child = p]]
          BY <2>2, <4>1
        <5> QED
          BY <5>1 DEF Mons, MonPc
      <4>2. CASE st = "lost"
        <5>1. mon' = [mon EXCEPT ![v] = [@ EXCEPT !.pc = "failed"]]
          BY <2>2, <4>2
        <5> QED
          BY <5>1 DEF Mons, MonPc
      <4> QED
        BY <2>2, <4>1, <4>2
    <3> QED
      BY <1>2, <3>1, <3>2, <3>3 DEF MonRespawn
  <2> QED
    BY <1>2, <2>1, <2>2 DEF MonRespawn
<1>3. CASE MonInsert(v) \/ MonFailed(v)
  <2>1. entry[v] # None => entry[v] \in WorkerEntry /\ entry[v].respawns + 1 \in 0 .. MAX_RESPAWNS
    BY <1>3 DEF MonInsert, MonFailed, Entries, WorkerEntry, VolumeOK, Respawning
  <2>2. MonInsert(v) => mon[v].child \in Pid
    BY DEF MonInsert, VolumeOK, PhaseOK, Mons
  <2>3. entry' \in Entries
    BY <1>3, <2>1, <2>2 DEF MonInsert, MonFailed, Entries, WorkerEntry
  <2>4. mon' \in Mons
    BY <1>0, <1>3, MonTo DEF MonInsert, MonFailed
  <2> QED
    BY <1>3, <2>3, <2>4 DEF MonInsert, MonFailed
<1>4. CASE MonStopDelete(v)
  BY <1>0, <1>4, MonTo, DeleteType DEF MonStopDelete
<1>5. CASE MonStopKill(v)
  <2>1. mon' \in Mons
    BY <1>5, ZenonT(30) DEF MonStopKill, Mons, MonPc
  <2> QED
    BY <1>5, <2>1, ReapType, ParkType DEF MonStopKill, KillReap
<1> QED
  BY <1>1, <1>2, <1>3, <1>4, <1>5 DEF MonStep

LEMMA TypeOthers ==
  ASSUME Typed, Restart \/ \E p \in Pid : WorkerExit(p)
  PROVE  Typed'
<1> USE NoneAssumption, BoundsAssumption DEF Typed
<1>1. CASE Restart
  <2>1. entry' \in Entries /\ proc' \in Procs
    BY <1>1 DEF Restart, Entries, Procs
  <2>2. task' \in Tasks
    BY <1>1 DEF Restart, Tasks, TaskPc
  <2>3. mon' \in Mons
    BY <1>1 DEF Restart, Mons, MonPc
  <2>4. device' \in Devices
    BY <1>1 DEF Restart, Devices, Device
  <2> QED
    BY <1>1, <2>1, <2>2, <2>3, <2>4 DEF Restart
<1>2. ASSUME NEW p \in Pid, WorkerExit(p) PROVE Typed'
  <2>1. proc' \in Procs /\ device' \in Devices
    BY <1>2, EndedProc, ParkType DEF WorkerExit, Ended
  <2>2. crashes' \in 0 .. MaxCrashes
    BY <1>2 DEF WorkerExit
  <2> QED
    BY <1>2, <2>1, <2>2 DEF WorkerExit
<1> QED
  BY <1>1, <1>2

LEMMA TypeStep ==
  ASSUME Typed, \A v \in Vm : VolumeOK(v), ChildrenOK, [Next]_vars
  PROVE  Typed'
<1>1. CASE UNCHANGED vars
  BY <1>1 DEF vars, Typed
<1> QED
  BY <1>1, TypeAttach, TypeDetach, TypeMon, TypeOthers, Zenon DEF Next

-----------------------------------------------------------------------------
(* The phases of a volume, which only its own task and monitor move. *)

Same(v) == task'[v] = task[v] /\ mon'[v] = mon[v] /\ entry'[v] = entry[v]

LEMMA SameVolume ==
  ASSUME NEW v \in Vm, VolumeOK(v), Same(v)
  PROVE  VolumeOK(v)'
BY DEF Same, VolumeOK, PhaseOK, Respawning, EntryNames

LEMMA OtherVolumes ==
  ASSUME Typed, NEW v \in Vm, NEW w \in Vm, w # v,
         AttachStep(v) \/ DetachRemove(v) \/ DetachStep(v) \/ MonStep(v)
  PROVE  Same(w)
<1> USE DEF Typed, Same, Tasks, Mons, Entries, TaskGoto, MonGoto
<1>1. CASE AttachStep(v)
  BY <1>1 DEF AttachStep, Attach, AttachSpawn, AttachMkfs, AttachMkfsFails,
              AttachStopDelete, AttachStopKill, AttachDropped
<1>2. CASE DetachRemove(v) \/ DetachStep(v)
  BY <1>2 DEF DetachRemove, DetachStep, DetachKill, DetachDelete, DetachRemoveDir
<1>3. CASE MonWait(v) \/ MonRespawn(v)
  BY <1>3 DEF MonWait, MonRespawn
<1>4. CASE MonInsert(v) \/ MonFailed(v) \/ MonStopDelete(v) \/ MonStopKill(v)
  BY <1>4 DEF MonInsert, MonFailed, MonStopDelete, MonStopKill
<1> QED
  BY <1>1, <1>2, <1>3, <1>4 DEF MonStep

LEMMA OwnVolume ==
  ASSUME Typed, NEW v \in Vm, VolumeOK(v),
         AttachStep(v) \/ DetachRemove(v) \/ DetachStep(v) \/ MonStep(v)
  PROVE  VolumeOK(v)'
<1> USE NoneAssumption, BoundsAssumption
    DEF Typed, VolumeOK, PhaseOK, Respawning, EntryNames, Formatting, Stopping
<1>0. /\ \A pc \in {"spawn", "done", "up", "mkfsDel", "mkfsKill", "del", "rm"} :
            pc \in TaskPc
      /\ \A pc \in {"failed", "insert", "wait", "done", "stopDel", "stopKill"} :
            pc \in MonPc
  BY DEF TaskPc, MonPc
<1>1. CASE Attach(v) \/ AttachMkfsFails(v)
  BY <1>0, <1>1, TaskTo DEF Attach, AttachMkfsFails
<1>2. CASE AttachSpawn(v)
  <2>1. CASE TaskGoto(v, "done")
    BY <1>0, <1>2, <2>1, TaskTo DEF AttachSpawn
  <2>2. ASSUME NEW p \in Pid, NEW d \in Dev, NEW st \in {"live", "lost"},
               task' = [task EXCEPT ![v] =
                          IF st = "live" THEN [pc |-> "mkfs", dev |-> d, pid |-> p]
                                         ELSE [@ EXCEPT !.pc = "done"]]
        PROVE  VolumeOK(v)'
    <3>1. \/ task'[v].pc = "mkfs" /\ task'[v].dev = d /\ task'[v].pid = p
          \/ task'[v].pc = "done"
      BY <2>2 DEF Tasks
    <3> QED
      BY <1>2, <3>1 DEF AttachSpawn
  <2> QED
    BY <1>2, <2>1, <2>2 DEF AttachSpawn
<1>3. CASE AttachMkfs(v)
  <2>1. /\ entry'[v] = [dev |-> task[v].dev, pid |-> task[v].pid, respawns |-> 0]
        /\ mon'[v] = [pc |-> "wait", dev |-> task[v].dev, child |-> task[v].pid]
        /\ task'[v].pc = "up"
    BY <1>0, <1>3, TaskTo DEF AttachMkfs, Mons, Entries
  <2>2. entry'[v] # None
    BY <1>3, <2>1 DEF AttachMkfs, WorkerEntry
  <2> QED
    BY <1>3, <2>1, <2>2 DEF AttachMkfs
<1>4. CASE AttachStopDelete(v) \/ AttachStopKill(v) \/ AttachDropped(v)
  BY <1>0, <1>4, TaskTo DEF AttachStopDelete, AttachStopKill, AttachDropped
<1>5. CASE DetachRemove(v)
  <2>1. entry[v] \in WorkerEntry
    BY <1>5 DEF DetachRemove, Entries
  <2>2. /\ entry'[v] = None /\ task'[v].pc = "kill"
        /\ task'[v].dev = entry[v].dev /\ task'[v].pid = entry[v].pid
    BY <1>5 DEF DetachRemove, Tasks, Entries
  <2> QED
    BY <1>5, <2>1, <2>2 DEF DetachRemove, WorkerEntry
<1>6. CASE DetachStep(v)
  BY <1>0, <1>6, TaskTo DEF DetachStep, DetachKill, DetachDelete, DetachRemoveDir
<1>7. CASE MonWait(v)
  <2>1. /\ mon'[v].pc = IF entry[v] = None \/ Exhausted(v) THEN "done" ELSE "respawn"
        /\ mon'[v].child = None /\ mon'[v].dev = mon[v].dev
    BY <1>7 DEF MonWait, Mons
  <2>2. entry[v] # None => entry[v].respawns \in 0 .. MAX_RESPAWNS
    BY DEF Entries, WorkerEntry
  <2> QED
    BY <1>7, <2>1, <2>2 DEF MonWait, Exhausted
<1>8. CASE MonRespawn(v)
  <2>1. CASE MonGoto(v, "failed")
    BY <1>0, <1>8, <2>1, MonTo DEF MonRespawn
  <2>2. ASSUME NEW p \in Pid, NEW st \in {"live", "lost"},
               mon' = [mon EXCEPT ![v] =
                         IF st = "live" THEN [@ EXCEPT !.pc = "insert", !.child = p]
                                        ELSE [@ EXCEPT !.pc = "failed"]]
        PROVE  VolumeOK(v)'
    <3>1. /\ \/ mon'[v].pc = "insert" /\ mon'[v].child = p
             \/ mon'[v].pc = "failed" /\ mon'[v].child = mon[v].child
          /\ mon'[v].dev = mon[v].dev
      BY <2>2 DEF Mons
    <3> QED
      BY <1>8, <3>1 DEF MonRespawn
  <2> QED
    BY <1>8, <2>1, <2>2 DEF MonRespawn
<1>9. CASE MonInsert(v)
  <2>1. CASE entry[v] = None
    BY <1>0, <1>9, <2>1, MonTo DEF MonInsert
  <2>2. CASE entry[v] # None
    <3>1. /\ entry[v] \in WorkerEntry /\ mon[v].child \in Pid
          /\ entry[v].respawns + 1 \in 0 .. MAX_RESPAWNS
      BY <1>9, <2>2 DEF MonInsert, Entries, WorkerEntry, Mons
    <3>2. entry'[v] = [entry[v] EXCEPT !.pid = mon[v].child, !.respawns = @ + 1]
      BY <1>9, <2>2 DEF MonInsert, Entries
    <3>3. entry'[v] \in WorkerEntry /\ entry'[v].pid = mon[v].child
      BY <3>1, <3>2 DEF WorkerEntry
    <3>4. entry'[v] # None
      BY <3>3
    <3> QED
      BY <1>0, <1>9, <2>2, <3>3, <3>4, MonTo DEF MonInsert
  <2> QED
    BY <2>1, <2>2
<1>10. CASE MonFailed(v)
  <2>1. CASE entry[v] = None
    BY <1>0, <1>10, <2>1, MonTo DEF MonFailed
  <2>2. CASE entry[v] # None
    <3>1. entry[v] \in WorkerEntry /\ entry[v].respawns + 1 \in 0 .. MAX_RESPAWNS
      BY <1>10, <2>2 DEF MonFailed, Entries, WorkerEntry
    <3>2. entry'[v] = [entry[v] EXCEPT !.respawns = @ + 1]
      BY <1>10, <2>2 DEF MonFailed, Entries
    <3>3. entry'[v] \in WorkerEntry
      BY <3>1, <3>2 DEF WorkerEntry
    <3>4. entry'[v] # None
      BY <3>3
    <3>5. mon[v].child = None
      BY <1>10 DEF MonFailed
    <3> QED
      BY <1>0, <1>10, <2>2, <3>3, <3>4, <3>5, MonTo DEF MonFailed
  <2> QED
    BY <2>1, <2>2
<1>11. CASE MonStopDelete(v)
  BY <1>0, <1>11, MonTo DEF MonStopDelete
<1>12. CASE MonStopKill(v)
  <2>1. mon'[v].pc = "done" /\ mon'[v].child = None
    BY <1>12 DEF MonStopKill, Mons
  <2> QED
    BY <1>12, <2>1 DEF MonStopKill
<1> QED
  BY <1>1, <1>2, <1>3, <1>4, <1>5, <1>6, <1>7, <1>8, <1>9, <1>10, <1>11, <1>12
  DEF AttachStep, MonStep

LEMMA VolumesStep ==
  ASSUME Typed, \A v \in Vm : VolumeOK(v), [Next]_vars
  PROVE  (\A v \in Vm : VolumeOK(v))'
<1> SUFFICES ASSUME NEW w \in Vm PROVE VolumeOK(w)'
  OBVIOUS
<1>1. ASSUME NEW v \in Vm,
             AttachStep(v) \/ DetachRemove(v) \/ DetachStep(v) \/ MonStep(v)
      PROVE  VolumeOK(w)'
  <2>1. CASE w = v
    BY <1>1, <2>1, OwnVolume
  <2>2. CASE w # v
    BY <1>1, <2>2, OtherVolumes, SameVolume
  <2> QED
    BY <2>1, <2>2
<1>2. CASE UNCHANGED vars \/ \E p \in Pid : WorkerExit(p)
  <2>1. Same(w)
    BY <1>2 DEF vars, WorkerExit, Same
  <2> QED
    BY <2>1, SameVolume
<1>3. CASE Restart
  <2>1. /\ entry'[w] = None
        /\ task'[w].pc \in {"new", "done"}
        /\ task'[w].pc = "new" => mon[w].pc = "none"
        /\ mon'[w].pc = IF mon[w].pc = "none" THEN "none" ELSE "done"
        /\ mon'[w].child = None
    BY <1>3 DEF Restart, VolumeOK, PhaseOK
  <2> QED
    BY <2>1 DEF VolumeOK, PhaseOK, Respawning, EntryNames, Formatting, Stopping
<1> QED
  BY <1>1, <1>2, <1>3, Zenon DEF Next

-----------------------------------------------------------------------------
(* The children of attaches and monitors. *)

(* The process a volume's attach or monitor waits for. *)
Child(p, v) == \/ mon[v].child = p
               \/ task[v].pc \in Formatting /\ task[v].pid = p

Family == /\ \A v \in Vm, p \in Pid : Child(p, v) => Known(p, v)
          /\ \A v \in Vm, p \in Pid : Known(p, v) /\ proc[p].st = "live" => Child(p, v)

LEMMA FamilyIs ==
  ASSUME Typed, \A v \in Vm : VolumeOK(v)
  PROVE  Family <=> ChildrenOK
<1>1. \A v \in Vm : /\ mon[v].child # None => mon[v].child \in Pid
                    /\ task[v].pc \in Formatting => task[v].pid \in Pid
  BY DEF Typed, Mons, VolumeOK, PhaseOK
<1> QED
  BY <1>1, NoneAssumption DEF Family, ChildrenOK, Child, Known

(* Nobody has two children, and nobody's child is another's. *)
LEMMA OneParent ==
  ASSUME Family, NEW v \in Vm, NEW w \in Vm, NEW p \in Pid, Child(p, v), Child(p, w)
  PROVE  v = w
BY DEF Family, Known

(* The processes stay, and the children with them. *)
LEMMA KeepFamily ==
  ASSUME Family, UNCHANGED proc,
         \A v \in Vm, p \in Pid : Child(p, v)' <=> Child(p, v)
  PROVE  Family'
BY DEF Family, Known

(* A process ends, by itself or killed by pid; its parent may reap it. *)
LEMMA EndFamily ==
  ASSUME Typed, Family, NEW p \in Pid, Running(p), proc' = Ended(p),
         \A v \in Vm, q \in Pid : Child(q, v)' <=> Child(q, v)
  PROVE  Family'
<1>1. /\ \A q \in Pid : q # p => proc'[q] = proc[q]
      /\ proc[p].st = "lost" => proc'[p] = None
      /\ proc[p].st = "live" => /\ proc'[p] # None
                                /\ proc'[p].st = "zombie"
                                /\ proc'[p].vm = proc[p].vm
  BY EndedProc DEF Typed
<1>2. proc[p] # None /\ proc[p].st \in {"live", "lost"}
  BY DEF Running
<1> QED
  BY <1>1, <1>2 DEF Family, Known

(* A parent reaps its child. *)
LEMMA ReapFamily ==
  ASSUME Family, NEW v \in Vm, NEW c \in Pid, Child(c, v),
         proc'[c] = None, \A q \in Pid : q # c => proc'[q] = proc[q],
         \A w \in Vm, q \in Pid : q # c => (Child(q, w)' <=> Child(q, w)),
         \A w \in Vm : w # v => (Child(c, w)' <=> Child(c, w)),
         ~Child(c, v)'
  PROVE  Family'
<1>1. \A w \in Vm : ~Child(c, w)'
  BY OneParent
<1> QED
  BY <1>1 DEF Family, Known

(* A new worker is its parent's child, or lost. *)
LEMMA SpawnFamily ==
  ASSUME Typed, Family, NEW v \in Vm, NEW p \in Pid, NEW st \in {"live", "lost"},
         NEW d \in Dev, proc[p] = None,
         proc' = [proc EXCEPT ![p] = [st |-> st, vm |-> v, dev |-> d]],
         \A w \in Vm, q \in Pid : (q # p \/ w # v) => (Child(q, w)' <=> Child(q, w)),
         Child(p, v)' <=> st = "live"
  PROVE  Family'
<1>1. /\ \A q \in Pid : q # p => proc'[q] = proc[q]
      /\ proc'[p] = [st |-> st, vm |-> v, dev |-> d]
  BY DEF Typed, Procs
<1>2. proc'[p] # None
  BY <1>1, NoneAssumption DEF Process, ProcSt
<1>3. \A w \in Vm : ~Child(p, w)
  BY DEF Family, Known
<1> QED
  BY <1>1, <1>2, <1>3 DEF Family, Known

LEMMA AttachFamily ==
  ASSUME Typed, Family, NEW v \in Vm, VolumeOK(v), AttachStep(v),
         \A w \in Vm : w # v => Same(w)
  PROVE  Family'
<1> USE NoneAssumption
<1>0. \A pc \in {"spawn", "done", "up", "mkfsDel", "mkfsKill"} : pc \in TaskPc
  BY DEF TaskPc
<1>a. \A w \in Vm, q \in Pid : w # v => (Child(q, w)' <=> Child(q, w))
  BY DEF Same, Child
<1>b. task[v].pc \in Formatting \cup {"new", "spawn"} => mon[v].child = None
  BY DEF VolumeOK, PhaseOK
<1>1. CASE Attach(v) \/ AttachMkfsFails(v) \/ AttachStopDelete(v)
  <2>1. \A q \in Pid : Child(q, v)' <=> Child(q, v)
    BY <1>0, <1>1, TaskTo DEF Attach, AttachMkfsFails, AttachStopDelete, Child,
       Formatting, Typed
  <2> QED
    BY <1>1, <1>a, <2>1, KeepFamily DEF Attach, AttachMkfsFails, AttachStopDelete
<1>2. CASE AttachSpawn(v)
  <2>0. task[v].pc = "spawn" /\ "spawn" \notin Formatting /\ UNCHANGED mon
    BY <1>2 DEF AttachSpawn, Formatting
  <2>1. CASE TaskGoto(v, "done") /\ UNCHANGED <<proc, device>>
    <3>1. \A q \in Pid : Child(q, v)' <=> Child(q, v)
      BY <1>0, <2>0, <2>1, TaskTo DEF Child, Formatting, Typed
    <3> QED
      BY <1>a, <2>1, <3>1, KeepFamily
  <2>2. ASSUME NEW p \in Pid, NEW d \in Dev, NEW st \in {"live", "lost"},
               proc[p] = None,
               proc' = [proc EXCEPT ![p] = [st |-> st, vm |-> v, dev |-> d]],
               task' = [task EXCEPT ![v] =
                          IF st = "live" THEN [pc |-> "mkfs", dev |-> d, pid |-> p]
                                         ELSE [@ EXCEPT !.pc = "done"]]
        PROVE  Family'
    <3>1. \/ st = "live" /\ task'[v].pc = "mkfs" /\ task'[v].pid = p
          \/ st = "lost" /\ task'[v].pc = "done"
      BY <2>2 DEF Typed, Tasks
    <3>2. \A q \in Pid : /\ q # p => (Child(q, v)' <=> Child(q, v))
                         /\ Child(p, v)' <=> st = "live"
      BY <1>b, <2>0, <3>1 DEF Child, Formatting
    <3>3. \A w \in Vm, q \in Pid :
             (q # p \/ w # v) => (Child(q, w)' <=> Child(q, w))
      BY <1>a, <3>2, Zenon
    <3>4. Child(p, v)' <=> st = "live"
      BY <3>2, Zenon
    <3> QED
      BY <2>2, <3>3, <3>4, SpawnFamily, Zenon
  <2> QED
    BY <1>2, <2>1, <2>2 DEF AttachSpawn
<1>3. CASE AttachMkfs(v)
  <2>1. /\ task[v].pc = "mkfs" /\ task'[v].pc = "up"
        /\ mon'[v].child = task[v].pid
    BY <1>0, <1>3, TaskTo DEF AttachMkfs, Typed, Mons
  <2>2. \A q \in Pid : Child(q, v)' <=> Child(q, v)
    BY <1>b, <2>1 DEF Child, Formatting
  <2> QED
    BY <1>3, <1>a, <2>2, KeepFamily DEF AttachMkfs
<1>4. CASE AttachStopKill(v)
  <2>1. PICK c \in Pid : c = task[v].pid
    BY <1>4 DEF AttachStopKill, VolumeOK, PhaseOK, Formatting
  <2>2. task[v].pc = "mkfsKill" /\ task'[v].pc = "done" /\ UNCHANGED mon
    BY <1>0, <1>4, TaskTo DEF AttachStopKill, Typed
  <2>3. /\ Child(c, v) /\ ~Child(c, v)'
        /\ \A q \in Pid : q # c => (Child(q, v)' <=> Child(q, v))
    BY <1>b, <2>1, <2>2 DEF Child, Formatting
  <2>4. proc'[c] = None /\ \A q \in Pid : q # c => proc'[q] = proc[q]
    BY <1>4, <2>1 DEF AttachStopKill, KillReap, Typed, Procs
  <2> QED
    BY <1>a, <2>3, <2>4, ReapFamily
<1>5. CASE AttachDropped(v)
  <2>1. PICK c \in Pid : c = task[v].pid
    BY <1>5 DEF AttachDropped, VolumeOK, PhaseOK, Formatting
  <2>2. task[v].pc = "mkfs" /\ task'[v].pc = "done" /\ UNCHANGED mon
    BY <1>0, <1>5, TaskTo DEF AttachDropped, Typed
  <2>3. /\ Child(c, v) /\ ~Child(c, v)'
        /\ \A q \in Pid : q # c => (Child(q, v)' <=> Child(q, v))
    BY <1>b, <2>1, <2>2 DEF Child, Formatting
  <2>4. Known(c, v)
    BY <2>3 DEF Family
  <2>5. \A w \in Vm : ~Child(c, w)'
    BY <1>a, <2>3, OneParent
  <2>6. /\ proc'[c] = None \/ proc'[c].st = "lost"
        /\ \A q \in Pid : q # c => proc'[q] = proc[q]
    BY <1>5, <2>1, <2>4 DEF AttachDropped, Typed, Procs, Process, Known
  <2>7. \A w \in Vm, q \in Pid : q # c => (Child(q, w)' <=> Child(q, w))
    BY <1>a, <2>3
  <2>8. \A w \in Vm : ~Known(c, w)'
    BY <2>6 DEF Known
  <2> QED
    BY <2>5, <2>6, <2>7, <2>8 DEF Family, Known
<1> QED
  BY <1>1, <1>2, <1>3, <1>4, <1>5 DEF AttachStep

LEMMA DetachFamily ==
  ASSUME Typed, Family, NEW v \in Vm, VolumeOK(v), DetachRemove(v) \/ DetachStep(v),
         \A w \in Vm : w # v => Same(w)
  PROVE  Family'
<1>0. \A pc \in {"del", "rm", "done"} : pc \in TaskPc
  BY DEF TaskPc
<1>1. /\ task[v].pc \notin Formatting /\ task'[v].pc \notin Formatting
      /\ UNCHANGED mon
  BY <1>0, TaskTo DEF DetachRemove, DetachStep, DetachKill, DetachDelete,
     DetachRemoveDir, Typed, Formatting, Tasks
<1>2. \A w \in Vm, q \in Pid : Child(q, w)' <=> Child(q, w)
  BY <1>1 DEF Same, Child
<1>3. CASE UNCHANGED proc
  BY <1>2, <1>3, KeepFamily
<1>4. CASE DetachKill(v) /\ Running(task[v].pid)
  <2>1. task[v].pid \in Pid
    BY <1>4 DEF DetachKill, VolumeOK, PhaseOK, Stopping
  <2>2. proc' = Ended(task[v].pid)
    BY <1>4 DEF DetachKill, Ended
  <2> QED
    BY <1>2, <1>4, <2>1, <2>2, EndFamily
<1> QED
  BY <1>3, <1>4 DEF DetachRemove, DetachStep, DetachKill, DetachDelete, DetachRemoveDir

LEMMA MonFamily ==
  ASSUME Typed, Family, NEW v \in Vm, VolumeOK(v), MonStep(v),
         \A w \in Vm : w # v => Same(w)
  PROVE  Family'
<1> USE NoneAssumption
<1>0. \A pc \in {"failed", "insert", "wait", "done", "stopDel", "stopKill"} :
         pc \in MonPc
  BY DEF MonPc
<1>a. \A w \in Vm, q \in Pid : w # v => (Child(q, w)' <=> Child(q, w))
  BY DEF Same, Child
<1>b. mon[v].pc # "none" => task[v].pc \notin Formatting
  BY DEF VolumeOK, PhaseOK
<1>c. UNCHANGED task
  BY DEF MonStep, MonWait, MonRespawn, MonInsert, MonFailed, MonStopDelete, MonStopKill
<1>1. CASE MonInsert(v) \/ MonFailed(v) \/ MonStopDelete(v)
  <2>1. mon'[v].child = mon[v].child
    BY <1>0, <1>1, MonTo DEF MonInsert, MonFailed, MonStopDelete, Typed
  <2>2. \A q \in Pid : Child(q, v)' <=> Child(q, v)
    BY <1>c, <2>1 DEF Child
  <2> QED
    BY <1>1, <1>a, <2>2, KeepFamily DEF MonInsert, MonFailed, MonStopDelete
<1>2. CASE MonRespawn(v)
  <2>0. mon[v].child = None /\ task[v].pc \notin Formatting /\ mon[v].dev \in Dev
    BY <1>2, <1>b DEF MonRespawn, VolumeOK, PhaseOK
  <2>1. CASE MonGoto(v, "failed") /\ UNCHANGED <<proc, device>>
    <3>1. \A q \in Pid : Child(q, v)' <=> Child(q, v)
      BY <1>0, <1>c, <2>1, MonTo DEF Child, Typed
    <3> QED
      BY <1>a, <2>1, <3>1, KeepFamily
  <2>2. ASSUME NEW p \in Pid, NEW st \in {"live", "lost"}, proc[p] = None,
               proc' = [proc EXCEPT ![p] = [st |-> st, vm |-> v, dev |-> mon[v].dev]],
               mon' = [mon EXCEPT ![v] =
                         IF st = "live" THEN [@ EXCEPT !.pc = "insert", !.child = p]
                                        ELSE [@ EXCEPT !.pc = "failed"]]
        PROVE  Family'
    <3>1. mon'[v].child = IF st = "live" THEN p ELSE mon[v].child
      BY <2>2 DEF Typed, Mons
    <3>2. \A q \in Pid : /\ q # p => (Child(q, v)' <=> Child(q, v))
                         /\ Child(p, v)' <=> st = "live"
      BY <1>c, <2>0, <3>1 DEF Child
    <3>3. \A w \in Vm, q \in Pid :
             (q # p \/ w # v) => (Child(q, w)' <=> Child(q, w))
      BY <1>a, <3>2, Zenon
    <3>4. Child(p, v)' <=> st = "live"
      BY <3>2, Zenon
    <3>5. PICK d \in Dev : d = mon[v].dev
      BY <2>0
    <3>6. proc' = [proc EXCEPT ![p] = [st |-> st, vm |-> v, dev |-> d]]
      BY <2>2, <3>5
    <3> QED
      BY <2>2, <3>3, <3>4, <3>6, SpawnFamily, Zenon
  <2> QED
    BY <1>2, <2>1, <2>2 DEF MonRespawn
<1>3. CASE MonWait(v) \/ MonStopKill(v)
  <2>1. mon'[v].child = None /\ task[v].pc \notin Formatting
    BY <1>3, <1>b DEF MonWait, MonStopKill, Typed, Mons
  <2>2. CASE mon[v].child = None
    <3>1. UNCHANGED proc
      BY <1>3, <2>2 DEF MonWait, MonStopKill, Typed, Procs, VolumeOK, PhaseOK
    <3>2. \A q \in Pid : Child(q, v)' <=> Child(q, v)
      BY <1>c, <2>1, <2>2 DEF Child
    <3> QED
      BY <1>a, <3>1, <3>2, KeepFamily
  <2>3. CASE mon[v].child # None
    <3>1. PICK c \in Pid : c = mon[v].child
      BY <2>3 DEF Typed, Mons
    <3>2. proc'[c] = None /\ \A q \in Pid : q # c => proc'[q] = proc[q]
      BY <1>3, <3>1 DEF MonWait, MonStopKill, KillReap, Typed, Procs
    <3>3. /\ Child(c, v) /\ ~Child(c, v)'
          /\ \A q \in Pid : q # c => (Child(q, v)' <=> Child(q, v))
      BY <1>c, <2>1, <3>1 DEF Child
    <3> QED
      BY <1>a, <3>2, <3>3, ReapFamily
  <2> QED
    BY <2>2, <2>3
<1> QED
  BY <1>1, <1>2, <1>3 DEF MonStep

LEMMA FamilyStep ==
  ASSUME Typed, \A v \in Vm : VolumeOK(v), Family, [Next]_vars
  PROVE  Family'
<1>1. ASSUME NEW v \in Vm,
             AttachStep(v) \/ DetachRemove(v) \/ DetachStep(v) \/ MonStep(v)
      PROVE  Family'
  <2>1. \A w \in Vm : w # v => Same(w)
    BY <1>1, OtherVolumes
  <2> QED
    BY <1>1, <2>1, AttachFamily, DetachFamily, MonFamily
<1>2. CASE UNCHANGED vars
  BY <1>2, KeepFamily DEF vars, Child
<1>3. ASSUME NEW p \in Pid, WorkerExit(p) PROVE Family'
  <2>1. /\ Running(p) /\ proc' = Ended(p) /\ UNCHANGED <<task, mon>>
    BY <1>3 DEF WorkerExit, Ended
  <2> QED
    BY <2>1, EndFamily DEF Child
<1>4. CASE Restart
  <2>1. /\ \A p \in Pid : proc'[p] = None
        /\ \A v \in Vm : mon'[v].child = None /\ task'[v].pc \in {"new", "done"}
    BY <1>4 DEF Restart
  <2> QED
    BY <2>1, NoneAssumption DEF Family, Known, Child, Formatting
<1> QED
  BY <1>1, <1>2, <1>3, <1>4, Zenon DEF Next

-----------------------------------------------------------------------------
(* The inductive invariant holds in every state of every behaviour. *)
THEOREM Inductive == Spec => []IInv
<1>1. Init => IInv
  <2> SUFFICES ASSUME Init PROVE IInv
    OBVIOUS
  <2>1. Typed
    BY BoundsAssumption DEF Init, Typed, Entries, Tasks, TaskPc, Mons, MonPc, Procs,
                            Devices
  <2>2. \A v \in Vm : VolumeOK(v)
    BY DEF Init, VolumeOK, PhaseOK, Respawning, EntryNames, Formatting, Stopping
  <2>3. ChildrenOK
    BY DEF Init, ChildrenOK, Formatting
  <2> QED
    BY <2>1, <2>2, <2>3, TypeParts DEF IInv, Typed
<1>2. IInv /\ [Next]_vars => IInv'
  <2> SUFFICES ASSUME IInv, [Next]_vars PROVE IInv'
    OBVIOUS
  <2>1. Typed /\ (\A v \in Vm : VolumeOK(v)) /\ ChildrenOK /\ Family
    BY TypeParts, FamilyIs DEF IInv, Typed
  <2>2. Typed' /\ (\A v \in Vm : VolumeOK(v))' /\ Family'
    BY <2>1, TypeStep, VolumesStep, FamilyStep
  <2>3. ChildrenOK'
    BY <2>2, FamilyIs, PTL
  <2>4. TypeOK'
    BY <2>2, TypeParts, PTL DEF Typed
  <2> QED
    BY <2>2, <2>3, <2>4 DEF IInv
<1> QED
  BY <1>1, <1>2, PTL DEF Spec

-----------------------------------------------------------------------------
(* What follows. *)

(* The map, the tasks, processes and devices have their types; the count   *)
(* of respawns stays within its limit.                                     *)
THEOREM TypeCorrect == Spec => []TypeOK
<1>1. IInv => TypeOK
  BY DEF IInv
<1> QED
  BY <1>1, Inductive, PTL

(* When attach, detach and monitor of a volume are over no worker of it is *)
(* left, but one that hostd lost by a timeout or a dropped request.        *)
THEOREM NoOrphan == Spec => []NoOrphanWorker
<1>1. IInv => NoOrphanWorker
  <2> SUFFICES ASSUME IInv, NEW v \in Vm, NEW p \in Pid, Over(v), Serves(p, v)
               PROVE  proc[p].st = "lost"
    BY Zenon DEF NoOrphanWorker
  <2>1. mon[v].child = None /\ task[v].pc \notin Formatting
    BY DEF IInv, VolumeOK, PhaseOK, Over, Formatting
  <2>2. proc[p] # None /\ proc[p].st \in {"live", "lost"} /\ proc[p].vm = v
    BY DEF Serves, Running
  <2> QED
    BY <2>1, <2>2, NoneAssumption DEF IInv, ChildrenOK
<1> QED
  BY <1>1, Inductive, PTL

(* Detach kills the worker the monitor waits for, respawned or not. *)
THEOREM DetachFinds == Spec => []DetachFindsWorker
<1>1. IInv => DetachFindsWorker
  BY NoneAssumption DEF IInv, VolumeOK, EntryNames, DetachFindsWorker
<1> QED
  BY <1>1, Inductive, PTL

-----------------------------------------------------------------------------
(* The monitor of an attached volume.                                      *)

(* Where the monitor is as long as the volume is attached: it waits for a  *)
(* worker, tries for a new one with respawns left, or has given up for     *)
(* want of respawns.                                                       *)
Attend(v) ==
    entry[v] # None =>
        \/ mon[v].pc = "wait"
        \/ mon[v].pc \in {"respawn", "insert", "failed"} /\ ~Exhausted(v)
        \/ mon[v].pc = "done" /\ Exhausted(v)

(* The steps of a volume's own attach and detach: only the end of attach   *)
(* enters the volume in the map, and it starts the monitor.                *)
LEMMA TaskAttends ==
  ASSUME Typed, NEW v \in Vm, VolumeOK(v), Attend(v),
         AttachStep(v) \/ DetachRemove(v) \/ DetachStep(v)
  PROVE  Attend(v)'
<1>1. CASE AttachMkfs(v)
  <2>1. mon'[v].pc = "wait"
    BY <1>1 DEF AttachMkfs, Typed, Mons
  <2> QED
    BY <2>1 DEF Attend
<1>2. CASE DetachRemove(v)
  <2>1. entry'[v] = None
    BY <1>2 DEF DetachRemove, Typed, Entries
  <2> QED
    BY <2>1 DEF Attend
<1>3. CASE UNCHANGED <<entry, mon>>
  BY <1>3 DEF Attend, Exhausted
<1> QED
  BY <1>1, <1>2, <1>3
  DEF AttachStep, DetachStep, Attach, AttachSpawn, AttachMkfsFails,
      AttachStopDelete, AttachStopKill, AttachDropped, DetachKill,
      DetachDelete, DetachRemoveDir

(* The steps of its monitor. *)
LEMMA MonAttends ==
  ASSUME Typed, NEW v \in Vm, VolumeOK(v), Attend(v), MonStep(v)
  PROVE  Attend(v)'
<1> USE BoundsAssumption DEF Typed
<1>0. \A pc \in {"failed", "insert", "wait", "done", "stopDel", "stopKill"} :
         pc \in MonPc
  BY DEF MonPc
<1>1. entry[v] # None => entry[v] \in WorkerEntry
                         /\ entry[v].respawns \in 0 .. MAX_RESPAWNS
  BY DEF Entries, WorkerEntry
<1>2. CASE MonWait(v)
  <2>1. /\ mon'[v].pc = IF entry[v] = None \/ Exhausted(v) THEN "done" ELSE "respawn"
        /\ entry' = entry
    BY <1>2 DEF MonWait, Mons
  <2> QED
    BY <2>1 DEF Attend, Exhausted
<1>3. CASE MonRespawn(v)
  <2>1. /\ mon'[v].pc \in {"insert", "failed"} /\ mon[v].pc = "respawn"
        /\ entry' = entry
    <3>1. CASE MonGoto(v, "failed")
      BY <1>0, <1>3, <3>1, MonTo DEF MonRespawn
    <3>2. ASSUME NEW p \in Pid, NEW st \in {"live", "lost"},
                 mon' = [mon EXCEPT ![v] =
                           IF st = "live" THEN [@ EXCEPT !.pc = "insert", !.child = p]
                                          ELSE [@ EXCEPT !.pc = "failed"]]
          PROVE  mon'[v].pc \in {"insert", "failed"}
      BY <3>2 DEF Mons
    <3> QED
      BY <1>3, <3>1, <3>2 DEF MonRespawn
  <2> QED
    BY <2>1 DEF Attend, Exhausted
<1>4. CASE MonInsert(v)
  <2>1. CASE entry[v] = None
    BY <1>4, <2>1 DEF MonInsert, Attend
  <2>2. CASE entry[v] # None
    <3>1. mon'[v].pc = "wait"
      BY <1>0, <1>4, <2>2, MonTo DEF MonInsert
    <3> QED
      BY <3>1 DEF Attend
  <2> QED
    BY <2>1, <2>2
<1>5. CASE MonFailed(v)
  <2>1. CASE entry[v] = None
    BY <1>5, <2>1 DEF MonFailed, Attend
  <2>2. CASE entry[v] # None
    <3>1. entry'[v].respawns = entry[v].respawns + 1
      BY <1>1, <1>5, <2>2 DEF MonFailed, Entries, WorkerEntry
    <3>2. mon'[v].pc = IF entry[v].respawns + 1 >= MAX_RESPAWNS THEN "done"
                                                               ELSE "wait"
      BY <1>0, <1>5, <2>2, MonTo DEF MonFailed
    <3> QED
      BY <3>1, <3>2 DEF Attend, Exhausted
  <2> QED
    BY <2>1, <2>2
<1>6. CASE MonStopDelete(v) \/ MonStopKill(v)
  <2>1. entry[v] = None /\ entry' = entry
    BY <1>6 DEF MonStopDelete, MonStopKill, Attend
  <2> QED
    BY <2>1 DEF Attend
<1> QED
  BY <1>2, <1>3, <1>4, <1>5, <1>6 DEF MonStep

LEMMA AttendStep ==
  ASSUME Typed, \A v \in Vm : VolumeOK(v), \A v \in Vm : Attend(v), [Next]_vars
  PROVE  \A v \in Vm : Attend(v)'
<1> SUFFICES ASSUME NEW w \in Vm PROVE Attend(w)'
  OBVIOUS
<1>1. ASSUME NEW v \in Vm,
             AttachStep(v) \/ DetachRemove(v) \/ DetachStep(v) \/ MonStep(v)
      PROVE  Attend(w)'
  <2>1. CASE w = v
    BY <1>1, <2>1, TaskAttends, MonAttends
  <2>2. CASE w # v
    BY <1>1, <2>2, OtherVolumes DEF Same, Attend, Exhausted
  <2> QED
    BY <2>1, <2>2
<1>2. CASE UNCHANGED vars \/ \E p \in Pid : WorkerExit(p)
  BY <1>2 DEF vars, WorkerExit, Attend, Exhausted
<1>3. CASE Restart
  BY <1>3 DEF Restart, Attend
<1> QED
  BY <1>1, <1>2, <1>3, Zenon DEF Next

(* Module docs: a dead worker is respawned, or its respawns are exhausted. *)
(* At no time is an attached volume forgotten: its monitor either waits    *)
(* for a worker that is its own child and serves or has died as this       *)
(* volume's, or goes round for a new one with respawns left, or has given  *)
(* up because there are none.  (That the monitor takes its steps is what   *)
(* CrashHandled adds, which is liveness.)                                  *)
MonitorAttends ==
    \A v \in Vm : Attached(v) =>
        \/ mon[v].pc = "wait" /\ (mon[v].child # None => Known(mon[v].child, v))
        \/ mon[v].pc \in {"respawn", "insert", "failed"} /\ ~Exhausted(v)
        \/ mon[v].pc = "done" /\ Exhausted(v)

THEOREM NeverForgotten == Spec => []MonitorAttends
<1> DEFINE Attending == \A v \in Vm : Attend(v)
<1>1. Init => Attending
  BY DEF Init, Attend
<1>2. IInv /\ Attending /\ [Next]_vars => Attending'
  BY AttendStep, TypeParts DEF IInv, Typed
<1>3. IInv /\ Attending => MonitorAttends
  BY DEF IInv, ChildrenOK, Attend, MonitorAttends, Attached
<1> QED
  BY <1>1, <1>2, <1>3, Inductive, PTL DEF Spec
=============================================================================

------------------------------ MODULE Schedule ------------------------------
(***************************************************************************)
(* The cron scheduler of hostd and one VM in schedule mode.  A fire spawns *)
(* a run, unless the per-VM run lock is held: wake the VM, run its cmd as  *)
(* a workload, wait for the end (at most timeout_secs, if configured), and *)
(* snapshot the VM whatever the outcome.                                   *)
(*                                                                         *)
(* The VM is AbstractVm, whose steps VmLifecycle takes: the runs and the   *)
(* management API (the actor Api) take its steps.  The VM's process may    *)
(* die and the VM may be destroyed at any moment; an API call may be       *)
(* dropped between its two transitions.                                    *)
(*                                                                         *)
(* The workload of a run is what the run can tell apart of Workload: what  *)
(* hostd believes of it (wl), what the guest does (job), whether the       *)
(* request to stop it has arrived (stop), all over one control connection  *)
(* (conn) that a kill of Firecracker cuts.  A schedule VM has no idle      *)
(* detector, so after a cut only a call that needs the guest reconnects.   *)
(*                                                                         *)
(* Left out: the wake lock (in VmLifecycle; here a waker waits for the     *)
(* state alone) and the guest's progress between a snapshot's transition   *)
(* and Firecracker's pause (here it comes before the transition).  Whether *)
(* a cron expression has an occurrence in the window of a tick is left     *)
(* open: any tick may find the VM due.                                     *)
(***************************************************************************)
EXTENDS Naturals, FiniteSets

CONSTANTS
    Run,          \* tasks of run_scheduled that exist at one time
    Proc,         \* Firecracker processes
    Lock,         \* run locks that exist at one time
    Api,          \* the management API, another actor
    None,
    ApiOps,       \* the operations that are called through the API
    HasTimeout,   \* VmConfig.timeout_secs is given
    MaxAbandons   \* bound: API calls dropped by a disconnect

VARIABLES
    state, from, present, live, saved,   \* the VM, as in AbstractVm
    upBy,       \* history: who last made it Started (None: a failed snapshot of a run)
    pc,         \* where each run and the API call are
    due,        \* this tick found the VM due and has not spawned its run yet
    entry,      \* the VM's lock in ScheduleRunLocks
    holds,      \* the lock each run holds
    cleaning,   \* a destroy has removed the VM and not yet its run lock
    conn,       \* hostd has a control connection to the guest
    wl,         \* hostd's view of the workload of each run
    job,        \* the workload in the guest
    stop,       \* the request to stop it
    abandons    \* dropped API calls so far (bounded)

vm == <<state, from, present, live, saved>>
locks == <<due, entry, cleaning>>
work == <<conn, wl, job, stop>>
vars == <<vm, upBy, pc, holds, locks, work, abandons>>

Vm == INSTANCE AbstractVm

Actor == Run \cup {Api}

ASSUME ScheduleAssumption ==
    /\ Api \notin Run /\ None \notin Run \cup Lock \cup {Api}
    /\ ApiOps \subseteq Vm!Operation
    /\ HasTimeout \in BOOLEAN /\ MaxAbandons \in Nat

-----------------------------------------------------------------------------
(* Where an actor can be. *)

Entering == [Starting |-> "startBegin", Suspending |-> "snapBegin",
             Restoring |-> "restoreBegin"]

First == [Starting |-> "startEnd", Pausing |-> "pauseEnd",
          Resuming |-> "resumeEnd", Suspending |-> "snapSave",
          Restoring |-> "restoreSpawn"]

(* The actor goes on; a run that returns drops its guard of the run lock.  *)
To(a, step) ==
    /\ pc' = [pc EXCEPT ![a] = step]
    /\ holds' = IF step = "idle" THEN [holds EXCEPT ![a] = None] ELSE holds

(* What follows an operation on the VM.  A run that cannot wake its VM     *)
(* goes on to suspend it all the same; the final snapshot ends the run.    *)
Done(a, op) == IF a = Api \/ op = "Suspending" THEN "idle" ELSE "launch"

(* A run that has returned no longer looks at its workload; what is left   *)
(* of it in the guest goes on.                                             *)
Leave(a, step) ==
    /\ To(a, step)
    /\ wl' = IF a # Api /\ step = "idle" THEN [wl EXCEPT ![a] = "none"] ELSE wl
    /\ UNCHANGED <<conn, job, stop>>

Failed(a, op) == IF a = Api \/ op = "Suspending" THEN "idle" ELSE "settle"

Init ==
    /\ state = "Created" /\ from = "Destroyed"
    /\ present = TRUE /\ saved = FALSE
    /\ \E p \in Proc : live = {p}
    /\ upBy = None
    /\ pc = [a \in Actor |-> "idle"] /\ holds = [a \in Actor |-> None]
    /\ due = FALSE /\ entry = None /\ cleaning = FALSE
    /\ conn = FALSE /\ wl = [r \in Run |-> "none"]
    /\ job = [r \in Run |-> "none"] /\ stop = [r \in Run |-> "no"]
    /\ abandons = 0

-----------------------------------------------------------------------------
(* The guest *)

(* Its kernel and guestd run. *)
Running == live # {} /\ state = "Started"

(* The connection goes, and with it the requests under way.                *)
Cut(jobs) ==
    /\ conn' = FALSE
    /\ job' = [r \in Run |-> IF job[r] \in jobs THEN "lost" ELSE job[r]]
    /\ stop' = [r \in Run |-> IF stop[r] = "sent" THEN "no" ELSE stop[r]]
    /\ UNCHANGED wl

(* A guest that is frozen in a snapshot keeps its processes.               *)
Frozen == Cut({"sent"})
Dead == Cut({"sent", "running"})

-----------------------------------------------------------------------------
(* Operations on the VM, by a run or through the API *)

(* The look-up and the first transition, which are two lock scopes: a VM   *)
(* destroyed in between takes the transition.                              *)
Begin(r, op) ==
    /\ pc[r] = Entering[op]
    /\ \/ Vm!Begin(op) /\ Leave(r, First[op])
       \/ /\ state \notin Vm!Begins[op] \/ ~present
          /\ Leave(r, Failed(r, op)) /\ UNCHANGED vm
    /\ UNCHANGED <<upBy, locks, abandons>>

(* The VM is Started again: by whom. *)
Raised(a) == upBy' = IF state' = "Started" THEN a ELSE upBy

(* start_vm, pause_vm, resume_vm *)
Finish(a, op) ==
    /\ op \in {"Starting", "Pausing", "Resuming"}
    /\ pc[a] = First[op]
    /\ \/ live # {} /\ Vm!Complete /\ To(a, Done(a, op))
       \/ Vm!RollBack /\ live' = live /\ To(a, Failed(a, op))
    /\ Raised(a)
    /\ UNCHANGED <<locks, work, abandons>>

RestoreSpawn(a) ==
    /\ pc[a] = "restoreSpawn"
    /\ \/ \E p \in Proc \ live : Vm!PowerOn(p) /\ To(a, "restoreEnd")
       \/ Vm!RollBack /\ live' = live /\ To(a, Failed(a, "Restoring"))
    /\ UNCHANGED <<upBy, locks, work, abandons>>

(* Load the snapshot and hand the process to the map entry.  A VM that was *)
(* destroyed meanwhile has none, and the process is dropped.               *)
RestoreEnd(a) ==
    /\ pc[a] = "restoreEnd"
    /\ \/ present /\ live # {} /\ Vm!Complete /\ To(a, Done(a, "Restoring"))
       \/ Vm!RollBack /\ live' = {} /\ To(a, Failed(a, "Restoring"))
       \/ /\ ~present /\ live' = {}
          /\ To(a, Failed(a, "Restoring"))
          /\ UNCHANGED <<state, from, present, saved>>
    /\ Raised(a)
    /\ UNCHANGED <<locks, work, abandons>>

SnapSave(a) ==
    /\ pc[a] = "snapSave"
    /\ \/ live # {} /\ Vm!Save /\ To(a, "snapKill")
       \/ Vm!Spoil /\ To(a, "snapUndo")
       \/ To(a, "snapUndo") /\ UNCHANGED vm
    /\ UNCHANGED <<upBy, locks, work, abandons>>

SnapKill(a) ==
    /\ pc[a] = "snapKill"
    /\ \/ \E p \in live : Vm!PowerOff(p) /\ Frozen
       \/ /\ live = {} \/ ~present     \* it died, or a destroy took it
          /\ UNCHANGED <<vm, work>>
    /\ To(a, "snapEnd")
    /\ UNCHANGED <<upBy, locks, abandons>>

SnapEnd(a) ==
    /\ pc[a] = "snapEnd"
    /\ Vm!Complete
    /\ Leave(a, Done(a, "Suspending"))
    /\ UNCHANGED <<upBy, locks, abandons>>

(* Started, whatever it was before.                                        *)
SnapUndo(a) ==
    /\ pc[a] = "snapUndo"
    /\ Vm!SnapshotUndone
    /\ upBy' = IF a = Api THEN Api ELSE None
    /\ Leave(a, Failed(a, "Suspending"))
    /\ UNCHANGED <<locks, abandons>>

VmStep(a) ==
    \/ \E op \in Vm!Operation : Finish(a, op)
    \/ RestoreSpawn(a) \/ RestoreEnd(a)
    \/ SnapSave(a) \/ SnapKill(a) \/ SnapEnd(a) \/ SnapUndo(a)

-----------------------------------------------------------------------------
(* The scheduler loop *)

(* One tick looks for due VMs under the lock of the map ...                *)
FireDue ==
    /\ ~due /\ present
    /\ due' = TRUE
    /\ UNCHANGED <<vm, upBy, pc, holds, entry, cleaning, work, abandons>>

Held(l) == \E r \in Run : holds[r] = l

(* lock_for: the VM's lock, or a new one (an unheld lock is as good).      *)
LockFor(l) == l = entry \/ (entry = None /\ ~Held(l))

(* Mutant: the guard is not moved into the task. *)
SpawnRunUnguarded(r) ==
    /\ due /\ pc[r] = "idle" /\ job[r] \notin {"sent", "running"}
    /\ due' = FALSE
    /\ \E l \in Lock :
          /\ LockFor(l)
          /\ entry' = l
          /\ ~Held(l) /\ pc' = [pc EXCEPT ![r] = "look"]
    /\ job' = [job EXCEPT ![r] = "none"] /\ stop' = [stop EXCEPT ![r] = "no"]
    /\ UNCHANGED <<vm, upBy, holds, cleaning, conn, wl, abandons>>

(* ... and then spawns a run for each, unless one holds the lock.          *)
(* (The workload of an earlier run may still be in the guest; its task     *)
(* stays its own.)                                                         *)
SpawnRun(r) ==
    /\ due /\ pc[r] = "idle" /\ job[r] \notin {"sent", "running"}
    /\ due' = FALSE
    /\ \E l \in Lock :
          /\ LockFor(l) /\ ~Held(l)
          /\ entry' = l
          /\ pc' = [pc EXCEPT ![r] = "look"]
          /\ holds' = [holds EXCEPT ![r] = l]
    /\ job' = [job EXCEPT ![r] = "none"] /\ stop' = [stop EXCEPT ![r] = "no"]
    /\ UNCHANGED <<vm, upBy, cleaning, conn, wl, abandons>>

SkipFire ==
    /\ due /\ entry # None /\ Held(entry)
    /\ due' = FALSE
    /\ UNCHANGED <<vm, upBy, pc, holds, entry, cleaning, work, abandons>>

-----------------------------------------------------------------------------
(* run_scheduled: steps that leave the VM and the locks alone *)

RunGoto(r, step) ==
    /\ To(r, step)
    /\ UNCHANGED <<vm, upBy, locks, abandons>>

(* The first match on the state: anything else is an error.                *)
Look(r) ==
    /\ pc[r] = "look"
    /\ RunGoto(r, CASE present /\ state = "Suspended" -> "wake"
                    [] present /\ state = "Created" -> "startBegin"
                    [] present /\ state = "Started" -> "launch"
                    [] OTHER -> "settle")
    /\ UNCHANGED work

(* ensure_started: one round of the loop.  While a snapshot or restore of  *)
(* another actor is in flight it waits, until its deadline.                *)
Wake(r) ==
    /\ pc[r] = "wake"
    /\ RunGoto(r, CASE present /\ state = "Suspended" -> "restoreBegin"
                    [] present /\ state = "Started" -> "launch"
                    [] OTHER -> "settle")
    /\ UNCHANGED work

(* start_workload wants a started VM. *)
Launch(r) ==
    /\ pc[r] = "launch"
    /\ RunGoto(r, IF present /\ state = "Started" THEN "connect" ELSE "settle")
    /\ UNCHANGED work

(* Mutant: an error of the connection ends the run. *)
GuestConnReturns(r, step, next) ==
    /\ pc[r] = step
    /\ \/ conn /\ RunGoto(r, next) /\ UNCHANGED work
       \/ /\ ~conn /\ present /\ Running
          /\ conn' = TRUE
          /\ RunGoto(r, next) /\ UNCHANGED <<wl, job, stop>>
       \/ /\ ~conn /\ Leave(r, "idle")
          /\ UNCHANGED <<vm, upBy, locks, abandons>>

(* guest_conn: the connection there is, or a new one as soon as the guest  *)
(* answers, or an error after a minute.                                    *)
GuestConn(r, step, next) ==
    /\ pc[r] = step
    /\ \/ conn /\ RunGoto(r, next) /\ UNCHANGED work
       \/ /\ ~conn /\ present /\ Running
          /\ conn' = TRUE
          /\ RunGoto(r, next) /\ UNCHANGED <<wl, job, stop>>
       \/ ~conn /\ RunGoto(r, "settle") /\ UNCHANGED work

(* Register the workload and send the request.  A connection that is gone  *)
(* refuses it, or takes it and loses it when its task has not noticed yet. *)
Send(r) ==
    /\ pc[r] = "send"
    /\ \/ /\ present
          /\ wl' = [wl EXCEPT ![r] = "active"]
          /\ job' = [job EXCEPT ![r] = IF conn THEN "sent" ELSE "lost"]
          /\ RunGoto(r, "poll") /\ UNCHANGED <<conn, stop>>
       \/ /\ ~present \/ ~conn
          /\ RunGoto(r, "settle") /\ UNCHANGED work

(* await_workload: until the workload has ended, or the VM is gone, or the *)
(* timeout has elapsed.                                                    *)
Poll(r) ==
    /\ pc[r] = "poll"
    /\ IF present /\ wl[r] = "active" THEN HasTimeout /\ RunGoto(r, "stopConn")
                                      ELSE RunGoto(r, "settle")
    /\ UNCHANGED work

(* stop_workload: refused when the workload has ended meanwhile.           *)
StopSend(r) ==
    /\ pc[r] = "stopSend"
    /\ \/ /\ present /\ wl[r] = "active"
          /\ stop' = [stop EXCEPT ![r] = IF conn THEN "sent" ELSE "no"]
          /\ RunGoto(r, "drain") /\ UNCHANGED <<conn, wl, job>>
       \/ /\ ~(present /\ wl[r] = "active" /\ conn)
          /\ RunGoto(r, "settle") /\ UNCHANGED work

(* Mutant: the state after the stop is not waited for. *)
DrainWaitsForRunning(r) ==
    /\ pc[r] = "drain"
    /\ ~present
    /\ RunGoto(r, "settle")
    /\ UNCHANGED work

(* Wait for the exit event, without a bound.                               *)
Drain(r) ==
    /\ pc[r] = "drain"
    /\ ~present \/ wl[r] = "ended"
    /\ RunGoto(r, "settle")
    /\ UNCHANGED work

(* Back to Suspended if the VM is Started, on failures too.                *)
Settle(r) ==
    /\ pc[r] = "settle"
    /\ Leave(r, IF present /\ state = "Started" THEN "snapBegin" ELSE "idle")
    /\ UNCHANGED <<vm, upBy, locks, abandons>>

RunStep(r) ==
    \/ Look(r) \/ Wake(r) \/ Launch(r) \/ Send(r) \/ Poll(r)
    \/ GuestConn(r, "connect", "send") \/ GuestConn(r, "stopConn", "stopSend")
    \/ StopSend(r) \/ Drain(r) \/ Settle(r)
    \/ VmStep(r)
    \/ \E op \in DOMAIN Entering : Begin(r, op)

-----------------------------------------------------------------------------
(* guestd and the workload's processes.  A guest that runs spoils the      *)
(* snapshot it came from.                                                  *)

GuestDoes == Running /\ (Vm!Spoil \/ (~saved /\ UNCHANGED vm))

GuestOnly == UNCHANGED <<upBy, pc, holds, locks, conn, wl, abandons>>

(* The request arrives; a spawn that fails is an end at once.              *)
JobStarts(r) ==
    /\ GuestDoes /\ job[r] = "sent"
    /\ \E now \in {"running", "ended"} : job' = [job EXCEPT ![r] = now]
    /\ GuestOnly /\ UNCHANGED stop

JobEnds(r) ==
    /\ GuestDoes /\ job[r] = "running"
    /\ job' = [job EXCEPT ![r] = "ended"]
    /\ GuestOnly /\ UNCHANGED stop

(* SIGTERM, then SIGKILL.  guestd answers for a workload it never got.     *)
TakeStop(r) ==
    /\ GuestDoes /\ stop[r] = "sent" /\ job[r] # "sent"
    /\ stop' = [stop EXCEPT ![r] = "taken"]
    /\ job' = [job EXCEPT ![r] = IF @ = "lost" THEN "ended" ELSE @]
    /\ GuestOnly

(* hostd reads the exit event, or the list after a reconnect.              *)
Hear(r) ==
    /\ conn /\ present /\ job[r] = "ended" /\ wl[r] = "active"
    /\ wl' = [wl EXCEPT ![r] = "ended"]
    /\ UNCHANGED <<vm, upBy, pc, holds, locks, conn, job, stop, abandons>>

GuestStep(r) == JobStarts(r) \/ JobEnds(r) \/ TakeStop(r) \/ Hear(r)

(* Firecracker dies.  What a complete snapshot has is not lost.            *)
FcExit ==
    /\ \E p \in live : Vm!PowerOff(p)
    /\ IF saved THEN Frozen ELSE Dead
    /\ UNCHANGED <<upBy, pc, holds, locks, abandons>>

-----------------------------------------------------------------------------
(* The management API *)

ApiCall(op) ==
    /\ pc[Api] = "idle" /\ present
    /\ Vm!Begin(op)
    /\ To(Api, First[op])
    /\ UNCHANGED <<upBy, locks, work, abandons>>

(* The client goes away: nobody takes the second transition.  A process    *)
(* that is being restored is dropped.                                      *)
ApiAbandon ==
    /\ pc[Api] # "idle" /\ abandons < MaxAbandons
    /\ abandons' = abandons + 1
    /\ To(Api, "idle")
    /\ live' = IF pc[Api] = "restoreEnd" THEN {} ELSE live
    /\ UNCHANGED <<state, from, present, saved, upBy, locks, work>>

(* exec and the workloads API need the guest, too. *)
ApiConnect ==
    /\ ~conn /\ present /\ Running
    /\ conn' = TRUE
    /\ UNCHANGED <<vm, upBy, pc, holds, locks, wl, job, stop, abandons>>

(* The VM leaves the map first; its run lock goes last.                    *)
ApiDestroy ==
    /\ Vm!Destroy
    /\ cleaning' = TRUE
    /\ Dead
    /\ UNCHANGED <<upBy, pc, holds, due, entry, abandons>>

DestroyCleanup ==
    /\ cleaning
    /\ cleaning' = FALSE /\ entry' = None
    /\ UNCHANGED <<vm, upBy, pc, holds, due, work, abandons>>

ApiStep ==
    \/ \E op \in ApiOps : ApiCall(op)
    \/ VmStep(Api) \/ ApiAbandon \/ ApiConnect \/ ApiDestroy \/ DestroyCleanup

-----------------------------------------------------------------------------
Next ==
    \/ FireDue \/ SkipFire \/ FcExit \/ ApiStep
    \/ \E r \in Run : SpawnRun(r) \/ RunStep(r) \/ GuestStep(r)

(* A run is a task of its own that nobody cancels, and every await of it   *)
(* but the polling has a bound.  guestd runs when the guest does, a        *)
(* process that was told to stop is killed in the end, and hostd reads     *)
(* what arrives.                                                           *)
Fairness ==
    \A r \in Run :
        /\ WF_vars(RunStep(r))
        /\ WF_vars(JobStarts(r)) /\ WF_vars(TakeStop(r)) /\ WF_vars(Hear(r))
        /\ WF_vars(stop[r] = "taken" /\ JobEnds(r))

Spec == Init /\ [][Next]_vars
FairSpec == Spec /\ Fairness

-----------------------------------------------------------------------------
(* Properties *)

AtWork(r) == pc[r] \notin {"idle", "look", "settle"}

(* A run that has returned without a stop its workload got.                *)
Undelivered(r) == pc[r] = "idle" /\ stop[r] = "no"

(* Module docs: "Overlapping runs never happen".  Two runs are never at    *)
(* work on the VM, though a destroy takes the lock from under a run and a  *)
(* fire that was found due before gets a fresh one.  And the guest never   *)
(* has two commands at once, except for one whose run could not deliver    *)
(* its stop: it went with a VM that was suspended under it, and comes back *)
(* with the snapshot.                                                      *)
NoOverlap ==
    \A r, s \in Run : r # s =>
        /\ ~(AtWork(r) /\ AtWork(s))
        /\ job[r] = "running" /\ job[s] = "running" =>
              Undelivered(r) \/ Undelivered(s)

(* run_scheduled: "a VM left Started would idle forever".  A VM that is    *)
(* Started because a run woke it has that run still under way, on every    *)
(* error path and whatever the API did meanwhile; only a snapshot that     *)
(* failed ends a run with the VM up.                                       *)
RunsCleanUp ==
    present /\ state = "Started" /\ upBy \in Run => pc[upBy] # "idle"

(* Module docs: a timeout bounds a run.  A run with a timeout ends and     *)
(* lets the next fire through, however its VM is treated, unless the       *)
(* connection or the guest goes while it waits for the exit of the         *)
(* workload it has stopped, or took the request to stop it along: nobody   *)
(* asks again.                                                             *)
CutOff(r) == pc[r] = "drain" /\ (~conn \/ ~Running \/ stop[r] = "no")

TimeoutEndsRun ==
    HasTimeout => \A r \in Run : pc[r] # "idle" ~> pc[r] = "idle" \/ CutOff(r)
=============================================================================

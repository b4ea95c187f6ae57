--------------------------- MODULE ScheduleProofs ---------------------------
(***************************************************************************)
(* What the scheduler guarantees for every number of runs, locks and       *)
(* processes, whatever the API and the guest do: runs do not overlap, and  *)
(* a run does not leave the VM up behind it.                               *)
(*                                                                         *)
(* The argument: while the VM is in the map every run holds the lock in    *)
(* the map, so there is one (LocksOK); a run that starts after a destroy   *)
(* finds no VM and never gets to work (OneAtWork).  The guest's commands   *)
(* follow the runs, because a run that has sent a stop waits for the exit  *)
(* (JobsOK).  The VM's state is the caller's whose operation is under way  *)
(* (Own), so that a run which returns has left the VM suspended, or in     *)
(* another actor's hands.                                                  *)
(*                                                                         *)
(* The last two parts are what the end of a run rests on: a run only goes  *)
(* forward (ToGo decreases), and the stop it waits for is one that reaches *)
(* its job or an exit that was sent (Stands).                              *)
(***************************************************************************)
EXTENDS Schedule, TLAPS

(* Where an actor is in the middle of an operation on the VM. *)
Snaps == {"snapSave", "snapKill", "snapEnd", "snapUndo"}
Restores == {"restoreSpawn", "restoreEnd"}
Mid == {"startEnd", "pauseEnd", "resumeEnd"} \cup Snaps \cup Restores

(* The steps of a run before it may ask for a stop, and after. *)
Early == {"look", "wake", "startBegin", "restoreBegin", "startEnd", "pauseEnd",
          "resumeEnd", "launch", "connect", "send", "poll", "stopConn",
          "stopSend"} \cup Restores
Late == {"drain", "settle", "snapBegin", "idle"} \cup Snaps

Shapes ==
    /\ pc \in [Actor -> Early \cup Late]
    /\ holds \in [Actor -> Lock \cup {None}]
    /\ wl \in [Run -> {"none", "active", "ended"}]
    /\ job \in [Run -> {"none", "sent", "running", "ended", "lost"}]
    /\ stop \in [Run -> {"no", "sent", "taken"}]

(* A run holds a lock as long as it lasts.  While the VM is in the map     *)
(* that is the VM's lock, so there is one such run.                        *)
LocksOK ==
    /\ cleaning => ~present
    /\ \A r \in Run : pc[r] = "idle" <=> holds[r] = None
    /\ present => \A r \in Run : holds[r] \in {None, entry}
    /\ present => \A r, s \in Run : r # s => holds[r] = None \/ holds[s] = None

(* And one run at work even after a destroy. *)
OneAtWork == \A r, s \in Run : r # s => ~(AtWork(r) /\ AtWork(s))

(* A stop that was sent is waited for, as long as there is a VM. *)
JobsOK ==
    \A r \in Run :
        /\ job[r] \in {"sent", "running"} => present
        /\ stop[r] # "no" => pc[r] \in Late
        /\ job[r] \in {"sent", "running"} /\ stop[r] # "no" => pc[r] = "drain"
        /\ wl[r] = "ended" => job[r] = "ended"
        /\ pc[r] = "idle" => wl[r] = "none"

(* An operation is its caller's own. *)
Own ==
    present =>
        /\ \A a, b \in Actor : pc[a] \in Mid /\ pc[b] \in Mid => a = b
        /\ \A a \in Actor :
              /\ pc[a] \in Mid => state \in Vm!Operation
              /\ pc[a] \in Snaps => state = "Suspending"
              /\ pc[a] \in Restores => state = "Restoring" /\ from = "Suspended"

IInv == Shapes /\ LocksOK /\ OneAtWork /\ JobsOK /\ Own /\ RunsCleanUp

USE DEF vm, locks, work, Actor

(* A step of an actor that exists, by the step it goes on to. *)
ApiMove == ApiAbandon \/ \E op \in ApiOps : ApiCall(op)

Move(a) ==
    \/ VmStep(a)
    \/ a = Api /\ ApiMove
    \/ a \in Run /\ RunStep(a)

-----------------------------------------------------------------------------
(* The operations and where they lead. *)

LEMMA Operations ==
  /\ Vm!Operation = {"Starting", "Pausing", "Resuming", "Suspending", "Restoring"}
  /\ DOMAIN Entering = {"Starting", "Suspending", "Restoring"}
  /\ \A op \in Vm!Operation : First[op] \in Mid
  /\ \A op \in Vm!Operation :
        /\ First[op] \in Snaps <=> op = "Suspending"
        /\ First[op] \in Restores <=> op = "Restoring"
        /\ First[op] \in Late <=> op = "Suspending"
        /\ First[op] \in Early <=> op # "Suspending"
        /\ \A s \in Vm!Begins[op] : s \notin Vm!Operation
BY DEF Vm!Operation, Vm!Begins, Entering, First, Mid, Snaps, Restores, Late, Early

(* What a step of an actor does to its place, its lock and the map. *)
Goes(a, step) ==
    /\ pc[a] # "idle" \/ a = Api
    /\ pc' = [pc EXCEPT ![a] = step]
    /\ holds' = IF step = "idle" THEN [holds EXCEPT ![a] = None] ELSE holds
    /\ UNCHANGED <<entry, cleaning, present>>
    /\ a # Api =>
          /\ step = "idle" => wl'[a] = "none"
          /\ pc[a] \in Late => step \in Late
          /\ pc[a] = "drain" => ~present \/ wl[a] = "ended"
          /\ pc[a] \in {"look", "settle"} /\ step \notin {"settle", "idle"} => present

LEMMA BeginGoes ==
  ASSUME Shapes, NEW r \in Run, NEW op \in DOMAIN Entering, Begin(r, op)
  PROVE  \E step \in Early \cup Late : Goes(r, step)
<1>1. CASE Vm!Begin(op) /\ Leave(r, First[op])
  <2>1. First[op] \in Early \cup Late
    BY Operations
  <2>2. Goes(r, First[op])
    BY <1>1, Operations, ScheduleAssumption
    DEF Goes, Begin, Leave, To, Vm!Begin, Shapes, Entering, First, Late, Snaps
  <2> QED
    BY <2>1, <2>2
<1>2. CASE Leave(r, Failed(r, op)) /\ UNCHANGED vm
  <2>1. Failed(r, op) \in {"idle", "settle"}
    BY DEF Failed
  <2>2. Goes(r, Failed(r, op))
    BY <1>2, <2>1, Operations, ScheduleAssumption
    DEF Goes, Begin, Leave, To, Shapes, Entering, Late, Snaps
  <2> QED
    BY <2>1, <2>2 DEF Late
<1> QED
  BY <1>1, <1>2 DEF Begin

LEMMA VmStepGoes ==
  ASSUME Shapes, NEW a \in Actor, VmStep(a)
  PROVE  \E step \in Early \cup Late : Goes(a, step)
<1> USE ScheduleAssumption DEF Shapes, Goes, To, Leave, Done, Failed, Early, Late, Snaps, Restores
<1>1. ASSUME NEW op \in {"Starting", "Pausing", "Resuming"}, Finish(a, op)
      PROVE  \E step \in Early \cup Late : Goes(a, step)
  BY <1>1 DEF Finish, First, Vm!Complete, Vm!RollBack
<1>2. CASE RestoreSpawn(a)
  BY <1>2 DEF RestoreSpawn, Vm!PowerOn, Vm!RollBack
<1>3. CASE RestoreEnd(a)
  BY <1>3 DEF RestoreEnd, Vm!Complete, Vm!RollBack
<1>4. CASE SnapSave(a)
  BY <1>4 DEF SnapSave, Vm!Save, Vm!Spoil
<1>5. CASE SnapKill(a)
  BY <1>5 DEF SnapKill, Vm!PowerOff
<1>6. CASE SnapEnd(a)
  BY <1>6 DEF SnapEnd, Vm!Complete
<1>7. CASE SnapUndo(a)
  BY <1>7 DEF SnapUndo, Vm!SnapshotUndone
<1> QED
  BY <1>1, <1>2, <1>3, <1>4, <1>5, <1>6, <1>7 DEF VmStep, Finish

LEMMA GotoGoes ==
  ASSUME Shapes, NEW r \in Run, NEW step \in (Early \cup Late) \ {"idle"},
         RunGoto(r, step), pc[r] # "idle",
         pc[r] \in Late => step \in Late,
         pc[r] = "drain" => ~present \/ wl[r] = "ended",
         pc[r] = "look" => step = "settle" \/ present,
         pc[r] # "settle"
  PROVE  Goes(r, step)
BY ScheduleAssumption DEF RunGoto, To, Goes

LEMMA RunGoes ==
  ASSUME Shapes, NEW r \in Run,
         \/ Look(r) \/ Wake(r) \/ Launch(r) \/ Send(r) \/ Poll(r)
         \/ GuestConn(r, "connect", "send") \/ GuestConn(r, "stopConn", "stopSend")
         \/ StopSend(r) \/ Drain(r) \/ Settle(r)
  PROVE  \E step \in Early \cup Late : Goes(r, step)
<1> DEFINE Next1 == (Early \cup Late) \ {"idle"}
<1>1. CASE Look(r) \/ Wake(r) \/ Launch(r)
  <2>1. PICK step \in {"wake", "startBegin", "launch", "settle", "connect",
                       "restoreBegin"} :
           RunGoto(r, step) /\ (step = "settle" \/ present)
    BY <1>1 DEF Look, Wake, Launch
  <2>2. pc[r] \in {"look", "wake", "launch"}
    BY <1>1 DEF Look, Wake, Launch
  <2>3. step \in Next1 /\ pc[r] \notin Late
    BY <2>2 DEF Early, Late, Snaps
  <2> QED
    BY <2>1, <2>2, <2>3, GotoGoes
<1>2. CASE \/ Send(r) \/ Poll(r) \/ StopSend(r)
           \/ GuestConn(r, "connect", "send") \/ GuestConn(r, "stopConn", "stopSend")
  <2>1. PICK step \in {"poll", "stopConn", "drain", "send", "stopSend", "settle"} :
           RunGoto(r, step)
    BY <1>2 DEF Send, Poll, StopSend, GuestConn
  <2>2. pc[r] \in {"send", "poll", "stopSend", "connect", "stopConn"}
    BY <1>2 DEF Send, Poll, StopSend, GuestConn
  <2>3. step \in Next1 /\ pc[r] \notin Late
    BY <2>2 DEF Early, Late, Snaps
  <2> QED
    BY <2>1, <2>2, <2>3, GotoGoes
<1>3. CASE Drain(r)
  <2>1. "settle" \in Next1 /\ "settle" \in Late
    BY DEF Late
  <2> QED
    BY <1>3, <2>1, GotoGoes DEF Drain
<1>4. CASE Settle(r)
  <2>1. PICK step \in {"snapBegin", "idle"} :
           Leave(r, step) /\ (step = "snapBegin" => present)
    BY <1>4 DEF Settle
  <2>2. step \in Late /\ pc[r] = "settle"
    BY <1>4 DEF Late, Settle
  <2>3. Goes(r, step)
    BY <1>4, <2>1, <2>2, ScheduleAssumption DEF Settle, Goes, Leave, To, Shapes
  <2> QED
    BY <2>2, <2>3
<1> QED
  BY <1>1, <1>2, <1>3, <1>4

LEMMA ApiGoes ==
  ASSUME Shapes, ApiMove
  PROVE  \E step \in Early \cup Late : Goes(Api, step)
<1>1. CASE ApiAbandon
  BY <1>1 DEF ApiAbandon, Goes, To, Late
<1>2. ASSUME NEW op \in ApiOps, ApiCall(op)
      PROVE  \E step \in Early \cup Late : Goes(Api, step)
  <2>1. First[op] \in Early \cup Late
    BY Operations, ScheduleAssumption
  <2>2. Goes(Api, First[op])
    BY <1>2 DEF ApiCall, Goes, To, Vm!Begin
  <2> QED
    BY <2>1, <2>2
<1> QED
  BY <1>1, <1>2 DEF ApiMove

LEMMA MoveGoes ==
  ASSUME Shapes, NEW a \in Actor, Move(a)
  PROVE  \E step \in Early \cup Late : Goes(a, step)
BY BeginGoes, VmStepGoes, RunGoes, ApiGoes, Zenon DEF Move, RunStep

-----------------------------------------------------------------------------
(* The locks and the runs. *)

(* Steps that move nobody and leave the locks as they are. *)
Quiet ==
    /\ UNCHANGED <<pc, holds, entry, cleaning>>
    /\ UNCHANGED present

LockInv == LocksOK /\ OneAtWork

LEMMA QuietLocks ==
  ASSUME LockInv, Quiet PROVE LockInv'
BY DEF Quiet, LockInv, LocksOK, OneAtWork, AtWork

LEMMA GoesLocks ==
  ASSUME Shapes, LockInv, NEW a \in Actor, NEW step, Goes(a, step)
  PROVE  LockInv'
<1>1. /\ \A b \in Actor : pc'[b] = IF b = a THEN step ELSE pc[b]
      /\ \A b \in Actor : holds'[b] = IF b = a /\ step = "idle" THEN None ELSE holds[b]
  BY DEF Shapes, Goes
<1>2. LocksOK'
  BY <1>1, ScheduleAssumption DEF Goes, LockInv, LocksOK
<1>3. OneAtWork'
  <2> SUFFICES ASSUME NEW r \in Run, NEW s \in Run, r # s,
                      AtWork(r)', AtWork(s)'
               PROVE  FALSE
    BY Zenon DEF OneAtWork
  <2>1. CASE r # a /\ s # a
    BY <1>1, <2>1 DEF LockInv, OneAtWork, AtWork
  <2>2. CASE r = a
    <3>1. AtWork(s) /\ ~AtWork(r)
      BY <1>1, <2>2 DEF LockInv, OneAtWork, AtWork
    <3>2. present /\ pc[r] # "idle" /\ pc[s] # "idle"
      BY <1>1, <2>2, <3>1, ScheduleAssumption DEF AtWork, Goes
    <3> QED
      BY <3>2 DEF LockInv, LocksOK
  <2>3. CASE s = a
    <3>1. AtWork(r) /\ ~AtWork(s)
      BY <1>1, <2>3 DEF LockInv, OneAtWork, AtWork
    <3>2. present /\ pc[r] # "idle" /\ pc[s] # "idle"
      BY <1>1, <2>3, <3>1, ScheduleAssumption DEF AtWork, Goes
    <3> QED
      BY <3>2 DEF LockInv, LocksOK
  <2> QED
    BY <2>1, <2>2, <2>3
<1> QED
  BY <1>2, <1>3 DEF LockInv

LEMMA SpawnLocks ==
  ASSUME Shapes, LockInv, NEW r \in Run, SpawnRun(r)
  PROVE  LockInv'
<1>1. PICK l \in Lock :
         /\ LockFor(l) /\ ~Held(l)
         /\ entry' = l
         /\ pc' = [pc EXCEPT ![r] = "look"]
         /\ holds' = [holds EXCEPT ![r] = l]
  BY DEF SpawnRun
<1>2. UNCHANGED <<cleaning, present>> /\ pc[r] = "idle"
  BY DEF SpawnRun
<1>3. /\ \A b \in Run : pc'[b] = IF b = r THEN "look" ELSE pc[b]
      /\ \A b \in Run : holds'[b] = IF b = r THEN l ELSE holds[b]
      /\ l # None
  BY <1>1, ScheduleAssumption DEF Shapes
<1>4. present => \A b \in Run : holds[b] = None
  BY <1>1 DEF LockInv, LocksOK, LockFor, Held
<1>5. LocksOK'
  BY <1>1, <1>2, <1>3, <1>4 DEF LockInv, LocksOK
<1>6. OneAtWork'
  BY <1>3 DEF LockInv, OneAtWork, AtWork
<1> QED
  BY <1>5, <1>6 DEF LockInv

LEMMA DestroyLocks ==
  ASSUME LockInv, ApiDestroy \/ DestroyCleanup
  PROVE  LockInv'
BY DEF ApiDestroy, DestroyCleanup, Vm!Destroy, LockInv, LocksOK, OneAtWork, AtWork

(* Every step is of one of these kinds. *)
LEMMA Kinds ==
  ASSUME [Next]_vars
  PROVE  \/ Quiet
         \/ \E a \in Actor : Move(a)
         \/ \E r \in Run : SpawnRun(r)
         \/ ApiDestroy \/ DestroyCleanup
<1>1. CASE UNCHANGED vars
  BY <1>1 DEF vars, Quiet
<1>2. CASE FireDue \/ SkipFire
  BY <1>2 DEF FireDue, SkipFire, Quiet
<1>3. CASE FcExit
  BY <1>3 DEF FcExit, Quiet, Vm!PowerOff
<1>4. CASE ApiStep
  <2>1. ApiConnect => Quiet
    BY DEF ApiConnect, Quiet
  <2>2. Api \in Actor
    OBVIOUS
  <2> QED
    BY <1>4, <2>1, <2>2, Zenon DEF ApiStep, Move, ApiMove
<1>5. ASSUME NEW r \in Run, RunStep(r)
      PROVE  \E a \in Actor : Move(a)
  BY <1>5, Zenon DEF Move
<1>6. ASSUME NEW r \in Run, GuestStep(r)
      PROVE  Quiet
  BY <1>6 DEF GuestStep, JobStarts, JobEnds, TakeStop, Hear, GuestDoes, GuestOnly,
              Quiet, Vm!Spoil
<1> QED
  BY <1>1, <1>2, <1>3, <1>4, <1>5, <1>6, Zenon DEF Next

LEMMA LocksStep ==
  ASSUME Shapes, LockInv, [Next]_vars
  PROVE  LockInv'
<1>1. ASSUME NEW a \in Actor, Move(a) PROVE LockInv'
  <2>1. PICK step \in Early \cup Late : Goes(a, step)
    BY <1>1, MoveGoes
  <2> QED
    BY <2>1, GoesLocks
<1> QED
  BY <1>1, Kinds, QuietLocks, SpawnLocks, DestroyLocks

-----------------------------------------------------------------------------
(* The workloads. *)

JobInv == Shapes /\ JobsOK

Forgets(a) == a \in Run /\ wl' = [wl EXCEPT ![a] = "none"] /\ UNCHANGED <<job, stop>>

LEMMA MoveWork ==
  ASSUME NEW a \in Actor, Move(a)
  PROVE  \/ UNCHANGED <<wl, job, stop>>
         \/ Forgets(a)
         \/ Frozen
         \/ a \in Run /\ (Send(a) \/ StopSend(a))
<1> DEFINE Goal == \/ UNCHANGED <<wl, job, stop>>
                   \/ Forgets(a)
                   \/ Frozen
                   \/ a \in Run /\ (Send(a) \/ StopSend(a))
<1> USE DEF Forgets
<1>1. ASSUME NEW op \in Vm!Operation, Finish(a, op) PROVE Goal
  BY <1>1 DEF Finish
<1>2. ASSUME RestoreSpawn(a) \/ RestoreEnd(a) \/ SnapSave(a) PROVE Goal
  BY <1>2 DEF RestoreSpawn, RestoreEnd, SnapSave
<1>3. ASSUME SnapKill(a) PROVE Goal
  BY <1>3 DEF SnapKill
<1>4. ASSUME SnapEnd(a) \/ SnapUndo(a) PROVE Goal
  BY <1>4, ScheduleAssumption DEF SnapEnd, SnapUndo, Leave
<1>5. VmStep(a) => Goal
  <2> HIDE DEF Goal
  <2> QED
    BY <1>1, <1>2, <1>3, <1>4, Zenon DEF VmStep
<1>6. ApiMove => Goal
  BY DEF ApiMove, ApiAbandon, ApiCall
<1>7. ASSUME a \in Run, NEW op \in DOMAIN Entering, Begin(a, op) PROVE Goal
  BY <1>7, ScheduleAssumption DEF Begin, Leave
<1>8. ASSUME a \in Run,
             \/ Look(a) \/ Wake(a) \/ Launch(a) \/ Poll(a) \/ Drain(a) \/ Settle(a)
             \/ GuestConn(a, "connect", "send")
             \/ GuestConn(a, "stopConn", "stopSend")
      PROVE  Goal
  BY <1>8, ScheduleAssumption
  DEF Look, Wake, Launch, Poll, Drain, Settle, GuestConn, Leave, RunGoto
<1>9. a \in Run /\ RunStep(a) => Goal
  <2>1. a \in Run /\ (Send(a) \/ StopSend(a)) => Goal
    BY Zenon
  <2> HIDE DEF Goal
  <2> QED
    BY <1>5, <1>7, <1>8, <2>1, Zenon DEF RunStep
<1> QED
  <2> HIDE DEF Goal
  <2>1. Goal
    BY <1>5, <1>6, <1>9, Zenon DEF Move
  <2> QED
    BY <2>1, Zenon DEF Goal

LEMMA CutJobs ==
  ASSUME Shapes, JobsOK, NEW J, Cut(J), "sent" \in J, "ended" \notin J
  PROVE  /\ wl' = wl
         /\ job' \in [Run -> {"none", "sent", "running", "ended", "lost"}]
         /\ stop' \in [Run -> {"no", "sent", "taken"}]
         /\ \A r \in Run : /\ job'[r] # "sent"
                           /\ job'[r] = "running" => job[r] = "running" /\ "running" \notin J
                           /\ stop'[r] # "no" => stop[r] # "no"
                           /\ job[r] = "ended" => job'[r] = "ended"
<1>1. wl' = wl
  BY DEF Cut
<1>2. \A r \in Run : job'[r] = IF job[r] \in J THEN "lost" ELSE job[r]
  BY DEF Cut
<1>3. \A r \in Run : stop'[r] = IF stop[r] = "sent" THEN "no" ELSE stop[r]
  BY DEF Cut
<1>4. job' \in [Run -> {"none", "sent", "running", "ended", "lost"}]
  BY DEF Cut, Shapes
<1>5. stop' \in [Run -> {"no", "sent", "taken"}]
  BY DEF Cut, Shapes
<1> QED
  BY <1>1, <1>2, <1>3, <1>4, <1>5

LEMMA GoesJobs ==
  ASSUME JobInv, NEW a \in Actor, NEW step \in Early \cup Late, Goes(a, step),
         \/ UNCHANGED <<wl, job, stop>>
         \/ Forgets(a)
         \/ Frozen
         \/ a \in Run /\ (Send(a) \/ StopSend(a))
  PROVE  JobInv'
<1> USE ScheduleAssumption DEF JobInv
<1>1. /\ \A b \in Actor : pc'[b] = IF b = a THEN step ELSE pc[b]
      /\ pc' \in [Actor -> Early \cup Late]
      /\ holds' \in [Actor -> Lock \cup {None}]
      /\ present' = present
  BY DEF Shapes, Goes
<1>2. CASE UNCHANGED <<wl, job, stop>>
  BY <1>1, <1>2 DEF Shapes, JobsOK, Goes
<1>3. CASE Forgets(a)
  BY <1>1, <1>3 DEF Shapes, JobsOK, Goes, Forgets
<1>4. CASE Frozen
  <2>1. /\ wl' = wl
        /\ job' \in [Run -> {"none", "sent", "running", "ended", "lost"}]
        /\ stop' \in [Run -> {"no", "sent", "taken"}]
        /\ \A r \in Run : /\ job'[r] # "sent"
                          /\ job'[r] = "running" => job[r] = "running"
                          /\ stop'[r] # "no" => stop[r] # "no"
                          /\ job[r] = "ended" => job'[r] = "ended"
    BY <1>4, CutJobs DEF Frozen
  <2> QED
    BY <1>1, <2>1 DEF Shapes, JobsOK, Goes
<1>5. CASE a \in Run /\ Send(a)
  <2>1. pc[a] = "send" /\ pc[a] \notin Late
    BY <1>5 DEF Send, Late, Snaps
  <2>2. CASE UNCHANGED work
    BY <1>1, <2>2 DEF Shapes, JobsOK, Goes
  <2>3. CASE /\ present /\ UNCHANGED stop
             /\ wl' = [wl EXCEPT ![a] = "active"]
             /\ job' = [job EXCEPT ![a] = IF conn THEN "sent" ELSE "lost"]
    <3>1. /\ job' \in [Run -> {"none", "sent", "running", "ended", "lost"}]
          /\ \A r \in Run : r # a => job'[r] = job[r] /\ wl'[r] = wl[r]
          /\ wl' \in [Run -> {"none", "active", "ended"}] /\ wl'[a] = "active"
      BY <1>5, <2>3 DEF Shapes
    <3>2. stop[a] = "no"
      BY <1>5, <2>1 DEF JobsOK
    <3>3. step # "idle"
      BY <1>5, <3>1 DEF Goes
    <3> QED
      BY <1>1, <1>5, <2>3, <3>1, <3>2, <3>3 DEF Shapes, JobsOK, Goes
  <2> QED
    BY <1>5, <2>2, <2>3 DEF Send
<1>6. CASE a \in Run /\ StopSend(a)
  <2>1. CASE UNCHANGED work
    BY <1>1, <2>1 DEF Shapes, JobsOK, Goes
  <2>2. CASE /\ present /\ UNCHANGED <<wl, job>> /\ pc[a] = "stopSend"
             /\ stop' = [stop EXCEPT ![a] = IF conn THEN "sent" ELSE "no"]
             /\ RunGoto(a, "drain")
    <3>1. pc'[a] = "drain" /\ "drain" \in Late
      BY <1>6, <2>2 DEF RunGoto, To, Shapes, Late
    <3>2. step = "drain"
      BY <1>1, <3>1
    <3>3. /\ stop' \in [Run -> {"no", "sent", "taken"}]
          /\ \A r \in Run : r # a => stop'[r] = stop[r]
      BY <1>6, <2>2 DEF Shapes
    <3> QED
      BY <1>1, <1>6, <2>2, <3>1, <3>2, <3>3 DEF Shapes, JobsOK, Goes
  <2> QED
    BY <1>6, <2>1, <2>2 DEF StopSend
<1> QED
  BY <1>2, <1>3, <1>4, <1>5, <1>6

LEMMA SpawnJobs ==
  ASSUME JobInv, NEW r \in Run, SpawnRun(r) PROVE JobInv'
<1>1. PICK l \in Lock : /\ pc' = [pc EXCEPT ![r] = "look"]
                        /\ holds' = [holds EXCEPT ![r] = l]
  BY DEF SpawnRun
<1>2. /\ job' = [job EXCEPT ![r] = "none"] /\ stop' = [stop EXCEPT ![r] = "no"]
      /\ wl' = wl /\ pc[r] = "idle" /\ UNCHANGED present
  BY DEF SpawnRun
<1>3. Shapes'
  BY <1>1, <1>2 DEF JobInv, Shapes, Early
<1>4. JobsOK'
  BY <1>1, <1>2 DEF JobInv, Shapes, JobsOK
<1> QED
  BY <1>3, <1>4 DEF JobInv

(* Steps that move nobody. *)
LEMMA StillJobs ==
  ASSUME JobInv, [Next]_vars, UNCHANGED <<pc, holds>>,
         \/ UNCHANGED vars \/ FireDue \/ SkipFire \/ FcExit
         \/ ApiConnect \/ ApiDestroy \/ DestroyCleanup
         \/ \E r \in Run : GuestStep(r)
  PROVE  JobInv'
<1> USE DEF JobInv
<1>1. CASE UNCHANGED <<wl, job, stop, present>>
  BY <1>1 DEF Shapes, JobsOK
<1>2. CASE (UNCHANGED vars) \/ FireDue \/ SkipFire \/ ApiConnect \/ DestroyCleanup
  <2>1. UNCHANGED <<wl, job, stop, present>>
    BY <1>2 DEF vars, FireDue, SkipFire, ApiConnect, DestroyCleanup
  <2> QED
    BY <1>1, <2>1
<1>3. CASE FcExit
  <2>1. PICK J \in {{"sent"}, {"sent", "running"}} : Cut(J)
    BY <1>3 DEF FcExit, Frozen, Dead
  <2>2. /\ wl' = wl
        /\ job' \in [Run -> {"none", "sent", "running", "ended", "lost"}]
        /\ stop' \in [Run -> {"no", "sent", "taken"}]
        /\ \A r \in Run : /\ job'[r] # "sent"
                          /\ job'[r] = "running" => job[r] = "running"
                          /\ stop'[r] # "no" => stop[r] # "no"
                          /\ job[r] = "ended" => job'[r] = "ended"
    BY <2>1, CutJobs
  <2>3. UNCHANGED present
    BY <1>3 DEF FcExit, Vm!PowerOff
  <2> QED
    BY <2>2, <2>3 DEF Shapes, JobsOK
<1>4. CASE ApiDestroy
  <2>1. /\ wl' = wl
        /\ job' \in [Run -> {"none", "sent", "running", "ended", "lost"}]
        /\ stop' \in [Run -> {"no", "sent", "taken"}]
        /\ \A r \in Run : /\ job'[r] # "sent" /\ job'[r] # "running"
                          /\ stop'[r] # "no" => stop[r] # "no"
                          /\ job[r] = "ended" => job'[r] = "ended"
    BY <1>4, CutJobs DEF ApiDestroy, Dead
  <2> QED
    BY <2>1 DEF Shapes, JobsOK
<1>5. ASSUME NEW r \in Run, GuestStep(r) PROVE JobInv'
  <2>1. UNCHANGED present
    BY <1>5 DEF GuestStep, JobStarts, JobEnds, TakeStop, Hear, GuestDoes, Vm!Spoil
  <2>2. CASE JobStarts(r)
    BY <2>1, <2>2 DEF JobStarts, GuestOnly, Shapes, JobsOK
  <2>3. CASE JobEnds(r)
    BY <2>1, <2>3 DEF JobEnds, GuestOnly, Shapes, JobsOK
  <2>4. CASE TakeStop(r)
    BY <2>1, <2>4 DEF TakeStop, GuestOnly, Shapes, JobsOK
  <2>5. CASE Hear(r)
    BY <2>1, <2>5 DEF Hear, Shapes, JobsOK
  <2> QED
    BY <1>5, <2>2, <2>3, <2>4, <2>5 DEF GuestStep
<1> QED
  BY <1>2, <1>3, <1>4, <1>5

-----------------------------------------------------------------------------
(* The VM: its operation is its caller's. *)

VmInv == Own /\ RunsCleanUp

(* Nobody else is in the middle of an operation. *)
LEMMA OwnAlone ==
  ASSUME Own, present, NEW a \in Actor, pc[a] \in Mid
  PROVE  \A b \in Actor : b # a => pc[b] \notin Mid
BY DEF Own

(* An operation begins. *)
LEMMA BeginVm ==
  ASSUME Shapes, VmInv, NEW a \in Actor, NEW op \in Vm!Operation,
         pc[a] # "idle" \/ a = Api,
         Vm!Begin(op), pc' = [pc EXCEPT ![a] = First[op]], UNCHANGED upBy
  PROVE  VmInv'
<1>1. /\ state \notin Vm!Operation /\ state' = op /\ from' = state
      /\ UNCHANGED present
      /\ state' # "Started"
      /\ op = "Restoring" => from' = "Suspended"
  BY Operations DEF Vm!Begin, Vm!Begins
<1>2. \A b \in Actor : pc'[b] = IF b = a THEN First[op] ELSE pc[b]
  BY DEF Shapes
<1>3. present => \A b \in Actor : pc[b] \notin Mid
  BY <1>1 DEF VmInv, Own
<1>4. Own'
  BY <1>1, <1>2, <1>3, Operations DEF Own, Mid
<1>5. RunsCleanUp'
  BY <1>1 DEF RunsCleanUp
<1> QED
  BY <1>4, <1>5 DEF VmInv

(* It goes on. *)
LEMMA WithinVm ==
  ASSUME Shapes, VmInv, NEW a \in Actor, NEW step,
         pc' = [pc EXCEPT ![a] = step], UNCHANGED <<state, from, present, upBy>>,
         step \in Mid => pc[a] \in Mid,
         step \in Snaps => pc[a] \in Snaps,
         step \in Restores => pc[a] \in Restores,
         step = "idle" => a = Api \/ state # "Started" \/ ~present
  PROVE  VmInv'
<1>1. \A b \in Actor : pc'[b] = IF b = a THEN step ELSE pc[b]
  BY DEF Shapes
<1>2. Own'
  BY <1>1 DEF VmInv, Own
<1>3. RunsCleanUp'
  BY <1>1, ScheduleAssumption DEF VmInv, RunsCleanUp
<1> QED
  BY <1>2, <1>3 DEF VmInv

(* It ends. *)
LEMMA EndVm ==
  ASSUME Shapes, VmInv, NEW a \in Actor, NEW step,
         pc[a] \in Mid, step \notin Mid,
         pc' = [pc EXCEPT ![a] = step], UNCHANGED present,
         \/ upBy' = a /\ (step # "idle" \/ a = Api)
         \/ upBy' \in {None, Api}
         \/ present => state' # "Started"
  PROVE  VmInv'
<1>1. \A b \in Actor : pc'[b] = IF b = a THEN step ELSE pc[b]
  BY DEF Shapes
<1>2. present => \A b \in Actor : pc'[b] \notin Mid
  BY <1>1, OwnAlone DEF VmInv
<1>3. Own'
  BY <1>2 DEF Own, Mid
<1>4. RunsCleanUp'
  BY <1>1, ScheduleAssumption DEF VmInv, RunsCleanUp
<1> QED
  BY <1>3, <1>4 DEF VmInv

LEMMA VmStepVm ==
  ASSUME Shapes, VmInv, NEW a \in Actor, VmStep(a)
  PROVE  VmInv'
<1> USE DEF Mid, Snaps, Restores
<1>1. ASSUME NEW op \in Vm!Operation, Finish(a, op) PROVE VmInv'
  <2>1. pc[a] \in Mid
    BY <1>1 DEF Finish, First
  <2>2. PICK step \in {"launch", "settle", "idle"} :
           /\ pc' = [pc EXCEPT ![a] = step] /\ UNCHANGED present
           /\ step # "idle" \/ a = Api
    BY <1>1 DEF Finish, To, Done, Failed, Vm!Complete, Vm!RollBack
  <2>3. \/ upBy' = a
        \/ present => state' # "Started"
    BY <1>1 DEF Finish, Raised
  <2> QED
    BY <2>1, <2>2, <2>3, EndVm
<1>2. CASE RestoreSpawn(a)
  <2>0. pc[a] \in Mid /\ pc[a] \in Restores /\ UNCHANGED upBy
    BY <1>2 DEF RestoreSpawn
  <2>1. CASE \E p \in Proc \ live : Vm!PowerOn(p) /\ To(a, "restoreEnd")
    <3>1. pc' = [pc EXCEPT ![a] = "restoreEnd"] /\ UNCHANGED <<state, from, present>>
      BY <2>1 DEF To, Vm!PowerOn
    <3> QED
      BY <2>0, <3>1, WithinVm
  <2>2. CASE Vm!RollBack /\ To(a, Failed(a, "Restoring"))
    <3>1. PICK step \in {"settle", "idle"} :
             pc' = [pc EXCEPT ![a] = step] /\ UNCHANGED present
      BY <2>2 DEF To, Failed, Vm!RollBack
    <3>2. present => state' # "Started"
      BY <2>0, <2>2 DEF Vm!RollBack, VmInv, Own
    <3> QED
      BY <2>0, <3>1, <3>2, EndVm
  <2> QED
    BY <1>2, <2>1, <2>2 DEF RestoreSpawn
<1>3. CASE RestoreEnd(a)
  <2>1. pc[a] \in Mid
    BY <1>3 DEF RestoreEnd
  <2>2. PICK step \in {"launch", "settle", "idle"} :
           /\ pc' = [pc EXCEPT ![a] = step] /\ UNCHANGED present
           /\ step # "idle" \/ a = Api
    BY <1>3 DEF RestoreEnd, To, Done, Failed, Vm!Complete, Vm!RollBack
  <2>3. \/ upBy' = a
        \/ present => state' # "Started"
    BY <1>3 DEF RestoreEnd, Raised
  <2> QED
    BY <2>1, <2>2, <2>3, EndVm
<1>4. CASE SnapSave(a) \/ SnapKill(a)
  <2>1. pc[a] \in Snaps /\ pc[a] \in Mid /\ UNCHANGED upBy
    BY <1>4 DEF SnapSave, SnapKill
  <2>2. PICK step \in {"snapKill", "snapUndo", "snapEnd"} :
           pc' = [pc EXCEPT ![a] = step] /\ UNCHANGED <<state, from, present>>
    BY <1>4 DEF SnapSave, SnapKill, To, Vm!Save, Vm!Spoil, Vm!PowerOff
  <2> QED
    BY <2>1, <2>2, WithinVm
<1>5. CASE SnapEnd(a)
  <2>1. pc[a] \in Snaps /\ pc[a] \in Mid
    BY <1>5 DEF SnapEnd
  <2>2. pc' = [pc EXCEPT ![a] = "idle"] /\ UNCHANGED present
    BY <1>5 DEF SnapEnd, Leave, To, Done, Vm!Complete
  <2>3. present => state' # "Started"
    BY <1>5, <2>1 DEF SnapEnd, Vm!Complete, Vm!Completes, VmInv, Own
  <2> QED
    BY <2>1, <2>2, <2>3, EndVm
<1>6. CASE SnapUndo(a)
  <2>1. pc[a] \in Mid /\ upBy' \in {None, Api}
    BY <1>6 DEF SnapUndo
  <2>2. pc' = [pc EXCEPT ![a] = "idle"] /\ UNCHANGED present
    BY <1>6 DEF SnapUndo, Leave, To, Failed, Vm!SnapshotUndone
  <2> QED
    BY <2>1, <2>2, EndVm
<1> QED
  BY <1>1, <1>2, <1>3, <1>4, <1>5, <1>6, Zenon DEF VmStep

LEMMA RunVm ==
  ASSUME Shapes, VmInv, NEW r \in Run, RunStep(r)
  PROVE  VmInv'
<1> USE DEF Mid, Snaps, Restores
<1>1. CASE VmStep(r)
  BY <1>1, VmStepVm
<1>2. ASSUME NEW op \in DOMAIN Entering, Begin(r, op) PROVE VmInv'
  <2>1. op \in Vm!Operation /\ pc[r] # "idle" /\ UNCHANGED upBy
    BY <1>2, Operations DEF Begin, Entering
  <2>2. CASE Vm!Begin(op) /\ Leave(r, First[op])
    BY <2>1, <2>2, BeginVm DEF Leave, To
  <2>3. CASE /\ state \notin Vm!Begins[op] \/ ~present
             /\ Leave(r, Failed(r, op)) /\ UNCHANGED vm
    <3>1. PICK step \in {"settle", "idle"} :
             /\ pc' = [pc EXCEPT ![r] = step]
             /\ step = "idle" => op = "Suspending"
      BY <2>3, ScheduleAssumption DEF Leave, To, Failed
    <3>2. step = "idle" => state # "Started" \/ ~present
      BY <2>3, <3>1 DEF Vm!Begins
    <3> QED
      BY <2>1, <2>3, <3>1, <3>2, WithinVm
  <2> QED
    BY <1>2, <2>2, <2>3 DEF Begin
<1>3. ASSUME NEW step \in {"wake", "startBegin", "launch", "settle", "connect",
                           "restoreBegin", "poll", "stopConn", "drain", "send",
                           "stopSend"},
             RunGoto(r, step)
      PROVE  VmInv'
  BY <1>3, WithinVm DEF RunGoto, To
<1>4. CASE Look(r) \/ Wake(r) \/ Launch(r)
  <2>1. PICK step \in {"wake", "startBegin", "launch", "settle", "connect",
                       "restoreBegin"} : RunGoto(r, step)
    BY <1>4 DEF Look, Wake, Launch
  <2> QED
    BY <1>3, <2>1
<1>5. CASE \/ Send(r) \/ Poll(r) \/ StopSend(r) \/ Drain(r)
           \/ GuestConn(r, "connect", "send") \/ GuestConn(r, "stopConn", "stopSend")
  <2>1. PICK step \in {"poll", "stopConn", "drain", "send", "stopSend", "settle"} :
           RunGoto(r, step)
    BY <1>5 DEF Send, Poll, StopSend, Drain, GuestConn
  <2> QED
    BY <1>3, <2>1
<1>6. CASE Settle(r)
  <2>1. PICK step \in {"snapBegin", "idle"} :
           /\ pc' = [pc EXCEPT ![r] = step]
           /\ step = "idle" => state # "Started" \/ ~present
    BY <1>6 DEF Settle, Leave, To
  <2> QED
    BY <1>6, <2>1, WithinVm DEF Settle
<1> QED
  BY <1>1, <1>2, <1>4, <1>5, <1>6, Zenon DEF RunStep

LEMMA MoveVm ==
  ASSUME Shapes, VmInv, NEW a \in Actor, Move(a)
  PROVE  VmInv'
<1>1. CASE a = Api /\ ApiAbandon
  BY <1>1, WithinVm DEF ApiAbandon, To, Mid, Snaps, Restores
<1>2. ASSUME a = Api, NEW op \in ApiOps, ApiCall(op) PROVE VmInv'
  BY <1>2, BeginVm, ScheduleAssumption DEF ApiCall, To
<1> QED
  BY <1>1, <1>2, VmStepVm, RunVm, Zenon DEF Move, ApiMove

-----------------------------------------------------------------------------
(* The inductive invariant holds in every state of every behaviour. *)
THEOREM Inductive == Spec => []IInv
<1>1. Init => IInv
  <2> SUFFICES ASSUME Init PROVE IInv
    OBVIOUS
  <2>1. Shapes
    BY DEF Init, Shapes, Late
  <2>2. LocksOK /\ OneAtWork
    BY DEF Init, LocksOK, OneAtWork, AtWork
  <2>3. JobsOK
    BY DEF Init, JobsOK
  <2>4. Own /\ RunsCleanUp
    BY DEF Init, Own, Mid, Snaps, Restores, RunsCleanUp
  <2> QED
    BY <2>1, <2>2, <2>3, <2>4 DEF IInv
<1>2. IInv /\ [Next]_vars => IInv'
  <2> SUFFICES ASSUME IInv, [Next]_vars PROVE IInv'
    OBVIOUS
  <2>1. LockInv /\ JobInv /\ VmInv /\ Shapes
    BY DEF IInv, LockInv, JobInv, VmInv
  <2>2. LockInv'
    BY <2>1, LocksStep
  <2>3. ASSUME NEW a \in Actor, Move(a) PROVE JobInv' /\ VmInv'
    <3>1. PICK step \in Early \cup Late : Goes(a, step)
      BY <2>1, <2>3, MoveGoes
    <3>2. JobInv'
      BY <2>1, <2>3, <3>1, GoesJobs, MoveWork
    <3> QED
      BY <2>1, <2>3, <3>2, MoveVm
  <2>4. ASSUME NEW r \in Run, SpawnRun(r) PROVE JobInv' /\ VmInv'
    <3>1. pc' = [pc EXCEPT ![r] = "look"] /\ UNCHANGED <<state, from, present, upBy>>
      BY <2>4 DEF SpawnRun
    <3>2. VmInv'
      BY <2>1, <3>1, WithinVm DEF Mid, Snaps, Restores
    <3> QED
      BY <2>1, <2>4, <3>2, SpawnJobs
  <2>5. ASSUME \/ UNCHANGED vars \/ FireDue \/ SkipFire \/ FcExit
               \/ ApiConnect \/ ApiDestroy \/ DestroyCleanup
               \/ \E r \in Run : GuestStep(r)
        PROVE  JobInv' /\ VmInv'
    <3>1. UNCHANGED <<pc, holds, state, from, upBy>> /\ (present' => present)
      BY <2>5 DEF vars, FireDue, SkipFire, FcExit, ApiConnect, ApiDestroy,
                  DestroyCleanup, GuestStep, JobStarts, JobEnds, TakeStop, Hear,
                  GuestDoes, GuestOnly, Vm!Spoil, Vm!PowerOff, Vm!Destroy
    <3>2. VmInv'
      BY <2>1, <3>1 DEF VmInv, Own, RunsCleanUp
    <3> QED
      BY <2>1, <2>5, <3>1, <3>2, StillJobs
  <2>6. JobInv' /\ VmInv'
    BY <2>3, <2>4, <2>5, Zenon DEF Next, ApiStep, Move, ApiMove, Actor
  <2> QED
    BY <2>2, <2>6 DEF IInv, LockInv, JobInv, VmInv
<1> QED
  BY <1>1, <1>2, PTL DEF Spec

-----------------------------------------------------------------------------
(* What follows. *)

(* Runs of one VM never overlap, not even when a destroy takes the lock    *)
(* from under one of them; and two commands are in the guest at once only  *)
(* when a run could not deliver its stop.                                  *)
THEOREM Overlap == Spec => []NoOverlap
<1>1. IInv => NoOverlap
  <2> SUFFICES ASSUME IInv, NEW r \in Run, NEW s \in Run, r # s
               PROVE  /\ ~(AtWork(r) /\ AtWork(s))
                      /\ job[r] = "running" /\ job[s] = "running" =>
                            Undelivered(r) \/ Undelivered(s)
    BY Zenon DEF NoOverlap
  <2>1. ~(AtWork(r) /\ AtWork(s))
    BY DEF IInv, OneAtWork
  <2>2. ASSUME job[r] = "running", job[s] = "running"
        PROVE  Undelivered(r) \/ Undelivered(s)
    <3>1. present
      BY <2>2 DEF IInv, JobsOK
    <3>2. pc[r] = "idle" \/ pc[s] = "idle"
      BY <3>1 DEF IInv, LocksOK
    <3> QED
      BY <2>2, <3>2 DEF IInv, JobsOK, Undelivered
  <2> QED
    BY <2>1, <2>2
<1> QED
  BY <1>1, Inductive, PTL

(* A VM that a run has brought up is not left Started behind it, whichever *)
(* error ended the run and whatever the API did meanwhile.                 *)
THEOREM CleanUp == Spec => []RunsCleanUp
<1>1. IInv => RunsCleanUp
  BY DEF IInv
<1> QED
  BY <1>1, Inductive, PTL

-----------------------------------------------------------------------------
(* A run goes forward.                                                     *)

(* How far a step of a run is from its return. *)
ToGo(step) ==
    CASE step = "idle" -> 0
      [] step \in {"snapEnd", "snapUndo"} -> 1
      [] step = "snapKill" -> 2
      [] step = "snapSave" -> 3
      [] step = "snapBegin" -> 4
      [] step = "settle" -> 5
      [] step = "drain" -> 6
      [] step = "stopSend" -> 7
      [] step = "stopConn" -> 8
      [] step = "poll" -> 9
      [] step = "send" -> 10
      [] step = "connect" -> 11
      [] step = "launch" -> 12
      [] step \in {"restoreEnd", "startEnd", "pauseEnd", "resumeEnd"} -> 13
      [] step = "restoreSpawn" -> 14
      [] step \in {"restoreBegin", "startBegin"} -> 15
      [] step = "wake" -> 16
      [] step = "look" -> 17

(* Every step of a run brings it nearer to its return, on every path       *)
(* through run_scheduled and through the operations it calls, failures     *)
(* included, and nothing else moves a run that is under way.  So no run    *)
(* goes round in a loop that a timeout would not end: what can keep it is  *)
(* only an await.                                                          *)
RunsGoForward ==
    [][\A r \in Run :
          /\ RunStep(r) => ToGo(pc'[r]) < ToGo(pc[r])
          /\ ~RunStep(r) => pc'[r] = pc[r] \/ pc[r] = "idle"]_vars

(* A step of a run by the step it goes on to. *)
LEMMA RunAhead ==
  ASSUME Shapes, NEW r \in Run, RunStep(r)
  PROVE  ToGo(pc'[r]) < ToGo(pc[r])
<1>1. ASSUME NEW step, To(r, step) PROVE pc'[r] = step
  BY <1>1 DEF To, Shapes
<1>2. ASSUME NEW step, Leave(r, step) PROVE pc'[r] = step
  BY <1>1, <1>2 DEF Leave
<1>3. ASSUME NEW step, RunGoto(r, step) PROVE pc'[r] = step
  BY <1>1, <1>3 DEF RunGoto
<1> USE ScheduleAssumption DEF Done, Failed
<1>4. CASE Look(r) \/ Wake(r) \/ Launch(r)
  <2>1. \/ pc[r] = "look" /\ \E step \in {"wake", "startBegin", "launch", "settle"} :
                               RunGoto(r, step)
        \/ pc[r] = "wake" /\ \E step \in {"restoreBegin", "launch", "settle"} :
                               RunGoto(r, step)
        \/ pc[r] = "launch" /\ \E step \in {"connect", "settle"} : RunGoto(r, step)
    BY <1>4 DEF Look, Wake, Launch
  <2> QED
    BY <2>1, <1>3 DEF ToGo
<1>5. CASE \/ Send(r) \/ Poll(r) \/ StopSend(r) \/ Drain(r)
           \/ GuestConn(r, "connect", "send") \/ GuestConn(r, "stopConn", "stopSend")
  <2>1. \/ pc[r] = "connect" /\ \E step \in {"send", "settle"} : RunGoto(r, step)
        \/ pc[r] = "send" /\ \E step \in {"poll", "settle"} : RunGoto(r, step)
        \/ pc[r] = "poll" /\ \E step \in {"stopConn", "settle"} : RunGoto(r, step)
        \/ pc[r] = "stopConn" /\ \E step \in {"stopSend", "settle"} : RunGoto(r, step)
        \/ pc[r] = "stopSend" /\ \E step \in {"drain", "settle"} : RunGoto(r, step)
        \/ pc[r] = "drain" /\ RunGoto(r, "settle")
    BY <1>5 DEF Send, Poll, StopSend, Drain, GuestConn
  <2> QED
    BY <2>1, <1>3 DEF ToGo
<1>6. CASE Settle(r)
  <2>1. pc[r] = "settle" /\ \E step \in {"snapBegin", "idle"} : Leave(r, step)
    BY <1>6 DEF Settle
  <2> QED
    BY <2>1, <1>2 DEF ToGo
<1>7. ASSUME NEW op \in DOMAIN Entering, Begin(r, op)
      PROVE  ToGo(pc'[r]) < ToGo(pc[r])
  <2>1. Leave(r, First[op]) \/ Leave(r, Failed(r, op))
    BY <1>7 DEF Begin
  <2>2. pc'[r] = First[op] \/ pc'[r] = Failed(r, op)
    BY <2>1, <1>2
  <2>3. pc[r] = Entering[op] /\ op \in {"Starting", "Suspending", "Restoring"}
    BY <1>7 DEF Begin, Entering
  <2> QED
    BY <2>2, <2>3 DEF Entering, First, ToGo
<1>8. CASE VmStep(r)
  <2>1. ASSUME NEW op \in Vm!Operation, Finish(r, op)
        PROVE  ToGo(pc'[r]) < ToGo(pc[r])
    <3>1. To(r, Done(r, op)) \/ To(r, Failed(r, op))
      BY <2>1 DEF Finish
    <3>2. pc'[r] = "launch" \/ pc'[r] = "settle"
      BY <2>1, <3>1, <1>1 DEF Finish
    <3>3. pc[r] \in {"startEnd", "pauseEnd", "resumeEnd"}
      BY <2>1 DEF Finish, First
    <3> QED
      BY <3>2, <3>3 DEF ToGo
  <2>2. CASE RestoreSpawn(r) \/ RestoreEnd(r)
    <3>1. \/ /\ pc[r] = "restoreSpawn"
             /\ To(r, "restoreEnd") \/ To(r, "settle")
          \/ /\ pc[r] = "restoreEnd"
             /\ To(r, "launch") \/ To(r, "settle")
      BY <2>2 DEF RestoreSpawn, RestoreEnd
    <3> QED
      BY <3>1, <1>1 DEF ToGo
  <2>3. CASE SnapSave(r) \/ SnapKill(r)
    <3>1. \/ pc[r] = "snapSave" /\ (To(r, "snapKill") \/ To(r, "snapUndo"))
          \/ pc[r] = "snapKill" /\ To(r, "snapEnd")
      BY <2>3 DEF SnapSave, SnapKill
    <3> QED
      BY <3>1, <1>1 DEF ToGo
  <2>4. CASE SnapEnd(r) \/ SnapUndo(r)
    <3>1. pc[r] \in {"snapEnd", "snapUndo"} /\ Leave(r, "idle")
      BY <2>4 DEF SnapEnd, SnapUndo
    <3> QED
      BY <3>1, <1>2 DEF ToGo
  <2> QED
    BY <1>8, <2>1, <2>2, <2>3, <2>4, Zenon DEF VmStep
<1> QED
  BY <1>4, <1>5, <1>6, <1>7, <1>8, Zenon DEF RunStep

(* A step of anybody else leaves a run that is under way where it is. *)
LEMMA OthersStay ==
  ASSUME Shapes, NEW r \in Run, [Next]_vars, ~RunStep(r)
  PROVE  pc'[r] = pc[r] \/ pc[r] = "idle"
<1>1. ASSUME NEW a \in Actor, Move(a), a # r PROVE pc'[r] = pc[r]
  <2>1. PICK step \in Early \cup Late : Goes(a, step)
    BY <1>1, MoveGoes
  <2> QED
    BY <1>1, <2>1 DEF Goes, Shapes
<1>2. ASSUME NEW s \in Run, SpawnRun(s) PROVE pc'[r] = pc[r] \/ pc[r] = "idle"
  BY <1>2 DEF SpawnRun, Shapes
<1>3. Move(r) => RunStep(r)
  BY ScheduleAssumption, Zenon DEF Move, RunStep
<1>4. CASE ApiDestroy \/ DestroyCleanup \/ Quiet
  BY <1>4 DEF ApiDestroy, DestroyCleanup, Quiet
<1> QED
  BY <1>1, <1>2, <1>3, <1>4, Kinds

(* run_scheduled has no way back: every run is over after at most as many  *)
(* steps as ToGo says, for any number of runs and whatever the API does.   *)
THEOREM Forward == Spec => RunsGoForward
<1>1. IInv /\ [Next]_vars => [\A r \in Run :
          /\ RunStep(r) => ToGo(pc'[r]) < ToGo(pc[r])
          /\ ~RunStep(r) => pc'[r] = pc[r] \/ pc[r] = "idle"]_vars
  BY RunAhead, OthersStay DEF IInv
<1> QED
  BY <1>1, Inductive, PTL DEF Spec, RunsGoForward

-----------------------------------------------------------------------------
(* A stop that was sent is not lost in silence.                            *)

(* As long as the VM is in the map: which operation each place is in; a    *)
(* suspended VM, and one on its way down or up, has its snapshot; there is *)
(* one process at most, and none between a kill and the next restore.      *)
Placed ==
    /\ \A a \in Actor :
          /\ pc[a] = "startEnd" => state = "Starting" /\ from = "Created"
          /\ pc[a] = "pauseEnd" => state = "Pausing" /\ from = "Started"
          /\ pc[a] = "resumeEnd" => state = "Resuming" /\ from = "Paused"
          /\ pc[a] \in {"snapKill", "snapEnd"} \cup Restores => saved
          /\ pc[a] \in {"snapEnd", "restoreSpawn"} => live = {}
    /\ state = "Suspended" => saved /\ live = {}
    /\ \A p, q \in live : p = q

(* What became of a stop that guestd took: the workload runs until it      *)
(* ends, or went with a guest that no snapshot brings back.                *)
Taken ==
    \A r \in Run :
        /\ wl[r] = "active" => job[r] # "none"
        /\ stop[r] = "taken" => job[r] # "sent"
        /\ stop[r] = "taken" /\ job[r] = "lost" => live = {} /\ ~saved

Stands == present => Placed /\ Taken

(* The VM as far as Taken is concerned: no process comes back and no       *)
(* snapshot is made of a guest that is gone. *)
Gone == live = {} /\ ~saved
StaysGone == Gone => Gone'

(* The places.  Only the operation of its caller moves state and snapshot. *)
LEMMA VmStepPlaced ==
  ASSUME Shapes, Own, present, Placed, NEW a \in Actor, VmStep(a)
  PROVE  Placed' /\ StaysGone
<1> USE ScheduleAssumption DEF Placed, Own, Mid, Snaps, Restores, Gone, StaysGone
<1>0. ASSUME NEW step, To(a, step)
      PROVE  \A b \in Actor : pc'[b] = IF b = a THEN step ELSE pc[b]
  BY <1>0 DEF To, Shapes
<1>1. ASSUME NEW op \in Vm!Operation, Finish(a, op) PROVE Placed' /\ StaysGone
  <2>1. PICK step \in {"launch", "settle", "idle"} : To(a, step)
    BY <1>1 DEF Finish, Done, Failed
  <2>a. \/ state = "Starting" /\ from = "Created"
        \/ state = "Pausing" /\ from = "Started"
        \/ state = "Resuming" /\ from = "Paused"
    BY <1>1 DEF Finish, First
  <2>b. Vm!Complete \/ (Vm!RollBack /\ live' = live)
    BY <1>1 DEF Finish
  <2>c. saved' = saved /\ live' \subseteq live
    BY <2>b DEF Vm!Complete, Vm!RollBack
  <2>d. Vm!Complete => state' \in {"Started", "Paused"}
    BY <2>a DEF Vm!Complete, Vm!Completes
  <2>e. Vm!RollBack => state' \in {"Created", "Started", "Paused"}
    BY <2>a DEF Vm!RollBack
  <2>2. /\ state' # "Suspended" /\ saved' = saved /\ live' \subseteq live
    BY <2>b, <2>c, <2>d, <2>e
  <2>3. pc[a] \in {"startEnd", "pauseEnd", "resumeEnd"}
    BY <1>1 DEF Finish, First
  <2> QED
    BY <2>1, <2>2, <2>3, <1>0
<1>2. CASE RestoreSpawn(a)
  <2>1. PICK step \in {"restoreEnd", "settle", "idle"} : To(a, step)
    BY <1>2 DEF RestoreSpawn, Failed
  <2>2. saved /\ saved' /\ state' \in {"Restoring", "Suspended"}
    BY <1>2 DEF RestoreSpawn, Vm!PowerOn, Vm!RollBack
  <2>a. state' = "Suspended" => live' = {}
    BY <1>2 DEF RestoreSpawn, Vm!PowerOn, Vm!RollBack
  <2>3. \A p, q \in live' : p = q
    BY <1>2 DEF RestoreSpawn, Vm!PowerOn
  <2>4. pc[a] = "restoreSpawn"
    BY <1>2 DEF RestoreSpawn
  <2> QED
    BY <2>1, <2>2, <2>a, <2>3, <2>4, <1>0
<1>3. CASE RestoreEnd(a)
  <2>1. PICK step \in {"launch", "settle", "idle"} : To(a, step)
    BY <1>3 DEF RestoreEnd, Done, Failed
  <2>a. saved
    BY <1>3 DEF RestoreEnd
  <2>b. saved' = saved
    BY <1>3 DEF RestoreEnd, Vm!Complete, Vm!RollBack
  <2>2. saved /\ saved'
    BY <2>a, <2>b, Zenon
  <2>3. live' = live \/ live' = {}
    BY <1>3 DEF RestoreEnd, Vm!Complete
  <2>4. pc[a] = "restoreEnd"
    BY <1>3 DEF RestoreEnd
  <2>c. state' = "Suspended" => live' = {}
    <3>1. state = "Restoring"
      BY <2>4
    <3>2. Vm!Complete => state' = "Started"
      BY <3>1 DEF Vm!Complete, Vm!Completes
    <3> QED
      BY <1>3, <3>2 DEF RestoreEnd
  <2> QED
    BY <2>1, <2>2, <2>c, <2>3, <2>4, <1>0
<1>4. CASE SnapSave(a)
  <2>1. PICK step \in {"snapKill", "snapUndo"} :
           To(a, step) /\ (step = "snapKill" => saved' /\ live # {})
    BY <1>4 DEF SnapSave, Vm!Save
  <2>a. state = "Suspending" /\ \A b \in Actor : pc[b] \in Mid => b = a
    BY <1>4 DEF SnapSave
  <2>2. state' = "Suspending" /\ live' = live /\ (live = {} => saved' = saved \/ saved' = FALSE)
    BY <1>4, <2>a DEF SnapSave, Vm!Save, Vm!Spoil
  <2>3. pc[a] = "snapSave"
    BY <1>4 DEF SnapSave
  <2> QED
    BY <2>1, <2>2, <2>3, <1>0
<1>5. CASE SnapKill(a)
  <2>1. To(a, "snapEnd") /\ saved' = saved /\ state' = state /\ live' \subseteq live
    BY <1>5 DEF SnapKill, Vm!PowerOff
  <2>2. pc[a] = "snapKill"
    BY <1>5 DEF SnapKill
  <2>3. live' = {}
    BY <1>5 DEF SnapKill, Vm!PowerOff
  <2> QED
    BY <2>1, <2>2, <2>3, <1>0
<1>6. CASE SnapEnd(a) \/ SnapUndo(a)
  <2>1. To(a, "idle") /\ saved' = saved /\ live' = live
    BY <1>6 DEF SnapEnd, SnapUndo, Leave, Done, Failed, Vm!Complete,
     Vm!SnapshotUndone
  <2>a. state = "Suspending" /\ \A b \in Actor : pc[b] \in Mid => b = a
    BY <1>6 DEF SnapEnd, SnapUndo
  <2>2. pc[a] = "snapEnd" \/ (pc[a] = "snapUndo" /\ state' = "Started")
    BY <1>6, <2>a DEF SnapEnd, SnapUndo, Vm!Complete, Vm!SnapshotUndone
  <2> QED
    BY <2>1, <2>2, <1>0
<1> QED
  BY <1>1, <1>2, <1>3, <1>4, <1>5, <1>6, Zenon DEF VmStep

(* An operation begins. *)
LEMMA BeginPlaced ==
  ASSUME Shapes, Own, present, Placed, NEW a \in Actor, NEW op \in Vm!Operation,
         Vm!Begin(op), pc' = [pc EXCEPT ![a] = First[op]]
  PROVE  Placed' /\ StaysGone
<1>1. \A b \in Actor : pc'[b] = IF b = a THEN First[op] ELSE pc[b]
  BY DEF Shapes
<1>2. /\ state' = op /\ from' = state /\ saved' = saved /\ live' = live
      /\ state \in Vm!Begins[op]
  BY DEF Vm!Begin
<1>3. \A b \in Actor : pc[b] \notin Mid
  BY <1>2, Operations DEF Own
<1>4. op \in {"Starting", "Pausing", "Resuming", "Suspending", "Restoring"}
  BY Operations
<1> QED
  BY <1>1, <1>2, <1>3, <1>4
  DEF Placed, Mid, Snaps, Restores, First, Vm!Begins, Gone, StaysGone

(* Whoever goes on without the VM leaves it as it is. *)
LEMMA GotoPlaced ==
  ASSUME Shapes, Placed, NEW a \in Actor, NEW step,
         pc' = [pc EXCEPT ![a] = step], step \notin Mid,
         UNCHANGED <<state, from, saved>>, live' \subseteq live
  PROVE  Placed' /\ StaysGone
<1>1. \A b \in Actor : pc'[b] = IF b = a THEN step ELSE pc[b]
  BY DEF Shapes
<1> QED
  BY <1>1 DEF Placed, Mid, Snaps, Restores, Gone, StaysGone

LEMMA RunPlaced ==
  ASSUME Shapes, Own, present, Placed, NEW r \in Run, RunStep(r)
  PROVE  Placed' /\ StaysGone
<1>1. CASE VmStep(r)
  BY <1>1, VmStepPlaced
<1>2. ASSUME NEW op \in DOMAIN Entering, Begin(r, op) PROVE Placed' /\ StaysGone
  <2>1. op \in Vm!Operation
    BY Operations
  <2>2. CASE Vm!Begin(op) /\ Leave(r, First[op])
    BY <2>1, <2>2, BeginPlaced DEF Leave, To
  <2>3. CASE Leave(r, Failed(r, op)) /\ UNCHANGED vm
    <3>1. Failed(r, op) \notin Mid
      BY DEF Failed, Mid, Snaps, Restores
    <3> QED
      BY <2>3, <3>1, GotoPlaced DEF Leave, To
  <2> QED
    BY <1>2, <2>2, <2>3 DEF Begin
<1>3. CASE \/ Look(r) \/ Wake(r) \/ Launch(r) \/ Send(r) \/ Poll(r)
           \/ StopSend(r) \/ Drain(r) \/ Settle(r)
           \/ GuestConn(r, "connect", "send") \/ GuestConn(r, "stopConn", "stopSend")
  <2>1. PICK step \in {"wake", "startBegin", "launch", "settle", "connect",
                       "restoreBegin", "poll", "stopConn", "drain", "send",
                       "stopSend", "snapBegin", "idle"} :
           To(r, step) /\ UNCHANGED vm
    BY <1>3 DEF Look, Wake, Launch, Send, Poll, StopSend, Drain, Settle, GuestConn,
                RunGoto, Leave
  <2>2. step \notin Mid
    BY DEF Mid, Snaps, Restores
  <2> QED
    BY <2>1, <2>2, GotoPlaced DEF To
<1> QED
  BY <1>1, <1>2, <1>3, Zenon DEF RunStep

LEMMA MovePlaced ==
  ASSUME Shapes, Own, present, Placed, NEW a \in Actor, Move(a)
  PROVE  Placed' /\ StaysGone
<1>1. CASE a = Api /\ ApiAbandon
  BY <1>1, GotoPlaced DEF ApiAbandon, To, Mid, Snaps, Restores
<1>2. ASSUME a = Api, NEW op \in ApiOps, ApiCall(op) PROVE Placed' /\ StaysGone
  BY <1>2, BeginPlaced, ScheduleAssumption DEF ApiCall, To
<1> QED
  BY <1>1, <1>2, VmStepPlaced, RunPlaced, Zenon DEF Move, ApiMove

(* What a step of an actor does to the workloads: it cuts the connection,  *)
(* sends a request, or leaves them alone. *)
LEMMA MoveTaken ==
  ASSUME Shapes, JobsOK, Taken, StaysGone, NEW a \in Actor, Move(a)
  PROVE  Taken'
<1> USE DEF Taken, StaysGone, Gone
<1>1. CASE UNCHANGED <<wl, job, stop>>
  BY <1>1
<1>2. CASE Forgets(a)
  BY <1>2 DEF Forgets, Shapes
<1>3. CASE Frozen
  <2>1. /\ \A r \in Run : job'[r] = IF job[r] = "sent" THEN "lost" ELSE job[r]
        /\ \A r \in Run : stop'[r] = IF stop[r] = "sent" THEN "no" ELSE stop[r]
        /\ wl' = wl
    BY <1>3 DEF Frozen, Cut
  <2> QED
    BY <2>1
<1>4. CASE a \in Run /\ Send(a)
  <2>1. stop[a] = "no"
    BY <1>4 DEF Send, JobsOK, Late, Snaps
  <2>2. \/ UNCHANGED <<wl, job, stop>>
        \/ /\ UNCHANGED stop
           /\ wl' = [wl EXCEPT ![a] = "active"]
           /\ job' = [job EXCEPT ![a] = IF conn THEN "sent" ELSE "lost"]
    BY <1>4 DEF Send
  <2> QED
    BY <1>4, <2>1, <2>2 DEF Shapes
<1>5. CASE a \in Run /\ StopSend(a)
  <2>1. \/ UNCHANGED <<wl, job, stop>>
        \/ /\ UNCHANGED <<wl, job>>
           /\ stop' = [stop EXCEPT ![a] = IF conn THEN "sent" ELSE "no"]
    BY <1>5 DEF StopSend
  <2> QED
    BY <1>5, <2>1 DEF Shapes
<1> QED
  BY <1>1, <1>2, <1>3, <1>4, <1>5, MoveWork

(* Firecracker dies: what no snapshot has is gone for good. *)
LEMMA ExitStands ==
  ASSUME Shapes, Placed, Taken, FcExit
  PROVE  Placed' /\ Taken'
<1>1. PICK p \in live : live' = live \ {p} /\ UNCHANGED <<state, from, present, saved>>
  BY DEF FcExit, Vm!PowerOff
<1>2. live' = {}
  BY <1>1 DEF Placed
<1>3. pc' = pc
  BY DEF FcExit
<1>4. Placed'
  BY <1>1, <1>2, <1>3 DEF Placed
<1>5. /\ \A r \in Run : /\ job'[r] = job[r] \/ job'[r] = "lost"
                        /\ job'[r] # "sent"
                        /\ job'[r] = "lost" =>
                              job[r] \in {"sent", "lost"} \/ ~saved
      /\ \A r \in Run : stop'[r] = "taken" => stop[r] = "taken"
      /\ wl' = wl
  <2>1. CASE saved
    <3>1. Frozen
      BY <2>1 DEF FcExit
    <3> QED
      BY <3>1 DEF Frozen, Cut
  <2>2. CASE ~saved
    <3>1. Dead
      BY <2>2 DEF FcExit
    <3> QED
      BY <2>2, <3>1 DEF Dead, Cut
  <2> QED
    BY <2>1, <2>2
<1>6. Taken'
  <2> SUFFICES ASSUME NEW r \in Run
               PROVE  /\ wl'[r] = "active" => job'[r] # "none"
                      /\ stop'[r] = "taken" => job'[r] # "sent"
                      /\ stop'[r] = "taken" /\ job'[r] = "lost" => live' = {} /\ ~saved'
    BY DEF Taken
  <2>0. /\ job'[r] = job[r] \/ job'[r] = "lost"
        /\ job'[r] # "sent" /\ wl'[r] = wl[r]
    BY <1>5
  <2>1. wl'[r] = "active" => job'[r] # "none"
    BY <2>0 DEF Taken
  <2>2. stop'[r] = "taken" => stop[r] = "taken" /\ job[r] # "sent"
    BY <1>5 DEF Taken
  <2>3. stop'[r] = "taken" /\ job'[r] = "lost" => ~saved
    <3> SUFFICES ASSUME stop'[r] = "taken", job'[r] = "lost" PROVE ~saved
      OBVIOUS
    <3>1. job[r] = "lost" \/ ~saved
      BY <1>5, <2>2
    <3>2. stop[r] = "taken" /\ job[r] = "lost" => ~saved
      BY Zenon DEF Taken
    <3> QED
      BY <2>2, <3>1, <3>2, Zenon
  <2>4. saved' = saved
    BY <1>1
  <2> QED
    BY <1>2, <2>0, <2>1, <2>3, <2>4, Zenon
<1> QED
  BY <1>4, <1>6

(* The guest runs: the VM is Started, and nobody is between two steps of   *)
(* an operation on it. *)
LEMMA GuestStands ==
  ASSUME Shapes, Own, present, Placed, Taken, NEW r \in Run, GuestStep(r)
  PROVE  Placed' /\ Taken'
<1>1. CASE Hear(r)
  BY <1>1 DEF Hear, Shapes, Placed, Taken
<1>2. ASSUME GuestDoes, UNCHANGED pc PROVE Placed' /\ live' # {} /\ live' = live
  <2>1. live # {} /\ state = "Started" /\ UNCHANGED <<state, from, live>>
    BY <1>2 DEF GuestDoes, Running, Vm!Spoil
  <2>2. \A a \in Actor : pc[a] \notin Mid
    BY <2>1, Operations DEF Own
  <2> QED
    BY <1>2, <2>1, <2>2 DEF Placed, Mid, Snaps, Restores
<1>3. CASE JobStarts(r)
  <2>1. Placed' /\ live' # {} /\ live' = live
    BY <1>2, <1>3 DEF JobStarts, GuestOnly
  <2> QED
    BY <1>3, <2>1 DEF JobStarts, GuestOnly, Shapes, Taken
<1>4. CASE JobEnds(r)
  <2>1. Placed' /\ live' # {} /\ live' = live
    BY <1>2, <1>4 DEF JobEnds, GuestOnly
  <2> QED
    BY <1>4, <2>1 DEF JobEnds, GuestOnly, Shapes, Taken
<1>5. CASE TakeStop(r)
  <2>1. Placed' /\ live' # {} /\ live' = live
    BY <1>2, <1>5 DEF TakeStop, GuestOnly
  <2> QED
    BY <1>5, <2>1 DEF TakeStop, GuestOnly, Shapes, Taken
<1> QED
  BY <1>1, <1>3, <1>4, <1>5 DEF GuestStep

(* Every step keeps it. *)
LEMMA StandsStep ==
  ASSUME Shapes, Own, JobsOK, Stands, [Next]_vars
  PROVE  Stands'
<1>1. ASSUME NEW a \in Actor, Move(a) PROVE Stands'
  <2>1. UNCHANGED present
    BY <1>1, MoveGoes DEF Goes
  <2> QED
    BY <1>1, <2>1, MovePlaced, MoveTaken DEF Stands
<1>2. ASSUME NEW r \in Run, SpawnRun(r) PROVE Stands'
  <2>1. /\ pc' = [pc EXCEPT ![r] = "look"] /\ pc[r] = "idle"
        /\ job' = [job EXCEPT ![r] = "none"] /\ stop' = [stop EXCEPT ![r] = "no"]
        /\ UNCHANGED <<state, from, present, live, saved, wl>>
    BY <1>2 DEF SpawnRun
  <2>2. present => Placed'
    BY <2>1, GotoPlaced DEF Stands, Mid, Snaps, Restores
  <2>3. wl[r] = "none"
    BY <2>1 DEF JobsOK
  <2>4. present => Taken'
    BY <2>1, <2>3 DEF Stands, Taken, Shapes
  <2> QED
    BY <2>1, <2>2, <2>4 DEF Stands
<1>3. CASE \/ UNCHANGED vars \/ FireDue \/ SkipFire \/ ApiConnect \/ DestroyCleanup
  <2>1. UNCHANGED <<state, from, present, live, saved, pc, wl, job, stop>>
    BY <1>3 DEF vars, FireDue, SkipFire, ApiConnect, DestroyCleanup
  <2> QED
    BY <2>1 DEF Stands, Placed, Taken
<1>4. CASE ApiDestroy
  BY <1>4 DEF ApiDestroy, Vm!Destroy, Stands
<1>5. CASE FcExit
  <2>1. UNCHANGED present
    BY <1>5 DEF FcExit, Vm!PowerOff
  <2> QED
    BY <1>5, <2>1, ExitStands DEF Stands
<1>6. ASSUME NEW r \in Run, GuestStep(r) PROVE Stands'
  <2>1. UNCHANGED present
    BY <1>6 DEF GuestStep, JobStarts, JobEnds, TakeStop, Hear, GuestDoes, Vm!Spoil
  <2> QED
    BY <1>6, <2>1, GuestStands DEF Stands
<1> QED
  BY <1>1, <1>2, <1>3, <1>4, <1>5, <1>6, Zenon
  DEF Next, ApiStep, Move, ApiMove, Actor

(* What TimeoutEndsRun rests on: a run that waits for the exit of the      *)
(* workload it has stopped (await_workload after stop_workload, without a  *)
(* bound) does so in vain only in the case CutOff names.  Otherwise the    *)
(* stop is on its way to guestd, or guestd has it and the workload runs or *)
(* its exit is about to be heard; it is not lost in silence.               *)
StopStands ==
    \A r \in Run :
        pc[r] = "drain" /\ present /\ wl[r] = "active" /\ ~CutOff(r) =>
            \/ stop[r] = "sent"
            \/ stop[r] = "taken" /\ job[r] \in {"running", "ended"}

THEOREM WaitIsFounded == Spec => []StopStands
<1>1. Init => Stands
  BY DEF Init, Stands, Placed, Taken, Restores
<1>2. IInv /\ Stands /\ [Next]_vars => Stands'
  BY StandsStep DEF IInv
<1>3. IInv /\ Stands => StopStands
  BY DEF IInv, Shapes, Stands, Taken, StopStands, CutOff, Running
<1> QED
  BY <1>1, <1>2, <1>3, Inductive, PTL DEF Spec

(* An operation that is under way is not held up by what AbstractVm        *)
(* demands of its steps: when a run or the API comes to the second         *)
(* transition of a snapshot, the process is gone and the snapshot there    *)
(* (Vm!Complete); when it comes to the spawn of a restore, no process is   *)
(* there (Vm!PowerOn, and Vm!RollBack on a failure); and whoever is inside *)
(* an operation finds the VM in it.  So the guards of AbstractVm, whose    *)
(* steps are those of VmLifecycle, hide no behaviour of the scheduler.     *)
GuardsAreMet ==
    present => \A a \in Actor :
        /\ pc[a] \in Mid => state \in Vm!Operation
        /\ pc[a] = "snapEnd" => state = "Suspending" /\ live = {} /\ saved
        /\ pc[a] = "restoreSpawn" => state = "Restoring" /\ live = {} /\ saved

THEOREM NotHeldUp == Spec => []GuardsAreMet
<1>1. Init => Stands
  BY DEF Init, Stands, Placed, Taken, Restores
<1>2. IInv /\ Stands /\ [Next]_vars => Stands'
  BY StandsStep DEF IInv
<1>3. IInv /\ Stands => GuardsAreMet
  BY DEF IInv, Own, Stands, Placed, GuardsAreMet, Mid, Snaps, Restores
<1> QED
  BY <1>1, <1>2, <1>3, Inductive, PTL DEF Spec
-----------------------------------------------------------------------------
(* Type correctness. *)

AtRest == {"Created", "Started", "Paused", "Suspended"}

FlagsOK ==
    /\ present \in BOOLEAN /\ saved \in BOOLEAN
    /\ due \in BOOLEAN /\ cleaning \in BOOLEAN /\ conn \in BOOLEAN

ValuesOK ==
    /\ state \in AtRest \cup Vm!Operation
    /\ from \in AtRest \cup {"Destroyed"}
    /\ state \in Vm!Operation => from \in AtRest
    /\ live \subseteq Proc
    /\ upBy \in Actor \cup {None} /\ entry \in Lock \cup {None}
    /\ abandons \in 0..MaxAbandons

(* Every variable keeps its type: the VM's state is one of VmState that a  *)
(* VM in the map can have, and a state it rolls back to is a stable one.   *)
TypeOK == FlagsOK /\ ValuesOK /\ Shapes

LEMMA FlagsStep ==
  ASSUME FlagsOK, [Next]_vars
  PROVE  FlagsOK'
<1> USE DEF FlagsOK, Leave, To, Frozen, Dead, Cut,
     Vm!Begin, Vm!Complete, Vm!RollBack, Vm!PowerOn, Vm!PowerOff, Vm!Save,
     Vm!Spoil, Vm!Destroy, Vm!SnapshotUndone
<1>1. ASSUME NEW a \in Actor, VmStep(a) PROVE FlagsOK'
  BY <1>1, ZenonT(30) DEF VmStep, Finish, RestoreSpawn, RestoreEnd, SnapSave, SnapKill,
     SnapEnd, SnapUndo
<1>2. ASSUME NEW r \in Run, NEW op \in DOMAIN Entering, Begin(r, op) PROVE FlagsOK'
  BY <1>2, ZenonT(30) DEF Begin
<1>3. ASSUME NEW r \in Run,
             \/ Look(r) \/ Wake(r) \/ Launch(r) \/ Send(r) \/ Poll(r)
             \/ StopSend(r) \/ Drain(r) \/ Settle(r)
             \/ GuestConn(r, "connect", "send") \/ GuestConn(r, "stopConn", "stopSend")
      PROVE  FlagsOK'
  BY <1>3, ZenonT(30) DEF Look, Wake, Launch, Send, Poll, StopSend, Drain, Settle, GuestConn,
     RunGoto
<1>4. ASSUME NEW r \in Run, GuestStep(r) PROVE FlagsOK'
  BY <1>4, ZenonT(30) DEF GuestStep, JobStarts, JobEnds, TakeStop, Hear, GuestDoes, GuestOnly
<1>5. ASSUME NEW op \in ApiOps, ApiCall(op) PROVE FlagsOK'
  BY <1>5, ZenonT(30) DEF ApiCall
<1>6. CASE ApiAbandon \/ ApiConnect \/ ApiDestroy \/ DestroyCleanup
  BY <1>6, ZenonT(30) DEF ApiAbandon, ApiConnect, ApiDestroy, DestroyCleanup
<1>7. CASE FireDue \/ SkipFire \/ FcExit \/ UNCHANGED vars
  BY <1>7, ZenonT(30) DEF FireDue, SkipFire, FcExit, vars
<1>8. ASSUME NEW r \in Run, SpawnRun(r) PROVE FlagsOK'
  BY <1>8, ZenonT(30) DEF SpawnRun
<1> QED
  BY <1>1, <1>2, <1>3, <1>4, <1>5, <1>6, <1>7, <1>8, Zenon
  DEF Next, ApiStep, RunStep

LEMMA ValuesStep ==
  ASSUME ValuesOK, [Next]_vars
  PROVE  ValuesOK'
<1> USE ScheduleAssumption, Operations
    DEF ValuesOK, AtRest, Leave, To, Frozen, Dead, Cut, Raised,
        Vm!Begins, Vm!Completes,
     Vm!Begin, Vm!Complete, Vm!RollBack, Vm!PowerOn, Vm!PowerOff, Vm!Save,
     Vm!Spoil, Vm!Destroy, Vm!SnapshotUndone
<1>1. ASSUME NEW a \in Actor, VmStep(a) PROVE ValuesOK'
  BY <1>1 DEF VmStep, Finish, RestoreSpawn, RestoreEnd, SnapSave, SnapKill,
     SnapEnd, SnapUndo
<1>2. ASSUME NEW r \in Run, NEW op \in DOMAIN Entering, Begin(r, op) PROVE ValuesOK'
  BY <1>2 DEF Begin
<1>3. ASSUME NEW r \in Run,
             \/ Look(r) \/ Wake(r) \/ Launch(r) \/ Send(r) \/ Poll(r)
             \/ StopSend(r) \/ Drain(r) \/ Settle(r)
             \/ GuestConn(r, "connect", "send") \/ GuestConn(r, "stopConn", "stopSend")
      PROVE  ValuesOK'
  BY <1>3 DEF Look, Wake, Launch, Send, Poll, StopSend, Drain, Settle, GuestConn,
     RunGoto
<1>4. ASSUME NEW r \in Run, GuestStep(r) PROVE ValuesOK'
  BY <1>4 DEF GuestStep, JobStarts, JobEnds, TakeStop, Hear, GuestDoes, GuestOnly
<1>5. ASSUME NEW op \in ApiOps, ApiCall(op) PROVE ValuesOK'
  BY <1>5 DEF ApiCall
<1>6. CASE ApiAbandon \/ ApiConnect \/ ApiDestroy \/ DestroyCleanup
  BY <1>6 DEF ApiAbandon, ApiConnect, ApiDestroy, DestroyCleanup
<1>7. CASE FireDue \/ SkipFire \/ FcExit \/ UNCHANGED vars
  BY <1>7 DEF FireDue, SkipFire, FcExit, vars
<1>8. ASSUME NEW r \in Run, SpawnRun(r) PROVE ValuesOK'
  BY <1>8 DEF SpawnRun
<1> QED
  BY <1>1, <1>2, <1>3, <1>4, <1>5, <1>6, <1>7, <1>8, Zenon
  DEF Next, ApiStep, RunStep

(* Type correctness of the scheduler, for any number of runs. *)
THEOREM TypeCorrect == Spec => []TypeOK
<1>1. Init => FlagsOK
  BY Zenon DEF Init, FlagsOK
<1>2. Init => ValuesOK
  BY ScheduleAssumption, Operations DEF Init, ValuesOK, AtRest
<1>3. FlagsOK /\ ValuesOK /\ [Next]_vars => (FlagsOK /\ ValuesOK)'
  BY FlagsStep, ValuesStep
<1>4. IInv => Shapes
  BY DEF IInv
<1> QED
  BY <1>1, <1>2, <1>3, <1>4, Inductive, PTL DEF Spec, TypeOK
=============================================================================

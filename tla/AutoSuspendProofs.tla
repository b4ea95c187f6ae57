-------------------------- MODULE AutoSuspendProofs --------------------------
(***************************************************************************)
(* What AutoSuspend guarantees for every number of requests and exec calls,*)
(* every idle timeout and every number of clients that go away: the        *)
(* in-flight count is exact, and the gate cannot be passed under an older  *)
(* request or within the cooldown of an older wake.                        *)
(*                                                                         *)
(* The gate is about the count, the promise about the requests.  So the    *)
(* inductive invariant first ties the two together (Counted: the count is  *)
(* exact until the VM is forgotten, and an absent entry counts nothing),   *)
(* then says what a detector between its reading of the count and its      *)
(* snapshot may rely on (Passed).                                          *)
(*                                                                         *)
(* The last part is about the callers of ensure_started: the lock they     *)
(* wait for has a holder at work, and so has a suspend or a restore that   *)
(* is under way (LockHeld, Suspends, Restores).                            *)
(***************************************************************************)
EXTENDS AutoSuspend, FiniteSetTheorems, TLAPS

(* Frames, jumps and groups of actions, which every leaf may look into. *)
USE DEF vmvars, ports, activity, Goto, Return, Track, Untrack, Note, Awake,
        AfterWake, Pass, Pc, Age, Unknown, Detector, Api, Waker, Caller,
        Older, WakeStep, RestoreStep, RequestStep, GateStep, SnapStep,
        ExecStep, GuestCall, WakerStep, DetectorStep, ApiStep, PortStep

-----------------------------------------------------------------------------
(* The Boolean variables start and stay Boolean. *)
LEMMA FlagsStep ==
  ASSUME FlagsOK, [Next]_vars
  PROVE  FlagsOK'
<1>1. CASE UNCHANGED vars
  BY <1>1, Zenon DEF FlagsOK, vars
<1>2. ASSUME NEW r \in Req, NEW p \in Port, Arrive(r, p) PROVE FlagsOK'
  BY <1>2, Zenon DEF FlagsOK, Arrive
<1>3. ASSUME NEW r \in Req, RequestStep(r) \/ Answer(r) \/ StreamEnd(r)
      PROVE  FlagsOK'
  BY <1>3, Zenon DEF FlagsOK, Look, Check, Connect, Answer, StreamEnd
<1>4. ASSUME NEW e \in Exec, ExecCall(e) \/ ExecStep(e) \/ GuestCall(e)
      PROVE  FlagsOK'
  BY <1>4, Zenon DEF FlagsOK, ExecCall, Launch, Reach, Poll, Stop
<1>5. ASSUME NEW w \in Waker, WakeStep(w) \/ Drop(w) PROVE FlagsOK'
  BY <1>5, Zenon DEF FlagsOK, WakeAcquire, WakeLoop, Drop
<1>6. ASSUME NEW x \in Caller, RestoreStep(x) \/ SnapStep(x) PROVE FlagsOK'
  BY <1>6, Zenon DEF FlagsOK, RestoreBegin, RestoreEnd, RestoreRecord,
     SnapBegin, SnapEnd
<1>7. ASSUME NEW d \in Detector, GateStep(d) PROVE FlagsOK'
  BY <1>7, Zenon DEF FlagsOK, GateVm, GateFlight, GateWake
<1>8. CASE HttpScan \/ GuestSignal \/ GuestIdle \/ WorkloadExits \/ Tick
  BY <1>8, Zenon DEF FlagsOK, HttpScan, GuestSignal, GuestIdle,
     WorkloadExits, Tick
<1>9. ASSUME NEW step \in {"snap", "restore"}, ApiCall(step) PROVE FlagsOK'
  BY <1>9, Zenon DEF FlagsOK, ApiCall
<1>10. CASE PauseResume \/ DestroyEnter \/ DestroyClean
  BY <1>10, Zenon DEF FlagsOK, PauseResume, DestroyEnter, DestroyClean
<1>11. ASSUME NEW p \in Port, PortStep(p) PROVE FlagsOK'
  BY <1>11, Zenon DEF FlagsOK, AddPort, RemovePort, MintToken
<1> QED
  BY <1>1, <1>2, <1>3, <1>4, <1>5, <1>6, <1>7, <1>8, <1>9, <1>10, <1>11
  DEF Next

(* The other variables keep their types. *)
LEMMA ShapesStep ==
  ASSUME FlagsOK, ShapesOK, [Next]_vars
  PROVE  ShapesOK'
<1> USE NumbersAssumption DEF ShapesOK
<1>1. CASE UNCHANGED vars
  BY <1>1 DEF vars
<1>2. ASSUME NEW r \in Req, NEW p \in Port, Arrive(r, p) PROVE ShapesOK'
  BY <1>2 DEF Arrive
<1>3. ASSUME NEW r \in Req, RequestStep(r) \/ Answer(r) \/ StreamEnd(r)
      PROVE  ShapesOK'
  BY <1>3 DEF Look, Check, Connect, Answer, StreamEnd
<1>4. ASSUME NEW e \in Exec, ExecCall(e) \/ ExecStep(e) \/ GuestCall(e)
      PROVE  ShapesOK'
  BY <1>4 DEF ExecCall, Launch, Reach, Poll, Stop
<1>5. ASSUME NEW w \in Waker, WakeStep(w) \/ Drop(w) PROVE ShapesOK'
  BY <1>5 DEF WakeAcquire, WakeLoop, Drop
<1>6. ASSUME NEW x \in Caller, RestoreStep(x) \/ SnapStep(x) PROVE ShapesOK'
  BY <1>6 DEF RestoreBegin, RestoreEnd, RestoreRecord, SnapBegin, SnapEnd
<1>7. ASSUME NEW d \in Detector, GateStep(d) PROVE ShapesOK'
  BY <1>7 DEF GateVm, GateFlight, GateWake
<1>8. CASE HttpScan \/ GuestSignal \/ GuestIdle \/ WorkloadExits \/ Tick
  BY <1>8 DEF HttpScan, GuestSignal, GuestIdle, WorkloadExits, Tick
<1>9. ASSUME NEW step \in {"snap", "restore"}, ApiCall(step) PROVE ShapesOK'
  BY <1>9 DEF ApiCall
<1>10. CASE PauseResume \/ DestroyEnter \/ DestroyClean
  BY <1>10 DEF PauseResume, DestroyEnter, DestroyClean
<1>11. ASSUME NEW p \in Port, PortStep(p) PROVE ShapesOK'
  BY <1>11 DEF AddPort, RemovePort, MintToken
<1> QED
  BY <1>1, <1>2, <1>3, <1>4, <1>5, <1>6, <1>7, <1>8, <1>9, <1>10, <1>11
  DEF Next

(* The variables start with their types. *)
LEMMA TypeInit == Init => TypeOK
<1>1. Init => FlagsOK
  BY Zenon DEF Init, FlagsOK
<1>2. Init => ShapesOK
  BY NumbersAssumption, CallerAssumption DEF Init, ShapesOK
<1> QED
  BY <1>1, <1>2 DEF TypeOK

(* Every variable keeps its type, for any constants. *)
THEOREM TypeCorrect == Spec => []TypeOK
<1>1. Init => TypeOK
  BY TypeInit
<1>2. TypeOK /\ [Next]_vars => TypeOK'
  BY FlagsStep, ShapesStep DEF TypeOK
<1> QED
  BY <1>1, <1>2, PTL DEF Spec

-----------------------------------------------------------------------------
(* The in-flight count. *)

(* Until the VM is forgotten the count is exact; afterwards it is at most  *)
(* the number of open requests.  Without an entry nothing is counted, and  *)
(* a VM that is being forgotten is out of the map.                         *)
Counted ==
    /\ InFlightExact
    /\ inFlight <= Cardinality(Open)
    /\ ~entry => inFlight = 0
    /\ pc[Api] = "clean" => ~registered

(* The open requests are finitely many. *)
LEMMA OpenFinite == IsFiniteSet(Open) /\ Cardinality(Open) \in Nat
<1>1. Open \in SUBSET Req
  BY DEF Open
<1> QED
  BY <1>1, CallerAssumption, FS_Subset, FS_CardinalityType

(* A step that opens and closes no request, leaves the counter alone and   *)
(* forgets no VM. *)
Steady ==
    /\ Open' = Open /\ entry' = entry /\ inFlight' = inFlight
    /\ registered' = registered
    /\ pc'[Api] = "clean" => pc[Api] = "clean"

(* Such a step keeps the count. *)
LEMMA SteadyCounts ==
  ASSUME Counted, Steady
  PROVE  Counted'
BY DEF Counted, Steady, InFlightExact

(* The return of a request closes it and uncounts it. *)
LEMMA ReturnCounts ==
  ASSUME TypeOK, Counted, NEW r \in Req, pc[r] # "idle", Return(r),
         registered' = registered
  PROVE  Counted'
<1> USE DEF TypeOK, ShapesOK
<1>1. Open' = Open \ {r} /\ r \in Open
  BY CallerAssumption DEF Open
<1>2. /\ Cardinality(Open)' = Cardinality(Open) - 1
      /\ Cardinality(Open)' \in Nat
  <2>1. /\ IsFiniteSet(Open \ {r})
        /\ Cardinality(Open \ {r}) = Cardinality(Open) - 1
    BY <1>1, OpenFinite, FS_RemoveElement
  <2> QED
    BY <1>1, <2>1, FS_CardinalityType
<1>3. pc'[Api] = pc[Api]
  BY CallerAssumption
<1>4. CASE entry
  BY <1>2, <1>3, <1>4, OpenFinite DEF Counted, InFlightExact
<1>5. CASE ~entry
  BY <1>2, <1>3, <1>5, OpenFinite DEF Counted, InFlightExact
<1> QED
  BY <1>4, <1>5

(* The return of another caller concerns no request. *)
LEMMA ReturnSteady ==
  ASSUME TypeOK, NEW x \in Caller \ Req, pc[x] # "clean", Return(x),
         registered' = registered
  PROVE  Steady
BY CallerAssumption DEF TypeOK, ShapesOK, Steady, Open

(* A caller that is open and stays open concerns no request either. *)
LEMMA GotoSteady ==
  ASSUME TypeOK, NEW x \in Caller, NEW step \in Pc \ {"clean"}, Goto(x, step),
         x \in Req => pc[x] # "idle" /\ step # "idle",
         UNCHANGED <<registered, entry, inFlight>>
  PROVE  Steady
BY CallerAssumption DEF TypeOK, ShapesOK, Steady, Open

(* Every step keeps the count. *)
LEMMA CountedStep ==
  ASSUME TypeOK, Counted, [Next]_vars
  PROVE  Counted'
<1>1. CASE UNCHANGED vars
  <2>1. Steady
    BY <1>1 DEF vars, Steady, Open
  <2> QED
    BY <2>1, SteadyCounts
<1>2. ASSUME NEW r \in Req, NEW p \in Port, Arrive(r, p) PROVE Counted'
  <2> USE DEF TypeOK, ShapesOK
  <2>1. Open' = Open \cup {r} /\ r \notin Open /\ pc'[Api] = pc[Api]
    BY <1>2, CallerAssumption DEF Arrive, Open
  <2>2. Cardinality(Open)' = Cardinality(Open) + 1
    BY <2>1, OpenFinite, FS_AddElement
  <2> QED
    BY <1>2, <2>1, <2>2, OpenFinite DEF Arrive, Counted, InFlightExact
<1>3. ASSUME NEW r \in Req, RequestStep(r) \/ Answer(r) \/ StreamEnd(r)
      PROVE  Counted'
  <2>1. pc[r] # "idle" /\ registered' = registered
    BY <1>3 DEF Look, Check, Connect, Answer, StreamEnd
  <2>2. Return(r) \/ \E step \in Pc \ {"clean", "idle"} :
                          Goto(r, step) /\ UNCHANGED activity
    BY <1>3 DEF Look, Check, Connect, Answer, StreamEnd
  <2> QED
    BY <2>1, <2>2, ReturnCounts, GotoSteady, SteadyCounts
<1>4. ASSUME NEW e \in Exec, ExecCall(e) \/ ExecStep(e) \/ GuestCall(e)
      PROVE  Counted'
  <2>1. Steady
    BY <1>4, ReturnSteady, GotoSteady, CallerAssumption
    DEF ExecCall, Launch, Reach, Poll, Stop
  <2> QED
    BY <2>1, SteadyCounts
<1>5. ASSUME NEW w \in Waker, WakeStep(w) \/ Drop(w) PROVE Counted'
  <2>1. pc[w] \notin {"idle", "clean"} /\ registered' = registered
    BY <1>5 DEF WakeAcquire, WakeLoop, Drop
  <2>2. Return(w) \/ \E step \in Pc \ {"clean", "idle"} :
                          Goto(w, step) /\ UNCHANGED activity
    BY <1>5 DEF WakeAcquire, WakeLoop, Drop
  <2> QED
    BY <2>1, <2>2, ReturnCounts, ReturnSteady, GotoSteady, SteadyCounts
<1>6. ASSUME NEW x \in Caller, RestoreStep(x) PROVE Counted'
  <2>1. pc[x] \notin {"idle", "clean"} /\ registered' = registered
    BY <1>6 DEF RestoreBegin, RestoreEnd, RestoreRecord
  <2>2. Return(x) \/ \E step \in Pc \ {"clean", "idle"} :
                          Goto(x, step) /\ UNCHANGED activity
    BY <1>6 DEF RestoreBegin, RestoreEnd, RestoreRecord
  <2> QED
    BY <2>1, <2>2, ReturnCounts, ReturnSteady, GotoSteady, SteadyCounts
<1>7. ASSUME NEW x \in Detector \cup {Api}, SnapStep(x) PROVE Counted'
  <2>1. Steady
    BY <1>7, GotoSteady, CallerAssumption DEF SnapBegin, SnapEnd
  <2> QED
    BY <2>1, SteadyCounts
<1>8. ASSUME NEW d \in Detector, GateStep(d) PROVE Counted'
  <2>1. Steady
    BY <1>8, GotoSteady, CallerAssumption DEF GateVm, GateFlight, GateWake
  <2> QED
    BY <2>1, SteadyCounts
<1>9. CASE HttpScan \/ GuestSignal
  <2>1. Steady
    BY <1>9, GotoSteady, CallerAssumption DEF HttpScan, GuestSignal
  <2> QED
    BY <2>1, SteadyCounts
<1>10. CASE GuestIdle \/ WorkloadExits \/ Tick \/ PauseResume
            \/ \E p \in Port : PortStep(p)
  <2>1. Steady
    BY <1>10 DEF GuestIdle, WorkloadExits, Tick, PauseResume, AddPort,
       RemovePort, MintToken, Steady, Open
  <2> QED
    BY <2>1, SteadyCounts
<1>11. ASSUME NEW step \in {"snap", "restore"}, ApiCall(step) PROVE Counted'
  <2>1. Steady
    BY <1>11, GotoSteady, CallerAssumption DEF ApiCall
  <2> QED
    BY <2>1, SteadyCounts
<1>12. CASE DestroyEnter
  <2>1. Open' = Open /\ registered /\ ~registered'
    BY <1>12, CallerAssumption DEF DestroyEnter, Open, TypeOK, ShapesOK
  <2> QED
    BY <1>12, <2>1 DEF DestroyEnter, Counted, InFlightExact
<1>13. CASE DestroyClean
  <2>1. Open' = Open /\ registered' = registered /\ pc'[Api] = "idle"
    BY <1>13, CallerAssumption DEF DestroyClean, Open, TypeOK, ShapesOK
  <2> QED
    BY <1>13, <2>1, OpenFinite DEF DestroyClean, Counted, InFlightExact
<1> QED
  BY <1>1, <1>2, <1>3, <1>4, <1>5, <1>6, <1>7, <1>8, <1>9, <1>10, <1>11,
     <1>12, <1>13 DEF Next

-----------------------------------------------------------------------------
(* The gate. *)

Passing == {"gateWake", "snap"}

(* What a detector may rely on from its reading of the count on: the open  *)
(* requests, and a recent wake once it has looked for one, came since.     *)
PassedOne(d) ==
    /\ registered /\ pc[d] \in Passing => Open \subseteq since[d]
    /\ registered /\ pc[d] = "snap" /\ wakeAge < IdleTimeout
          => "wake" \in since[d]

Passed == \A d \in Detector : PassedOne(d)

(* A step in which a detector that is past its count stays or comes to     *)
(* rest, and in which what is new to it is noted.                          *)
Noted(d) ==
    /\ registered' => registered
    /\ pc'[d] \in Passing => pc[d] = pc'[d]
    /\ pc[d] \in Passing /\ pc'[d] \in Passing
          => since[d] \cup (Open' \ Open) \subseteq since'[d]
    /\ wakeAge' >= wakeAge \/ (pc[d] \in Passing => "wake" \in since'[d])

(* Such a step keeps what the detector relies on. *)
LEMMA NotedPassed ==
  ASSUME TypeOK, TypeOK', NEW d \in Detector, PassedOne(d), Noted(d)
  PROVE  PassedOne(d)'
BY NumbersAssumption DEF TypeOK, ShapesOK, PassedOne, Noted, Passing

(* Every step keeps what the detectors rely on. *)
LEMMA PassedStep ==
  ASSUME TypeOK, TypeOK', Counted, Passed, [Next]_vars
  PROVE  Passed'
<1> SUFFICES ASSUME NEW d \in Detector PROVE PassedOne(d)'
  BY DEF Passed
<1> USE CallerAssumption, NumbersAssumption DEF Noted, Open, Passing
<1>0. PassedOne(d) /\ TypeOK /\ TypeOK'
  BY DEF Passed
<1>h. Noted(d) => PassedOne(d)'
  <2> HIDE DEF Noted, Open, Passing
  <2> QED
    BY <1>0, NotedPassed
<1>a. ShapesOK
  BY DEF TypeOK
<1> USE DEF ShapesOK
<1>1. CASE UNCHANGED vars
  BY <1>1, <1>a, <1>h DEF vars
<1>2. ASSUME NEW r \in Req, NEW p \in Port, Arrive(r, p) PROVE Noted(d)
  BY <1>2, <1>a DEF Arrive
<1>3. ASSUME NEW r \in Req, RequestStep(r) \/ Answer(r) \/ StreamEnd(r)
      PROVE  Noted(d)
  BY <1>3, <1>a DEF Look, Check, Connect, Answer, StreamEnd
<1>4. ASSUME NEW e \in Exec, ExecCall(e) \/ ExecStep(e) \/ GuestCall(e)
      PROVE  Noted(d)
  BY <1>4, <1>a DEF ExecCall, Launch, Reach, Poll, Stop
<1>5. ASSUME NEW w \in Waker, WakeStep(w) \/ Drop(w) PROVE Noted(d)
  BY <1>5, <1>a DEF WakeAcquire, WakeLoop, Drop
<1>6. ASSUME NEW x \in Waker \cup {Api}, RestoreBegin(x) \/ RestoreEnd(x)
      PROVE  Noted(d)
  BY <1>6, <1>a DEF RestoreBegin, RestoreEnd
<1>7. ASSUME NEW x \in Waker \cup {Api}, RestoreRecord(x) PROVE Noted(d)
  BY <1>7, <1>a DEF RestoreRecord
<1>8. ASSUME NEW x \in Detector \cup {Api}, SnapStep(x) PROVE Noted(d)
  BY <1>8, <1>a DEF SnapBegin, SnapEnd
<1>9. ASSUME NEW x \in Detector, GateStep(x), x # d PROVE Noted(d)
  BY <1>9, <1>a DEF GateVm, GateFlight, GateWake
<1>10. CASE GateVm(d)
  BY <1>10, <1>a, <1>h DEF GateVm
<1>11. CASE GateFlight(d)
  <2>1. inFlight = 0 \/ pc'[d] = "idle"
    BY <1>11, <1>a DEF GateFlight
  <2>2. registered /\ inFlight = 0 => Open = {}
    <3> HIDE DEF Open
    <3> QED
      BY OpenFinite, FS_EmptySet DEF Counted, InFlightExact
  <2>3. Open' = Open /\ registered' = registered /\ pc'[d] # "snap"
    BY <1>11, <1>a DEF GateFlight
  <2> HIDE DEF Open
  <2> QED
    BY <2>1, <2>2, <2>3 DEF PassedOne
<1>12. CASE GateWake(d)
  <2>1. /\ Open' = Open /\ registered' = registered /\ wakeAge' = wakeAge
        /\ pc[d] = "gateWake"
        /\ \/ pc'[d] = "idle"
           \/ pc'[d] = "snap" /\ since'[d] = since[d] /\ wakeAge >= IdleTimeout
    BY <1>12, <1>a DEF GateWake
  <2> HIDE DEF Open
  <2> QED
    BY <1>0, <1>a, <2>1 DEF PassedOne
<1>13. CASE HttpScan \/ GuestSignal \/ GuestIdle \/ WorkloadExits \/ Tick
  BY <1>13, <1>a, <1>h DEF HttpScan, GuestSignal, GuestIdle, WorkloadExits, Tick
<1>14. ASSUME NEW step \in {"snap", "restore"}, ApiCall(step) PROVE Noted(d)
  BY <1>14, <1>a DEF ApiCall
<1>15. CASE PauseResume \/ DestroyEnter \/ DestroyClean
  BY <1>15, <1>a, <1>h DEF PauseResume, DestroyEnter, DestroyClean
<1>16. ASSUME NEW p \in Port, PortStep(p) PROVE Noted(d)
  BY <1>16, <1>a DEF AddPort, RemovePort, MintToken
<1> HIDE DEF Noted, Open, Passing, ShapesOK
<1> QED
  BY <1>h, <1>1, <1>2, <1>3, <1>4, <1>5, <1>6, <1>7, <1>8, <1>9, <1>10,
     <1>11, <1>12, <1>13, <1>14, <1>15, <1>16 DEF Next

-----------------------------------------------------------------------------
IInv == TypeOK /\ Counted /\ Passed

(* The invariant holds from the start, and every step keeps it. *)
THEOREM Inductive == Spec => []IInv
<1>1. Init => IInv
  <2> SUFFICES ASSUME Init PROVE Counted /\ Passed
    BY TypeInit DEF IInv
  <2>1. Open = {}
    BY DEF Init, Open
  <2>2. Counted
    BY <2>1, FS_EmptySet DEF Init, Counted, InFlightExact
  <2>3. Passed
    BY <2>1 DEF Init, Passed, PassedOne, Passing
  <2> QED
    BY <2>2, <2>3
<1>2. IInv /\ [Next]_vars => IInv'
  BY FlagsStep, ShapesStep, CountedStep, PassedStep DEF IInv, TypeOK
<1> QED
  BY <1>1, <1>2, PTL DEF Spec

(* ActivityTracker counts the open requests, however many there are and    *)
(* however each of them ends, until the VM is forgotten.                   *)
THEOREM CountExact == Spec => []InFlightExact
<1>1. IInv => InFlightExact
  BY DEF IInv, Counted
<1> QED
  BY Inductive, <1>1, PTL

(* auto_suspend_gate: a detector that has passed suspends under a request, *)
(* or within the cooldown after a wake, only if it came after the gate had *)
(* looked.                                                                 *)
THEOREM GateSound == Spec => []GateHolds
<1>1. IInv => GateHolds
  BY DEF IInv, Passed, PassedOne, Passing, GateHolds
<1> QED
  BY Inductive, <1>1, PTL

-----------------------------------------------------------------------------
(* What waiting callers wait for.                                          *)

(* A caller between taking the wake lock and giving it back.               *)
Holding == {"loop", "restore", "restoring", "record"}

(* Who may be where: the detectors and the API suspend, callers and the    *)
(* API restore.                                                            *)
Places ==
    /\ \A x \in Caller : pc[x] \in {"snap", "snapping"} => x \in Detector \cup {Api}
    /\ \A x \in Caller : pc[x] \in {"wake", "loop"} => x \in Waker
    /\ \A x \in Caller : pc[x] \in {"restore", "restoring", "record"} =>
                            x \in Waker \cup {Api}

(* The wake lock is held exactly by the caller in ensure_started.          *)
LockHeld == \A w \in Waker : wakeLock = w <=> pc[w] \in Holding

(* A suspend under way is one caller's. *)
Suspends ==
    /\ \A x \in Caller : pc[x] = "snapping" => vm = "Suspending"
    /\ \A x, y \in Caller : pc[x] = "snapping" /\ pc[y] = "snapping" => x = y
    /\ vm = "Suspending" => \E x \in Caller : pc[x] = "snapping"

(* So is a restore, unless that caller went away or the VM was destroyed.  *)
Restores ==
    /\ \A x \in Caller : pc[x] = "restoring" => vm = "Restoring"
    /\ \A x, y \in Caller : pc[x] = "restoring" /\ pc[y] = "restoring" => x = y
    /\ vm = "Restoring" =>
          drops > 0 \/ ~registered \/ \E x \in Caller : pc[x] = "restoring"

Attended == Places /\ LockHeld /\ Suspends /\ Restores

(* Every step keeps callers in the places that are theirs. *)
LEMMA PlacesStep ==
  ASSUME TypeOK, Places, [Next]_vars
  PROVE  Places'
<1> USE CallerAssumption, NumbersAssumption DEF TypeOK, ShapesOK, Places
<1>0. CASE UNCHANGED vars
  BY <1>0 DEF vars
<1>1. ASSUME NEW r \in Req, NEW p \in Port, Arrive(r, p) PROVE Places'
  BY <1>1 DEF Arrive
<1>2. ASSUME NEW r \in Req, RequestStep(r) \/ Answer(r) \/ StreamEnd(r)
      PROVE  Places'
  BY <1>2 DEF Look, Check, Connect, Answer, StreamEnd
<1>3. ASSUME NEW e \in Exec, ExecCall(e) \/ ExecStep(e) \/ GuestCall(e)
      PROVE  Places'
  BY <1>3 DEF ExecCall, Launch, Reach, Poll, Stop
<1>4. ASSUME NEW w \in Waker, WakeStep(w) PROVE Places'
  BY <1>4 DEF WakeAcquire, WakeLoop
<1>5. ASSUME NEW w \in Waker, Drop(w) PROVE Places'
  BY <1>5 DEF Drop
<1>6. ASSUME NEW x \in Waker \cup {Api}, RestoreStep(x) PROVE Places'
  BY <1>6 DEF RestoreBegin, RestoreEnd, RestoreRecord
<1>7. ASSUME NEW x \in Detector \cup {Api}, SnapStep(x) PROVE Places'
  BY <1>7 DEF SnapBegin, SnapEnd
<1>8. ASSUME NEW d \in Detector, GateStep(d) PROVE Places'
  BY <1>8 DEF GateVm, GateFlight, GateWake
<1>9. ASSUME NEW step \in {"snap", "restore"}, ApiCall(step) PROVE Places'
  BY <1>9 DEF ApiCall
<1>10. CASE PauseResume \/ DestroyEnter \/ DestroyClean
  BY <1>10 DEF PauseResume, DestroyEnter, DestroyClean
<1>11. CASE HttpScan \/ GuestSignal
  BY <1>11 DEF HttpScan, GuestSignal
<1>12. CASE GuestIdle \/ WorkloadExits \/ Tick \/ \E p \in Port : PortStep(p)
  BY <1>12 DEF GuestIdle, WorkloadExits, Tick, AddPort, RemovePort, MintToken
<1> HIDE DEF TypeOK, ShapesOK, Places, LockHeld, Suspends, Restores
<1> QED
  BY <1>0, <1>1, <1>2, <1>3, <1>4, <1>5, <1>6, <1>7, <1>8, <1>9, <1>10, <1>11,
     <1>12 DEF Next

(* A caller that returns, or goes on without the lock, gives it back. *)
LEMMA GiveBack ==
  ASSUME TypeOK, LockHeld, NEW x \in Caller, NEW step \in Pc \ Holding,
         pc' = [pc EXCEPT ![x] = step],
         wakeLock' = IF wakeLock = x THEN None ELSE wakeLock
  PROVE  LockHeld'
BY CallerAssumption DEF TypeOK, ShapesOK, LockHeld, Holding

(* The holder may give it back without looking. *)
LEMMA HolderGives ==
  ASSUME TypeOK, LockHeld, NEW x \in Waker, pc[x] \in Holding,
         NEW step \in Pc \ Holding,
         pc' = [pc EXCEPT ![x] = step], wakeLock' = None
  PROVE  LockHeld'
<1>1. wakeLock = x
  BY DEF LockHeld
<1> QED
  BY <1>1, GiveBack

(* A holder goes on with the lock, and a caller without it goes on without.*)
LEMMA LockStays ==
  ASSUME TypeOK, LockHeld, NEW x \in Caller, NEW step \in Pc,
         pc' = [pc EXCEPT ![x] = step], UNCHANGED wakeLock,
         x \in Waker => (pc[x] \in Holding <=> step \in Holding)
  PROVE  LockHeld'
BY CallerAssumption DEF TypeOK, ShapesOK, LockHeld

(* Every step keeps the lock with the caller in ensure_started. *)
LEMMA LockStep ==
  ASSUME TypeOK, Places, LockHeld, [Next]_vars
  PROVE  LockHeld'
<1> USE CallerAssumption, NumbersAssumption DEF TypeOK, ShapesOK, LockHeld, Places, Holding
<1>0. CASE UNCHANGED vars
  BY <1>0 DEF vars
<1>1. ASSUME NEW r \in Req, NEW p \in Port, Arrive(r, p) PROVE LockHeld'
  BY <1>1 DEF Arrive
<1>2. ASSUME NEW r \in Req, RequestStep(r) \/ Answer(r) \/ StreamEnd(r)
      PROVE  LockHeld'
  BY <1>2 DEF Look, Check, Connect, Answer, StreamEnd
<1>3. ASSUME NEW e \in Exec, ExecCall(e) \/ ExecStep(e) \/ GuestCall(e)
      PROVE  LockHeld'
  BY <1>3 DEF ExecCall, Launch, Reach, Poll, Stop
<1>4. ASSUME NEW w \in Waker, WakeStep(w) PROVE LockHeld'
  <2>1. CASE WakeAcquire(w)
    BY <1>4, <2>1 DEF WakeAcquire
  <2>2. CASE WakeLoop(w)
    <3>1. pc[w] = "loop"
      BY <2>2 DEF WakeLoop
    <3> HIDE DEF LockHeld, TypeOK, ShapesOK
    <3>2. CASE Awake(w)
      BY <3>1, <3>2, HolderGives
    <3>3. CASE Goto(w, "restore") /\ UNCHANGED wakeLock
      BY <3>1, <3>3, LockStays
    <3>4. CASE Return(w)
      BY <3>4, GiveBack
    <3> QED
      BY <2>2, <3>2, <3>3, <3>4 DEF WakeLoop
  <2> QED
    BY <1>4, <2>1, <2>2
<1>5. ASSUME NEW w \in Waker, Drop(w) PROVE LockHeld'
  <2> HIDE DEF LockHeld, TypeOK, ShapesOK
  <2> QED
    BY <1>5, GiveBack DEF Drop
<1>6. ASSUME NEW x \in Waker \cup {Api}, RestoreStep(x) PROVE LockHeld'
  <2> HIDE DEF LockHeld, TypeOK, ShapesOK
  <2>1. CASE RestoreBegin(x)
    BY <2>1, GiveBack, LockStays DEF RestoreBegin
  <2>2. CASE RestoreEnd(x)
    BY <2>2, GiveBack, LockStays DEF RestoreEnd
  <2>3. CASE RestoreRecord(x)
    BY <2>3, GiveBack, HolderGives DEF RestoreRecord
  <2> QED
    BY <1>6, <2>1, <2>2, <2>3
<1>7. ASSUME NEW x \in Detector \cup {Api}, SnapStep(x) PROVE LockHeld'
  BY <1>7 DEF SnapBegin, SnapEnd
<1>8. ASSUME NEW d \in Detector, GateStep(d) PROVE LockHeld'
  BY <1>8 DEF GateVm, GateFlight, GateWake
<1>9. ASSUME NEW step \in {"snap", "restore"}, ApiCall(step) PROVE LockHeld'
  BY <1>9 DEF ApiCall
<1>10. CASE PauseResume \/ DestroyEnter \/ DestroyClean
  BY <1>10 DEF PauseResume, DestroyEnter, DestroyClean
<1>11. CASE HttpScan \/ GuestSignal
  BY <1>11 DEF HttpScan, GuestSignal
<1>12. CASE GuestIdle \/ WorkloadExits \/ Tick \/ \E p \in Port : PortStep(p)
  BY <1>12 DEF GuestIdle, WorkloadExits, Tick, AddPort, RemovePort, MintToken
<1> HIDE DEF TypeOK, ShapesOK, Places, LockHeld, Suspends, Restores
<1> QED
  BY <1>0, <1>1, <1>2, <1>3, <1>4, <1>5, <1>6, <1>7, <1>8, <1>9, <1>10, <1>11,
     <1>12 DEF Next

(* Every step keeps suspends in one caller's hands: a second caller finds  *)
(* the VM Suspending. *)
LEMMA SuspendsStep ==
  ASSUME TypeOK, Places, Suspends, Restores, [Next]_vars
  PROVE  Suspends'
<1> USE CallerAssumption, NumbersAssumption DEF TypeOK, ShapesOK, Suspends, Restores, Places
<1>0. CASE UNCHANGED vars
  BY <1>0 DEF vars
<1>1. ASSUME NEW r \in Req, NEW p \in Port, Arrive(r, p) PROVE Suspends'
  BY <1>1 DEF Arrive
<1>2. ASSUME NEW r \in Req, RequestStep(r) \/ Answer(r) \/ StreamEnd(r)
      PROVE  Suspends'
  BY <1>2 DEF Look, Check, Connect, Answer, StreamEnd
<1>3. ASSUME NEW e \in Exec, ExecCall(e) \/ ExecStep(e) \/ GuestCall(e)
      PROVE  Suspends'
  BY <1>3 DEF ExecCall, Launch, Reach, Poll, Stop
<1>4. ASSUME NEW w \in Waker, WakeStep(w) PROVE Suspends'
  BY <1>4 DEF WakeAcquire, WakeLoop
<1>5. ASSUME NEW w \in Waker, Drop(w) PROVE Suspends'
  BY <1>5 DEF Drop
<1>6. ASSUME NEW x \in Waker \cup {Api}, RestoreStep(x) PROVE Suspends'
  BY <1>6 DEF RestoreBegin, RestoreEnd, RestoreRecord
<1>7. ASSUME NEW x \in Detector \cup {Api}, SnapStep(x) PROVE Suspends'
  BY <1>7 DEF SnapBegin, SnapEnd
<1>8. ASSUME NEW d \in Detector, GateStep(d) PROVE Suspends'
  BY <1>8 DEF GateVm, GateFlight, GateWake
<1>9. ASSUME NEW step \in {"snap", "restore"}, ApiCall(step) PROVE Suspends'
  BY <1>9 DEF ApiCall
<1>10. CASE PauseResume \/ DestroyEnter \/ DestroyClean
  BY <1>10 DEF PauseResume, DestroyEnter, DestroyClean
<1>11. CASE HttpScan \/ GuestSignal
  BY <1>11 DEF HttpScan, GuestSignal
<1>12. CASE GuestIdle \/ WorkloadExits \/ Tick \/ \E p \in Port : PortStep(p)
  BY <1>12 DEF GuestIdle, WorkloadExits, Tick, AddPort, RemovePort, MintToken
<1> HIDE DEF TypeOK, ShapesOK, Places, LockHeld, Suspends, Restores
<1> QED
  BY <1>0, <1>1, <1>2, <1>3, <1>4, <1>5, <1>6, <1>7, <1>8, <1>9, <1>10, <1>11,
     <1>12 DEF Next

(* Every step keeps restores in one caller's hands, or records its loss. *)
LEMMA RestoresStep ==
  ASSUME TypeOK, Places, Suspends, Restores, [Next]_vars
  PROVE  Restores'
<1> USE CallerAssumption, NumbersAssumption DEF TypeOK, ShapesOK, Restores, Suspends, Places
<1>0. CASE UNCHANGED vars
  BY <1>0 DEF vars
<1>1. ASSUME NEW r \in Req, NEW p \in Port, Arrive(r, p) PROVE Restores'
  BY <1>1 DEF Arrive
<1>2. ASSUME NEW r \in Req, RequestStep(r) \/ Answer(r) \/ StreamEnd(r)
      PROVE  Restores'
  BY <1>2 DEF Look, Check, Connect, Answer, StreamEnd
<1>3. ASSUME NEW e \in Exec, ExecCall(e) \/ ExecStep(e) \/ GuestCall(e)
      PROVE  Restores'
  BY <1>3 DEF ExecCall, Launch, Reach, Poll, Stop
<1>4. ASSUME NEW w \in Waker, WakeStep(w) PROVE Restores'
  BY <1>4 DEF WakeAcquire, WakeLoop
<1>5. ASSUME NEW w \in Waker, Drop(w) PROVE Restores'
  BY <1>5 DEF Drop
<1>6. ASSUME NEW x \in Waker \cup {Api}, RestoreStep(x) PROVE Restores'
  BY <1>6 DEF RestoreBegin, RestoreEnd, RestoreRecord
<1>7. ASSUME NEW x \in Detector \cup {Api}, SnapStep(x) PROVE Restores'
  BY <1>7 DEF SnapBegin, SnapEnd
<1>8. ASSUME NEW d \in Detector, GateStep(d) PROVE Restores'
  BY <1>8 DEF GateVm, GateFlight, GateWake
<1>9. ASSUME NEW step \in {"snap", "restore"}, ApiCall(step) PROVE Restores'
  BY <1>9 DEF ApiCall
<1>10. CASE PauseResume \/ DestroyEnter \/ DestroyClean
  BY <1>10 DEF PauseResume, DestroyEnter, DestroyClean
<1>11. CASE HttpScan \/ GuestSignal
  BY <1>11 DEF HttpScan, GuestSignal
<1>12. CASE GuestIdle \/ WorkloadExits \/ Tick \/ \E p \in Port : PortStep(p)
  BY <1>12 DEF GuestIdle, WorkloadExits, Tick, AddPort, RemovePort, MintToken
<1> HIDE DEF TypeOK, ShapesOK, Places, LockHeld, Suspends, Restores
<1> QED
  BY <1>0, <1>1, <1>2, <1>3, <1>4, <1>5, <1>6, <1>7, <1>8, <1>9, <1>10, <1>11,
     <1>12 DEF Next

(* What CallersAnswered rests on and no step undoes.  A caller that waits  *)
(* waits for another one that has its next step before it: the wake lock   *)
(* is held by a caller inside ensure_started (never left behind by one     *)
(* that returned or whose client went away), a VM that is Suspending is in *)
(* the hands of exactly one snapshot, and one that is Restoring in those   *)
(* of exactly one restore, unless the client of that restore went away     *)
(* (restore_vm is dropped between its two transitions) or the VM was       *)
(* destroyed.                                                              *)
WaitedForGoOn ==
    /\ \A w \in Waker : wakeLock = w <=> pc[w] \in Holding
    /\ vm = "Suspending" =>
          \E x \in Detector \cup {Api} :
              pc[x] = "snapping" /\ \A y \in Caller \ {x} : pc[y] # "snapping"
    /\ vm = "Restoring" =>
          \/ \E x \in Waker \cup {Api} :
                 /\ pc[x] = "restoring"
                 /\ \A y \in Caller \ {x} : pc[y] # "restoring"
          \/ drops > 0 \/ ~registered

THEOREM NobodyForgotten == Spec => []WaitedForGoOn
<1>1. Init => Attended
  BY CallerAssumption, NumbersAssumption
  DEF Init, Attended, Places, LockHeld, Suspends, Restores, Holding
<1>2. TypeOK /\ Attended /\ [Next]_vars => Attended'
  BY PlacesStep, LockStep, SuspendsStep, RestoresStep DEF Attended
<1>3. Attended => WaitedForGoOn
  BY DEF Attended, Places, LockHeld, Suspends, Restores, WaitedForGoOn
<1> QED
  BY <1>1, <1>2, <1>3, TypeCorrect, PTL DEF Spec
=============================================================================

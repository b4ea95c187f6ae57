----------------------------- MODULE AutoSuspend -----------------------------
(***************************************************************************)
(* Traffic to one permanent VM with an auto_suspend configuration: proxied *)
(* requests and exec calls that wake it, the activity they leave, and the  *)
(* two detectors that suspend it when it is idle.                          *)
(*                                                                         *)
(* The http detector looks at the time of the last request or wake; the    *)
(* guest detector takes idle signals of guestd from a channel.  Both pass  *)
(* the same gate, which reads the VM and its workloads, the in-flight      *)
(* count and the wake time under three different locks, and snapshot_vm    *)
(* locks the VM once more: everything can change in between.               *)
(*                                                                         *)
(* The VM itself is abstracted to the states that matter here (VmLifecycle *)
(* has the operations in full): Pausing and Resuming count as Paused, and  *)
(* a snapshot or restore has a first and a last step.                      *)
(*                                                                         *)
(* Time is a clock of Tick steps: an age says how many passed since an     *)
(* Instant was taken, up to IdleTimeout.  Intervals and deadlines of the   *)
(* code may run out at any moment.                                         *)
(***************************************************************************)
EXTENDS Naturals, FiniteSets

CONSTANTS
    Req,          \* proxied requests (HTTP) and sessions (TCP)
    Exec,         \* exec calls
    Port,         \* guest ports
    None,
    IdleTimeout,  \* idle_timeout_secs, in ticks
    Capacity,     \* of the channel of idle signals
    GuestCheck,   \* an idle_check_cmd is configured
    ApiOps,       \* what is asked for through the management API
    MaxDrops      \* bound: requests whose client goes away

ASSUME NumbersAssumption ==
    IdleTimeout \in Nat \ {0} /\ Capacity \in Nat \ {0} /\ MaxDrops \in Nat
ASSUME ConfigAssumption ==
    /\ GuestCheck \in BOOLEAN
    /\ ApiOps \subseteq {"snap", "restore", "pause", "destroy"}

Detector == {"http", "guest"}
Api == "api"          \* the management API: one call at a time
Waker == Req \cup Exec
Caller == Waker \cup Detector \cup {Api}

ASSUME CallerAssumption ==
    /\ IsFiniteSet(Req) /\ Req \cap Exec = {}
    /\ Waker \cap (Detector \cup {Api}) = {}
    /\ None \notin Waker

VARIABLES
    vm,          \* VmInstance.state
    registered,  \* the VM is in FirecrackerVmm.vms
    busy,        \* some workload is active
    exposed,     \* NetworkConfig.exposed_ports
    tokens,      \* ports for which a token was minted
    pc,          \* where each caller is
    port,        \* the port in each request's claims
    wakeLock,    \* who holds the VM's lock in wake_locks
    entry,       \* the tracker has an entry for the VM
    inFlight,    \* Activity.in_flight
    lastAge,     \* the age of Activity.last_activity
    wakeAge,     \* the age of the VM's wake time
    signals,     \* idle signals in the channel
    since,       \* history: what came since a gate read in_flight
    drops        \* dropped requests so far (bounded)

vmvars == <<vm, registered, busy>>
ports == <<exposed, tokens>>
activity == <<entry, inFlight, lastAge>>
vars == <<vmvars, ports, pc, port, wakeLock, activity, wakeAge, signals,
          since, drops>>

-----------------------------------------------------------------------------
Age == 0..IdleTimeout
Unknown == IdleTimeout + 1    \* no Instant was ever taken

Init ==
    /\ vm = "Started" /\ registered = TRUE /\ busy = FALSE
    /\ exposed \in SUBSET Port /\ tokens = {}
    /\ pc = [x \in Caller |-> "idle"]
    /\ port = [r \in Req |-> None]
    /\ wakeLock = None
    /\ entry = FALSE /\ inFlight = 0 /\ lastAge = Unknown
    /\ wakeAge = 0 /\ signals = 0
    /\ since = [d \in Detector |-> {}]
    /\ drops = 0

-----------------------------------------------------------------------------
(* The activity tracker *)

Track ==
    entry' = TRUE /\ inFlight' = inFlight + 1 /\ lastAge' = 0

(* Mutant: a finished request still counts. *)
UntrackCounts ==
    /\ lastAge' = IF entry THEN 0 ELSE lastAge
    /\ UNCHANGED <<entry, inFlight>>

(* Drop of the guard: nothing is left to count for a VM that is forgotten. *)
Untrack ==
    /\ UNCHANGED entry
    /\ IF entry
       THEN /\ inFlight' = IF inFlight = 0 THEN 0 ELSE inFlight - 1
            /\ lastAge' = 0
       ELSE UNCHANGED <<inFlight, lastAge>>

(* What a waiting detector will not have seen. *)
Note(what) ==
    since' = [d \in Detector |->
                 IF pc[d] \in {"gateWake", "snap"} THEN since[d] \cup {what}
                                                   ELSE since[d]]

-----------------------------------------------------------------------------
(* Callers *)

Goto(x, step) == pc' = [pc EXCEPT ![x] = step]

(* Mutant: a request that ends keeps its guard. *)
ReturnTracked(x) ==
    /\ Goto(x, "idle")
    /\ wakeLock' = IF wakeLock = x THEN None ELSE wakeLock
    /\ IF x \in Req THEN port' = [port EXCEPT ![x] = None] ELSE UNCHANGED port
    /\ UNCHANGED activity

(* The caller returns: its guard and its hold on the wake lock go.         *)
Return(x) ==
    /\ Goto(x, "idle")
    /\ wakeLock' = IF wakeLock = x THEN None ELSE wakeLock
    /\ IF x \in Req
       THEN Untrack /\ port' = [port EXCEPT ![x] = None]
       ELSE UNCHANGED <<activity, port>>

(* ProxyTokens::verify: some token for the port was minted (and this one   *)
(* has not expired).                                                       *)
Verify(p) == p \in tokens

(* forward (HTTP) and run (TCP): the token is checked, the request counted *)
(* before anything is known of the VM.  (A request without a token, or     *)
(* with one that has expired, changes nothing.)                            *)
Arrive(r, p) ==
    /\ pc[r] = "idle" /\ Verify(p)
    /\ Goto(r, "look") /\ port' = [port EXCEPT ![r] = p]
    /\ Track /\ Note(r)
    /\ UNCHANGED <<vmvars, ports, wakeLock, wakeAge, signals, drops>>

(* resolve_target, first look: is the VM to be woken?                      *)
Look(r) ==
    /\ pc[r] = "look"
    /\ IF registered
       THEN /\ Goto(r, IF vm \in {"Suspended", "Suspending", "Restoring"}
                       THEN "wake" ELSE "check")
            /\ UNCHANGED <<wakeLock, activity, port>>
       ELSE Return(r)
    /\ UNCHANGED <<vmvars, ports, wakeAge, signals, since, drops>>

ExecCall(e) ==
    /\ pc[e] = "idle"
    /\ Goto(e, "wake")
    /\ UNCHANGED <<vmvars, ports, port, wakeLock, activity, wakeAge, signals,
                   since, drops>>

(* ensure_started *)
WakeAcquire(w) ==
    /\ pc[w] = "wake" /\ wakeLock = None
    /\ wakeLock' = w /\ Goto(w, "loop")
    /\ UNCHANGED <<vmvars, ports, port, activity, wakeAge, signals, since,
                   drops>>

AfterWake(w) == IF w \in Req THEN "check" ELSE "launch"

(* Mutant: the wake lock is not released. *)
AwakeStillLocked(w) ==
    Goto(w, AfterWake(w)) /\ UNCHANGED <<wakeLock, activity, port>>

Awake(w) ==
    /\ Goto(w, AfterWake(w))
    /\ wakeLock' = None
    /\ UNCHANGED <<activity, port>>

(* One round of the loop; Suspending and Restoring are waited for, up to   *)
(* the deadline.                                                           *)
WakeLoop(w) ==
    /\ pc[w] = "loop"
    /\ CASE registered /\ vm = "Started" -> Awake(w)
         [] registered /\ vm = "Suspended" ->
                Goto(w, "restore") /\ UNCHANGED <<wakeLock, activity, port>>
         [] OTHER -> Return(w)
    /\ UNCHANGED <<vmvars, ports, wakeAge, signals, since, drops>>

(* restore_vm, called by a waker or through the API *)
RestoreBegin(x) ==
    /\ pc[x] = "restore"
    /\ IF registered /\ vm = "Suspended"
       THEN vm' = "Restoring" /\ Goto(x, "restoring")
            /\ UNCHANGED <<wakeLock, activity, port>>
       ELSE Return(x) /\ UNCHANGED vm
    /\ UNCHANGED <<registered, busy, ports, wakeAge, signals, since, drops>>

RestoreEnd(x) ==
    /\ pc[x] = "restoring"
    /\ \/ /\ registered
          /\ vm' = "Started" /\ Goto(x, "record")
          /\ UNCHANGED <<wakeLock, activity, port>>
       \/ ~registered /\ Return(x) /\ UNCHANGED vm
       \/ Return(x) /\ vm' = "Suspended"
    /\ UNCHANGED <<registered, busy, ports, wakeAge, signals, since, drops>>

(* The wake time is written after the state, under a lock of its own.      *)
RestoreRecord(x) ==
    /\ pc[x] = "record"
    /\ wakeAge' = 0
    /\ IF x \in Waker THEN Awake(x) ELSE Return(x)
    /\ Note("wake")
    /\ UNCHANGED <<vmvars, ports, signals, drops>>

(* resolve_target, second look: the instance outlives a destroyed VM.      *)
Check(r) ==
    /\ pc[r] = "check"
    /\ IF vm = "Started" /\ port[r] \in exposed
       THEN Goto(r, "connect") /\ UNCHANGED <<wakeLock, activity, port>>
       ELSE Return(r)
    /\ UNCHANGED <<vmvars, ports, wakeAge, signals, since, drops>>

(* The guest is up: from the resume of a restore to the pause or kill.     *)
GuestRuns == /\ registered \/ pc[Api] = "clean"
             /\ vm \in {"Started", "Suspending", "Restoring"}

(* The probe wait_for_port makes after a wake, and the connection itself:  *)
(* a running guest accepts it, or an attempt is given up.  A session is    *)
(* spliced from then on, an HTTP request waits for its response.           *)
Connect(r) ==
    /\ pc[r] = "connect"
    /\ \/ GuestRuns /\ \E step \in {"ask", "stream"} : Goto(r, step)
          /\ UNCHANGED <<wakeLock, activity, port>>
       \/ Return(r)
    /\ UNCHANGED <<vmvars, ports, wakeAge, signals, since, drops>>

(* The guest answers, or its end of the connection goes.  client.request   *)
(* sets no time for either.  The guard goes into the response body.        *)
Answer(r) ==
    /\ pc[r] = "ask"
    /\ \/ GuestRuns /\ Goto(r, "stream") /\ UNCHANGED <<wakeLock, activity, port>>
       \/ Return(r)
    /\ UNCHANGED <<vmvars, ports, wakeAge, signals, since, drops>>

StreamEnd(r) ==
    /\ pc[r] = "stream"
    /\ Return(r)
    /\ UNCHANGED <<vmvars, ports, wakeAge, signals, since, drops>>

(* The client goes away: the caller's future is dropped at an await.       *)
Drop(w) ==
    /\ drops < MaxDrops
    /\ pc[w] \in {"wake", "loop", "restoring", "connect", "ask", "reach", "poll",
                  "stop"}
    /\ drops' = drops + 1
    /\ Return(w)
    /\ UNCHANGED <<vmvars, ports, wakeAge, signals, since>>

(* start_workload of an exec: only a started VM takes workloads.           *)
Launch(e) ==
    /\ pc[e] = "launch"
    /\ IF registered /\ vm = "Started"
       THEN Goto(e, "reach") /\ UNCHANGED <<wakeLock, activity, port>>
       ELSE Return(e)
    /\ UNCHANGED <<vmvars, ports, wakeAge, signals, since, drops>>

(* guest_conn gives a connection or gives up; then the workload is         *)
(* registered, if the VM is still in the map, and the command sent.        *)
Reach(e) ==
    /\ pc[e] = "reach"
    /\ \/ /\ registered /\ busy' = TRUE
          /\ Goto(e, "poll") /\ UNCHANGED <<wakeLock, activity, port>>
       \/ Return(e) /\ UNCHANGED busy
    /\ UNCHANGED <<vm, registered, ports, wakeAge, signals, since, drops>>

(* exec polls until its workload has ended or is gone with the VM, or the  *)
(* deadline has passed: then it is asked to stop.                          *)
Poll(e) ==
    /\ pc[e] = "poll"
    /\ \/ Return(e)
       \/ /\ registered /\ busy
          /\ Goto(e, "stop") /\ UNCHANGED <<wakeLock, activity, port>>
    /\ UNCHANGED <<vmvars, ports, wakeAge, signals, since, drops>>

(* The stop goes through guest_conn as well; its outcome is ignored.       *)
Stop(e) ==
    /\ pc[e] = "stop"
    /\ Return(e)
    /\ UNCHANGED <<vmvars, ports, wakeAge, signals, since, drops>>

WorkloadExits ==
    /\ busy /\ vm = "Started"
    /\ busy' = FALSE
    /\ UNCHANGED <<vm, registered, ports, pc, port, wakeLock, activity,
                   wakeAge, signals, since, drops>>

-----------------------------------------------------------------------------
(* Detectors *)

(* http_idle_expired *)
Expired ==
    /\ registered /\ exposed # {}
    /\ \E a \in {lastAge, wakeAge} : a # Unknown
    /\ \A a \in {lastAge, wakeAge} : a >= IdleTimeout

HttpScan ==
    /\ pc["http"] = "idle" /\ Expired
    /\ Goto("http", "gate")
    /\ UNCHANGED <<vmvars, ports, port, wakeLock, activity, wakeAge, signals,
                   since, drops>>

(* Mutant: a signal is queued whatever the channel holds. *)
GuestIdleUnbounded ==
    /\ GuestCheck /\ vm = "Started"
    /\ signals' = signals + 1
    /\ UNCHANGED <<vmvars, ports, pc, port, wakeLock, activity, wakeAge,
                   since, drops>>

(* guestd's check command says idle; a full channel drops the signal.      *)
GuestIdle ==
    /\ GuestCheck /\ vm = "Started"
    /\ signals' = IF signals < Capacity THEN signals + 1 ELSE signals
    /\ UNCHANGED <<vmvars, ports, pc, port, wakeLock, activity, wakeAge,
                   since, drops>>

GuestSignal ==
    /\ pc["guest"] = "idle" /\ signals > 0
    /\ signals' = signals - 1
    /\ Goto("guest", "gate")
    /\ UNCHANGED <<vmvars, ports, port, wakeLock, activity, wakeAge, since,
                   drops>>

(* auto_suspend_gate: one lock after the other.                            *)
Pass(d, step, ok, next) ==
    /\ pc[d] = step
    /\ Goto(d, IF ok THEN next ELSE "idle")
    /\ since' = [since EXCEPT ![d] = IF ok THEN @ ELSE {}]
    /\ UNCHANGED <<vmvars, ports, port, wakeLock, activity, wakeAge, signals,
                   drops>>

GateVm(d) ==
    Pass(d, "gate", registered /\ ~busy /\ vm = "Started", "gateFlight")

(* Mutant: the gate does not look at the requests in flight. *)
GateFlightAlways(d) == Pass(d, "gateFlight", TRUE, "gateWake")

GateFlight(d) == Pass(d, "gateFlight", inFlight = 0, "gateWake")
GateWake(d) == Pass(d, "gateWake", wakeAge >= IdleTimeout, "snap")

(* snapshot_vm, called by a detector or through the API *)
SnapBegin(x) ==
    /\ pc[x] = "snap"
    /\ IF registered /\ vm \in {"Started", "Paused"}
       THEN vm' = "Suspending" /\ Goto(x, "snapping")
       ELSE Goto(x, "idle") /\ UNCHANGED vm
    /\ since' = [d \in Detector |-> IF d = x THEN {} ELSE since[d]]
    /\ UNCHANGED <<registered, busy, ports, port, wakeLock, activity,
                   wakeAge, signals, drops>>

SnapEnd(x) ==
    /\ pc[x] = "snapping"
    /\ vm' \in {"Suspended", "Started"}
    /\ Goto(x, "idle")
    /\ UNCHANGED <<registered, busy, ports, port, wakeLock, activity,
                   wakeAge, signals, since, drops>>

-----------------------------------------------------------------------------
(* The management API *)

ApiCall(step) ==
    /\ step \in ApiOps /\ pc[Api] = "idle" /\ registered
    /\ Goto(Api, step)
    /\ UNCHANGED <<vmvars, ports, port, wakeLock, activity, wakeAge, signals,
                   since, drops>>

PauseResume ==
    /\ "pause" \in ApiOps /\ pc[Api] = "idle" /\ registered
    /\ \/ vm = "Started" /\ vm' = "Paused"
       \/ vm = "Paused" /\ vm' = "Started"
    /\ UNCHANGED <<registered, busy, ports, pc, port, wakeLock, activity,
                   wakeAge, signals, since, drops>>

DestroyEnter ==
    /\ "destroy" \in ApiOps /\ pc[Api] = "idle" /\ registered
    /\ registered' = FALSE /\ busy' = FALSE
    /\ Goto(Api, "clean")
    /\ UNCHANGED <<vm, ports, port, wakeLock, activity, wakeAge, signals,
                   since, drops>>

(* The VM is forgotten: wake time and activity.                            *)
DestroyClean ==
    /\ pc[Api] = "clean"
    /\ wakeAge' = Unknown
    /\ entry' = FALSE /\ inFlight' = 0 /\ lastAge' = Unknown
    /\ Goto(Api, "idle")
    /\ UNCHANGED <<vmvars, ports, port, wakeLock, signals, since, drops>>

(* The registry of exposed ports, and the tokens minted from it.           *)
AddPort(p) ==
    /\ registered /\ p \notin exposed
    /\ exposed' = exposed \cup {p}
    /\ UNCHANGED <<vmvars, tokens, pc, port, wakeLock, activity, wakeAge,
                   signals, since, drops>>

RemovePort(p) ==
    /\ registered /\ p \in exposed
    /\ exposed' = exposed \ {p}
    /\ UNCHANGED <<vmvars, tokens, pc, port, wakeLock, activity, wakeAge,
                   signals, since, drops>>

MintToken(p) ==
    /\ registered /\ p \in exposed
    /\ tokens' = tokens \cup {p}
    /\ UNCHANGED <<vmvars, exposed, pc, port, wakeLock, activity, wakeAge,
                   signals, since, drops>>

(* A second passes. *)
Older(a) == IF a < IdleTimeout THEN a + 1 ELSE a

Tick ==
    /\ lastAge' = Older(lastAge) /\ wakeAge' = Older(wakeAge)
    /\ UNCHANGED <<vmvars, ports, pc, port, wakeLock, entry, inFlight,
                   signals, since, drops>>

-----------------------------------------------------------------------------
(* A caller that was admitted moves on; a session lasts as long as its     *)
(* client likes.                                                           *)
WakeStep(w) == WakeAcquire(w) \/ WakeLoop(w)
RestoreStep(x) == RestoreBegin(x) \/ RestoreEnd(x) \/ RestoreRecord(x)
RequestStep(r) == Look(r) \/ Check(r) \/ Connect(r)
ExecStep(e) == Launch(e) \/ Poll(e)
GuestCall(e) == Reach(e) \/ Stop(e)      \* both wait in guest_conn
GateStep(d) == GateVm(d) \/ GateFlight(d) \/ GateWake(d)
SnapStep(x) == SnapBegin(x) \/ SnapEnd(x)

WakerStep(w) ==
    \/ WakeStep(w) \/ RestoreStep(w)
    \/ w \in Req /\ RequestStep(w)
    \/ w \in Exec /\ ExecStep(w)

DetectorStep(d) ==
    \/ d = "http" /\ HttpScan
    \/ d = "guest" /\ GuestSignal
    \/ GateStep(d) \/ SnapStep(d)

ApiStep == SnapStep(Api) \/ RestoreStep(Api) \/ DestroyClean

PortStep(p) == AddPort(p) \/ RemovePort(p) \/ MintToken(p)

Next ==
    \/ \E r \in Req : Answer(r) \/ StreamEnd(r) \/ \E p \in Port : Arrive(r, p)
    \/ \E e \in Exec : ExecCall(e) \/ GuestCall(e)
    \/ \E w \in Waker : WakerStep(w) \/ Drop(w)
    \/ \E d \in Detector : DetectorStep(d)
    \/ \E step \in {"snap", "restore"} : ApiCall(step)
    \/ ApiStep \/ PauseResume \/ DestroyEnter
    \/ \E p \in Port : PortStep(p)
    \/ GuestIdle \/ WorkloadExits \/ Tick

(* The runtime polls what is ready, Firecracker answers or fails, time     *)
(* passes; the wake lock is a tokio mutex, which is fair.  Nobody answers  *)
(* for the guest: a response may never come, and while the guest is paused *)
(* the vsock handshake of guest_conn waits.                                *)
Fairness ==
    /\ \A w \in Waker : WF_vars(WakerStep(w)) /\ SF_vars(WakeAcquire(w))
    /\ \A e \in Exec : WF_vars(vm # "Paused" /\ GuestCall(e))
    /\ \A d \in Detector : WF_vars(DetectorStep(d))
    /\ WF_vars(ApiStep) /\ WF_vars(Tick)

Spec == Init /\ [][Next]_vars
FairSpec == Spec /\ Fairness

-----------------------------------------------------------------------------
(* Properties *)

Pc == {"idle", "look", "wake", "loop", "restore", "restoring", "record",
       "check", "connect", "ask", "stream", "launch", "reach", "poll", "stop",
       "gate", "gateFlight", "gateWake", "snap", "snapping", "clean"}

FlagsOK ==
    /\ registered \in BOOLEAN /\ busy \in BOOLEAN /\ entry \in BOOLEAN

ShapesOK ==
    /\ vm \in {"Started", "Paused", "Suspending", "Suspended", "Restoring"}
    /\ exposed \subseteq Port /\ tokens \subseteq Port
    /\ pc \in [Caller -> Pc] /\ port \in [Req -> Port \cup {None}]
    /\ wakeLock \in Waker \cup {None}
    /\ inFlight \in Nat
    /\ lastAge \in Age \cup {Unknown} /\ wakeAge \in Age \cup {Unknown}
    /\ signals \in 0..Capacity /\ drops \in 0..MaxDrops
    /\ since \in [Detector -> SUBSET (Req \cup {"wake"})]

(* Every variable keeps its type; the channel of idle signals keeps to its *)
(* capacity (handle_guest_event).                                          *)
TypeOK == FlagsOK /\ ShapesOK

Open == {r \in Req : pc[r] # "idle"}

(* ActivityTracker: until the VM is forgotten, in_flight counts the        *)
(* requests that are being proxied, whichever way each one ends (answered, *)
(* refused, cut off by its client).  A count too high keeps the VM up for  *)
(* ever, one too low lets it be suspended under a request.                 *)
InFlightExact ==
    registered \/ pc[Api] = "clean" => inFlight = Cardinality(Open)

(* auto_suspend_gate: a detector that has passed it suspends under a       *)
(* request, or within the cooldown after a wake, only if the request or    *)
(* the wake came after the gate had looked, never because of an older one  *)
(* (an idle signal queued before the last suspend, a response that is      *)
(* still being streamed).                                                  *)
GateHolds ==
    \A d \in Detector : registered /\ pc[d] = "snap" =>
        /\ Open \subseteq since[d]
        /\ wakeAge < IdleTimeout => "wake" \in since[d]

(* hostd keeps no caller waiting: every request reaches the guest or gets  *)
(* an error, also one that arrives while the VM is being suspended, one    *)
(* that queues for the wake lock behind others, and one that finds the VM  *)
(* stuck in a restore whose caller was cut off.  An exec is answered: its  *)
(* deadline ends the polling of a command that hangs, unless the VM is     *)
(* paused under it.                                                        *)
CallersAnswered ==
    /\ \A r \in Req : pc[r] = "look" ~> pc[r] \in {"ask", "stream", "idle"}
    /\ \A e \in Exec : pc[e] = "wake" ~> pc[e] = "idle" \/ vm = "Paused"

IdleStarted ==
    /\ registered /\ vm = "Started" /\ ~busy /\ exposed # {}
    /\ \A x \in Waker \cup {Api} : pc[x] = "idle"

(* auto_suspend.rs: an idle VM does not stay up.  While nobody uses it, a  *)
(* suspend is attempted again and again (each attempt may fail).           *)
IdleIsSuspended == []<>~IdleStarted
=============================================================================

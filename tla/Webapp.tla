------------------------------- MODULE Webapp -------------------------------
(***************************************************************************)
(* The demo application's server: the registry of projects, their          *)
(* provisioning over the hostd API, database branches, and the four ways a *)
(* project is deleted (the user, its TTL, shutdown, and the sweep of what  *)
(* an earlier run left behind).                                            *)
(*                                                                         *)
(* Node runs one task at a time, up to its next await: an action is what   *)
(* happens between two awaits.  Deletion is recursive, so a task has a     *)
(* stack of calls of deleteProject.                                        *)
(*                                                                         *)
(* Projects are numbered in the order of creation, over all runs.  (The    *)
(* ids the application hands out start again with every run.)  A project   *)
(* has its postgres VM, with the project's number.  Left out: the extra,   *)
(* lambda and PostgREST VMs that users add to a project, the removal of a  *)
(* branch's backup pack, and all that only shows state.                    *)
(***************************************************************************)
EXTENDS Naturals, Sequences, SequencesExt, FiniteSets, FiniteSetsExt

CONSTANTS
    N,           \* bound: projects over all runs
    Deleter,     \* tasks of the delete route and of the sweeper's ticks
    MaxMaking,   \* bound: projects that are provisioned at one time
    MaxRoots,    \* bound: registered projects that are not branches
    MaxAtStop,   \* bound: projects registered when a shutdown begins
    MaxRuns,     \* bound: starts of the server, from the first project on
    MaxFails     \* bound: VM deletions that hostd fails

ASSUME WebappAssumption ==
    /\ N \in Nat /\ MaxRuns \in Nat /\ MaxFails \in Nat /\ MaxAtStop \in Nat
    /\ MaxMaking \in Nat /\ MaxRoots \in Nat
    /\ Deleter \cap 1 .. N = {}

Project == 1 .. N
NoProject == 0
Task == Deleter \cup Project    \* shutdown has one task for each project

VARIABLES
    phase,       \* "up", "stopping" or "down"
    used,        \* projects created so far
    registered,  \* the registry
    status, parent,
    vms,         \* the projects that have their VM entry
    alive,       \* the VMs hostd has
    wiped,       \* projects whose namespace on the shared storage was wiped
    prov,        \* where the provisioning of each project is
    job,         \* deletions: projects still to delete, and the calls
    pending,     \* projects the shutdown handler is about to delete
    sweep,       \* the sweep of orphans
    runs, fails, \* starts, and failed deletions (bounded)
    before,      \* history: the last project of the earlier runs
    late         \* history: branched from a project that some call was
                 \* deleting, or from such a branch

project == <<registered, status, parent, vms>>
making == <<used, prov>>
history == <<before, late>>
server == <<phase, pending, sweep, runs>>
vars == <<server, project, making, alive, wiped, job, fails, history>>

-----------------------------------------------------------------------------
(* descendants: the branches of a project, and theirs, by way of projects  *)
(* that are registered.                                                    *)
Descendants(p) ==
    LET within[n \in Nat] ==    \* n generations
            IF n = 0 THEN {}
            ELSE {q \in registered : parent[q] \in {p} \cup within[n - 1]}
    IN  within[N]

Idle == [queue |-> {}, frames |-> <<>>]
NoSweep == [pc |-> "idle", known |-> {}]
Listing(known) == [pc |-> "list", known |-> known]

(* The VMs of a project. *)
VmsOf(p) == {p} \cap vms

(* deleteProject returns at once. *)
NoOp(p) == p \notin registered \/ status[p] = "deleting"

(* The call when all branches are done: the project is marked, and what    *)
(* comes next depends on whether it has a postgres VM.                     *)
Marked(p) ==
    [p |-> p, todo |-> {}, doomed |-> VmsOf(p),
     step |-> IF p \in vms THEN "wipe" ELSE "kill"]

(* Mutant: only the branches of its own that are ready. *)
OpenedShallow(p) ==
    LET branches == {q \in registered : parent[q] = p /\ status[q] = "ready"}
    IN  IF branches = {} THEN Marked(p)
        ELSE [p |-> p, todo |-> branches, doomed |-> {}, step |-> "cascade"]

(* A call up to its first await. *)
Opened(p) ==
    IF Descendants(p) = {} THEN Marked(p)
    ELSE [p |-> p, todo |-> Descendants(p), doomed |-> {}, step |-> "cascade"]

Init ==
    /\ phase = "up" /\ used = 0 /\ registered = {}
    /\ status = [p \in Project |-> "none"]
    /\ parent = [p \in Project |-> NoProject] /\ vms = {}
    /\ alive = {} /\ wiped = {}
    /\ prov = [p \in Project |-> "idle"]
    /\ job = [t \in Task |-> Idle] /\ pending = {} /\ sweep = Listing({})
    /\ runs = 1 /\ fails = 0 /\ before = 0 /\ late = {}

-----------------------------------------------------------------------------
(* Routes *)

Fresh(p) ==
    /\ phase = "up"
    /\ Cardinality({q \in Project : prov[q] # "idle"}) < MaxMaking
    /\ p = used + 1 /\ used' = p

Register(p, source, first) ==
    /\ registered' = registered \cup {p}
    /\ status' = [status EXCEPT ![p] = "provisioning"]
    /\ parent' = [parent EXCEPT ![p] = source]
    /\ prov' = [prov EXCEPT ![p] = first]
    /\ UNCHANGED <<server, vms, alive, wiped, job, fails, before>>

NewProject(p) ==
    /\ Cardinality({q \in registered : parent[q] = NoProject}) < MaxRoots
    /\ Fresh(p) /\ Register(p, NoProject, "create") /\ UNCHANGED late

InStack(p) == \E t \in Task : \E f \in ToSet(job[t].frames) : f.p = p

(* A database is branched when its project is ready, which it still is     *)
(* while the branches of a project that is to be deleted are.              *)
NewBranch(p, source) ==
    /\ source \in registered /\ source \in vms /\ status[source] = "ready"
    /\ Fresh(p) /\ Register(p, source, "backup")
    /\ late' = IF InStack(source) \/ source \in late THEN late \cup {p} ELSE late

-----------------------------------------------------------------------------
(* Provisioning.  It works on the project whether it is still registered   *)
(* or not, and its outcome overwrites the status.                          *)

ProvisionFails(p) ==
    /\ prov[p] # "idle"
    /\ prov' = [prov EXCEPT ![p] = "idle"]
    /\ status' = [status EXCEPT ![p] = "error"]
    /\ UNCHANGED <<server, registered, parent, vms, used, alive, wiped, job, fails,
                   history>>

Running(p) == p \in alive

Backup(p) ==
    /\ prov[p] = "backup" /\ Running(parent[p])
    /\ prov' = [prov EXCEPT ![p] = "create"]
    /\ UNCHANGED <<server, project, used, alive, wiped, job, fails, history>>

(* hostd has made the VM ...                                               *)
Create(p) ==
    /\ prov[p] = "create"
    /\ alive' = alive \cup {p}
    /\ prov' = [prov EXCEPT ![p] = "created"]
    /\ UNCHANGED <<server, project, used, wiped, job, fails, history>>

(* ... and its answer arrives.  Until then, and for good when it is lost   *)
(* (ProvisionFails), the project does not know its VM.                     *)
Created(p) ==
    /\ prov[p] = "created"
    /\ vms' = vms \cup {p}
    /\ prov' = [prov EXCEPT ![p] = "setup"]
    /\ UNCHANGED <<server, registered, status, parent, used, alive, wiped, job,
                   fails, history>>

(* Boot, tiko_branch restore, start and check of the database. *)
Setup(p) ==
    /\ prov[p] = "setup" /\ Running(p)
    /\ wiped' = wiped \ {p}
    /\ prov' = [prov EXCEPT ![p] = "idle"]
    /\ status' = [status EXCEPT ![p] = "ready"]
    /\ UNCHANGED <<server, registered, parent, vms, used, alive, job, fails, history>>

Provision(p) ==
    ProvisionFails(p) \/ Backup(p) \/ Create(p) \/ Created(p) \/ Setup(p)

-----------------------------------------------------------------------------
(* deleteProject *)

DeleteOnly ==
    UNCHANGED <<phase, sweep, runs, parent, vms, making, before, late>>

(* The task calls deleteProject(p) on top of these calls. *)
Call(t, p, queue, frames) ==
    /\ job' = [job EXCEPT ![t] = [queue |-> queue, frames |-> Append(frames, Opened(p))]]
    /\ status' = IF Opened(p).step = "cascade" THEN status
                 ELSE [status EXCEPT ![p] = "deleting"]

Goto(t, frames) == job' = [job EXCEPT ![t].frames = frames]

Top(t) == Last(job[t].frames)
At(t, step) == job[t].frames # <<>> /\ Top(t).step = step
Below(t) == Front(job[t].frames)

DeleteRoute(t, p) ==
    /\ phase = "up" /\ job[t] = Idle /\ ~NoOp(p)
    /\ Call(t, p, {}, <<>>)
    /\ DeleteOnly /\ UNCHANGED <<pending, registered, alive, wiped, fails>>

(* Branches before their parents, one after another; then the project. *)
Cascade(t) ==
    /\ At(t, "cascade")
    /\ LET f == Top(t)
       IN  IF f.todo = {}
           THEN /\ Goto(t, Append(Below(t), Marked(f.p)))
                /\ status' = [status EXCEPT ![f.p] = "deleting"]
           ELSE \E c \in f.todo :
                  LET frames == Append(Below(t), [f EXCEPT !.todo = @ \ {c}])
                  IN  /\ \A d \in f.todo : parent[d] # c
                      /\ IF NoOp(c) THEN Goto(t, frames) /\ UNCHANGED status
                                    ELSE Call(t, c, job[t].queue, frames)
    /\ DeleteOnly /\ UNCHANGED <<pending, registered, alive, wiped, fails>>

(* cleanupTikoNamespace: best effort, needs the guest, never throws. *)
Wipe(t) ==
    /\ At(t, "wipe")
    /\ LET f == Top(t)
       IN  /\ \/ Running(f.p) /\ wiped' = wiped \cup {f.p}
              \/ UNCHANGED wiped
           /\ Goto(t, Append(Below(t), [f EXCEPT !.step = "kill", !.doomed = VmsOf(f.p)]))
    /\ DeleteOnly /\ UNCHANGED <<pending, registered, status, alive, fails>>

(* hostd deletes the VMs, or fails to. *)
Killed(t) ==
    /\ At(t, "kill")
    /\ \E kept \in SUBSET Top(t).doomed :
          /\ fails + Cardinality(kept) <= MaxFails
          /\ fails' = fails + Cardinality(kept)
          /\ alive' = alive \ (Top(t).doomed \ kept)
    /\ Goto(t, Below(t))

(* Mutant: not in a finally block: a VM that hostd did not delete keeps    *)
(* its project.                                                            *)
KillThenForget(t) ==
    /\ Killed(t)
    /\ registered' = IF fails' = fails THEN registered \ {Top(t).p} ELSE registered
    /\ DeleteOnly /\ UNCHANGED <<pending, status, wiped>>

(* The project is forgotten in either case. *)
Kill(t) ==
    /\ Killed(t)
    /\ registered' = registered \ {Top(t).p}
    /\ DeleteOnly /\ UNCHANGED <<pending, status, wiped>>

-----------------------------------------------------------------------------
(* The TTL *)

Booted == phase = "stopping" \/ (phase = "up" /\ sweep.pc # "list")

(* One tick deletes what has expired, in the order of the ids.  All        *)
(* projects have the same TTL: up to some project k they have expired.     *)
Tick(t, k) ==
    /\ Booted /\ job[t] = Idle
    /\ LET due == {p \in registered : p <= k /\ status[p] # "deleting"}
       IN  /\ due # {}
           /\ Call(t, Min(due), due \ {Min(due)}, <<>>)
    /\ DeleteOnly /\ UNCHANGED <<pending, registered, alive, wiped, fails>>

(* The next one of the tick's list. *)
TickNext(t) ==
    /\ job[t].frames = <<>> /\ job[t].queue # {}
    /\ LET p == Min(job[t].queue)
       IN  IF NoOp(p) THEN job' = [job EXCEPT ![t].queue = @ \ {p}] /\ UNCHANGED status
                      ELSE Call(t, p, job[t].queue \ {p}, <<>>)
    /\ DeleteOnly /\ UNCHANGED <<pending, registered, alive, wiped, fails>>

TaskStep(t) == Cascade(t) \/ Wipe(t) \/ Kill(t) \/ TickNext(t)

-----------------------------------------------------------------------------
(* sweepOrphans: what is known is read before the list is asked for; then  *)
(* what is on the list and not known is deleted, as far as hostd does it.  *)

Known == UNION {VmsOf(p) : p \in registered}

(* Mutant: the VMs of earlier runs are taken for known ones. *)
OrphansOfThisRun == alive \ (sweep.known \cup 1 .. before)

Orphans == alive \ sweep.known

SweepTo(kept) ==
    /\ fails + Cardinality(kept) <= MaxFails
    /\ fails' = fails + Cardinality(kept)
    /\ alive' = alive \ (Orphans \ kept)
    /\ sweep' = [NoSweep EXCEPT !.pc = CASE phase = "stopping" -> "end"
                                         [] kept = {} -> "idle"
                                         [] OTHER -> "failed"]
    /\ UNCHANGED <<phase, pending, runs, project, making, wiped, job, history>>

(* A list that fails deletes nothing. *)
Sweep == sweep.pc = "list" /\ \E kept \in SUBSET Orphans : SweepTo(kept)

-----------------------------------------------------------------------------
(* Shutdown, crash and start *)

(* The handler begins to delete every project, in one go.  *)
Shutdown ==
    /\ phase = "up" /\ Booted /\ Cardinality(registered) <= MaxAtStop
    /\ phase' = "stopping" /\ pending' = registered
    /\ UNCHANGED <<sweep, runs, project, making, alive, wiped, job, fails, history>>

ShutdownCall(p) ==
    /\ p = Min(pending)
    /\ pending' = pending \ {p}
    /\ IF NoOp(p) THEN UNCHANGED <<job, status>> ELSE Call(p, p, {}, <<>>)
    /\ DeleteOnly /\ UNCHANGED <<registered, alive, wiped, fails>>

(* All settled: sweep. *)
ShutdownSweep ==
    /\ phase = "stopping" /\ sweep.pc \notin {"list", "end"}
    /\ \A p \in Project : job[p] = Idle
    /\ sweep' = Listing(Known)
    /\ UNCHANGED <<phase, pending, runs, project, making, alive, wiped, job,
                   fails, history>>

(* The process ends: the work is done, or the deadline has passed, or it   *)
(* is killed at any moment.  All it knew is gone.  (What is left on the    *)
(* storage is nobody's from now on, and is not followed further.)          *)
Exit ==
    /\ phase # "down"
    /\ phase' = "down" /\ registered' = {} /\ pending' = {} /\ sweep' = NoSweep
    /\ status' = [p \in Project |-> "none"] /\ vms' = {} /\ wiped' = {}
    /\ parent' = [p \in Project |-> NoProject]
    /\ prov' = [p \in Project |-> "idle"] /\ job' = [t \in Task |-> Idle]
    /\ before' = used /\ late' = {}
    /\ UNCHANGED <<runs, used, alive, fails>>

(* It listens at once, and sweeps what earlier runs left.  (A start before *)
(* the first project is made is the first one again, and not counted.)     *)
Start ==
    /\ phase = "down" /\ runs < MaxRuns
    /\ phase' = "up" /\ sweep' = Listing({})
    /\ runs' = IF used = 0 THEN runs ELSE runs + 1
    /\ UNCHANGED <<pending, project, making, alive, wiped, job, fails, history>>

-----------------------------------------------------------------------------
Next ==
    \/ \E p \in pending : ShutdownCall(p)
    \/ /\ pending = {}
       /\ \/ \E p \in Project :
                \/ NewProject(p) \/ Provision(p)
                \/ \E source \in Project : NewBranch(p, source)
                \/ \E t \in Deleter : DeleteRoute(t, p)
          \/ \E t \in Deleter, k \in Project : Tick(t, k)
          \/ \E t \in Task : TaskStep(t)
          \/ Sweep \/ Shutdown \/ ShutdownSweep \/ Exit \/ Start

Spec == Init /\ [][Next]_vars

-----------------------------------------------------------------------------
(* Properties *)

UnderDeletion(p) ==
    \E t \in Task : \E f \in ToSet(job[t].frames) : f.p = p /\ f.step # "cascade"

(* The projects whose chunks a database reads, also deleted ones. *)
Ancestors(p) ==
    LET above[n \in Nat] ==
            IF n = 0 THEN {}
            ELSE {parent[q] : q \in {p} \cup above[n - 1]} \ {NoProject}
    IN  above[N]

(* state.ts: "deleting an ancestor must cascade": no project is left whose *)
(* database reads chunks that were wiped, whichever deletions overlap and  *)
(* however far they have come; only a branch that was made of a project    *)
(* whose own deletion was under way, and what is branched from it, escapes *)
(* it.                                                                     *)
CascadeCovers ==
    \A b \in registered : \A a \in Ancestors(b) :
        a \in wiped => UnderDeletion(b) \/ b \in late

(* cleanup.ts: "demo resources never outlive the webapp": once a start has *)
(* swept, hostd has no VM of an earlier run, however that run ended and    *)
(* whatever it lost track of, unless hostd failed the sweep.               *)
LeftoversSwept ==
    phase = "up" /\ sweep.pc = "idle" => \A v \in alive : v > before

(* "always removes it from the registry": a project that is marked, which  *)
(* every other deletion then leaves alone, is being deleted: however       *)
(* deletions of it, of its ancestors and of its branches race with its     *)
(* provisioning and whatever hostd fails to delete, none is stuck.         *)
NoneStuck ==
    \A p \in registered : status[p] = "deleting" => UnderDeletion(p)
=============================================================================

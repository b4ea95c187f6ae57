------------------------------- MODULE Workload -------------------------------
(***************************************************************************)
(* Workloads of one VM: hostd's table, the control connections to guestd   *)
(* and guestd's own table.                                                 *)
(*                                                                         *)
(* hostd keeps one connection for the VM and opens a new one when it has   *)
(* none; two operations that find none open two.  guestd answers on the    *)
(* connection it accepted last.  A suspend kills Firecracker and cuts      *)
(* every connection: hostd reads what had arrived and then end of file,    *)
(* guestd, frozen meanwhile, gets an error after the restore.  What was    *)
(* under way to the guest is lost.  Once connected again hostd asks for    *)
(* guestd's table.                                                         *)
(*                                                                         *)
(* The auto-suspend gate lets a VM be suspended that has no active         *)
(* workload; the API suspends without asking.  A start or stop whose       *)
(* client goes away is dropped while it connects.                          *)
(*                                                                         *)
(* The VM is in the map throughout (destroying it ends all of this).       *)
(* Left out are output events, which only append to a log, and guestd's    *)
(* idle detector with its configuration and signals: here an auto-suspend  *)
(* may be tried at any time.                                               *)
(***************************************************************************)
EXTENDS Naturals, Sequences, FiniteSets

CONSTANTS
    Wl,            \* workload ids
    Task,          \* concurrent calls of start_workload, stop_workload, ...
    Conn,          \* connections, in all
    None,
    ApiSuspends,   \* snapshots are also asked for through the API
    Capacity,      \* of the request channel of a connection
    MaxCalls,      \* bound: calls in all
    MaxSuspends,   \* bound: suspends of the VM
    MaxDrops       \* bound: calls dropped by a disconnect

ASSUME BoundsAssumption ==
    /\ MaxSuspends \in Nat /\ MaxDrops \in Nat 
    /\ Capacity \in Nat /\ MaxCalls \in Nat
ASSUME ApiAssumption == ApiSuspends \in BOOLEAN

VARIABLES
    wl,        \* FcVmEntry.workloads
    stored,    \* FcVmEntry.guest_conn
    call,      \* the calls in progress
    link,      \* the connections
    backlog,   \* connections guestd has not accepted yet
    gconn,     \* Agent.conn
    table,     \* Agent.workloads
    reap,      \* the reap threads
    term,      \* workloads whose process group was sent SIGTERM
    vm,        \* "up", "gated" (a suspend was decided) or "suspended"
    calls,     \* calls so far (bounded)
    suspends,  \* suspends so far (bounded)
    drops      \* dropped calls so far (bounded)

hostvars == <<wl, stored, call>>
guestvars == <<backlog, gconn, table, reap, term>>
bounds == <<calls, suspends, drops>>
vars == <<hostvars, link, guestvars, vm, bounds>>

-----------------------------------------------------------------------------
Active == {"Starting", "Running"}
WorkloadState == Active \cup {"Exited", "Stopped", "Failed"}

Start(w) == [type |-> "start", w |-> w]
Stop(w) == [type |-> "stop", w |-> w]
List == [type |-> "list"]

Started(w) == [type |-> "started", w |-> w]
Exited(w) == [type |-> "exited", w |-> w]
Error(w) == [type |-> "error", w |-> w]
ListResult == [type |-> "list", table |-> table]
Silent == [type |-> "none"]

(* host: the task run_guest_conn; req: its request channel and the bytes   *)
(* it wrote, one queue to the guest; ev: events under way; guest: the      *)
(* handler thread; out: the event it is about to send.                     *)
NoLink == [host |-> "none", req |-> <<>>, ev |-> <<>>,
           guest |-> "none", out |-> Silent, cut |-> FALSE]

NoCall == [pc |-> "idle", op |-> None, w |-> None, c |-> None]

(* What hostd keeps of a workload. *)
Entry == [state : WorkloadState, stop : BOOLEAN]

ASSUME NoneAssumption == None \notin Conn /\ None \notin Entry

Init ==
    /\ wl = [w \in Wl |-> None] /\ stored = None
    /\ call = [t \in Task |-> NoCall]
    /\ link = [c \in Conn |-> NoLink]
    /\ backlog = <<>> /\ gconn = None
    /\ table = [w \in Wl |-> "none"]
    /\ reap = [w \in Wl |-> "none"]
    /\ term = {} /\ vm = "up" /\ calls = 0 /\ suspends = 0 /\ drops = 0

Up == vm # "suspended"

IsActive(w) == wl[w] # None /\ wl[w].state \in Active
Open(c) == link[c].host = "up"
Goto(t, pc) == call' = [call EXCEPT ![t].pc = pc]
Return(t) == call' = [call EXCEPT ![t] = NoCall]

-----------------------------------------------------------------------------
(* hostd: the calls *)

Call(t, op, w) ==
    /\ call[t] = NoCall /\ calls < MaxCalls
    /\ calls' = calls + 1
    /\ call' = [call EXCEPT ![t] = [pc |-> "conn", op |-> op, w |-> w, c |-> None]]
    /\ UNCHANGED <<wl, stored, link, guestvars, vm, suspends, drops>>

(* start_workload wants a started VM; ids are random, so fresh.            *)
StartCall(t, w) ==
    /\ Up /\ wl[w] = None /\ table[w] = "none"
    /\ \A u \in Task : call[u].w # w
    /\ Call(t, "start", w)

StopCall(t, w) == wl[w] # None /\ Call(t, "stop", w)

(* arm_guest_detector after a start or restore: only connects.             *)
ArmCall(t) == Up /\ Call(t, "arm", None)

AfterConn(t) ==
    CASE call[t].op = "start" -> "register" [] call[t].op = "stop" -> "mark"
      [] OTHER -> "idle"

(* The call goes on with connection c in hand. *)
Proceed(t, c) ==
    call' = [call EXCEPT ![t] = IF AfterConn(t) = "idle" THEN NoCall
                                ELSE [@ EXCEPT !.pc = AfterConn(t), !.c = c]]

(* guest_conn: the stored handle unless its task is gone.                  *)
UseStored(t) ==
    /\ call[t].pc = "conn"
    /\ IF stored # None /\ Open(stored) THEN Proceed(t, stored)
                                        ELSE Goto(t, "connect")
    /\ UNCHANGED <<wl, stored, link, guestvars, vm, bounds>>

(* vsock::connect, retried for a minute: the guest's kernel queues the     *)
(* connection for guestd to accept.                                        *)
Connect(t) ==
    /\ call[t].pc = "connect"
    /\ Up
    /\ \E c \in Conn :
          /\ link[c] = NoLink
          /\ link' = [link EXCEPT ![c].guest = "queued"]
          /\ backlog' = Append(backlog, c)
          /\ call' = [call EXCEPT ![t].pc = "install", ![t].c = c]
    /\ UNCHANGED <<wl, stored, gconn, table, reap, term, vm, bounds>>

ConnectFails(t) ==
    /\ call[t].pc = "connect" /\ ~Up
    /\ Return(t)
    /\ UNCHANGED <<wl, stored, link, guestvars, vm, bounds>>

(* Mutant: the caller is given the connection but it is not kept. *)
InstallKeepsNothing(t) ==
    /\ call[t].pc = "install"
    /\ link' = [link EXCEPT ![call[t].c].host = "up", ![call[t].c].req = <<List>>]
    /\ Goto(t, AfterConn(t))
    /\ UNCHANGED <<wl, stored, guestvars, vm, bounds>>

(* install_guest_conn *)
Install(t) ==
    /\ call[t].pc = "install"
    /\ stored' = call[t].c
    /\ link' = [link EXCEPT ![call[t].c].host = "up", ![call[t].c].req = <<List>>]
    /\ Proceed(t, call[t].c)
    /\ UNCHANGED <<wl, guestvars, vm, bounds>>

Full(c) == Len(link[c].req) = Capacity

(* The handler's future is dropped: while it connects, and the stream with *)
(* it, or while it waits for room in the channel.  The arming of the       *)
(* detector is a task of its own.                                          *)
Drop(t) ==
    /\ drops < MaxDrops /\ call[t].op # "arm"
    /\ \/ call[t].pc \in {"connect", "install"}
       \/ call[t].pc \in {"sendStart", "sendStop"} /\ Full(call[t].c)
    /\ drops' = drops + 1
    /\ link' = IF call[t].pc # "install" THEN link
               ELSE [link EXCEPT ![call[t].c] =
                        [@ EXCEPT !.host = "down", !.cut = TRUE, !.ev = <<>>]]
    /\ Return(t)
    /\ UNCHANGED <<wl, stored, guestvars, vm, calls, suspends>>

Register(t) ==
    /\ call[t].pc = "register"
    /\ wl' = [wl EXCEPT ![call[t].w] = [state |-> "Starting", stop |-> FALSE]]
    /\ Goto(t, "sendStart")
    /\ UNCHANGED <<stored, link, guestvars, vm, bounds>>

(* GuestConnHandle::send waits for room in the channel. *)
Send(c, request) ==
    /\ ~Full(c)
    /\ link' = [link EXCEPT ![c].req = Append(@, request)]

SendStart(t) ==
    /\ call[t].pc = "sendStart"
    /\ IF Open(call[t].c)
       THEN Send(call[t].c, Start(call[t].w)) /\ UNCHANGED wl
       ELSE wl' = [wl EXCEPT ![call[t].w] = None] /\ UNCHANGED link
    /\ Return(t)
    /\ UNCHANGED <<stored, guestvars, vm, bounds>>

(* stop_workload refuses a workload that is gone or no longer active.      *)
MarkStop(t) ==
    /\ call[t].pc = "mark"
    /\ IF IsActive(call[t].w)
       THEN wl' = [wl EXCEPT ![call[t].w].stop = TRUE] /\ Goto(t, "sendStop")
       ELSE Return(t) /\ UNCHANGED wl
    /\ UNCHANGED <<stored, link, guestvars, vm, bounds>>

SendStop(t) ==
    /\ call[t].pc = "sendStop"
    /\ IF Open(call[t].c)
       THEN Send(call[t].c, Stop(call[t].w)) /\ UNCHANGED wl
       ELSE /\ wl' = [w \in Wl |-> IF w = call[t].w /\ wl[w] # None
                                   THEN [wl[w] EXCEPT !.stop = FALSE] ELSE wl[w]]
            /\ UNCHANGED link
    /\ Return(t)
    /\ UNCHANGED <<stored, guestvars, vm, bounds>>

-----------------------------------------------------------------------------
(* hostd: run_guest_conn *)

(* Workload::mark_running, mark_finished, mark_failed *)
(* (MarkRunningAlways is a mutant: it does not look at the old state.)     *)
MarkRunningAlways(x) == [x EXCEPT !.state = "Running"]
MarkRunning(x) == IF x.state = "Starting" THEN [x EXCEPT !.state = "Running"] ELSE x
MarkFinished(x) ==
    IF x.state \in Active
    THEN [x EXCEPT !.state = IF x.stop THEN "Stopped" ELSE "Exited"] ELSE x
MarkFailed(x) == IF x.state \in Active THEN [x EXCEPT !.state = "Failed"] ELSE x

(* Mutant: a workload the list does not name is taken to have ended. *)
ListedOrGone(x, info) ==
    IF info = "running" THEN MarkRunning(x) ELSE MarkFinished(x)

Listed(x, info) ==
    CASE info = "running" -> MarkRunning(x)
      [] info = "exited" -> MarkFinished(x)
      [] OTHER -> x

(* handle_guest_event *)
Applied(e, w, x) ==
    CASE e.type = "list" -> Listed(x, e.table[w])
      [] e.type = "started" /\ e.w = w -> MarkRunning(x)
      [] e.type = "exited" /\ e.w = w -> MarkFinished(x)
      [] e.type = "error" /\ e.w = w -> MarkFailed(x)
      [] OTHER -> x

HandleEvent(c) ==
    /\ Open(c) /\ link[c].ev # <<>>
    /\ wl' = [w \in Wl |-> IF wl[w] = None THEN None
                           ELSE Applied(Head(link[c].ev), w, wl[w])]
    /\ link' = [link EXCEPT ![c].ev = Tail(@)]
    /\ UNCHANGED <<stored, call, guestvars, vm, bounds>>

(* End of file, or a write that fails (which leaves unread events): the    *)
(* task forgets the handle if it is still the stored one.                  *)
Closed(c) ==
    /\ Open(c) /\ link[c].cut
    /\ link[c].ev = <<>> \/ link[c].req # <<>>
    /\ stored' = IF stored = c THEN None ELSE stored
    /\ link' = [link EXCEPT ![c].host = "down", ![c].req = <<>>, ![c].ev = <<>>]
    /\ UNCHANGED <<wl, call, guestvars, vm, bounds>>

-----------------------------------------------------------------------------
(* guestd *)

(* The accept loop: the newest connection gets the events.                 *)
Accept ==
    /\ Up /\ backlog # <<>>
    /\ gconn' = Head(backlog)
    /\ backlog' = Tail(backlog)
    /\ link' = [link EXCEPT ![Head(backlog)].guest = "up"]
    /\ UNCHANGED <<hostvars, table, reap, term, vm, bounds>>

(* send_event: to the current connection, or nowhere.                      *)
Emit(links, e) ==
    IF gconn = None \/ links[gconn].cut THEN links
    ELSE [links EXCEPT ![gconn].ev = Append(@, e)]

Answer(c, e) == [link EXCEPT ![c].req = Tail(@), ![c].out = e]

(* handle_request, up to the event it sends. *)
Serve(c) ==
    LET request == Head(link[c].req) IN
    /\ Up /\ link[c].guest = "up" /\ link[c].out = Silent
    /\ link[c].req # <<>> /\ ~link[c].cut
    /\ \/ /\ request.type = "start"          \* spawned and entered
          /\ table' = [table EXCEPT ![request.w] = "running"]
          /\ link' = Answer(c, Started(request.w)) /\ UNCHANGED term
       \/ /\ request.type = "start"          \* the spawn fails
          /\ link' = Answer(c, Error(request.w)) /\ UNCHANGED <<table, term>>
       \/ /\ request.type = "stop" /\ table[request.w] = "none"
          /\ link' = Answer(c, Error(request.w)) /\ UNCHANGED <<table, term>>
       \/ /\ request.type = "stop" /\ table[request.w] # "none"
          /\ link' = Answer(c, Silent)
          /\ term' = IF table[request.w] = "running" THEN term \cup {request.w}
                     ELSE term
          /\ UNCHANGED table
       \/ /\ request.type = "list"
          /\ link' = Answer(c, ListResult) /\ UNCHANGED <<table, term>>
    /\ UNCHANGED <<hostvars, backlog, gconn, reap, vm, bounds>>

(* The event goes out; a start goes on to spawn the reap thread.           *)
Reply(c) ==
    LET e == link[c].out IN
    /\ Up /\ e # Silent
    /\ link' = Emit([link EXCEPT ![c].out = Silent], e)
    /\ reap' = IF e.type = "started" THEN [reap EXCEPT ![e.w] = "wait"] ELSE reap
    /\ UNCHANGED <<hostvars, backlog, gconn, table, term, vm, bounds>>

(* Mutant: the exit is recorded and not reported. *)
ReapSilently(w) ==
    /\ Up /\ reap[w] = "wait"
    /\ table' = [table EXCEPT ![w] = "exited"]
    /\ reap' = [reap EXCEPT ![w] = "done"]
    /\ UNCHANGED <<hostvars, link, backlog, gconn, term, vm, bounds>>

(* The process ends, by itself or killed, and the reap thread records it.  *)
Reap(w) ==
    /\ Up /\ reap[w] = "wait"
    /\ table' = [table EXCEPT ![w] = "exited"]
    /\ reap' = [reap EXCEPT ![w] = "report"]
    /\ UNCHANGED <<hostvars, link, backlog, gconn, term, vm, bounds>>

ReportExit(w) ==
    /\ Up /\ reap[w] = "report"
    /\ link' = Emit(link, Exited(w))
    /\ reap' = [reap EXCEPT ![w] = "done"]
    /\ UNCHANGED <<hostvars, backlog, gconn, table, term, vm, bounds>>

(* Mutant: a handler that ends clears the current connection, whosever.    *)
HangUpAny(c) ==
    /\ Up /\ link[c].guest = "up" /\ link[c].cut /\ link[c].out = Silent
    /\ gconn' = None
    /\ link' = [link EXCEPT ![c].guest = "down"]
    /\ UNCHANGED <<hostvars, backlog, table, reap, term, vm, bounds>>

(* connection::handle gets a read error: clear_conn.                       *)
HangUp(c) ==
    /\ Up /\ link[c].guest = "up" /\ link[c].cut /\ link[c].out = Silent
    /\ gconn' = IF gconn = c THEN None ELSE gconn
    /\ link' = [link EXCEPT ![c].guest = "down"]
    /\ UNCHANGED <<hostvars, backlog, table, reap, term, vm, bounds>>

-----------------------------------------------------------------------------
(* The VM: external here, modelled by VmLifecycle. *)

(* auto_suspend_gate: the suspend goes ahead when nothing is active.       *)
AutoSuspend ==
    /\ vm = "up" /\ suspends < MaxSuspends
    /\ ~ \E w \in Wl : IsActive(w)
    /\ vm' = "gated" /\ suspends' = suspends + 1
    /\ UNCHANGED <<hostvars, link, guestvars, calls, drops>>

(* A snapshot asked for through the API. *)
ApiSuspend ==
    /\ ApiSuspends /\ vm = "up" /\ suspends < MaxSuspends
    /\ vm' = "gated" /\ suspends' = suspends + 1
    /\ UNCHANGED <<hostvars, link, guestvars, calls, drops>>

Cut(c) == [link[c] EXCEPT !.cut = TRUE]

(* snapshot_vm pauses the guest and kills Firecracker. *)
Suspend ==
    /\ vm = "gated" /\ vm' = "suspended"
    /\ link' = [c \in Conn |-> IF link[c] = NoLink THEN NoLink ELSE Cut(c)]
    /\ UNCHANGED <<hostvars, guestvars, bounds>>

(* A snapshot that fails resumes the guest; the connections live on. *)
SuspendFails ==
    /\ vm = "gated" /\ vm' = "up"
    /\ UNCHANGED <<hostvars, link, guestvars, bounds>>

Restore ==
    /\ vm = "suspended" /\ vm' = "up"
    /\ UNCHANGED <<hostvars, link, guestvars, bounds>>

-----------------------------------------------------------------------------
CallStep(t) ==
    \/ UseStored(t) \/ Connect(t) \/ ConnectFails(t) \/ Install(t)
    \/ Register(t) \/ SendStart(t) \/ MarkStop(t) \/ SendStop(t)

HostStep(c) == HandleEvent(c) \/ Closed(c)

GuestStep(c) == Serve(c) \/ Reply(c) \/ HangUp(c)

Next ==
    \/ \E t \in Task : \/ CallStep(t) \/ ArmCall(t) \/ Drop(t)
                       \/ \E w \in Wl : StartCall(t, w) \/ StopCall(t, w)
    \/ \E c \in Conn : HostStep(c) \/ GuestStep(c)
    \/ Accept
    \/ \E w \in Wl : Reap(w) \/ ReportExit(w)
    \/ AutoSuspend \/ ApiSuspend \/ Suspend \/ SuspendFails \/ Restore

(* Tasks and threads run when they can; a killed process ends (SIGKILL     *)
(* after the grace period).  Nothing is assumed of calls and suspends.     *)
Fairness ==
    /\ \A t \in Task : WF_vars(CallStep(t))
    /\ \A c \in Conn : WF_vars(HostStep(c)) /\ WF_vars(GuestStep(c))
    /\ WF_vars(Accept)
    /\ \A w \in Wl : WF_vars(ReportExit(w)) /\ WF_vars(w \in term /\ Reap(w))

Spec == Init /\ [][Next]_vars
FairSpec == Spec /\ Fairness

-----------------------------------------------------------------------------
(* Properties *)

Request == {List} \cup {Start(w) : w \in Wl} \cup {Stop(w) : w \in Wl}
TableState == {"none", "running", "exited"}
Event == {Silent} \cup {Started(w) : w \in Wl} \cup {Exited(w) : w \in Wl}
         \cup {Error(w) : w \in Wl}
         \cup [type : {"list"}, table : [Wl -> TableState]]

(* Every variable keeps its type; a call holds a connection exactly where  *)
(* the code has one in hand.                                               *)
TypeOK ==
    /\ \A w \in Wl : wl[w] \in {None} \cup Entry
    /\ stored \in Conn \cup {None} /\ gconn \in Conn \cup {None}
    /\ \A t \in Task :
          /\ call[t].w \in Wl \cup {None}
          /\ call[t].c \in Conn \cup {None}
          /\ call[t].c # None <=>
                call[t].pc \in {"install", "register", "sendStart", "mark", "sendStop"}
    /\ \A c \in Conn :
          /\ link[c].host \in {"none", "up", "down"}
          /\ link[c].guest \in {"none", "queued", "up", "down"}
          /\ \A i \in DOMAIN link[c].req : link[c].req[i] \in Request
          /\ \A i \in DOMAIN link[c].ev : link[c].ev[i] \in Event
          /\ link[c].out \in Event
    /\ table \in [Wl -> TableState] /\ term \subseteq Wl
    /\ reap \in [Wl -> {"none", "wait", "report", "done"}]

Finished(w) == wl[w] # None /\ wl[w].state \notin Active

(* hostd never reports an end that did not happen: a workload is Exited or *)
(* Stopped only when guestd has reaped its process, whatever list result   *)
(* or event of an older connection comes late.                             *)
FinishedMeansExited ==
    \A w \in Wl : wl[w] # None /\ wl[w].state \in {"Exited", "Stopped"}
                   => table[w] = "exited"

(* The end of a workload is final in hostd's table: events and list        *)
(* results that arrive late, twice or over two connections change nothing. *)
TerminalIsFinal ==
    [][\A w \in Wl : Finished(w) =>
          wl'[w] = None \/ wl'[w].state = wl[w].state]_vars

Connected == stored # None /\ Open(stored) /\ ~link[stored].cut

(* guestd accepted a second connection and its maker was dropped, with the *)
(* first still open: guestd's events go nowhere until the next connection. *)
Deaf == drops > 0 /\ (gconn = None \/ link[gconn].cut)

(* Nothing is under way between the two sides, and no connection that      *)
(* guestd may already send on waits to be installed.                       *)
Settled ==
    /\ Up /\ Connected /\ ~Deaf /\ backlog = <<>>
    /\ \A t \in Task : call[t].pc # "install"
    /\ \A c \in Conn : link[c].req = <<>> /\ link[c].ev = <<>>
                       /\ link[c].out = Silent
    /\ \A w \in Wl : reap[w] # "report"

(* The resync of install_guest_conn works: when hostd has a connection and *)
(* nothing is under way, it knows of every start and every exit, those it  *)
(* missed while the VM was suspended included.                             *)
Resynced ==
    Settled => \A w \in Wl : wl[w] # None =>
        /\ table[w] = "exited" => ~IsActive(w)
        /\ table[w] = "running" => wl[w].state # "Starting"

(* An exit is reported: as long as the VM is up and the two sides are      *)
(* connected, hostd does not go on showing a workload as active that has   *)
(* ended.                                                                  *)
ExitReported ==
    \A w \in Wl : table[w] = "exited" /\ Up /\ Connected /\ ~Deaf
                   ~> ~IsActive(w) \/ ~Up \/ Deaf
=============================================================================

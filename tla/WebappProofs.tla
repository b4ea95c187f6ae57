---------------------------- MODULE WebappProofs ----------------------------
(***************************************************************************)
(* What the web application's server guarantees about deletion, for any    *)
(* number of projects, deleting tasks, runs and failures of hostd: no      *)
(* project is marked and then left, the sweep at a start leaves no VM of   *)
(* an earlier run, and no project outlives the data its database reads.    *)
(*                                                                         *)
(* The last one is about generations of branches, which are recursive      *)
(* definitions.  The induction over them is spelled out: a set of numbers  *)
(* that is not all of them has a first one missing.                        *)
(***************************************************************************)
EXTENDS Webapp, SequenceTheorems, WellFoundedInduction, TLAPS

-----------------------------------------------------------------------------
(* The calls of a task, as a stack. *)

IsFrame(f) == f = [p |-> f.p, todo |-> f.todo, doomed |-> f.doomed, step |-> f.step]

Stack(s) == s \in Seq(ToSet(s)) /\ \A f \in ToSet(s) : IsFrame(f)

(* A call of the stack has marked p. *)
Deleting(p, s) == \E f \in ToSet(s) : f.p = p /\ f.step # "cascade"

LEMMA EmptyStack == Stack(<<>>) /\ \A p : ~Deleting(p, <<>>)
<1>1. ToSet(<<>>) = {}
  BY DEF ToSet
<1> QED  BY <1>1 DEF Stack, Deleting

LEMMA PushStack ==
    ASSUME NEW s, Stack(s), NEW f, IsFrame(f)
    PROVE  /\ Stack(Append(s, f)) /\ ToSet(Append(s, f)) = ToSet(s) \cup {f}
           /\ Append(s, f) # <<>>
           /\ \A p : Deleting(p, Append(s, f)) <=>
                         Deleting(p, s) \/ (f.p = p /\ f.step # "cascade")
<1> DEFINE S == ToSet(s) \cup {f}
           a == Append(s, f)
<1>1. s \in Seq(S) /\ f \in S
  <2>1. s \in Seq(ToSet(s))
    BY DEF Stack
  <2> QED  BY <2>1
<1>2. /\ a \in Seq(S) /\ a # <<>> /\ Len(a) = Len(s) + 1 /\ Len(s) \in Nat
      /\ DOMAIN a = 1 .. Len(a) /\ DOMAIN s = 1 .. Len(s)
      /\ \A i \in 1 .. Len(s) : a[i] = s[i]
      /\ a[Len(s) + 1] = f
  BY <1>1, AppendProperties
<1>3. ToSet(a) = S
  <2>1. ASSUME NEW x \in ToSet(a) PROVE x \in S
    <3>1. PICK i \in 1 .. Len(a) : x = a[i]
      BY <1>2, <2>1 DEF ToSet
    <3>2. CASE i = Len(s) + 1
      BY <1>2, <3>1, <3>2
    <3>3. CASE i \in 1 .. Len(s)
      BY <1>2, <3>1, <3>3 DEF ToSet
    <3> QED  BY <1>2, <3>2, <3>3
  <2>2. ASSUME NEW x \in ToSet(s) PROVE x \in ToSet(a)
    <3>1. PICK i \in 1 .. Len(s) : x = s[i]
      BY <1>2, <2>2 DEF ToSet
    <3>2. i \in 1 .. Len(a) /\ x = a[i]
      BY <1>2, <3>1
    <3> QED  BY <1>2, <3>2 DEF ToSet
  <2>3. f \in ToSet(a)
    <3>1. Len(s) + 1 \in 1 .. Len(a)
      BY <1>2
    <3> QED  BY <1>2, <3>1 DEF ToSet
  <2> QED  BY <2>1, <2>2, <2>3
<1> HIDE DEF a
<1>4. Stack(a)
  BY <1>2, <1>3 DEF Stack
<1>5. \A p : Deleting(p, a) <=> Deleting(p, s) \/ (f.p = p /\ f.step # "cascade")
  BY <1>3 DEF Deleting
<1> QED  BY <1>2, <1>3, <1>4, <1>5 DEF a

LEMMA PopStack ==
    ASSUME NEW s, Stack(s), s # <<>>
    PROVE  /\ Stack(Front(s)) /\ IsFrame(Last(s))
           /\ ToSet(s) = ToSet(Front(s)) \cup {Last(s)}
           /\ \A p : Deleting(p, s) <=>
                   \/ Deleting(p, Front(s))
                   \/ Last(s).p = p /\ Last(s).step # "cascade"
<1> DEFINE b == Front(s)
           e == Last(s)
<1>1. s \in Seq(ToSet(s)) /\ Len(s) \in Nat \ {0} /\ DOMAIN s = 1 .. Len(s)
  <2>1. s \in Seq(ToSet(s))
    BY DEF Stack
  <2> QED  BY <2>1, EmptySeq
<1>2. /\ b \in Seq(ToSet(s)) /\ Len(b) = Len(s) - 1 /\ DOMAIN b = 1 .. Len(b)
      /\ \A i \in 1 .. Len(b) : b[i] = s[i]
  <2>1. b = SubSeq(s, 1, Len(s) - 1)
    BY DEF Front
  <2> HIDE DEF b
  <2> QED  BY <1>1, <2>1
<1>3. e = s[Len(s)] /\ e \in ToSet(s)
  BY <1>1 DEF Last, ToSet
<1> HIDE DEF b, e
<1>4. ToSet(s) = ToSet(b) \cup {e}
  <2>1. ASSUME NEW x \in ToSet(s) PROVE x \in ToSet(b) \cup {e}
    <3>1. PICK i \in 1 .. Len(s) : x = s[i]
      BY <1>1, <2>1 DEF ToSet
    <3>2. CASE i = Len(s)
      BY <1>3, <3>1, <3>2
    <3>3. CASE i # Len(s)
      <4>1. i \in 1 .. Len(b)
        <5>1. PICK n \in Nat \ {0} : n = Len(s)
          BY <1>1
        <5>2. i \in 1 .. n /\ i # n => i \in 1 .. n - 1
          OBVIOUS
        <5> QED  BY <1>2, <3>1, <3>3, <5>1, <5>2
      <4> QED  BY <1>2, <3>1, <4>1 DEF ToSet
    <3> QED  BY <3>2, <3>3
  <2>2. ASSUME NEW x \in ToSet(b) PROVE x \in ToSet(s)
    <3>1. PICK i \in 1 .. Len(b) : x = b[i]
      BY <1>2, <2>2 DEF ToSet
    <3>2. i \in 1 .. Len(s) /\ x = s[i]
      BY <1>1, <1>2, <3>1
    <3> QED  BY <1>1, <3>2 DEF ToSet
  <2> QED  BY <1>3, <2>1, <2>2
<1>5. Stack(b) /\ IsFrame(e)
  <2>1. \A f \in ToSet(s) : IsFrame(f)
    BY DEF Stack
  <2>2. b \in Seq(ToSet(b))
    <3>1. \A i \in 1 .. Len(b) : b[i] \in ToSet(b)
      BY <1>2 DEF ToSet
    <3>2. Len(b) \in Nat
      BY <1>1, <1>2
    <3> QED  BY <1>2, <3>1, <3>2
  <2> QED  BY <1>3, <1>4, <2>1, <2>2 DEF Stack
<1>6. \A p : Deleting(p, s) <=> Deleting(p, b) \/ (e.p = p /\ e.step # "cascade")
  BY <1>4 DEF Deleting
<1> QED  BY <1>4, <1>5, <1>6 DEF b, e

-----------------------------------------------------------------------------
(* No project is stuck. *)

Status == {"none", "provisioning", "ready", "error", "deleting"}

(* Every task has its queue and its calls. *)
JobsOK ==
    /\ job = [t \in Task |-> [queue |-> job[t].queue, frames |-> job[t].frames]]
    /\ \A t \in Task : Stack(job[t].frames)

(* Only a shutdown uses the tasks of the projects, and each one once. *)
Stopping ==
    /\ pending \subseteq Project
    /\ pending # {} => phase = "stopping"
    /\ phase # "stopping" => \A p \in Project : job[p] = Idle
    /\ \A p \in pending : job[p] = Idle

Statuses == registered \subseteq Project /\ status \in [Project -> Status]

Stuckless == JobsOK /\ Stopping /\ Statuses /\ NoneStuck

LEMMA IdleOK == /\ Idle = [queue |-> Idle.queue, frames |-> Idle.frames]
                /\ Idle.frames = <<>> /\ Idle.queue = {}
  BY DEF Idle

LEMMA UnderDeletionIs ==
    \A p : UnderDeletion(p) <=> \E t \in Task : Deleting(p, job[t].frames)
  BY DEF UnderDeletion, Deleting

LEMMA FramesOK ==
    \A p : /\ IsFrame(Marked(p)) /\ Marked(p).p = p /\ Marked(p).step # "cascade"
           /\ IsFrame(Opened(p)) /\ Opened(p).p = p
<1> TAKE p
<1>1. IsFrame(Marked(p)) /\ Marked(p).p = p /\ Marked(p).step # "cascade"
  BY DEF Marked, IsFrame
<1> DEFINE f == [p |-> p, todo |-> Descendants(p), doomed |-> {}, step |-> "cascade"]
<1>2. IsFrame(f) /\ f.p = p
  BY DEF IsFrame
<1>3. Opened(p) \in {Marked(p), f}
  BY DEF Opened
<1> HIDE DEF f
<1> QED  BY <1>1, <1>2, <1>3

(* One task's job is replaced. *)
LEMMA JobPut ==
    ASSUME JobsOK, NEW t \in Task, NEW Q, NEW s, Stack(s),
           job' = [job EXCEPT ![t] = [queue |-> Q, frames |-> s]]
    PROVE  /\ JobsOK'
           /\ job'[t].frames = s
           /\ \A u \in Task : u # t => job'[u] = job[u]
<1>1. \A u \in Task : job'[u] = IF u = t THEN [queue |-> Q, frames |-> s] ELSE job[u]
  BY DEF JobsOK
<1>2. job' = [u \in Task |-> job'[u]]
  BY <1>1 DEF JobsOK
<1>3. \A u \in Task : job[u] = [queue |-> job[u].queue, frames |-> job[u].frames]
  BY DEF JobsOK
<1>4. \A u \in Task : job'[u] = [queue |-> job'[u].queue, frames |-> job'[u].frames]
  BY <1>1, <1>3
<1>5. job' = [u \in Task |-> [queue |-> job'[u].queue, frames |-> job'[u].frames]]
  BY <1>2, <1>4
<1>6. \A u \in Task : Stack(job'[u].frames)
  BY <1>1 DEF JobsOK
<1> QED  BY <1>1, <1>5, <1>6 DEF JobsOK

LEMMA JobGoto ==
    ASSUME JobsOK, NEW t \in Task, NEW s, Stack(s), Goto(t, s)
    PROVE  /\ JobsOK'
           /\ job'[t].frames = s
           /\ \A u \in Task : u # t => job'[u] = job[u]
<1>1. job[t] = [queue |-> job[t].queue, frames |-> job[t].frames]
  BY DEF JobsOK
<1>2. PICK Q : Q = job[t].queue
  OBVIOUS
<1>3. job' = [job EXCEPT ![t] = [queue |-> Q, frames |-> s]]
  <2>1. job' = [job EXCEPT ![t] = [job[t] EXCEPT !.frames = s]]
    BY DEF Goto
  <2>2. PICK j : j = job[t]
    OBVIOUS
  <2>3. [j EXCEPT !.frames = s] = [queue |-> Q, frames |-> s]
    BY <1>1, <1>2, <2>2
  <2> QED  BY <2>1, <2>2, <2>3
<1> QED  BY <1>3, JobPut

(* What a step of one task has to keep: who is marked afterwards is being  *)
(* deleted by that task, or was marked before.                             *)
LEMMA OneTask ==
    ASSUME NoneStuck, NEW t \in Task,
           \A u \in Task : u # t => job'[u] = job[u],
           \A p \in registered' : status'[p] = "deleting" =>
               \/ Deleting(p, job'[t].frames)
               \/ /\ p \in registered /\ status[p] = "deleting"
                  /\ Deleting(p, job[t].frames) => Deleting(p, job'[t].frames)
    PROVE  NoneStuck'
<1> SUFFICES ASSUME NEW p \in registered', status'[p] = "deleting"
             PROVE  \E u \in Task : Deleting(p, job'[u].frames)
  BY DEF NoneStuck, UnderDeletion, Deleting
<1>1. CASE Deleting(p, job'[t].frames)
  BY <1>1
<1>2. CASE /\ p \in registered /\ status[p] = "deleting"
           /\ Deleting(p, job[t].frames) => Deleting(p, job'[t].frames)
  <2>1. PICK u \in Task : Deleting(p, job[u].frames)
    BY <1>2, UnderDeletionIs DEF NoneStuck
  <2> QED  BY <1>2, <2>1
<1> QED  BY <1>1, <1>2

(* A call of deleteProject, on top of calls that include those of before.  *)
LEMMA CallOK ==
    ASSUME Stuckless, NEW t \in Task, NEW p, NEW Q, NEW s, Stack(s), Call(t, p, Q, s),
           \A q : Deleting(q, job[t].frames) => Deleting(q, s),
           UNCHANGED registered
    PROVE  JobsOK' /\ Statuses' /\ NoneStuck' /\ \A u \in Task : u # t => job'[u] = job[u]
<1>0. JobsOK /\ NoneStuck /\ registered \subseteq Project /\ status \in [Project -> Status]
  BY DEF Stuckless, Statuses
<1>1. PICK f : f = Opened(p)
  OBVIOUS
<1>2. IsFrame(f) /\ f.p = p
  BY <1>1, FramesOK
<1>3. Stack(Append(s, f))
  BY <1>2, PushStack
<1>4. job' = [job EXCEPT ![t] = [queue |-> Q, frames |-> Append(s, f)]]
  BY <1>1 DEF Call
<1>5. /\ JobsOK' /\ job'[t].frames = Append(s, f)
      /\ \A u \in Task : u # t => job'[u] = job[u]
  BY <1>0, <1>3, <1>4, JobPut
<1>6. status' = IF f.step = "cascade" THEN status ELSE [status EXCEPT ![p] = "deleting"]
  BY <1>1 DEF Call
<1>7. Statuses'
  BY <1>0, <1>6 DEF Statuses, Status
<1>8. ASSUME NEW q \in registered, status'[q] = "deleting"
      PROVE  \/ Deleting(q, job'[t].frames)
             \/ status[q] = "deleting" /\
                (Deleting(q, job[t].frames) => Deleting(q, job'[t].frames))
  <2>1. Deleting(q, Append(s, f)) <=> Deleting(q, s) \/ (f.p = q /\ f.step # "cascade")
    BY <1>2, PushStack
  <2>2. status[q] = "deleting" \/ (q = p /\ f.step # "cascade")
    BY <1>0, <1>6, <1>8
  <2> QED  BY <1>2, <1>5, <2>1, <2>2
<1>9. NoneStuck'
  BY <1>0, <1>5, <1>8, OneTask
<1> QED  BY <1>5, <1>7, <1>9

-----------------------------------------------------------------------------
(* The steps of the tasks. *)

(* What holds beside the calls when a task that is at work moves. *)
LEMMA AtWork ==
    ASSUME Stuckless, NEW t \in Task, job[t] # Idle, pending = {},
           UNCHANGED <<phase, pending>>, \A u \in Task : u # t => job'[u] = job[u]
    PROVE  Stopping'
<1>1. phase # "stopping" => t \notin Project
  BY DEF Stuckless, Stopping
<1>2. Project \subseteq Task
  BY DEF Task
<1> QED  BY <1>1, <1>2 DEF Stuckless, Stopping

LEMMA Stacks ==
    ASSUME Stuckless, NEW t \in Task, job[t].frames # <<>>
    PROVE  /\ Stack(Below(t)) /\ IsFrame(Top(t)) /\ job[t] # Idle
           /\ \A p : Deleting(p, job[t].frames) <=>
                   \/ Deleting(p, Below(t))
                   \/ Top(t).p = p /\ Top(t).step # "cascade"
<1>1. Stack(job[t].frames)
  BY DEF Stuckless, JobsOK
<1>2. job[t] # Idle
  BY IdleOK
<1> QED  BY <1>1, <1>2, PopStack DEF Below, Top

LEMMA CascadeStep ==
    ASSUME Stuckless, NEW t \in Task, pending = {}, Cascade(t)
    PROVE  Stuckless'
<1>0. /\ JobsOK /\ Statuses /\ NoneStuck /\ UNCHANGED <<phase, pending, registered>>
      /\ job[t].frames # <<>> /\ Top(t).step = "cascade"
  BY DEF Stuckless, Cascade, DeleteOnly, At
<1>1. PICK f : f = Top(t)
  OBVIOUS
<1>2. PICK s : s = Below(t)
  OBVIOUS
<1>3. /\ Stack(s) /\ IsFrame(f) /\ job[t] # Idle
      /\ \A p : Deleting(p, job[t].frames) <=> Deleting(p, s)
  BY <1>0, <1>1, <1>2, Stacks
<1>4. CASE f.todo = {}
  <2>1. PICK m : m = Marked(f.p)
    OBVIOUS
  <2>2. IsFrame(m) /\ m.p = f.p /\ m.step # "cascade"
    BY <2>1, FramesOK
  <2>3. Goto(t, Append(s, m)) /\ status' = [status EXCEPT ![f.p] = "deleting"]
    BY <1>1, <1>2, <1>4, <2>1 DEF Cascade
  <2>4. /\ Stack(Append(s, m))
        /\ \A p : Deleting(p, Append(s, m)) <=>
                      Deleting(p, s) \/ (m.p = p /\ m.step # "cascade")
    BY <1>3, <2>2, PushStack
  <2>5. /\ JobsOK' /\ job'[t].frames = Append(s, m)
        /\ \A u \in Task : u # t => job'[u] = job[u]
    BY <1>0, <2>3, <2>4, JobGoto
  <2>6. Statuses'
    BY <1>0, <2>3 DEF Statuses, Status
  <2>7. ASSUME NEW p \in registered, status'[p] = "deleting"
        PROVE  \/ Deleting(p, job'[t].frames)
               \/ status[p] = "deleting" /\
                  (Deleting(p, job[t].frames) => Deleting(p, job'[t].frames))
    <3>1. status[p] = "deleting" \/ p = f.p
      BY <1>0, <2>3, <2>7 DEF Statuses
    <3> QED  BY <1>3, <2>2, <2>4, <2>5, <3>1
  <2>8. NoneStuck'
    BY <1>0, <2>5, <2>7, OneTask
  <2>9. Stopping'
    BY <1>0, <1>3, <2>5, AtWork
  <2> QED  BY <2>5, <2>6, <2>8, <2>9 DEF Stuckless
<1>5. CASE f.todo # {}
  <2>1. PICK c \in f.todo :
            LET frames == Append(s, [f EXCEPT !.todo = @ \ {c}])
            IN  IF NoOp(c) THEN Goto(t, frames) /\ UNCHANGED status
                           ELSE Call(t, c, job[t].queue, frames)
    BY <1>1, <1>2, <1>5 DEF Cascade
  <2>2. PICK g : g = [f EXCEPT !.todo = @ \ {c}]
    OBVIOUS
  <2>3. IsFrame(g) /\ g.step = "cascade"
    BY <1>0, <1>1, <1>3, <2>2 DEF IsFrame
  <2>4. /\ Stack(Append(s, g))
        /\ \A p : Deleting(p, Append(s, g)) <=>
                      Deleting(p, s) \/ (g.p = p /\ g.step # "cascade")
    BY <1>3, <2>3, PushStack
  <2>5. PICK r : r = Append(s, g)
    OBVIOUS
  <2>6. Stack(r) /\ \A p : Deleting(p, r) <=> Deleting(p, job[t].frames)
    BY <1>3, <2>3, <2>4, <2>5
  <2>7. CASE Goto(t, r) /\ UNCHANGED status
    <3>1. /\ JobsOK' /\ job'[t].frames = r
          /\ \A u \in Task : u # t => job'[u] = job[u]
      BY <1>0, <2>6, <2>7, JobGoto
    <3>2. Statuses'
      BY <1>0, <2>7 DEF Statuses
    <3>3. NoneStuck'
      BY <1>0, <2>6, <2>7, <3>1, OneTask
    <3>4. Stopping'
      BY <1>0, <1>3, <3>1, AtWork
    <3> QED  BY <3>1, <3>2, <3>3, <3>4 DEF Stuckless
  <2>8. CASE Call(t, c, job[t].queue, r)
    <3>1. PICK Q : Q = job[t].queue
      OBVIOUS
    <3>2. JobsOK' /\ Statuses' /\ NoneStuck' /\ \A u \in Task : u # t => job'[u] = job[u]
      BY <1>0, <2>6, <2>8, <3>1, CallOK
    <3>3. Stopping'
      BY <1>0, <1>3, <3>2, AtWork
    <3> QED  BY <3>2, <3>3 DEF Stuckless
  <2> QED  BY <2>1, <2>2, <2>5, <2>7, <2>8
<1> QED  BY <1>4, <1>5

LEMMA WipeStep ==
    ASSUME Stuckless, NEW t \in Task, pending = {}, Wipe(t)
    PROVE  Stuckless'
<1>0. /\ JobsOK /\ Statuses /\ NoneStuck /\ UNCHANGED <<phase, pending, registered, status>>
      /\ job[t].frames # <<>> /\ Top(t).step = "wipe"
  BY DEF Stuckless, Wipe, DeleteOnly, At
<1>1. PICK f : f = Top(t)
  OBVIOUS
<1>2. PICK s : s = Below(t)
  OBVIOUS
<1>3. PICK g : g = [f EXCEPT !.step = "kill", !.doomed = VmsOf(f.p)]
  OBVIOUS
<1>4. /\ Stack(s) /\ IsFrame(f) /\ job[t] # Idle
      /\ \A p : Deleting(p, job[t].frames) <=> Deleting(p, s) \/ f.p = p
  BY <1>0, <1>1, <1>2, Stacks
<1>5. IsFrame(g) /\ g.p = f.p /\ g.step = "kill"
  <2>1. PICK d : d = VmsOf(f.p)
    OBVIOUS
  <2> QED  BY <1>3, <1>4, <2>1 DEF IsFrame
<1>6. Goto(t, Append(s, g))
  BY <1>1, <1>2, <1>3 DEF Wipe
<1>7. /\ Stack(Append(s, g))
      /\ \A p : Deleting(p, Append(s, g)) <=> Deleting(p, job[t].frames)
  BY <1>4, <1>5, PushStack
<1>8. /\ JobsOK' /\ job'[t].frames = Append(s, g)
      /\ \A u \in Task : u # t => job'[u] = job[u]
  BY <1>0, <1>6, <1>7, JobGoto
<1>9. Statuses'
  BY <1>0 DEF Statuses
<1>10. NoneStuck'
  BY <1>0, <1>7, <1>8, OneTask
<1>11. Stopping'
  BY <1>0, <1>4, <1>8, AtWork
<1> QED  BY <1>8, <1>9, <1>10, <1>11 DEF Stuckless

(* A call that is over takes its project out of the registry. *)
LEMMA KillStep ==
    ASSUME Stuckless, NEW t \in Task, pending = {}, Kill(t)
    PROVE  Stuckless'
<1>0. /\ JobsOK /\ Statuses /\ NoneStuck /\ UNCHANGED <<phase, pending, status>>
      /\ job[t].frames # <<>> /\ registered' = registered \ {Top(t).p}
  BY DEF Stuckless, Kill, Killed, DeleteOnly, At
<1>1. PICK s : s = Below(t)
  OBVIOUS
<1>2. /\ Stack(s) /\ job[t] # Idle
      /\ \A p : p # Top(t).p => (Deleting(p, job[t].frames) <=> Deleting(p, s))
  BY <1>0, <1>1, Stacks
<1>3. Goto(t, s)
  BY <1>1 DEF Kill, Killed
<1>4. /\ JobsOK' /\ job'[t].frames = s
      /\ \A u \in Task : u # t => job'[u] = job[u]
  BY <1>0, <1>2, <1>3, JobGoto
<1>5. Statuses'
  BY <1>0 DEF Statuses
<1>6. NoneStuck'
  BY <1>0, <1>2, <1>4, OneTask
<1>7. Stopping'
  BY <1>0, <1>2, <1>4, AtWork
<1> QED  BY <1>4, <1>5, <1>6, <1>7 DEF Stuckless

LEMMA TickNextStep ==
    ASSUME Stuckless, NEW t \in Task, pending = {}, TickNext(t)
    PROVE  Stuckless'
<1>0. /\ JobsOK /\ Statuses /\ NoneStuck /\ UNCHANGED <<phase, pending, registered>>
      /\ job[t].frames = <<>> /\ job[t].queue # {}
  BY DEF Stuckless, TickNext, DeleteOnly
<1>1. job[t] # Idle /\ job[t] = [queue |-> job[t].queue, frames |-> job[t].frames]
  BY <1>0, IdleOK DEF JobsOK
<1>2. PICK p : p = Min(job[t].queue)
  OBVIOUS
<1>3. PICK Q : Q = job[t].queue \ {p}
  OBVIOUS
<1>4. CASE job' = [job EXCEPT ![t].queue = @ \ {p}] /\ UNCHANGED status
  <2>1. job' = [job EXCEPT ![t] = [queue |-> Q, frames |-> <<>>]]
    <3>1. job' = [job EXCEPT ![t] = [job[t] EXCEPT !.queue = Q]]
      BY <1>3, <1>4
    <3>2. PICK j : j = job[t]
      OBVIOUS
    <3>3. [j EXCEPT !.queue = Q] = [queue |-> Q, frames |-> <<>>]
      BY <1>0, <1>1, <3>2
    <3> QED  BY <3>1, <3>2, <3>3
  <2>2. JobsOK' /\ job'[t].frames = <<>> /\ \A u \in Task : u # t => job'[u] = job[u]
    BY <1>0, <2>1, EmptyStack, JobPut
  <2>3. Statuses'
    BY <1>0, <1>4 DEF Statuses
  <2>4. NoneStuck'
    BY <1>0, <1>4, <2>2, OneTask
  <2>5. Stopping'
    BY <1>0, <1>1, <2>2, AtWork
  <2> QED  BY <2>2, <2>3, <2>4, <2>5 DEF Stuckless
<1>5. CASE Call(t, p, Q, <<>>)
  <2>1. JobsOK' /\ Statuses' /\ NoneStuck' /\ \A u \in Task : u # t => job'[u] = job[u]
    BY <1>0, <1>5, EmptyStack, CallOK
  <2>2. Stopping'
    BY <1>0, <1>1, <2>1, AtWork
  <2> QED  BY <2>1, <2>2 DEF Stuckless
<1> QED  BY <1>2, <1>3, <1>4, <1>5 DEF TickNext

(* The delete route and a tick call from a task that is idle. *)
LEMMA FreshCall ==
    ASSUME Stuckless, NEW t \in Deleter, NEW p, NEW Q, Call(t, p, Q, <<>>),
           job[t] = Idle, UNCHANGED <<phase, pending, registered>>
    PROVE  Stuckless'
<1>1. t \in Task /\ t \notin Project
  BY WebappAssumption DEF Task, Project
<1>2. JobsOK' /\ Statuses' /\ NoneStuck' /\ \A u \in Task : u # t => job'[u] = job[u]
  BY <1>1, IdleOK, EmptyStack, CallOK
<1>3. \A u \in Project : job'[u] = job[u]
  BY <1>1, <1>2 DEF Task
<1>4. Stopping'
  BY <1>3 DEF Stuckless, Stopping
<1> QED  BY <1>2, <1>4 DEF Stuckless

LEMMA ShutdownCallStep ==
    ASSUME Stuckless, NEW p \in pending, ShutdownCall(p)
    PROVE  Stuckless'
<1>0. /\ JobsOK /\ Statuses /\ NoneStuck /\ UNCHANGED <<phase, registered>>
      /\ pending' = pending \ {p} /\ p \in Project /\ job[p] = Idle /\ phase = "stopping"
      /\ p \in Task
  BY DEF Stuckless, ShutdownCall, DeleteOnly, Stopping, Task
<1>1. CASE UNCHANGED <<job, status>>
  BY <1>0, <1>1 DEF Stuckless, JobsOK, Stopping, Statuses, NoneStuck, UnderDeletion
<1>2. CASE Call(p, p, {}, <<>>)
  <2>1. JobsOK' /\ Statuses' /\ NoneStuck' /\ \A u \in Task : u # p => job'[u] = job[u]
    BY <1>0, <1>2, IdleOK, EmptyStack, CallOK
  <2>2. \A u \in Project : u # p => job'[u] = job[u]
    BY <2>1 DEF Task
  <2>3. Stopping'
    BY <1>0, <2>2 DEF Stuckless, Stopping
  <2> QED  BY <2>1, <2>3 DEF Stuckless
<1> QED  BY <1>1, <1>2 DEF ShutdownCall

-----------------------------------------------------------------------------
(* The steps that leave the deletions alone, and the process's end. *)

(* A project that is registered anew, or whose provisioning ends, is not   *)
(* marked by that.                                                         *)
LEMMA UnmarkStep ==
    ASSUME Stuckless, NEW p \in Project, NEW s \in Status \ {"deleting"},
           status' = [status EXCEPT ![p] = s],
           registered' \in {registered, registered \cup {p}},
           UNCHANGED <<phase, pending, job>>
    PROVE  Stuckless'
<1>1. JobsOK' /\ Stopping'
  BY DEF Stuckless, JobsOK, Stopping
<1>2. Statuses'
  BY DEF Stuckless, Statuses
<1>3. ASSUME NEW q \in registered', status'[q] = "deleting"
      PROVE  UnderDeletion(q)'
  <2>1. q \in registered /\ status[q] = "deleting"
    BY <1>3 DEF Stuckless, Statuses
  <2> QED  BY <2>1 DEF Stuckless, NoneStuck, UnderDeletion
<1> QED  BY <1>1, <1>2, <1>3 DEF Stuckless, NoneStuck

LEMMA ExitStep ==
    ASSUME Stuckless, Exit
    PROVE  Stuckless'
<1>1. /\ registered' = {} /\ pending' = {} /\ phase' = "down"
      /\ status' = [p \in Project |-> "none"] /\ job' = [t \in Task |-> Idle]
  BY DEF Exit
<1>2. JobsOK'
  <2>1. \A t \in Task : /\ job'[t] = [queue |-> job'[t].queue, frames |-> job'[t].frames]
                        /\ Stack(job'[t].frames) /\ job'[t] = Idle
    BY <1>1, IdleOK, EmptyStack
  <2>2. job' = [t \in Task |-> job'[t]]
    BY <1>1
  <2> QED  BY <2>1, <2>2 DEF JobsOK
<1>3. Stopping' /\ Statuses' /\ NoneStuck'
  BY <1>1 DEF Stopping, Statuses, Status, NoneStuck, Task
<1> QED  BY <1>2, <1>3 DEF Stuckless

(* Nothing of it changes but the phase. *)
LEMMA PhaseStep ==
    ASSUME Stuckless, UNCHANGED <<registered, status, job>>,
           \/ UNCHANGED <<phase, pending>>
           \/ phase = "up" /\ phase' = "stopping" /\ pending' = registered
           \/ phase = "down" /\ phase' = "up" /\ UNCHANGED pending
    PROVE  Stuckless'
<1>1. JobsOK' /\ Statuses' /\ NoneStuck'
  BY DEF Stuckless, JobsOK, Statuses, NoneStuck, UnderDeletion
<1>2. Stopping'
  BY DEF Stuckless, Stopping, Statuses
<1> QED  BY <1>1, <1>2 DEF Stuckless

LEMMA StucklessInit == Init => Stuckless
<1> SUFFICES ASSUME Init PROVE Stuckless
  OBVIOUS
<1>1. JobsOK
  <2>1. job = [t \in Task |-> Idle]
    BY DEF Init
  <2>2. \A t \in Task : /\ job[t] = [queue |-> job[t].queue, frames |-> job[t].frames]
                        /\ Stack(job[t].frames)
    BY <2>1, IdleOK, EmptyStack
  <2>3. job = [t \in Task |-> job[t]]
    BY <2>1
  <2> QED  BY <2>2, <2>3 DEF JobsOK
<1>2. Stopping /\ Statuses /\ NoneStuck
  BY DEF Init, Stopping, Statuses, Status, NoneStuck, Task
<1> QED  BY <1>1, <1>2 DEF Stuckless

LEMMA StucklessNext == Stuckless /\ [Next]_vars => Stuckless'
<1> SUFFICES ASSUME Stuckless, [Next]_vars PROVE Stuckless'
  OBVIOUS
<1>1. CASE UNCHANGED vars
  BY <1>1, PhaseStep DEF vars, server, project
<1>2. ASSUME NEW p \in pending, ShutdownCall(p) PROVE Stuckless'
  BY <1>2, ShutdownCallStep
<1>3. ASSUME NEW p \in Project, NewProject(p) PROVE Stuckless'
  <2>1. /\ "provisioning" \in Status \ {"deleting"}
        /\ status' = [status EXCEPT ![p] = "provisioning"]
        /\ registered' = registered \cup {p} /\ UNCHANGED <<phase, pending, job>>
    BY <1>3 DEF NewProject, Register, server, Status
  <2> QED  BY <2>1, UnmarkStep
<1>4. ASSUME NEW p \in Project, NEW source \in Project, NewBranch(p, source)
      PROVE  Stuckless'
  <2>1. /\ "provisioning" \in Status \ {"deleting"}
        /\ status' = [status EXCEPT ![p] = "provisioning"]
        /\ registered' = registered \cup {p} /\ UNCHANGED <<phase, pending, job>>
    BY <1>4 DEF NewBranch, Register, server, Status
  <2> QED  BY <2>1, UnmarkStep
<1>5. ASSUME NEW p \in Project, Provision(p) PROVE Stuckless'
  <2>1. CASE Backup(p) \/ Create(p) \/ Created(p)
    BY <2>1, PhaseStep DEF Backup, Create, Created, server, project
  <2>2. CASE ProvisionFails(p)
    <3>1. /\ "error" \in Status \ {"deleting"} /\ status' = [status EXCEPT ![p] = "error"]
          /\ UNCHANGED <<registered, phase, pending, job>>
      BY <2>2 DEF ProvisionFails, server, Status
    <3> QED  BY <3>1, UnmarkStep
  <2>3. CASE Setup(p)
    <3>1. /\ "ready" \in Status \ {"deleting"} /\ status' = [status EXCEPT ![p] = "ready"]
          /\ UNCHANGED <<registered, phase, pending, job>>
      BY <2>3 DEF Setup, server, Status
    <3> QED  BY <3>1, UnmarkStep
  <2> QED  BY <1>5, <2>1, <2>2, <2>3 DEF Provision
<1>6. ASSUME NEW p \in Project, NEW t \in Deleter, DeleteRoute(t, p) PROVE Stuckless'
  BY <1>6, FreshCall DEF DeleteRoute, DeleteOnly
<1>7. ASSUME NEW t \in Deleter, NEW k \in Project, Tick(t, k) PROVE Stuckless'
  <2>1. PICK due : Call(t, Min(due), due \ {Min(due)}, <<>>)
    BY <1>7 DEF Tick
  <2>2. PICK p : p = Min(due)
    OBVIOUS
  <2>3. PICK Q : Q = due \ {p}
    OBVIOUS
  <2>4. Call(t, p, Q, <<>>)
    BY <2>1, <2>2, <2>3
  <2> QED  BY <1>7, <2>4, FreshCall DEF Tick, DeleteOnly
<1>8. ASSUME NEW t \in Task, pending = {}, TaskStep(t) PROVE Stuckless'
  BY <1>8, CascadeStep, WipeStep, KillStep, TickNextStep DEF TaskStep
<1>9. CASE Sweep
  BY <1>9, PhaseStep DEF Sweep, SweepTo, project
<1>10. CASE Shutdown
  BY <1>10, PhaseStep DEF Shutdown, project
<1>11. CASE ShutdownSweep
  BY <1>11, PhaseStep DEF ShutdownSweep, project
<1>12. CASE Exit
  BY <1>12, ExitStep
<1>13. CASE Start
  BY <1>13, PhaseStep DEF Start, project
<1> QED  BY <1>1, <1>2, <1>3, <1>4, <1>5, <1>6, <1>7, <1>8, <1>9, <1>10, <1>11, <1>12,
            <1>13 DEF Next

(* deleteProject "always removes it from the registry": a project that is  *)
(* marked, which every other deletion then leaves alone, is in the hands   *)
(* of a task that has gone past its branches.                              *)
THEOREM NeverStuck == Spec => []NoneStuck
<1>1. Stuckless => NoneStuck
  BY DEF Stuckless
<1> QED  BY <1>1, StucklessInit, StucklessNext, PTL DEF Spec

-----------------------------------------------------------------------------
(* What is left of earlier runs. *)

(* Everything this run makes is numbered above what the earlier runs made. *)
Newer ==
    /\ used \in Nat /\ before \in Nat /\ before <= used
    /\ prov = [p \in Project |-> prov[p]]
    /\ \A p \in Project : prov[p] # "idle" => p > before
    /\ \A p \in vms : p > before
    /\ \A v \in sweep.known : v > before

Swept == Newer /\ LeftoversSwept

(* One project's provisioning moves on. *)
LEMMA ProvTo ==
    ASSUME Newer, NEW p \in Project, p > before, NEW s, prov' = [prov EXCEPT ![p] = s],
           UNCHANGED before
    PROVE  /\ prov' = [q \in Project |-> prov'[q]]
           /\ \A q \in Project : prov'[q] # "idle" => q > before'
<1>1. \A q \in Project : prov'[q] = IF q = p THEN s ELSE prov[q]
  BY DEF Newer
<1>2. prov' = [q \in Project |-> prov'[q]]
  BY <1>1 DEF Newer
<1> QED  BY <1>1, <1>2 DEF Newer

LEMMA RegisterStep ==
    ASSUME Swept, NEW p \in Project, NEW source, NEW s, Fresh(p), Register(p, source, s)
    PROVE  Swept'
<1>1. /\ p = used + 1 /\ used' = p /\ prov' = [prov EXCEPT ![p] = s]
      /\ UNCHANGED <<before, vms, sweep, alive, phase>>
  BY DEF Fresh, Register, server
<1>2. Newer /\ p > before /\ used' \in Nat /\ before <= used'
  BY <1>1 DEF Swept, Newer
<1>3. Newer'
  BY <1>1, <1>2, ProvTo DEF Newer
<1>4. LeftoversSwept'
  BY <1>1 DEF Swept, LeftoversSwept
<1> QED  BY <1>3, <1>4 DEF Swept

LEMMA ProvisionStep ==
    ASSUME Swept, NEW p \in Project, Provision(p)
    PROVE  Swept'
<1>1. /\ prov[p] # "idle" /\ UNCHANGED <<used, before, sweep, phase>>
      /\ \E s : prov' = [prov EXCEPT ![p] = s]
      /\ alive' \in {alive, alive \cup {p}} /\ vms' \in {vms, vms \cup {p}}
  <2>1. CASE ProvisionFails(p)
    BY <2>1 DEF ProvisionFails, server, history
  <2>2. CASE Backup(p)
    BY <2>2 DEF Backup, server, project, history
  <2>3. CASE Create(p) \/ Created(p)
    BY <2>3 DEF Create, Created, server, project, history
  <2>4. CASE Setup(p)
    BY <2>4 DEF Setup, server, history
  <2> QED  BY <2>1, <2>2, <2>3, <2>4 DEF Provision
<1>2. Newer /\ LeftoversSwept /\ p > before
  BY <1>1 DEF Swept, Newer
<1>3. Newer'
  BY <1>1, <1>2, ProvTo DEF Newer
<1>4. LeftoversSwept'
  BY <1>1, <1>2 DEF LeftoversSwept
<1> QED  BY <1>3, <1>4 DEF Swept

(* A step that makes nothing: VMs may go. *)
LEMMA Fewer ==
    ASSUME Swept, UNCHANGED <<phase, sweep, used, before, prov, vms>>, alive' \subseteq alive
    PROVE  Swept'
  BY DEF Swept, Newer, LeftoversSwept

(* A sweep that deletes all it was to delete leaves what it knew. *)
LEMMA SweepStep ==
    ASSUME Swept, Sweep
    PROVE  Swept'
<1>1. PICK kept \in SUBSET Orphans : SweepTo(kept)
  BY DEF Sweep
<1>2. /\ UNCHANGED <<phase, used, before, prov, vms>>
      /\ alive' = alive \ (Orphans \ kept)
  BY <1>1 DEF SweepTo, project, making, history
<1>3. sweep'.known = {} /\ (phase # "stopping" /\ sweep'.pc = "idle" => kept = {})
  BY <1>1 DEF SweepTo, NoSweep
<1>4. Newer'
  BY <1>2, <1>3 DEF Swept, Newer
<1>5. kept = {} => \A v \in alive' : v > before
  <2>1. ASSUME kept = {}, NEW v \in alive' PROVE v \in sweep.known
    BY <1>2, <2>1 DEF Orphans
  <2> QED  BY <2>1 DEF Swept, Newer
<1>6. LeftoversSwept'
  BY <1>2, <1>3, <1>5 DEF LeftoversSwept
<1> QED  BY <1>4, <1>6 DEF Swept

LEMMA ExitSweeps ==
    ASSUME Swept, Exit
    PROVE  Swept'
<1>1. /\ phase' = "down" /\ sweep' = NoSweep /\ vms' = {} /\ before' = used
      /\ prov' = [p \in Project |-> "idle"] /\ used' = used
  BY DEF Exit
<1>2. Newer'
  BY <1>1 DEF Swept, Newer, NoSweep
<1>3. LeftoversSwept'
  BY <1>1 DEF LeftoversSwept
<1> QED  BY <1>2, <1>3 DEF Swept

LEMMA SweptInit == Init => Swept
  BY DEF Init, Swept, Newer, LeftoversSwept, Listing

LEMMA SweptNext == Swept /\ [Next]_vars => Swept'
<1> SUFFICES ASSUME Swept, [Next]_vars PROVE Swept'
  OBVIOUS
<1>1. CASE UNCHANGED vars
  BY <1>1, Fewer DEF vars, server, project, making, history
<1>2. ASSUME NEW p, ShutdownCall(p) PROVE Swept'
  BY <1>2, Fewer DEF ShutdownCall, DeleteOnly, making
<1>3. ASSUME NEW p \in Project, NewProject(p) PROVE Swept'
  BY <1>3, RegisterStep DEF NewProject
<1>4. ASSUME NEW p \in Project, NEW source \in Project, NewBranch(p, source)
      PROVE  Swept'
  BY <1>4, RegisterStep DEF NewBranch
<1>5. ASSUME NEW p \in Project, Provision(p) PROVE Swept'
  BY <1>5, ProvisionStep
<1>6. ASSUME NEW t, NEW p, DeleteRoute(t, p) PROVE Swept'
  BY <1>6, Fewer DEF DeleteRoute, DeleteOnly, making
<1>7. ASSUME NEW t, NEW k, Tick(t, k) PROVE Swept'
  <2>1. DeleteOnly /\ UNCHANGED alive
    BY <1>7 DEF Tick
  <2> QED  BY <2>1, Fewer DEF DeleteOnly, making
<1>8. ASSUME NEW t, TaskStep(t) PROVE Swept'
  <2>1. DeleteOnly /\ alive' \subseteq alive
    <3>1. CASE Cascade(t) \/ Wipe(t) \/ TickNext(t)
      BY <3>1 DEF Cascade, Wipe, TickNext
    <3>2. CASE Kill(t)
      BY <3>2 DEF Kill, Killed
    <3> QED  BY <1>8, <3>1, <3>2 DEF TaskStep
  <2> QED  BY <2>1, Fewer DEF DeleteOnly, making
<1>9. CASE Sweep
  BY <1>9, SweepStep
<1>10. CASE Shutdown
  <2>1. Newer' /\ phase' = "stopping"
    BY <1>10 DEF Shutdown, project, making, history, Swept, Newer
  <2> QED  BY <2>1 DEF Swept, LeftoversSwept
<1>11. CASE ShutdownSweep
  <2>1. /\ UNCHANGED <<used, before, prov, vms>> /\ phase' = "stopping"
        /\ sweep' = Listing(Known)
    BY <1>11 DEF ShutdownSweep, project, making, history
  <2>2. Known \subseteq vms
    BY DEF Known, VmsOf
  <2> QED  BY <2>1, <2>2 DEF Swept, Newer, LeftoversSwept, Listing
<1>12. CASE Exit
  BY <1>12, ExitSweeps
<1>13. CASE Start
  <2>1. UNCHANGED <<used, before, prov, vms>> /\ sweep' = Listing({})
    BY <1>13 DEF Start, project, making, history
  <2> QED  BY <2>1 DEF Swept, Newer, LeftoversSwept, Listing
<1> QED  BY <1>1, <1>2, <1>3, <1>4, <1>5, <1>6, <1>7, <1>8, <1>9, <1>10, <1>11, <1>12,
            <1>13 DEF Next

(* sweepOrphans: once a start has swept, hostd has no VM of an earlier     *)
(* run, unless hostd failed the sweep.                                     *)
THEOREM SweptClean == Spec => []LeftoversSwept
<1>1. Swept => LeftoversSwept
  BY DEF Swept
<1> QED  BY <1>1, SweptInit, SweptNext, PTL DEF Spec

-----------------------------------------------------------------------------
(* Recursion over the numbers. *)

(* A set of numbers that leaves one out has a first number it leaves out. *)
LEMMA FirstMissing ==
    ASSUME NEW S, NEW m \in Nat, m \notin S
    PROVE  \E n \in Nat : n \notin S /\ \A k \in Nat : k < n => k \in S
<1> DEFINE T == {n \in Nat : n \notin S}
<1>1. PICK n \in T : \A k \in T : ~(<<k, n>> \in OpToRel(<, Nat))
  <2>1. T \subseteq Nat /\ T # {}
    OBVIOUS
  <2> HIDE DEF T
  <2> QED  BY <2>1, NatLessThanWellFounded, WFMin, Zenon
<1>2. ASSUME NEW k \in Nat, k < n PROVE k \in S
  <2>1. k \in T => ~(<<k, n>> \in OpToRel(<, Nat))
    BY <1>1
  <2>2. <<k, n>> \in OpToRel(<, Nat)
    <3>1. <<k, n>> \in Nat \X Nat
      BY <1>1
    <3> QED  BY <1>2, <3>1 DEF OpToRel
  <2> QED  BY <2>1, <2>2
<1> QED  BY <1>1, <1>2

(* Induction, for a set that is there.                                     *)
LEMMA EveryNumber ==
    ASSUME NEW S, 0 \in S, \A n \in Nat : n \in S => n + 1 \in S
    PROVE  Nat \subseteq S
<1> SUFFICES ASSUME NEW m \in Nat, m \notin S PROVE FALSE
  OBVIOUS
<1>1. PICK n \in Nat : n \notin S /\ \A k \in Nat : k < n => k \in S
  BY FirstMissing
<1>2. n # 0
  BY <1>1
<1>3. n - 1 \in Nat /\ n - 1 < n /\ (n - 1) + 1 = n
  BY <1>2
<1>4. n - 1 \in S
  BY <1>1, <1>3
<1> QED  BY <1>1, <1>3, <1>4

(* What taking a step again and again goes through. *)
Steps(S) == [S -> S]
Runs(S, step, s) ==
    {g \in [Nat -> S] : g[0] = s /\ \A n \in Nat : g[n + 1] = step[g[n]]}

(* A step can be taken any number of times. *)
LEMMA Iterated ==
    ASSUME NEW S, NEW step \in Steps(S), NEW s \in S
    PROVE  Runs(S, step, s) # {}
<1> USE DEF Steps
<1> DEFINE Chain(n, c) == c \in [0 .. n -> S] /\ c[0] = s
                          /\ \A i \in 0 .. n : i # n => c[i + 1] = step[c[i]]
           Some == {n \in Nat : \E c \in [0 .. n -> S] : Chain(n, c)}
<1>1. 0 \in Some
  <2>1. Chain(0, [i \in 0 .. 0 |-> s])
    OBVIOUS
  <2> QED  BY <2>1
<1>2. ASSUME NEW n \in Nat, n \in Some PROVE n + 1 \in Some
  <2>1. PICK c \in [0 .. n -> S] : Chain(n, c)
    BY <1>2
  <2> DEFINE d == [i \in 0 .. n + 1 |-> IF i = n + 1 THEN step[c[n]] ELSE c[i]]
  <2>2. c[n] \in S /\ step[c[n]] \in S
    BY <2>1
  <2>3. d \in [0 .. n + 1 -> S]
    <3>1. \A i \in 0 .. n + 1 : i # n + 1 => i \in 0 .. n
      OBVIOUS
    <3> QED  BY <2>1, <2>2, <3>1
  <2>4. d[0] = s
    BY <2>1
  <2>5. ASSUME NEW i \in 0 .. n + 1, i # n + 1 PROVE d[i + 1] = step[d[i]]
    <3>1. i \in 0 .. n /\ i + 1 \in 0 .. n + 1 /\ d[i] = c[i]
      BY <2>5
    <3>2. CASE i = n
      BY <3>1, <3>2
    <3>3. CASE i # n
      BY <2>1, <3>1, <3>3
    <3> QED  BY <3>2, <3>3
  <2> QED  BY <2>3, <2>4, <2>5
<1>3. Nat \subseteq Some
  <2> HIDE DEF Some
  <2> QED  BY <1>1, <1>2, EveryNumber
<1>4. ASSUME NEW n \in Nat, NEW m \in Nat, n <= m, NEW c, NEW d, Chain(n, c), Chain(m, d)
      PROVE  \A i \in 0 .. n : c[i] = d[i]
  <2> DEFINE Same == {i \in Nat : i \in 0 .. n => c[i] = d[i]}
  <2>1. 0 \in Same
    BY <1>4
  <2>2. ASSUME NEW i \in Nat, i \in Same PROVE i + 1 \in Same
    <3> SUFFICES ASSUME i + 1 \in 0 .. n PROVE c[i + 1] = d[i + 1]
      OBVIOUS
    <3>1. i \in 0 .. n /\ i # n /\ i \in 0 .. m /\ i # m
      BY <1>4
    <3>2. c[i] = d[i] /\ c[i + 1] = step[c[i]] /\ d[i + 1] = step[d[i]]
      BY <1>4, <2>2, <3>1
    <3> QED  BY <3>2
  <2>3. Nat \subseteq Same
    <3> HIDE DEF Same
    <3> QED  BY <2>1, <2>2, EveryNumber
  <2> QED  BY <2>3
<1> DEFINE chain(n) == CHOOSE c \in [0 .. n -> S] : Chain(n, c)
           g == [n \in Nat |-> chain(n)[n]]
<1>5. \A n \in Nat : Chain(n, chain(n))
  BY <1>3
<1> HIDE DEF chain
<1>6. g \in [Nat -> S]
  BY <1>5
<1>7. g[0] = s
  BY <1>5
<1>8. ASSUME NEW n \in Nat PROVE g[n + 1] = step[g[n]]
  <2>1. Chain(n, chain(n)) /\ Chain(n + 1, chain(n + 1))
    BY <1>5
  <2> HIDE DEF Chain
  <2>2. chain(n)[n] = chain(n + 1)[n]
    BY <1>4, <2>1
  <2> USE DEF Chain
  <2>3. chain(n + 1)[n + 1] = step[chain(n + 1)[n]]
    BY <2>1
  <2> QED  BY <2>2, <2>3
<1> QED  BY <1>6, <1>7, <1>8 DEF Runs

LEMMA MinElement ==
    ASSUME NEW S, S \subseteq Nat, S # {}
    PROVE  Min(S) \in S
<1>1. PICK m \in Nat : m \notin Nat \ S
  OBVIOUS
<1>2. PICK n \in Nat : n \notin Nat \ S /\ \A k \in Nat : k < n => k \in Nat \ S
  <2>1. PICK T : T = Nat \ S
    OBVIOUS
  <2>2. \E n \in Nat : n \notin T /\ \A k \in Nat : k < n => k \in T
    BY <1>1, <2>1, FirstMissing
  <2> QED  BY <2>1, <2>2
<1>3. n \in S /\ \A k \in S : n <= k
  BY <1>2
<1> QED  BY <1>3 DEF Min

-----------------------------------------------------------------------------
(* Branches and ancestors. *)

(* A recursive definition over the numbers whose value at n is `step` of   *)
(* the one before has a value everywhere.                                  *)
IsWithin(p, w) ==
    w = [n \in Nat |-> IF n = 0 THEN {}
                       ELSE {q \in registered : parent[q] \in {p} \cup w[n - 1]}]

LEMMA WithinExists == \A p : \E w : IsWithin(p, w)
<1> TAKE p
<1> DEFINE S == SUBSET registered
           step == [X \in S |->
                       {q \in registered : parent[q] \in {p} \cup X}]
<1>1. step \in Steps(S) /\ {} \in S
  BY DEF Steps
<1>2. PICK g \in [Nat -> S] :
          g[0] = {} /\ \A n \in Nat : g[n + 1] = step[g[n]]
  <2> HIDE DEF step, S
  <2>1. Runs(S, step, {}) # {}
    BY <1>1, Iterated
  <2> QED  BY <2>1 DEF Runs
<1>3. ASSUME NEW n \in Nat
      PROVE  g[n] = IF n = 0 THEN {}
                    ELSE {q \in registered : parent[q] \in {p} \cup g[n - 1]}
  <2>1. CASE n = 0
    BY <1>2, <2>1
  <2>2. CASE n # 0
    <3>1. n - 1 \in Nat /\ (n - 1) + 1 = n
      BY <2>2
    <3>2. g[n] = step[g[n - 1]] /\ g[n - 1] \in S
      BY <1>2, <3>1
    <3> QED  BY <2>2, <3>2
  <2> QED  BY <2>1, <2>2
<1>4. g = [n \in Nat |-> g[n]]
  BY <1>2
<1>5. IsWithin(p, g)
  BY <1>3, <1>4 DEF IsWithin
<1> QED  BY <1>5

(* The branches of a project are among its descendants. *)
LEMMA BranchesFound ==
    ASSUME NEW p \in Project, NEW q \in registered, parent[q] = p
    PROVE  q \in Descendants(p)
<1> DEFINE w == CHOOSE v : IsWithin(p, v)
<1>1. Descendants(p) = w[N]
  BY DEF Descendants, IsWithin
<1>2. IsWithin(p, w)
  BY WithinExists
<1>3. N \in Nat /\ N # 0
  BY WebappAssumption DEF Project
<1> HIDE DEF w
<1>4. w[N] = {r \in registered : parent[r] \in {p} \cup w[N - 1]}
  BY <1>2, <1>3 DEF IsWithin
<1> QED  BY <1>1, <1>4

(* A project is a branch of one project, or of none. *)
IsAbove(p, w) ==
    w = [n \in Nat |-> IF n = 0 THEN {}
                       ELSE {parent[q] : q \in {p} \cup w[n - 1]} \ {NoProject}]

LEMMA AboveExists ==
    ASSUME parent \in [Project -> 0 .. N], NEW p \in Project
    PROVE  \E w : IsAbove(p, w)
<1> DEFINE up(X) == {parent[q] : q \in {p} \cup X} \ {NoProject}
           S == SUBSET Project
           step == [X \in S |-> up(X)]
<1>1. ASSUME NEW X \in S PROVE up(X) \in S
  <2>1. \A q \in {p} \cup X : parent[q] \in 0 .. N
    OBVIOUS
  <2>2. \A i \in 0 .. N : i # NoProject => i \in Project
    BY WebappAssumption DEF Project, NoProject
  <2> QED  BY <2>1, <2>2
<1>2. PICK g \in [Nat -> S] :
          g[0] = {} /\ \A n \in Nat : g[n + 1] = step[g[n]]
  <2>1. step \in Steps(S) /\ {} \in S
    <3> HIDE DEF up
    <3> QED  BY <1>1 DEF Steps
  <2> HIDE DEF step, S
  <2>2. Runs(S, step, {}) # {}
    BY <2>1, Iterated
  <2> QED  BY <2>2 DEF Runs
<1>3. ASSUME NEW n \in Nat PROVE g[n] = IF n = 0 THEN {} ELSE up(g[n - 1])
  <2>1. CASE n = 0
    BY <1>2, <2>1
  <2>2. CASE n # 0
    <3>1. n - 1 \in Nat /\ (n - 1) + 1 = n
      BY <2>2
    <3>2. g[n] = step[g[n - 1]] /\ g[n - 1] \in S
      BY <1>2, <3>1
    <3> HIDE DEF up
    <3> QED  BY <2>2, <3>2
  <2> QED  BY <2>1, <2>2
<1>4. g = [n \in Nat |-> g[n]]
  BY <1>2
<1> QED  BY <1>3, <1>4 DEF IsAbove

(* What a project and all that it is made from have in common with the     *)
(* project each of them is branched from, all its ancestors have.          *)
LEMMA AncestorsIn ==
    ASSUME parent \in [Project -> 0 .. N], NEW C, NEW b \in C, b \in Project,
           \A c \in C : parent[c] # NoProject => parent[c] \in C
    PROVE  Ancestors(b) \subseteq C
<1> DEFINE w == CHOOSE v : IsAbove(b, v)
<1>1. Ancestors(b) = w[N]
  BY DEF Ancestors, IsAbove
<1>2. IsAbove(b, w)
  BY AboveExists
<1> HIDE DEF w
<1> DEFINE In == {n \in Nat : w[n] \subseteq C}
<1>3. 0 \in In
  BY <1>2 DEF IsAbove
<1>4. ASSUME NEW n \in Nat, n \in In PROVE n + 1 \in In
  <2>1. n + 1 \in Nat /\ n + 1 # 0 /\ (n + 1) - 1 = n
    OBVIOUS
  <2>2. w[n + 1] = {parent[q] : q \in {b} \cup w[n]} \ {NoProject}
    BY <1>2, <2>1 DEF IsAbove
  <2>3. w[n] \subseteq C
    BY <1>4
  <2> QED  BY <2>1, <2>2, <2>3
<1>5. Nat \subseteq In
  <2> HIDE DEF In
  <2> QED  BY <1>3, <1>4, EveryNumber
<1> QED  BY <1>1, <1>5, WebappAssumption

-----------------------------------------------------------------------------
(* The calls of a stack, one above the other. *)

(* Of the edges C from a branch to what it is made of: a call that goes    *)
(* through branches still has all of its own to do, but the one, c, that   *)
(* is being deleted right now.                                             *)
Covering(f, c, C) ==
    f.step = "cascade" => \A e \in C : e[2] = f.p => e[1] \in f.todo \/ e[1] = c

(* All calls of a stack do, above which c is being deleted. *)
Over(s, i, c) == IF i < Len(s) THEN s[i + 1].p ELSE c
Under(s, c, C) == \A i \in 1 .. Len(s) : Covering(s[i], Over(s, i, c), C)

LEMMA UnderNone == ASSUME NEW c, NEW C PROVE Under(<<>>, c, C)
<1>1. Len(<<>>) = 0
  OBVIOUS
<1> QED  BY <1>1 DEF Under

LEMMA UnderPush ==
    ASSUME NEW s, Stack(s), NEW f, IsFrame(f), NEW c, NEW C
    PROVE  Under(Append(s, f), c, C) <=> Under(s, f.p, C) /\ Covering(f, c, C)
<1> DEFINE S == ToSet(s) \cup {f}
           a == Append(s, f)
<1>1. s \in Seq(S) /\ f \in S
  <2>1. s \in Seq(ToSet(s))
    BY DEF Stack
  <2> QED  BY <2>1
<1>2. /\ Len(a) = Len(s) + 1 /\ Len(s) \in Nat
      /\ \A i \in 1 .. Len(s) : a[i] = s[i]
      /\ a[Len(s) + 1] = f
  BY <1>1, AppendProperties
<1> HIDE DEF a, S
<1>3. PICK n \in Nat : n = Len(s)
  BY <1>2
<1>4. \A i \in 1 .. n : Over(a, i, c) = Over(s, i, f.p) /\ a[i] = s[i]
  <2> TAKE i \in 1 .. n
  <2>1. CASE i = n
    BY <1>2, <1>3, <2>1 DEF Over
  <2>2. CASE i # n
    <3>1. i < n /\ i + 1 \in 1 .. n /\ i < n + 1
      BY <2>2
    <3> QED  BY <1>2, <1>3, <3>1 DEF Over
  <2> QED  BY <2>1, <2>2
<1>5. Over(a, n + 1, c) = c /\ a[n + 1] = f
  BY <1>2, <1>3 DEF Over
<1>6. Under(a, c, C) <=> /\ \A i \in 1 .. n : Covering(a[i], Over(a, i, c), C)
                         /\ Covering(a[n + 1], Over(a, n + 1, c), C)
  <2>1. Under(a, c, C) <=> \A i \in 1 .. n + 1 : Covering(a[i], Over(a, i, c), C)
    BY <1>2, <1>3 DEF Under
  <2>2. 1 .. n + 1 = (1 .. n) \cup {n + 1}
    OBVIOUS
  <2> QED  BY <2>1, <2>2
<1>7. Under(s, f.p, C) <=> \A i \in 1 .. n : Covering(s[i], Over(s, i, f.p), C)
  BY <1>3 DEF Under
<1>8. Under(a, c, C) <=> Under(s, f.p, C) /\ Covering(f, c, C)
  BY <1>4, <1>5, <1>6, <1>7
<1> QED  BY <1>8 DEF a

LEMMA UnderPop ==
    ASSUME NEW s, Stack(s), s # <<>>, NEW c, NEW C
    PROVE  Under(s, c, C) <=> Under(Front(s), Last(s).p, C) /\ Covering(Last(s), c, C)
<1>1. s \in Seq(ToSet(s)) /\ Len(s) \in Nat \ {0}
  <2>1. s \in Seq(ToSet(s))
    BY DEF Stack
  <2> QED  BY <2>1, EmptySeq
<1>2. PICK b : b = Front(s)
  OBVIOUS
<1>3. PICK e : e = Last(s)
  OBVIOUS
<1>4. Stack(b) /\ IsFrame(e)
  BY <1>2, <1>3, PopStack
<1>5. s = Append(b, e)
  <2>1. b = SubSeq(s, 1, Len(s) - 1) /\ e = s[Len(s)]
    BY <1>2, <1>3 DEF Front, Last
  <2> QED  BY <1>1, <2>1
<1> QED  BY <1>2, <1>3, <1>4, <1>5, UnderPush

(* Fewer edges ask for less. *)
LEMMA UnderFewer ==
    ASSUME NEW s, NEW c, NEW d, NEW C, NEW D, Under(s, c, C), D \subseteq C,
           c = d \/ \A e \in D : e[1] # c
    PROVE  Under(s, d, D)
<1> SUFFICES ASSUME NEW i \in 1 .. Len(s)
             PROVE  Covering(s[i], Over(s, i, d), D)
  BY DEF Under
<1>1. Covering(s[i], Over(s, i, c), C)
  BY DEF Under
<1>2. Over(s, i, c) = Over(s, i, d) \/ (Over(s, i, c) = c /\ \A e \in D : e[1] # c)
  BY DEF Over
<1> QED  BY <1>1, <1>2 DEF Covering

-----------------------------------------------------------------------------
(* No database is left without what it reads. *)

Calls(s) == {f.p : f \in ToSet(s)}

(* The projects that are whole: nobody has marked them, and they were not  *)
(* branched from something that was being deleted; and what they are       *)
(* branches of.                                                            *)
Whole == {p \in registered : ~UnderDeletion(p) /\ p \notin late}
Edges == {<<b, parent[b]>> : b \in Whole}

(* Only what was created is registered, wiped or deleted. *)
Numbered ==
    /\ used \in Nat /\ parent \in [Project -> 0 .. N]
    /\ registered \subseteq 1 .. used /\ wiped \subseteq 1 .. used
    /\ \A t \in Task : Calls(job[t].frames) \subseteq 1 .. used

(* What a whole project is a branch of is whole. *)
Chained == \A b \in Whole : parent[b] # NoProject => parent[b] \in Whole

(* A call that has not marked its project yet has all branches of it that  *)
(* are whole still to do.                                                  *)
AllToDo == \A t \in Task : Under(job[t].frames, NoProject, Edges)

(* Only what is marked is wiped. *)
WipedMarked == \A p \in wiped \cap registered : UnderDeletion(p)

Cascading == Numbered /\ Chained /\ AllToDo /\ WipedMarked

LEMMA CascadingCovers == Cascading /\ Statuses => CascadeCovers
<1> SUFFICES ASSUME Cascading, Statuses, NEW b \in registered, NEW a \in Ancestors(b),
                    a \in wiped, ~UnderDeletion(b), b \notin late
             PROVE  FALSE
  BY DEF CascadeCovers
<1>1. b \in Whole /\ b \in Project
  BY DEF Whole, Statuses
<1>2. parent \in [Project -> 0 .. N] /\ \A c \in Whole : parent[c] # NoProject => parent[c] \in Whole
  BY DEF Cascading, Numbered, Chained
<1>3. Ancestors(b) \subseteq Whole
  BY <1>1, <1>2, AncestorsIn
<1>4. a \in registered /\ ~UnderDeletion(a)
  BY <1>3 DEF Whole
<1> QED  BY <1>4 DEF Cascading, WipedMarked

(* What a step of one task has to keep. *)
LEMMA TaskCascades ==
    ASSUME Cascading, Statuses, NEW t \in Task,
           \A u \in Task : u # t => job'[u] = job[u],
           UNCHANGED <<parent, late, used>>, registered' \subseteq registered,
           \A p \in registered \ registered' : UnderDeletion(p),
           \A p \in registered' :
               Deleting(p, job[t].frames) => Deleting(p, job'[t].frames),
           \A p \in registered' :
               Deleting(p, job'[t].frames) /\ ~Deleting(p, job[t].frames) =>
                   \A b \in Whole : parent[b] # p,
           Under(job'[t].frames, NoProject, Edges),
           Calls(job'[t].frames) \subseteq 1 .. used,
           \A p \in wiped' \ wiped : p \in 1 .. used /\ Deleting(p, job'[t].frames)
    PROVE  Cascading'
<1>1. ASSUME NEW p \in registered', UnderDeletion(p) PROVE UnderDeletion(p)'
  <2>1. PICK u \in Task : Deleting(p, job[u].frames)
    BY <1>1, UnderDeletionIs
  <2>2. Deleting(p, job'[u].frames)
    BY <2>1
  <2> QED  BY <2>2 DEF UnderDeletion, Deleting
<1>2. Whole' \subseteq Whole
  BY <1>1 DEF Whole
<1>3. Edges' \subseteq Edges
  BY <1>2 DEF Edges
<1>4. Numbered'
  BY DEF Cascading, Numbered
<1>5. ASSUME NEW b \in Whole', parent'[b] # NoProject PROVE parent'[b] \in Whole'
  <2>1. PICK a : a = parent[b]
    OBVIOUS
  <2>2. b \in Whole /\ a \in Whole
    BY <1>2, <1>5, <2>1 DEF Cascading, Chained
  <2>3. a \in registered' /\ a \notin late'
    BY <2>2 DEF Whole
  <2>4. ASSUME NEW u \in Task, Deleting(a, job'[u].frames) PROVE FALSE
    <3>1. ~Deleting(a, job[u].frames)
      BY <2>2, UnderDeletionIs DEF Whole
    <3>2. u = t
      BY <2>4, <3>1
    <3> QED  BY <2>1, <2>2, <2>3, <2>4, <3>1, <3>2
  <2>5. ~UnderDeletion(a)'
    BY <2>4 DEF UnderDeletion, Deleting
  <2> QED  BY <2>1, <2>3, <2>5 DEF Whole
<1>6. AllToDo'
  <2> SUFFICES ASSUME NEW u \in Task PROVE Under(job'[u].frames, NoProject, Edges')
    BY DEF AllToDo
  <2>1. Under(job'[u].frames, NoProject, Edges)
    BY DEF Cascading, AllToDo
  <2> QED  BY <1>3, <2>1, UnderFewer
<1>7. WipedMarked'
  <2> SUFFICES ASSUME NEW p \in wiped', p \in registered' PROVE UnderDeletion(p)'
    BY DEF WipedMarked
  <2>1. CASE p \in wiped
    BY <1>1, <2>1 DEF Cascading, WipedMarked
  <2>2. CASE p \notin wiped
    BY <2>2 DEF UnderDeletion, Deleting
  <2> QED  BY <2>1, <2>2
<1> QED  BY <1>4, <1>5, <1>6, <1>7 DEF Cascading, Chained

(* A call of deleteProject on top of calls that are waiting for it. *)
LEMMA CallCascades ==
    ASSUME Cascading, JobsOK, Statuses, NEW t \in Task, NEW p \in registered,
           NEW Q, NEW s, Stack(s), Call(t, p, Q, s),
           \A q : Deleting(q, job[t].frames) <=> Deleting(q, s),
           Under(s, p, Edges), Calls(s) \subseteq 1 .. used,
           UNCHANGED <<parent, late, used, registered, wiped>>
    PROVE  Cascading'
<1>1. PICK f : f = Opened(p)
  OBVIOUS
<1>2. IsFrame(f) /\ f.p = p
  BY <1>1, FramesOK
<1>3. /\ Stack(Append(s, f)) /\ ToSet(Append(s, f)) = ToSet(s) \cup {f}
      /\ \A q : Deleting(q, Append(s, f)) <=>
                    Deleting(q, s) \/ (f.p = q /\ f.step # "cascade")
  BY <1>2, PushStack
<1>4. job' = [job EXCEPT ![t] = [queue |-> Q, frames |-> Append(s, f)]]
  BY <1>1 DEF Call
<1>5. job'[t].frames = Append(s, f) /\ \A u \in Task : u # t => job'[u] = job[u]
  <2>1. PICK r : r = Append(s, f)
    OBVIOUS
  <2>2. Stack(r) /\ job' = [job EXCEPT ![t] = [queue |-> Q, frames |-> r]]
    BY <1>3, <1>4, <2>1
  <2>3. job'[t].frames = r /\ \A u \in Task : u # t => job'[u] = job[u]
    BY <2>2, JobPut
  <2> QED  BY <2>1, <2>3
<1>6. p \in Project /\ registered \subseteq Project
  BY DEF Statuses
<1>7. \/ f.step = "cascade" /\ f.todo = Descendants(p)
      \/ f.step # "cascade" /\ Descendants(p) = {}
  BY <1>1, FramesOK DEF Opened
<1>8. ASSUME NEW b \in registered, parent[b] = p PROVE b \in Descendants(p)
  BY <1>6, <1>8, BranchesFound
<1>9. Covering(f, NoProject, Edges)
  <2>1. ASSUME NEW e \in Edges, f.step = "cascade", e[2] = p PROVE e[1] \in f.todo
    <3>1. PICK b \in Whole : e = <<b, parent[b]>>
      BY DEF Edges
    <3> QED  BY <1>7, <1>8, <2>1, <3>1 DEF Whole
  <2> QED  BY <1>2, <2>1 DEF Covering
<1>10. Under(Append(s, f), NoProject, Edges)
  BY <1>2, <1>9, UnderPush
<1>11. Calls(Append(s, f)) \subseteq 1 .. used
  <2>1. p \in 1 .. used
    BY DEF Cascading, Numbered
  <2> QED  BY <1>2, <1>3, <2>1 DEF Calls
<1>12. ASSUME NEW q \in registered, Deleting(q, Append(s, f)), ~Deleting(q, job[t].frames)
       PROVE  \A b \in Whole : parent[b] # q
  <2>1. q = p /\ f.step # "cascade"
    BY <1>2, <1>3, <1>12
  <2> QED  BY <1>7, <1>8, <2>1 DEF Whole
<1> QED
  <2>1. \A q \in registered' : Deleting(q, job[t].frames) => Deleting(q, job'[t].frames)
    BY <1>3, <1>5
  <2>2. \A q \in registered' :
            Deleting(q, job'[t].frames) /\ ~Deleting(q, job[t].frames) =>
                \A b \in Whole : parent[b] # q
    BY <1>5, <1>12
  <2>3. /\ Under(job'[t].frames, NoProject, Edges)
        /\ Calls(job'[t].frames) \subseteq 1 .. used
    BY <1>5, <1>10, <1>11
  <2>4. registered' = registered /\ wiped' = wiped
    OBVIOUS
  <2> QED  BY <1>5, <2>1, <2>2, <2>3, <2>4, TaskCascades

-----------------------------------------------------------------------------
(* The steps of the tasks, again. *)

(* The calls of a task, from the top one down. *)
LEMMA TopCall ==
    ASSUME Cascading, Stuckless, NEW t \in Task, job[t].frames # <<>>
    PROVE  /\ Stack(Below(t)) /\ IsFrame(Top(t))
           /\ Under(Below(t), Top(t).p, Edges) /\ Covering(Top(t), NoProject, Edges)
           /\ Calls(Below(t)) \subseteq 1 .. used /\ Top(t).p \in 1 .. used
           /\ \A p : Deleting(p, job[t].frames) <=>
                   \/ Deleting(p, Below(t))
                   \/ Top(t).p = p /\ Top(t).step # "cascade"
<1>1. Stack(job[t].frames)
  BY DEF Stuckless, JobsOK
<1>2. Under(job[t].frames, NoProject, Edges) /\ Calls(job[t].frames) \subseteq 1 .. used
  BY DEF Cascading, AllToDo, Numbered
<1>3. /\ Under(Below(t), Top(t).p, Edges) /\ Covering(Top(t), NoProject, Edges)
  BY <1>1, <1>2, UnderPop DEF Below, Top
<1>4. ToSet(job[t].frames) = ToSet(Below(t)) \cup {Top(t)}
  BY <1>1, PopStack DEF Below, Top
<1>5. Calls(Below(t)) \subseteq 1 .. used /\ Top(t).p \in 1 .. used
  BY <1>2, <1>4 DEF Calls
<1> QED  BY <1>3, <1>5, Stacks

(* The top call goes on, to g, with those beneath it as they are. *)
LEMMA GotoCascades ==
    ASSUME Cascading, Stuckless, NEW t \in Task, job[t].frames # <<>>,
           NEW g, IsFrame(g), g.p = Top(t).p, Goto(t, Append(Below(t), g)),
           Covering(g, NoProject, Edges),
           Top(t).step = "cascade" \/ g.step # "cascade",
           Top(t).step = "cascade" /\ g.step # "cascade" =>
               \A b \in Whole : parent[b] # g.p,
           UNCHANGED <<parent, late, used, registered>>,
           wiped' \in {wiped, wiped \cup {g.p}}, wiped' = wiped \/ g.step # "cascade"
    PROVE  Cascading'
<1>0. JobsOK /\ Statuses
  BY DEF Stuckless
<1>1. PICK s : s = Below(t)
  OBVIOUS
<1>2. PICK f : f = Top(t)
  OBVIOUS
<1>3. /\ Stack(s) /\ Under(s, g.p, Edges) /\ Calls(s) \subseteq 1 .. used /\ g.p \in 1 .. used
      /\ \A p : Deleting(p, job[t].frames) <=>
                    Deleting(p, s) \/ (g.p = p /\ f.step # "cascade")
  BY <1>1, <1>2, TopCall
<1>4. PICK r : r = Append(s, g)
  OBVIOUS
<1>5. /\ Stack(r) /\ ToSet(r) = ToSet(s) \cup {g}
      /\ \A p : Deleting(p, r) <=> Deleting(p, s) \/ (g.p = p /\ g.step # "cascade")
  BY <1>3, <1>4, PushStack
<1>6. job'[t].frames = r /\ \A u \in Task : u # t => job'[u] = job[u]
  <2>1. Goto(t, r)
    BY <1>1, <1>4
  <2> QED  BY <1>0, <1>5, <2>1, JobGoto
<1>7. Under(r, NoProject, Edges)
  BY <1>3, <1>4, UnderPush
<1>8. Calls(r) \subseteq 1 .. used
  BY <1>3, <1>5 DEF Calls
<1>9. \A p \in registered' : Deleting(p, job[t].frames) => Deleting(p, job'[t].frames)
  BY <1>2, <1>3, <1>5, <1>6
<1>10. ASSUME NEW p \in registered', Deleting(p, job'[t].frames), ~Deleting(p, job[t].frames)
       PROVE  \A b \in Whole : parent[b] # p
  <2>1. p = g.p /\ g.step # "cascade" /\ f.step = "cascade"
    BY <1>3, <1>5, <1>6, <1>10
  <2> QED  BY <1>2, <2>1
<1>11. \A p \in wiped' \ wiped : p \in 1 .. used /\ Deleting(p, job'[t].frames)
  BY <1>3, <1>5, <1>6
<1>12. /\ registered' = registered /\ UNCHANGED <<parent, late, used>>
       /\ Under(job'[t].frames, NoProject, Edges)
       /\ Calls(job'[t].frames) \subseteq 1 .. used
  BY <1>6, <1>7, <1>8
<1> QED  BY <1>0, <1>6, <1>9, <1>10, <1>11, <1>12, TaskCascades

(* Branches one after another, then the project itself. *)
LEMMA CascadeCascades ==
    ASSUME Cascading, Stuckless, NEW t \in Task, Cascade(t)
    PROVE  Cascading'
<1>0. /\ JobsOK /\ Statuses /\ NoneStuck
      /\ UNCHANGED <<parent, late, used, registered, wiped>>
      /\ job[t].frames # <<>> /\ Top(t).step = "cascade"
  BY DEF Stuckless, Cascade, DeleteOnly, At, making
<1>1. PICK f : f = Top(t)
  OBVIOUS
<1>2. PICK s : s = Below(t)
  OBVIOUS
<1>3. /\ Stack(s) /\ IsFrame(f) /\ Under(s, f.p, Edges) /\ Covering(f, NoProject, Edges)
      /\ Calls(s) \subseteq 1 .. used /\ f.p \in 1 .. used
      /\ \A p : Deleting(p, job[t].frames) <=> Deleting(p, s)
  BY <1>0, <1>1, <1>2, TopCall
<1>4. ASSUME NEW b \in Whole, parent[b] = f.p PROVE b \in f.todo
  <2>1. <<b, parent[b]>> \in Edges /\ b # NoProject
    BY <1>0 DEF Edges, Whole, Statuses, Project, NoProject
  <2> QED  BY <1>0, <1>1, <1>3, <1>4, <2>1 DEF Covering
<1>5. CASE f.todo = {}
  <2>1. PICK m : m = Marked(f.p)
    OBVIOUS
  <2>2. IsFrame(m) /\ m.p = f.p /\ m.step # "cascade"
    BY <2>1, FramesOK
  <2>3. Goto(t, Append(Below(t), m))
    BY <1>1, <1>5, <2>1 DEF Cascade
  <2>4. Covering(m, NoProject, Edges)
    BY <2>2 DEF Covering
  <2>5. \A b \in Whole : parent[b] # m.p
    BY <1>4, <1>5, <2>2
  <2> QED  BY <1>0, <1>1, <2>2, <2>3, <2>4, <2>5, GotoCascades
<1>6. CASE f.todo # {}
  <2>1. PICK c \in f.todo :
            LET frames == Append(s, [f EXCEPT !.todo = @ \ {c}])
            IN  IF NoOp(c) THEN Goto(t, frames) /\ UNCHANGED status
                           ELSE Call(t, c, job[t].queue, frames)
    BY <1>1, <1>2, <1>6 DEF Cascade
  <2>2. PICK g : g = [f EXCEPT !.todo = @ \ {c}]
    OBVIOUS
  <2>3. IsFrame(g) /\ g.step = "cascade" /\ g.p = f.p /\ g.todo = f.todo \ {c}
    BY <1>0, <1>1, <1>3, <2>2 DEF IsFrame
  <2>4. ASSUME NEW e \in Edges, e[2] = g.p PROVE e[1] \in g.todo \/ e[1] = c
    <3>1. PICK b \in Whole : e = <<b, parent[b]>>
      BY DEF Edges
    <3> QED  BY <1>4, <2>3, <2>4, <3>1
  <2>5. CASE NoOp(c) /\ Goto(t, Append(s, g))
    <3>1. c \notin Whole
      <4>1. c \notin registered \/ UnderDeletion(c)
        BY <1>0, <2>5 DEF NoOp, NoneStuck
      <4> QED  BY <4>1 DEF Whole
    <3>2. \A e \in Edges : e[1] # c
      BY <3>1 DEF Edges
    <3>3. Covering(g, NoProject, Edges)
      BY <2>4, <3>2 DEF Covering
    <3> QED  BY <1>0, <1>1, <1>2, <2>3, <2>5, <3>3, GotoCascades
  <2>6. CASE ~NoOp(c) /\ Call(t, c, job[t].queue, Append(s, g))
    <3>1. c \in registered
      BY <2>6 DEF NoOp
    <3>2. PICK r : r = Append(s, g)
      OBVIOUS
    <3>3. /\ Stack(r) /\ ToSet(r) = ToSet(s) \cup {g}
          /\ \A p : Deleting(p, r) <=> Deleting(p, job[t].frames)
      BY <1>3, <2>3, <3>2, PushStack
    <3>4. Covering(g, c, Edges)
      BY <2>4 DEF Covering
    <3>5. Under(r, c, Edges)
      BY <1>3, <2>3, <3>2, <3>4, UnderPush
    <3>6. Calls(r) \subseteq 1 .. used
      BY <1>3, <2>3, <3>3 DEF Calls
    <3>7. PICK Q : Q = job[t].queue
      OBVIOUS
    <3>8. Call(t, c, Q, r)
      BY <2>6, <3>2, <3>7
    <3> QED  BY <1>0, <3>1, <3>3, <3>5, <3>6, <3>8, CallCascades
  <2> QED  BY <2>1, <2>2, <2>5, <2>6
<1> QED  BY <1>5, <1>6

LEMMA WipeCascades ==
    ASSUME Cascading, Stuckless, NEW t \in Task, Wipe(t)
    PROVE  Cascading'
<1>0. /\ UNCHANGED <<parent, late, used, registered>>
      /\ job[t].frames # <<>> /\ Top(t).step = "wipe"
      /\ wiped' \in {wiped, wiped \cup {Top(t).p}}
  BY DEF Wipe, DeleteOnly, At, making
<1>1. PICK f : f = Top(t)
  OBVIOUS
<1>2. PICK g : g = [f EXCEPT !.step = "kill", !.doomed = VmsOf(f.p)]
  OBVIOUS
<1>3. IsFrame(f)
  BY <1>0, <1>1, TopCall
<1>4. IsFrame(g) /\ g.p = f.p /\ g.step = "kill"
  <2>1. PICK d : d = VmsOf(f.p)
    OBVIOUS
  <2> QED  BY <1>2, <1>3, <2>1 DEF IsFrame
<1>5. Goto(t, Append(Below(t), g))
  BY <1>1, <1>2 DEF Wipe
<1>6. Covering(g, NoProject, Edges)
  BY <1>4 DEF Covering
<1> QED  BY <1>0, <1>1, <1>4, <1>5, <1>6, GotoCascades

(* A call that is over, and its project with it. *)
LEMMA KillCascades ==
    ASSUME Cascading, Stuckless, NEW t \in Task, Kill(t)
    PROVE  Cascading'
<1>0. /\ JobsOK /\ Statuses /\ UNCHANGED <<parent, late, used, wiped>>
      /\ job[t].frames # <<>> /\ Top(t).step = "kill"
      /\ registered' = registered \ {Top(t).p}
  BY DEF Stuckless, Kill, Killed, DeleteOnly, At, making
<1>1. PICK f : f = Top(t)
  OBVIOUS
<1>2. PICK s : s = Below(t)
  OBVIOUS
<1>3. /\ Stack(s) /\ Under(s, f.p, Edges) /\ Calls(s) \subseteq 1 .. used
      /\ \A p : Deleting(p, job[t].frames) <=> Deleting(p, s) \/ f.p = p
  BY <1>0, <1>1, <1>2, TopCall
<1>4. job'[t].frames = s /\ \A u \in Task : u # t => job'[u] = job[u]
  <2>1. Goto(t, s)
    BY <1>2 DEF Kill, Killed
  <2> QED  BY <1>0, <1>3, <2>1, JobGoto
<1>5. UnderDeletion(f.p)
  BY <1>3, UnderDeletionIs
<1>6. Under(s, NoProject, Edges)
  <2>1. \A e \in Edges : e[1] # f.p
    BY <1>5 DEF Edges, Whole
  <2> QED  BY <1>3, <2>1, UnderFewer
<1>7. /\ registered' \subseteq registered
      /\ \A p \in registered \ registered' : UnderDeletion(p)
      /\ \A p \in registered' : Deleting(p, job[t].frames) <=> Deleting(p, job'[t].frames)
      /\ wiped' = wiped /\ UNCHANGED <<parent, late, used>>
      /\ Under(job'[t].frames, NoProject, Edges)
      /\ Calls(job'[t].frames) \subseteq 1 .. used
  BY <1>0, <1>1, <1>3, <1>4, <1>5, <1>6
<1> QED  BY <1>0, <1>4, <1>7, TaskCascades

(* A task without calls calls deleteProject. *)
LEMMA FirstCall ==
    ASSUME Cascading, Stuckless, NEW t \in Task, job[t].frames = <<>>,
           NEW p \in registered, NEW Q, Call(t, p, Q, <<>>),
           UNCHANGED <<parent, late, used, registered, wiped>>
    PROVE  Cascading'
<1>1. JobsOK /\ Statuses
  BY DEF Stuckless
<1>2. Under(<<>>, p, Edges)
  BY UnderNone
<1>3. Calls(<<>>) \subseteq 1 .. used
  BY DEF Cascading, Numbered
<1>4. Stack(<<>>) /\ \A q : Deleting(q, job[t].frames) <=> Deleting(q, <<>>)
  BY EmptyStack
<1> QED  BY <1>1, <1>2, <1>3, <1>4, CallCascades

(* No call is made or returns, and no namespace is wiped. *)
LEMMA NoCall ==
    ASSUME Cascading, \A t \in Task : job'[t].frames = job[t].frames,
           UNCHANGED <<registered, parent, late, used>>, wiped' \subseteq wiped
    PROVE  Cascading'
<1>1. \A p : UnderDeletion(p)' <=> UnderDeletion(p)
  BY DEF UnderDeletion
<1>2. Whole' = Whole
  BY <1>1 DEF Whole
<1>3. Edges' = Edges
  BY <1>2 DEF Edges
<1>4. Numbered'
  BY DEF Cascading, Numbered
<1>5. Chained' /\ AllToDo' /\ WipedMarked'
  BY <1>1, <1>2, <1>3 DEF Cascading, Chained, AllToDo, WipedMarked
<1> QED  BY <1>4, <1>5 DEF Cascading

(* A project is created: of nothing, or as a branch of one that is whole,  *)
(* unless `late` records it.                                               *)
LEMMA RegisterCascades ==
    ASSUME Cascading, Statuses, NEW p \in Project, NEW source \in registered \cup {NoProject},
           NEW first, Fresh(p), Register(p, source, first),
           late' \in {late, late \cup {p}},
           source = NoProject \/ p \in late' \/ (~InStack(source) /\ source \notin late)
    PROVE  Cascading'
<1>1. /\ p = used + 1 /\ used' = p /\ registered' = registered \cup {p}
      /\ parent' = [parent EXCEPT ![p] = source]
      /\ UNCHANGED <<job, wiped>>
  BY DEF Fresh, Register, server
<1>2. /\ Numbered /\ Chained /\ AllToDo /\ WipedMarked
      /\ registered \subseteq Project
  BY DEF Cascading, Statuses
<1>3. \A q : UnderDeletion(q)' <=> UnderDeletion(q)
  BY <1>1 DEF UnderDeletion
<1>4. p \notin registered /\ p \notin wiped
  BY <1>1, <1>2 DEF Numbered
<1>5. /\ \A q \in Project : parent'[q] = IF q = p THEN source ELSE parent[q]
      /\ source \in 0 .. N
  <2>1. source \in 0 .. N
    BY <1>2, WebappAssumption DEF Project, NoProject
  <2> QED  BY <1>1, <1>2, <2>1 DEF Numbered
<1>6. Whole \subseteq Whole' /\ Whole' \subseteq Whole \cup {p}
  BY <1>1, <1>3, <1>4 DEF Whole
<1>7. p \in Whole' /\ source # NoProject => source \in Whole /\ ~InStack(source)
  <2>1. ~InStack(source) => ~UnderDeletion(source)
    BY DEF InStack, UnderDeletion
  <2> QED  BY <1>6, <2>1 DEF Whole
<1>8. \A b \in Whole' : b = p \/ (b \in Whole /\ b # p /\ parent'[b] = parent[b])
  BY <1>2, <1>4, <1>5, <1>6 DEF Whole
<1>9. Numbered'
  <2>1. parent' \in [Project -> 0 .. N]
    BY <1>1, <1>2, <1>5 DEF Numbered
  <2>2. used' \in Nat /\ 1 .. used \subseteq 1 .. used' /\ p \in 1 .. used'
    BY <1>1, <1>2 DEF Numbered
  <2> QED  BY <1>1, <1>2, <2>1, <2>2 DEF Numbered
<1>10. Chained'
  <2> SUFFICES ASSUME NEW b \in Whole', parent'[b] # NoProject PROVE parent'[b] \in Whole'
    BY DEF Chained
  <2>1. CASE b = p
    BY <1>5, <1>6, <1>7, <2>1
  <2>2. CASE b # p
    BY <1>2, <1>6, <1>8, <2>2 DEF Chained
  <2> QED  BY <2>1, <2>2
<1>11. AllToDo'
  <2> SUFFICES ASSUME NEW t \in Task, NEW i \in 1 .. Len(job[t].frames), NEW e \in Edges',
                      job[t].frames[i].step = "cascade", e[2] = job[t].frames[i].p
               PROVE  \/ e[1] \in job[t].frames[i].todo
                      \/ e[1] = Over(job[t].frames, i, NoProject)
    BY <1>1 DEF AllToDo, Under, Covering
  <2>1. PICK b \in Whole' : e = <<b, parent'[b]>>
    BY DEF Edges
  <2>2. CASE b = p
    <3>1. job[t].frames[i] \in ToSet(job[t].frames)
      BY DEF ToSet
    <3>2. InStack(source)
      BY <1>5, <2>1, <2>2, <3>1 DEF InStack
    <3>3. source # NoProject
      <4>1. job[t].frames[i].p \in Calls(job[t].frames)
        BY <3>1 DEF Calls
      <4>2. Calls(job[t].frames) \subseteq 1 .. used
        BY <1>2 DEF Numbered
      <4>3. NoProject \notin 1 .. used
        BY DEF NoProject
      <4> QED  BY <1>5, <2>1, <2>2, <4>1, <4>2, <4>3
    <3> QED  BY <1>7, <2>1, <2>2, <3>2, <3>3
  <2>3. CASE b # p
    <3>1. e \in Edges
      BY <1>8, <2>1, <2>3 DEF Edges
    <3> QED  BY <1>2, <3>1 DEF AllToDo, Under, Covering
  <2> QED  BY <2>2, <2>3
<1>12. WipedMarked'
  BY <1>1, <1>2, <1>3, <1>4 DEF WipedMarked
<1> QED  BY <1>9, <1>10, <1>11, <1>12 DEF Cascading

LEMMA CascadingInit == Init => Cascading
<1> SUFFICES ASSUME Init PROVE Cascading
  OBVIOUS
<1>1. \A t \in Task : job[t].frames = <<>>
  BY IdleOK DEF Init
<1>2. /\ registered = {} /\ wiped = {} /\ used = 0
      /\ parent = [p \in Project |-> NoProject]
  BY DEF Init
<1>3. Calls(<<>>) = {}
  <2>1. ToSet(<<>>) = {}
    BY DEF ToSet
  <2> QED  BY <2>1 DEF Calls
<1>4. Numbered
  <2>1. NoProject \in 0 .. N
    BY WebappAssumption DEF NoProject
  <2> QED  BY <1>1, <1>2, <1>3, <2>1 DEF Numbered
<1>5. Chained /\ WipedMarked
  BY <1>2 DEF Chained, Whole, WipedMarked
<1>6. AllToDo
  BY <1>1, UnderNone DEF AllToDo
<1> QED  BY <1>4, <1>5, <1>6 DEF Cascading

LEMMA CascadingExit ==
    ASSUME Cascading, Exit
    PROVE  Cascading'
<1>1. \A t \in Task : job'[t].frames = <<>>
  BY IdleOK DEF Exit
<1>2. /\ registered' = {} /\ wiped' = {} /\ used' = used
      /\ parent' = [p \in Project |-> NoProject]
  BY DEF Exit
<1>3. Calls(<<>>) = {}
  <2>1. ToSet(<<>>) = {}
    BY DEF ToSet
  <2> QED  BY <2>1 DEF Calls
<1>4. Numbered'
  <2>1. NoProject \in 0 .. N
    BY WebappAssumption DEF NoProject
  <2>2. used \in Nat
    BY DEF Cascading, Numbered
  <2> QED  BY <1>1, <1>2, <1>3, <2>1, <2>2 DEF Numbered
<1>5. Chained' /\ WipedMarked'
  BY <1>2 DEF Chained, Whole, WipedMarked
<1>6. AllToDo'
  BY <1>1, UnderNone DEF AllToDo
<1> QED  BY <1>4, <1>5, <1>6 DEF Cascading

LEMMA CascadingNext == Cascading /\ Stuckless /\ [Next]_vars => Cascading'
<1> SUFFICES ASSUME Cascading, Stuckless, [Next]_vars PROVE Cascading'
  OBVIOUS
<1>0. JobsOK /\ Stopping /\ Statuses /\ Project \subseteq Task /\ Deleter \subseteq Task
  BY DEF Stuckless, Task
<1>1. CASE UNCHANGED vars
  BY <1>1, NoCall DEF vars, project, making, history
<1>2. ASSUME NEW p \in pending, ShutdownCall(p) PROVE Cascading'
  <2>1. UNCHANGED <<parent, late, used, registered, wiped>>
    BY <1>2 DEF ShutdownCall, DeleteOnly, making
  <2>2. CASE UNCHANGED job
    BY <2>1, <2>2, NoCall
  <2>3. CASE ~NoOp(p) /\ Call(p, p, {}, <<>>)
    <3>1. p \in Task /\ job[p].frames = <<>> /\ p \in registered
      BY <1>0, <1>2, <2>3, IdleOK DEF Stopping, NoOp
    <3> QED  BY <2>1, <2>3, <3>1, FirstCall
  <2> QED  BY <1>2, <2>2, <2>3 DEF ShutdownCall
<1>3. ASSUME NEW p \in Project, NewProject(p) PROVE Cascading'
  BY <1>0, <1>3, RegisterCascades DEF NewProject
<1>4. ASSUME NEW p \in Project, NEW source \in Project, NewBranch(p, source)
      PROVE  Cascading'
  <2>1. /\ source \in registered /\ Fresh(p) /\ Register(p, source, "backup")
        /\ late' = IF InStack(source) \/ source \in late THEN late \cup {p} ELSE late
    BY <1>4 DEF NewBranch
  <2>2. /\ late' \in {late, late \cup {p}}
        /\ p \in late' \/ (~InStack(source) /\ source \notin late)
    BY <2>1
  <2> QED  BY <1>0, <2>1, <2>2, RegisterCascades
<1>5. ASSUME NEW p \in Project, Provision(p) PROVE Cascading'
  <2>1. /\ UNCHANGED <<job, registered, parent, late, used>> /\ wiped' \subseteq wiped
    <3>1. CASE ProvisionFails(p)
      BY <3>1 DEF ProvisionFails, history
    <3>2. CASE Backup(p)
      BY <3>2 DEF Backup, project, history
    <3>3. CASE Create(p) \/ Created(p)
      BY <3>3 DEF Create, Created, project, history
    <3>4. CASE Setup(p)
      BY <3>4 DEF Setup, history
    <3> QED  BY <1>5, <3>1, <3>2, <3>3, <3>4 DEF Provision
  <2> QED  BY <2>1, NoCall
<1>6. ASSUME NEW p \in Project, NEW t \in Deleter, DeleteRoute(t, p) PROVE Cascading'
  <2>1. /\ job[t].frames = <<>> /\ p \in registered /\ Call(t, p, {}, <<>>)
        /\ UNCHANGED <<parent, late, used, registered, wiped>>
    BY <1>6, IdleOK DEF DeleteRoute, DeleteOnly, making, NoOp
  <2> QED  BY <1>0, <2>1, FirstCall
<1>7. ASSUME NEW t \in Deleter, NEW k \in Project, Tick(t, k) PROVE Cascading'
  <2>1. PICK due : /\ due = {p \in registered : p <= k /\ status[p] # "deleting"}
                   /\ due # {} /\ Call(t, Min(due), due \ {Min(due)}, <<>>)
    BY <1>7 DEF Tick
  <2>2. PICK p : p = Min(due)
    OBVIOUS
  <2>3. p \in registered
    <3>1. due \subseteq Nat
      <4>1. due \subseteq registered
        BY <2>1
      <4>2. Project \subseteq Nat
        BY DEF Project
      <4> QED  BY <1>0, <4>1, <4>2 DEF Statuses
    <3> QED  BY <2>1, <2>2, <3>1, MinElement
  <2>4. PICK Q : Q = due \ {p}
    OBVIOUS
  <2>5. /\ job[t].frames = <<>> /\ Call(t, p, Q, <<>>)
        /\ UNCHANGED <<parent, late, used, registered, wiped>>
    BY <1>7, <2>1, <2>2, <2>4, IdleOK DEF Tick, DeleteOnly, making
  <2> QED  BY <1>0, <2>3, <2>5, FirstCall
<1>8. ASSUME NEW t \in Task, TickNext(t) PROVE Cascading'
  <2>1. /\ job[t].frames = <<>> /\ UNCHANGED <<parent, late, used, registered, wiped>>
    BY <1>8 DEF TickNext, DeleteOnly, making
  <2>2. PICK p : p = Min(job[t].queue)
    OBVIOUS
  <2>3. PICK Q : Q = job[t].queue \ {p}
    OBVIOUS
  <2>4. CASE job' = [job EXCEPT ![t].queue = @ \ {p}]
    <3>1. \A u \in Task : job'[u].frames = job[u].frames
      <4>1. job' = [job EXCEPT ![t] = [job[t] EXCEPT !.queue = Q]]
        BY <2>3, <2>4
      <4>2. PICK j : j = job[t]
        OBVIOUS
      <4>3. j = [queue |-> j.queue, frames |-> j.frames]
        BY <1>0, <4>2 DEF JobsOK
      <4>4. [j EXCEPT !.queue = Q].frames = j.frames
        BY <4>3
      <4>5. \A u \in Task : job'[u] = IF u = t THEN [j EXCEPT !.queue = Q] ELSE job[u]
        BY <1>0, <4>1, <4>2 DEF JobsOK
      <4> QED  BY <4>2, <4>4, <4>5
    <3> QED  BY <2>1, <3>1, NoCall
  <2>5. CASE ~NoOp(p) /\ Call(t, p, Q, <<>>)
    <3>1. p \in registered
      BY <2>5 DEF NoOp
    <3> QED  BY <2>1, <2>5, <3>1, FirstCall
  <2> QED  BY <1>8, <2>2, <2>3, <2>4, <2>5 DEF TickNext
<1>9. ASSUME NEW t \in Task, TaskStep(t) PROVE Cascading'
  BY <1>8, <1>9, CascadeCascades, WipeCascades, KillCascades DEF TaskStep
<1>10. CASE Sweep
  BY <1>10, NoCall DEF Sweep, SweepTo, project, making, history
<1>11. CASE Shutdown
  BY <1>11, NoCall DEF Shutdown, project, making, history
<1>12. CASE ShutdownSweep
  BY <1>12, NoCall DEF ShutdownSweep, project, making, history
<1>13. CASE Exit
  BY <1>13, CascadingExit
<1>14. CASE Start
  BY <1>14, NoCall DEF Start, project, making, history
<1> QED  BY <1>1, <1>2, <1>3, <1>4, <1>5, <1>6, <1>7, <1>9, <1>10, <1>11, <1>12, <1>13,
            <1>14 DEF Next

(* deleteProject, "deleting an ancestor must cascade": a project whose      *)
(* ancestor's namespace was wiped is under deletion itself, whichever      *)
(* deletions overlap, for branches of any depth.                           *)
THEOREM CascadeReaches == Spec => []CascadeCovers
<1>1. Init => Cascading /\ Stuckless
  BY CascadingInit, StucklessInit
<1>2. (Cascading /\ Stuckless) /\ [Next]_vars => (Cascading /\ Stuckless)'
  BY CascadingNext, StucklessNext
<1>3. Cascading /\ Stuckless => CascadeCovers
  BY CascadingCovers DEF Stuckless
<1> QED  BY <1>1, <1>2, <1>3, PTL DEF Spec
=============================================================================

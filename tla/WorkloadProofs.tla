--------------------------- MODULE WorkloadProofs ---------------------------
(***************************************************************************)
(* What hostd's table of workloads can be relied on for, for any number of *)
(* workloads, calls, connections, suspends and dropped calls.              *)
(***************************************************************************)
EXTENDS Workload, SequenceTheorems, TLAPS

-----------------------------------------------------------------------------
(* Sequences: what Append and Tail do to the members. *)

LEMMA AppendIs ==
    ASSUME NEW S, NEW s \in Seq(S), NEW x \in S
    PROVE  LET a == Append(s, x)
           IN  /\ a \in Seq(S) /\ a # <<>> /\ Len(s) \in Nat
               /\ DOMAIN s = 1 .. Len(s) /\ DOMAIN a = 1 .. Len(s) + 1
               /\ \A i \in DOMAIN s : i \in DOMAIN a /\ a[i] = s[i]
               /\ a[Len(s) + 1] = x
  BY AppendProperties

LEMMA TailIs ==
    ASSUME NEW S, NEW s \in Seq(S), s # <<>>
    PROVE  LET r == Tail(s)
           IN  /\ r \in Seq(S) /\ Head(s) \in S /\ Head(s) = s[1] /\ 1 \in DOMAIN s
               /\ DOMAIN s \subseteq Nat /\ DOMAIN r \subseteq Nat
               /\ \A i \in DOMAIN r : i + 1 \in DOMAIN s /\ r[i] = s[i + 1]
               /\ \A i \in DOMAIN s : i # 1 => i - 1 \in DOMAIN r /\ r[i - 1] = s[i]
<1> DEFINE r == Tail(s)
<1>1. Len(s) \in Nat \ {0} /\ DOMAIN s = 1 .. Len(s)
  BY EmptySeq
<1>2. /\ r \in Seq(S) /\ Len(r) = Len(s) - 1 /\ DOMAIN r = 1 .. Len(r)
      /\ Head(s) \in S /\ \A i \in 1 .. Len(r) : r[i] = s[i + 1]
  BY HeadTailProperties
<1>3. Head(s) = s[1]
  OBVIOUS
<1> HIDE DEF r
<1>4. PICK n \in Nat \ {0} : n = Len(s)
  BY <1>1
<1>5. DOMAIN s = 1 .. n /\ DOMAIN r = 1 .. n - 1
  BY <1>1, <1>2, <1>4
<1>6. \A i \in 1 .. n - 1 : i + 1 \in 1 .. n
  OBVIOUS
<1>7. \A i \in 1 .. n : i # 1 => i - 1 \in 1 .. n - 1 /\ i - 1 + 1 = i
  OBVIOUS
<1>8. \A i \in DOMAIN r : i + 1 \in DOMAIN s /\ r[i] = s[i + 1]
  BY <1>2, <1>5, <1>6
<1>9. \A i \in DOMAIN s : i # 1 => i - 1 \in DOMAIN r /\ r[i - 1] = s[i]
  <2> SUFFICES ASSUME NEW i \in DOMAIN s, i # 1
               PROVE  i - 1 \in DOMAIN r /\ r[i - 1] = s[i]
    OBVIOUS
  <2>1. i - 1 \in DOMAIN r /\ i - 1 + 1 = i
    BY <1>5, <1>7
  <2> QED  BY <1>8, <2>1
<1>10. 1 \in DOMAIN s /\ DOMAIN s \subseteq Nat /\ DOMAIN r \subseteq Nat
  BY <1>5
<1> QED  BY <1>2, <1>3, <1>8, <1>9, <1>10 DEF r

-----------------------------------------------------------------------------
(* Types. *)

CallPc == {"idle", "conn", "connect", "install", "register", "sendStart", "mark",
           "sendStop"}
InHand == {"install", "register", "sendStart", "mark", "sendStop"}

CallRecord == [pc : CallPc, op : {"start", "stop", "arm", None}, w : Wl \cup {None},
               c : Conn \cup {None}]
LinkRecord == [host : {"none", "up", "down"}, req : Seq(Request), ev : Seq(Event),
               guest : {"none", "queued", "up", "down"}, out : Event, cut : BOOLEAN]

(* A call has a connection in hand exactly after it got one, and it is at  *)
(* the steps of its operation.                                             *)
CallOK(r) ==
    /\ r.c # None <=> r.pc \in InHand
    /\ r.pc \in {"register", "sendStart"} => r.op = "start"
    /\ r.pc \in {"mark", "sendStop"} => r.op = "stop"
    /\ r.pc # "idle" => r.op \in {"start", "stop", "arm"}
    /\ r.pc # "idle" /\ r.op # "arm" => r.w \in Wl

Types ==
    /\ wl \in [Wl -> Entry \cup {None}]
    /\ stored \in Conn \cup {None} /\ gconn \in Conn \cup {None}
    /\ call \in [Task -> CallRecord]
    /\ \A t \in Task : CallOK(call[t])
    /\ link \in [Conn -> LinkRecord]
    /\ backlog \in Seq(Conn)
    /\ table \in [Wl -> TableState] /\ term \subseteq Wl
    /\ reap \in [Wl -> {"none", "wait", "report", "done"}]
    /\ drops \in Nat

LEMMA NoCallOK == NoCall \in CallRecord /\ CallOK(NoCall) /\ NoCall.pc = "idle"
  BY DEF NoCall, CallRecord, CallPc, CallOK, InHand

LEMMA RequestOK ==
    /\ List \in Request /\ List.type = "list"
    /\ \A w \in Wl : /\ Start(w) \in Request /\ Start(w).type = "start" /\ Start(w).w = w
                     /\ Stop(w) \in Request /\ Stop(w).type = "stop"
<1>1. List \in Request /\ List.type = "list"
  BY DEF Request, List
<1>2. ASSUME NEW w \in Wl
      PROVE  /\ Start(w) \in Request /\ Start(w).type = "start" /\ Start(w).w = w
             /\ Stop(w) \in Request /\ Stop(w).type = "stop"
  <2>1. Start(w) \in Request /\ Stop(w) \in Request
    BY DEF Request
  <2> QED  BY <2>1 DEF Start, Stop
<1> QED  BY <1>1, <1>2

LEMMA RequestCases ==
    ASSUME NEW r \in Request
    PROVE  \/ r = List /\ r.type = "list"
           \/ r.w \in Wl /\ r = Start(r.w) /\ r.type = "start"
           \/ r.w \in Wl /\ r = Stop(r.w) /\ r.type = "stop"
<1>1. CASE r = List
  BY <1>1, RequestOK
<1>2. CASE \E w \in Wl : r = Start(w)
  BY <1>2 DEF Start
<1>3. CASE \E w \in Wl : r = Stop(w)
  BY <1>3 DEF Stop
<1> QED  BY <1>1, <1>2, <1>3 DEF Request

LEMMA EventOK ==
    ASSUME table \in [Wl -> TableState]
    PROVE  /\ Silent \in Event /\ Silent.type = "none"
           /\ ListResult \in Event /\ ListResult.type = "list" /\ ListResult.table = table
           /\ \A w \in Wl : /\ Started(w) \in Event /\ Started(w).type = "started"
                            /\ Started(w).w = w
                            /\ Exited(w) \in Event /\ Exited(w).type = "exited"
                            /\ Exited(w).w = w
                            /\ Error(w) \in Event /\ Error(w).type = "error"
<1>1. Silent \in Event /\ Silent.type = "none"
  BY DEF Event, Silent
<1>2. ListResult \in Event /\ ListResult.type = "list" /\ ListResult.table = table
  <2>1. ListResult \in [type : {"list"}, table : [Wl -> TableState]]
    BY DEF ListResult
  <2> QED  BY <2>1 DEF Event, ListResult
<1>3. ASSUME NEW w \in Wl
      PROVE  /\ Started(w) \in Event /\ Started(w).type = "started" /\ Started(w).w = w
             /\ Exited(w) \in Event /\ Exited(w).type = "exited" /\ Exited(w).w = w
             /\ Error(w) \in Event /\ Error(w).type = "error"
  <2>1. Started(w) \in Event /\ Exited(w) \in Event /\ Error(w) \in Event
    BY DEF Event
  <2> QED  BY <2>1 DEF Started, Exited, Error
<1> QED  BY <1>1, <1>2, <1>3

LEMMA EventCases ==
    ASSUME NEW e \in Event
    PROVE  \/ e = Silent /\ e.type = "none"
           \/ e.type \in {"started", "exited", "error"} /\ e.w \in Wl
           \/ e.type = "list" /\ e.table \in [Wl -> TableState]
<1>1. CASE e = Silent
  BY <1>1 DEF Silent
<1>2. CASE \E w \in Wl : e = Started(w)
  BY <1>2 DEF Started
<1>3. CASE \E w \in Wl : e = Exited(w)
  BY <1>3 DEF Exited
<1>4. CASE \E w \in Wl : e = Error(w)
  BY <1>4 DEF Error
<1>5. CASE e \in [type : {"list"}, table : [Wl -> TableState]]
  BY <1>5
<1> QED  BY <1>1, <1>2, <1>3, <1>4, <1>5 DEF Event

LEMMA NoLinkOK == /\ NoLink \in LinkRecord /\ NoLink.host = "none" /\ NoLink.guest = "none"
                  /\ NoLink.req = <<>> /\ NoLink.ev = <<>> /\ NoLink.out = Silent
                  /\ NoLink.cut = FALSE
<1>1. Silent \in Event
  BY DEF Event
<1> QED  BY <1>1 DEF NoLink, LinkRecord

-----------------------------------------------------------------------------
(* How the updates read. *)

OneCall(t) == \A u \in Task : u # t => call'[u] = call[u]
OneLink(c) == \A d \in Conn : d # c => link'[d] = link[d]

LEMMA CallPut ==
    ASSUME Types, NEW t \in Task, NEW r \in CallRecord, CallOK(r),
           call' = [call EXCEPT ![t] = r]
    PROVE  /\ call' \in [Task -> CallRecord] /\ call'[t] = r /\ OneCall(t)
           /\ \A u \in Task : CallOK(call'[u])
<1>1. call' \in [Task -> CallRecord] /\ call'[t] = r /\ OneCall(t)
  BY DEF Types, OneCall
<1>2. \A u \in Task : CallOK(call'[u])
  BY <1>1 DEF Types, OneCall
<1> QED  BY <1>1, <1>2

LEMMA LinkPut ==
    ASSUME Types, NEW c \in Conn, NEW r \in LinkRecord, link' = [link EXCEPT ![c] = r]
    PROVE  link' \in [Conn -> LinkRecord] /\ link'[c] = r /\ OneLink(c)
  BY DEF Types, OneLink

LEMMA ReturnIs ==
    ASSUME Types, NEW t \in Task, Return(t)
    PROVE  /\ call' \in [Task -> CallRecord] /\ call'[t] = NoCall /\ OneCall(t)
           /\ \A u \in Task : CallOK(call'[u])
  BY NoCallOK, CallPut DEF Return

(* A call goes from one step to another and keeps the rest. *)
LEMMA GotoIs ==
    ASSUME Types, NEW t \in Task, NEW pc \in CallPc, Goto(t, pc),
           CallOK([call[t] EXCEPT !.pc = pc])
    PROVE  /\ call' \in [Task -> CallRecord] /\ OneCall(t)
           /\ \A u \in Task : CallOK(call'[u])
           /\ call'[t] = [call[t] EXCEPT !.pc = pc]
           /\ call'[t].pc = pc /\ call'[t].op = call[t].op
           /\ call'[t].w = call[t].w /\ call'[t].c = call[t].c
<1> DEFINE r == [call[t] EXCEPT !.pc = pc]
<1>1. call[t] \in CallRecord
  BY DEF Types
<1>2. /\ r \in CallRecord /\ CallOK(r) /\ r.pc = pc /\ r.op = call[t].op /\ r.w = call[t].w
      /\ r.c = call[t].c
  BY <1>1 DEF CallRecord
<1>3. call' = [call EXCEPT ![t] = r]
  BY DEF Goto
<1>4. r = [call[t] EXCEPT !.pc = pc]
  OBVIOUS
<1> HIDE DEF r
<1> QED  BY <1>2, <1>3, <1>4, CallPut

(* A call that has its connection goes on to its operation, or is done. *)
LEMMA ProceedIs ==
    ASSUME Types, NEW t \in Task, NEW c \in Conn, Proceed(t, c),
           call[t].pc \in {"conn", "install"}
    PROVE  /\ call' \in [Task -> CallRecord] /\ OneCall(t)
           /\ \A u \in Task : CallOK(call'[u])
           /\ \/ call'[t] = NoCall /\ call[t].op = "arm"
              \/ /\ call'[t].op = call[t].op /\ call'[t].w = call[t].w /\ call'[t].c = c
                 /\ \/ call[t].op = "start" /\ call'[t].pc = "register"
                    \/ call[t].op = "stop" /\ call'[t].pc = "mark"
<1>1. call[t] \in CallRecord /\ CallOK(call[t]) /\ c # None
  BY NoneAssumption DEF Types
<1>2. call[t].op \in {"start", "stop", "arm"}
  BY <1>1 DEF CallOK
<1>3. CASE call[t].op = "arm"
  <2>1. call' = [call EXCEPT ![t] = NoCall]
    BY <1>3 DEF Proceed, AfterConn
  <2> QED  BY <1>3, <2>1, NoCallOK, CallPut
<1>4. CASE call[t].op \in {"start", "stop"}
  <2>1. PICK pc \in {"register", "mark"} :
               /\ pc = AfterConn(t)
               /\ call[t].op = "start" => pc = "register"
               /\ call[t].op = "stop" => pc = "mark"
    BY <1>4 DEF AfterConn
  <2> DEFINE r == [call[t] EXCEPT !.pc = pc, !.c = c]
  <2>2. /\ r \in CallRecord /\ r.op = call[t].op /\ r.w = call[t].w /\ r.c = c /\ r.pc = pc
    BY <1>1, <2>1 DEF CallRecord, CallPc
  <2>3. call' = [call EXCEPT ![t] = r]
    BY <2>1 DEF Proceed
  <2> HIDE DEF r
  <2>4. CallOK(r)
    BY <1>1, <1>4, <2>1, <2>2 DEF CallOK, InHand
  <2> QED  BY <1>4, <2>1, <2>2, <2>3, <2>4, CallPut
<1> QED  BY <1>2, <1>3, <1>4

-----------------------------------------------------------------------------
(* What each action does, and that it keeps the types. *)

guestside == <<link, guestvars, drops>>

LEMMA CallIs ==
    ASSUME Types, NEW t \in Task, NEW op \in {"start", "stop", "arm"},
           NEW w \in Wl \cup {None}, w \in Wl \/ op = "arm", Call(t, op, w)
    PROVE  /\ Types' /\ OneCall(t) /\ call[t] = NoCall
           /\ call'[t].pc = "conn" /\ call'[t].op = op /\ call'[t].w = w
           /\ UNCHANGED <<wl, stored, guestside>>
<1> DEFINE r == [pc |-> "conn", op |-> op, w |-> w, c |-> None]
<1>1. r \in CallRecord /\ CallOK(r) /\ r.pc = "conn" /\ r.op = op /\ r.w = w
  BY DEF CallRecord, CallPc, CallOK, InHand
<1>2. call' = [call EXCEPT ![t] = r] /\ call[t] = NoCall
      /\ UNCHANGED <<wl, stored, guestside>>
  BY DEF Call, guestvars, guestside
<1> HIDE DEF r
<1>3. /\ call' \in [Task -> CallRecord] /\ call'[t] = r /\ OneCall(t)
      /\ \A u \in Task : CallOK(call'[u])
  BY <1>1, <1>2, CallPut
<1> QED  BY <1>1, <1>2, <1>3 DEF Types, guestvars, guestside

(* A call moves and nothing else does. *)
LEMMA OnlyCall ==
    ASSUME Types, call' \in [Task -> CallRecord], \A u \in Task : CallOK(call'[u]),
           UNCHANGED <<wl, stored, guestside>>
    PROVE  Types'
  BY DEF Types, guestvars, guestside

LEMMA UseStoredIs ==
    ASSUME Types, NEW t \in Task, UseStored(t)
    PROVE  /\ Types' /\ OneCall(t) /\ call[t].pc = "conn"
           /\ UNCHANGED <<wl, stored, guestside>>
           /\ \/ call'[t] = NoCall /\ call[t].op = "arm"
              \/ /\ call'[t].op = call[t].op /\ call'[t].w = call[t].w
                 /\ \/ call[t].op = "start" /\ call'[t].pc = "register"
                    \/ call[t].op = "stop" /\ call'[t].pc = "mark"
                    \/ call'[t].pc = "connect"
<1>1. call[t].pc = "conn" /\ UNCHANGED <<wl, stored, guestside>>
  BY DEF UseStored, guestvars, bounds, guestside
<1>2. CASE stored # None /\ Proceed(t, stored)
  <2>1. PICK c \in Conn : c = stored
    BY <1>2 DEF Types
  <2>2. Proceed(t, c)
    BY <1>2, <2>1
  <2>3. /\ call' \in [Task -> CallRecord] /\ OneCall(t)
        /\ \A u \in Task : CallOK(call'[u])
        /\ \/ call'[t] = NoCall /\ call[t].op = "arm"
           \/ /\ call'[t].op = call[t].op /\ call'[t].w = call[t].w /\ call'[t].c = c
              /\ \/ call[t].op = "start" /\ call'[t].pc = "register"
                 \/ call[t].op = "stop" /\ call'[t].pc = "mark"
    BY <1>1, <2>2, ProceedIs
  <2> QED  BY <1>1, <2>3, OnlyCall
<1>3. CASE Goto(t, "connect")
  <2>1. call[t] \in CallRecord /\ CallOK(call[t])
    BY DEF Types
  <2>2. "connect" \in CallPc /\ CallOK([call[t] EXCEPT !.pc = "connect"])
    BY <1>1, <2>1 DEF CallRecord, CallPc, CallOK, InHand
  <2>3. /\ call' \in [Task -> CallRecord] /\ OneCall(t)
        /\ \A u \in Task : CallOK(call'[u])
        /\ call'[t].pc = "connect" /\ call'[t].op = call[t].op /\ call'[t].w = call[t].w
    BY <1>3, <2>2, GotoIs
  <2> QED  BY <1>1, <2>3, OnlyCall
<1> QED  BY <1>2, <1>3 DEF UseStored

LEMMA ConnectIs ==
    ASSUME Types, NEW t \in Task, Connect(t)
    PROVE  \E c \in Conn :
              /\ Types' /\ OneCall(t) /\ OneLink(c) /\ link[c] = NoLink
              /\ link'[c] = [NoLink EXCEPT !.guest = "queued"]
              /\ call[t].pc = "connect" /\ call'[t].pc = "install" /\ call'[t].c = c
              /\ call'[t].op = call[t].op /\ call'[t].w = call[t].w
              /\ backlog' = Append(backlog, c)
              /\ UNCHANGED <<wl, stored, gconn, table, reap, drops>>
<1>1. PICK c \in Conn :
          /\ link[c] = NoLink /\ link' = [link EXCEPT ![c].guest = "queued"]
          /\ call' = [call EXCEPT ![t].pc = "install", ![t].c = c]
          /\ backlog' = Append(backlog, c)
  BY DEF Connect
<1>2. /\ call[t].pc = "connect" /\ UNCHANGED <<wl, stored, gconn, table, reap, term, drops>>
      /\ call[t] \in CallRecord /\ CallOK(call[t]) /\ c # None
  BY NoneAssumption DEF Connect, bounds, Types
<1> DEFINE r == [NoLink EXCEPT !.guest = "queued"]
           k == [call[t] EXCEPT !.pc = "install", !.c = c]
<1>3. r \in LinkRecord
  BY NoLinkOK DEF LinkRecord
<1>4. link' = [link EXCEPT ![c] = r]
  BY <1>1
<1>5. k \in CallRecord /\ k.pc = "install" /\ k.c = c /\ k.op = call[t].op /\ k.w = call[t].w
  BY <1>2 DEF CallRecord, CallPc
<1>6. call' = [call EXCEPT ![t] = k]
  BY <1>1 DEF Types
<1> HIDE DEF k
<1>7. CallOK(k)
  BY <1>2, <1>5 DEF CallOK, InHand
<1>8. /\ call' \in [Task -> CallRecord] /\ call'[t] = k /\ OneCall(t)
      /\ \A u \in Task : CallOK(call'[u])
  BY <1>5, <1>6, <1>7, CallPut
<1>9. link' \in [Conn -> LinkRecord] /\ link'[c] = r /\ OneLink(c)
  BY <1>3, <1>4, LinkPut
<1>10. backlog' \in Seq(Conn)
  BY <1>1 DEF Types
<1>11. Types'
  BY <1>2, <1>8, <1>9, <1>10 DEF Types
<1> QED  BY <1>1, <1>2, <1>5, <1>8, <1>9, <1>11

LEMMA ConnectFailsIs ==
    ASSUME Types, NEW t \in Task, ConnectFails(t)
    PROVE  /\ Types' /\ OneCall(t) /\ call[t].pc = "connect" /\ call'[t] = NoCall
           /\ UNCHANGED <<wl, stored, guestside>>
<1>1. /\ Return(t) /\ UNCHANGED <<wl, stored, guestside>> /\ call[t].pc = "connect"
  BY DEF ConnectFails, guestvars, bounds, guestside
<1> QED  BY <1>1, ReturnIs, OnlyCall

LEMMA InstallIs ==
    ASSUME Types, NEW t \in Task, Install(t)
    PROVE  \E c \in Conn :
              /\ Types' /\ OneCall(t) /\ OneLink(c) /\ call[t].pc = "install"
              /\ call[t].c = c /\ stored' = c
              /\ link'[c].host = "up" /\ link'[c].req = <<List>>
              /\ link'[c].ev = link[c].ev /\ link'[c].guest = link[c].guest
              /\ link'[c].out = link[c].out /\ link'[c].cut = link[c].cut
              /\ \/ call'[t] = NoCall /\ call[t].op = "arm"
                 \/ /\ call'[t].op = call[t].op /\ call'[t].w = call[t].w
                    /\ \/ call[t].op = "start" /\ call'[t].pc = "register"
                       \/ call[t].op = "stop" /\ call'[t].pc = "mark"
              /\ UNCHANGED <<wl, guestvars, drops>>
<1>1. call[t].pc = "install" /\ call[t] \in CallRecord /\ CallOK(call[t])
  BY DEF Install, Types
<1>2. PICK c \in Conn : c = call[t].c
  BY <1>1 DEF CallRecord, CallOK, InHand
<1>3. /\ stored' = c /\ link' = [link EXCEPT ![c].host = "up", ![c].req = <<List>>]
      /\ Proceed(t, c) /\ UNCHANGED <<wl, guestvars, drops>>
  BY <1>2 DEF Install, bounds
<1> DEFINE r == [link[c] EXCEPT !.host = "up", !.req = <<List>>]
<1>4. /\ r \in LinkRecord /\ r.host = "up" /\ r.req = <<List>> /\ r.ev = link[c].ev
      /\ r.guest = link[c].guest /\ r.out = link[c].out /\ r.cut = link[c].cut
  <2>1. <<List>> \in Seq(Request) /\ link[c] \in LinkRecord
    BY RequestOK DEF Types
  <2> QED  BY <2>1 DEF LinkRecord
<1>5. link' = [link EXCEPT ![c] = r]
  BY <1>3 DEF Types
<1> HIDE DEF r
<1>6. link' \in [Conn -> LinkRecord] /\ link'[c] = r /\ OneLink(c)
  BY <1>4, <1>5, LinkPut
<1>7. /\ call' \in [Task -> CallRecord] /\ OneCall(t)
      /\ \A u \in Task : CallOK(call'[u])
      /\ \/ call'[t] = NoCall /\ call[t].op = "arm"
         \/ /\ call'[t].op = call[t].op /\ call'[t].w = call[t].w /\ call'[t].c = c
            /\ \/ call[t].op = "start" /\ call'[t].pc = "register"
               \/ call[t].op = "stop" /\ call'[t].pc = "mark"
  BY <1>1, <1>3, ProceedIs
<1>8. Types'
  BY <1>3, <1>6, <1>7 DEF Types, guestvars
<1> QED  BY <1>1, <1>2, <1>3, <1>4, <1>6, <1>7, <1>8

(* A call that is dropped while it connects takes its connection with it.  *)
LEMMA DropIs ==
    ASSUME Types, NEW t \in Task, Drop(t)
    PROVE  /\ Types' /\ OneCall(t) /\ call'[t] = NoCall /\ drops' = drops + 1
           /\ call[t].pc \in {"connect", "install", "sendStart", "sendStop"}
           /\ UNCHANGED <<wl, stored, guestvars>>
           /\ \/ call[t].pc # "install" /\ UNCHANGED link
              \/ \E c \in Conn :
                    /\ call[t].pc = "install" /\ call[t].c = c /\ OneLink(c)
                    /\ link'[c].host = "down" /\ link'[c].cut = TRUE
                    /\ link'[c].ev = <<>> /\ link'[c].req = link[c].req
                    /\ link'[c].guest = link[c].guest /\ link'[c].out = link[c].out
<1>1. /\ call[t] \in CallRecord /\ CallOK(call[t]) /\ Return(t) /\ drops' = drops + 1
      /\ call[t].pc \in {"connect", "install", "sendStart", "sendStop"}
      /\ UNCHANGED <<wl, stored, guestvars>>
  BY DEF Drop, Types
<1>2. /\ call' \in [Task -> CallRecord] /\ call'[t] = NoCall /\ OneCall(t)
      /\ \A u \in Task : CallOK(call'[u])
  BY <1>1, ReturnIs
<1>3. CASE call[t].pc # "install"
  <2>1. UNCHANGED link
    BY <1>3 DEF Drop
  <2>2. Types'
    BY <1>1, <1>2, <2>1 DEF Types, guestvars
  <2> QED  BY <1>1, <1>2, <1>3, <2>1, <2>2
<1>4. CASE call[t].pc = "install"
  <2>1. PICK c \in Conn : c = call[t].c
    BY <1>1, <1>4 DEF CallRecord, CallOK, InHand
  <2> DEFINE r == [link[c] EXCEPT !.host = "down", !.cut = TRUE, !.ev = <<>>]
  <2>2. link' = [link EXCEPT ![c] = r]
    BY <1>4, <2>1 DEF Drop
  <2>3. /\ r \in LinkRecord /\ r.host = "down" /\ r.cut = TRUE /\ r.ev = <<>>
        /\ r.req = link[c].req /\ r.guest = link[c].guest /\ r.out = link[c].out
    <3>1. <<>> \in Seq(Event) /\ link[c] \in LinkRecord
      BY DEF Types
    <3> QED  BY <3>1 DEF LinkRecord
  <2> HIDE DEF r
  <2>4. link' \in [Conn -> LinkRecord] /\ link'[c] = r /\ OneLink(c)
    BY <2>2, <2>3, LinkPut
  <2>5. Types'
    BY <1>1, <1>2, <2>4 DEF Types, guestvars
  <2> QED  BY <1>1, <1>2, <1>4, <2>1, <2>3, <2>4, <2>5
<1> QED  BY <1>3, <1>4

LEMMA RegisterIs ==
    ASSUME Types, NEW t \in Task, Register(t)
    PROVE  \E w \in Wl :
              /\ Types' /\ OneCall(t) /\ call[t].pc = "register" /\ call[t].w = w
              /\ call[t].op = "start" /\ call'[t].pc = "sendStart"
              /\ call'[t].op = call[t].op /\ call'[t].w = call[t].w
              /\ call'[t].c = call[t].c
              /\ wl' = [wl EXCEPT ![w] = [state |-> "Starting", stop |-> FALSE]]
              /\ UNCHANGED <<stored, guestside>>
<1>1. /\ call[t].pc = "register" /\ call[t] \in CallRecord /\ CallOK(call[t])
      /\ UNCHANGED <<stored, guestside>> /\ Goto(t, "sendStart")
  BY DEF Register, Types, guestvars, bounds, guestside
<1>2. PICK w \in Wl : w = call[t].w /\ call[t].op = "start"
  BY <1>1 DEF CallOK
<1>3. wl' = [wl EXCEPT ![w] = [state |-> "Starting", stop |-> FALSE]]
  BY <1>2 DEF Register
<1>4. wl' \in [Wl -> Entry \cup {None}]
  BY <1>3 DEF Types, Entry, WorkloadState, Active
<1>5. "sendStart" \in CallPc /\ CallOK([call[t] EXCEPT !.pc = "sendStart"])
  BY <1>1, <1>2 DEF CallRecord, CallPc, CallOK, InHand
<1>6. /\ call' \in [Task -> CallRecord] /\ OneCall(t) /\ \A u \in Task : CallOK(call'[u])
      /\ call'[t].pc = "sendStart" /\ call'[t].op = call[t].op
      /\ call'[t].w = call[t].w /\ call'[t].c = call[t].c
  BY <1>1, <1>5, GotoIs
<1>7. Types'
  BY <1>1, <1>4, <1>6 DEF Types, guestvars, guestside
<1> QED  BY <1>1, <1>2, <1>3, <1>6, <1>7

(* A request joins the queue of a connection. *)
LEMMA SendIs ==
    ASSUME Types, NEW c \in Conn, NEW request \in Request, Send(c, request)
    PROVE  /\ link' \in [Conn -> LinkRecord] /\ OneLink(c)
           /\ link'[c] = [link[c] EXCEPT !.req = Append(link[c].req, request)]
           /\ link'[c].req = Append(link[c].req, request)
           /\ link'[c].host = link[c].host /\ link'[c].ev = link[c].ev
           /\ link'[c].guest = link[c].guest /\ link'[c].out = link[c].out
           /\ link'[c].cut = link[c].cut
<1>1. link[c] \in LinkRecord /\ link[c].req \in Seq(Request)
  BY DEF Types, LinkRecord
<1>2. PICK q \in Seq(Request) : q = Append(link[c].req, request)
  BY <1>1, AppendIs
<1> DEFINE r == [link[c] EXCEPT !.req = q]
<1>3. link' = [link EXCEPT ![c] = r]
  BY <1>2 DEF Send
<1>4. /\ r \in LinkRecord /\ r.host = link[c].host /\ r.req = q /\ r.ev = link[c].ev
      /\ r.guest = link[c].guest /\ r.out = link[c].out /\ r.cut = link[c].cut
  BY <1>1 DEF LinkRecord
<1>5. r = [link[c] EXCEPT !.req = Append(link[c].req, request)]
  BY <1>2
<1> HIDE DEF r
<1> QED  BY <1>2, <1>3, <1>4, <1>5, LinkPut

(* Sent(c, request): nothing of the connections changes but this queue.    *)
Sent(c, request) ==
    /\ OneLink(c)
    /\ link'[c].req = Append(link[c].req, request)
    /\ link'[c].host = link[c].host /\ link'[c].ev = link[c].ev
    /\ link'[c].guest = link[c].guest /\ link'[c].out = link[c].out
    /\ link'[c].cut = link[c].cut

LEMMA SendStartIs ==
    ASSUME Types, NEW t \in Task, SendStart(t)
    PROVE  \E w \in Wl, c \in Conn :
              /\ Types' /\ OneCall(t) /\ call[t].pc = "sendStart" /\ call[t].w = w
              /\ call[t].op = "start" /\ call'[t] = NoCall
              /\ UNCHANGED <<stored, guestvars, drops>>
              /\ \/ link[c].host = "up" /\ Sent(c, Start(w)) /\ UNCHANGED wl
                 \/ wl' = [wl EXCEPT ![w] = None] /\ UNCHANGED link
<1>1. /\ call[t].pc = "sendStart" /\ call[t] \in CallRecord /\ CallOK(call[t])
      /\ UNCHANGED <<stored, guestvars, drops>> /\ Return(t)
  BY DEF SendStart, Types, bounds
<1>2. PICK w \in Wl : w = call[t].w /\ call[t].op = "start"
  BY <1>1 DEF CallOK
<1>3. PICK c \in Conn : c = call[t].c
  BY <1>1 DEF CallRecord, CallOK, InHand
<1>4. /\ call' \in [Task -> CallRecord] /\ call'[t] = NoCall /\ OneCall(t)
      /\ \A u \in Task : CallOK(call'[u])
  BY <1>1, ReturnIs
<1>5. CASE Open(c)
  <2>1. Send(c, Start(w)) /\ UNCHANGED wl
    BY <1>2, <1>3, <1>5 DEF SendStart
  <2>2. link' \in [Conn -> LinkRecord] /\ Sent(c, Start(w))
    BY <2>1, RequestOK, SendIs DEF Sent
  <2>3. Types'
    BY <1>1, <1>4, <2>1, <2>2 DEF Types, guestvars
  <2> QED  BY <1>1, <1>2, <1>4, <1>5, <2>1, <2>2, <2>3 DEF Open
<1>6. CASE ~Open(c)
  <2>1. wl' = [wl EXCEPT ![w] = None] /\ UNCHANGED link
    BY <1>2, <1>3, <1>6 DEF SendStart
  <2>2. Types'
    BY <1>1, <1>4, <2>1 DEF Types, guestvars
  <2> QED  BY <1>1, <1>2, <1>3, <1>4, <2>1, <2>2
<1> QED  BY <1>5, <1>6

(* The table with one entry's stop flag set or reset. *)
Flagged(w, flag) ==
    \A x \in Wl : wl'[x] = IF x = w /\ wl[x] # None THEN [wl[x] EXCEPT !.stop = flag]
                           ELSE wl[x]

LEMMA MarkStopIs ==
    ASSUME Types, NEW t \in Task, MarkStop(t)
    PROVE  /\ Types' /\ OneCall(t) /\ call[t].pc = "mark" /\ call[t].op = "stop"
           /\ UNCHANGED <<stored, guestside>>
           /\ call'[t] = NoCall \/ (call'[t].pc = "sendStop" /\ call'[t].op = "stop")
           /\ UNCHANGED wl \/ \E w \in Wl : Flagged(w, TRUE)
<1>1. /\ call[t].pc = "mark" /\ call[t] \in CallRecord /\ CallOK(call[t])
      /\ UNCHANGED <<stored, guestside>>
  BY DEF MarkStop, Types, guestvars, bounds, guestside
<1>2. PICK w \in Wl : w = call[t].w /\ call[t].op = "stop"
  BY <1>1 DEF CallOK
<1>3. CASE IsActive(w)
  <2>1. wl' = [wl EXCEPT ![w].stop = TRUE] /\ Goto(t, "sendStop") /\ wl[w] # None
    BY <1>2, <1>3 DEF MarkStop, IsActive
  <2>2. wl[w] \in Entry
    BY <2>1 DEF Types
  <2>3. PICK x \in Entry : x = [wl[w] EXCEPT !.stop = TRUE]
    BY <2>2 DEF Entry
  <2>4. wl' = [wl EXCEPT ![w] = x]
    BY <2>1, <2>3
  <2>5. wl' \in [Wl -> Entry \cup {None}] /\ Flagged(w, TRUE)
    BY <2>1, <2>3, <2>4 DEF Types, Flagged
  <2>6. "sendStop" \in CallPc /\ CallOK([call[t] EXCEPT !.pc = "sendStop"])
    BY <1>1, <1>2 DEF CallRecord, CallPc, CallOK, InHand
  <2>7. /\ call' \in [Task -> CallRecord] /\ OneCall(t)
        /\ \A u \in Task : CallOK(call'[u])
        /\ call'[t].pc = "sendStop" /\ call'[t].op = "stop"
    BY <1>2, <2>1, <2>6, GotoIs
  <2>8. Types'
    BY <1>1, <2>5, <2>7 DEF Types, guestvars, guestside
  <2> QED  BY <1>1, <1>2, <2>5, <2>7, <2>8
<1>4. CASE ~IsActive(w)
  <2>1. Return(t) /\ UNCHANGED wl
    BY <1>2, <1>4 DEF MarkStop
  <2>2. /\ call' \in [Task -> CallRecord] /\ call'[t] = NoCall /\ OneCall(t)
        /\ \A u \in Task : CallOK(call'[u])
    BY <2>1, ReturnIs
  <2>3. Types'
    BY <1>1, <2>1, <2>2 DEF Types, guestvars, guestside
  <2> QED  BY <1>1, <1>2, <2>1, <2>2, <2>3
<1> QED  BY <1>3, <1>4

LEMMA SendStopIs ==
    ASSUME Types, NEW t \in Task, SendStop(t)
    PROVE  \E w \in Wl, c \in Conn :
              /\ Types' /\ OneCall(t) /\ call[t].pc = "sendStop" /\ call[t].op = "stop"
              /\ call'[t] = NoCall
              /\ UNCHANGED <<stored, guestvars, drops>>
              /\ \/ link[c].host = "up" /\ Sent(c, Stop(w)) /\ UNCHANGED wl
                 \/ Flagged(w, FALSE) /\ UNCHANGED link
<1>1. /\ call[t].pc = "sendStop" /\ call[t] \in CallRecord /\ CallOK(call[t])
      /\ UNCHANGED <<stored, guestvars, drops>> /\ Return(t)
  BY DEF SendStop, Types, bounds
<1>2. PICK w \in Wl : w = call[t].w /\ call[t].op = "stop"
  BY <1>1 DEF CallOK
<1>3. PICK c \in Conn : c = call[t].c
  BY <1>1 DEF CallRecord, CallOK, InHand
<1>4. /\ call' \in [Task -> CallRecord] /\ call'[t] = NoCall /\ OneCall(t)
      /\ \A u \in Task : CallOK(call'[u])
  BY <1>1, ReturnIs
<1>5. CASE Open(c)
  <2>1. Send(c, Stop(w)) /\ UNCHANGED wl
    BY <1>2, <1>3, <1>5 DEF SendStop
  <2>2. link' \in [Conn -> LinkRecord] /\ Sent(c, Stop(w))
    BY <2>1, RequestOK, SendIs DEF Sent
  <2>3. Types'
    BY <1>1, <1>4, <2>1, <2>2 DEF Types, guestvars
  <2> QED  BY <1>1, <1>2, <1>4, <1>5, <2>1, <2>2, <2>3 DEF Open
<1>6. CASE ~Open(c)
  <2>1. /\ UNCHANGED link
        /\ wl' = [x \in Wl |-> IF x = w /\ wl[x] # None
                               THEN [wl[x] EXCEPT !.stop = FALSE] ELSE wl[x]]
    BY <1>2, <1>3, <1>6 DEF SendStop
  <2>2. Flagged(w, FALSE)
    BY <2>1 DEF Flagged
  <2>3. ASSUME NEW x \in Wl PROVE wl'[x] \in Entry \cup {None}
    <3>1. wl[x] # None => wl[x] \in Entry
      BY DEF Types
    <3>2. wl[x] \in Entry => [wl[x] EXCEPT !.stop = FALSE] \in Entry
      BY DEF Entry
    <3> QED  BY <2>2, <3>1, <3>2 DEF Flagged
  <2>4. wl' \in [Wl -> Entry \cup {None}]
    BY <2>1, <2>3
  <2>5. Types'
    BY <1>1, <1>4, <2>1, <2>4 DEF Types, guestvars
  <2> QED  BY <1>1, <1>2, <1>3, <1>4, <2>1, <2>2, <2>5
<1> QED  BY <1>5, <1>6

(* Applying an event keeps an entry an entry, and its end final. *)
LEMMA AppliedIs ==
    ASSUME Types, NEW e \in Event, NEW w \in Wl, NEW x \in Entry
    PROVE  LET y == Applied(e, w, x)
           IN  /\ y \in Entry
               /\ x.state \notin Active => y.state = x.state
               /\ y.state = "Starting" => x.state = "Starting"
               /\ y.state \in {"Exited", "Stopped"} =>
                     \/ x.state \in {"Exited", "Stopped"}
                     \/ e.type = "list" /\ e.table[w] = "exited"
                     \/ e.type = "exited" /\ e.w = w
               /\ e.type = "list" /\ e.table[w] = "exited" => y.state \notin Active
               /\ e.type = "exited" /\ e.w = w => y.state \notin Active
               /\ e.type = "list" /\ e.table[w] = "running" => y.state # "Starting"
               /\ e.type = "started" /\ e.w = w => y.state # "Starting"
<1>1. x.state \in WorkloadState /\ x.stop \in BOOLEAN
  BY DEF Entry
<1> DEFINE y == Applied(e, w, x)
<1>2. CASE e.type = "list" /\ e.table[w] = "running"
  <2>1. y = MarkRunning(x)
    BY <1>2 DEF Applied, Listed
  <2>2. /\ y = x \/ (x.state = "Starting" /\ y = [x EXCEPT !.state = "Running"])
        /\ x.state = "Starting" => y = [x EXCEPT !.state = "Running"]
    BY <2>1 DEF MarkRunning
  <2> HIDE DEF y
  <2> QED  BY <1>1, <1>2, <2>2 DEF Entry, WorkloadState, Active, y
<1>3. CASE e.type = "started" /\ e.w = w
  <2>1. y = MarkRunning(x)
    BY <1>3 DEF Applied
  <2>2. /\ y = x \/ (x.state = "Starting" /\ y = [x EXCEPT !.state = "Running"])
        /\ x.state = "Starting" => y = [x EXCEPT !.state = "Running"]
    BY <2>1 DEF MarkRunning
  <2> HIDE DEF y
  <2> QED  BY <1>1, <1>3, <2>2 DEF Entry, WorkloadState, Active, y
<1>4. CASE \/ e.type = "list" /\ e.table[w] = "exited"
           \/ e.type = "exited" /\ e.w = w
  <2>1. y = MarkFinished(x)
    BY <1>4 DEF Applied, Listed
  <2>2. /\ x.state \notin Active => y = x
        /\ x.state \in Active => \/ y = [x EXCEPT !.state = "Stopped"]
                                 \/ y = [x EXCEPT !.state = "Exited"]
    BY <2>1 DEF MarkFinished
  <2>3. /\ [x EXCEPT !.state = "Stopped"] \in Entry
        /\ [x EXCEPT !.state = "Exited"] \in Entry
        /\ [x EXCEPT !.state = "Stopped"].state = "Stopped"
        /\ [x EXCEPT !.state = "Exited"].state = "Exited"
    BY DEF Entry, WorkloadState, Active
  <2> HIDE DEF y
  <2>4. /\ y \in Entry /\ y.state \notin Active
        /\ x.state \notin Active => y.state = x.state
    BY <1>1, <2>2, <2>3 DEF Active
  <2> QED  BY <1>4, <2>4 DEF Active, y
<1>5. CASE e.type = "error" /\ e.w = w
  <2>1. y = MarkFailed(x)
    BY <1>5 DEF Applied
  <2>2. y = x \/ (x.state \in Active /\ y = [x EXCEPT !.state = "Failed"])
    BY <2>1 DEF MarkFailed
  <2> HIDE DEF y
  <2> QED  BY <1>1, <1>5, <2>2 DEF Entry, WorkloadState, Active, y
<1>6. CASE y = x /\ ~(e.type = "list" /\ e.table[w] \in {"running", "exited"})
                 /\ ~(e.type \in {"started", "exited"} /\ e.w = w)
  BY <1>6
<1>7. \/ y = x /\ ~(e.type = "list" /\ e.table[w] \in {"running", "exited"})
               /\ ~(e.type \in {"started", "exited"} /\ e.w = w)
      \/ e.type = "list" /\ e.table[w] = "running"
      \/ e.type = "started" /\ e.w = w
      \/ \/ e.type = "list" /\ e.table[w] = "exited"
         \/ e.type = "exited" /\ e.w = w
      \/ e.type = "error" /\ e.w = w
  BY DEF Applied, Listed
<1> QED  BY <1>2, <1>3, <1>4, <1>5, <1>6, <1>7

LEMMA HandleEventIs ==
    ASSUME Types, NEW c \in Conn, HandleEvent(c)
    PROVE  \E e \in Event :
              /\ Types' /\ OneLink(c) /\ link[c].ev # <<>> /\ e = Head(link[c].ev)
              /\ link'[c].ev = Tail(link[c].ev)
              /\ link'[c].host = link[c].host /\ link'[c].req = link[c].req
              /\ link'[c].guest = link[c].guest /\ link'[c].out = link[c].out
              /\ link'[c].cut = link[c].cut
              /\ \A w \in Wl : wl'[w] = IF wl[w] = None THEN None
                                        ELSE Applied(e, w, wl[w])
              /\ UNCHANGED <<stored, call, guestvars, drops>>
<1>1. link[c].ev # <<>> /\ link[c].ev \in Seq(Event) /\ link[c] \in LinkRecord
  BY DEF HandleEvent, Types, LinkRecord
<1>2. PICK q : q = Tail(link[c].ev)
  OBVIOUS
<1>3. PICK e \in Event : e = Head(link[c].ev)
  BY <1>1, TailIs
<1>4. q \in Seq(Event)
  BY <1>1, <1>2, TailIs
<1> DEFINE r == [link[c] EXCEPT !.ev = q]
<1>5. link' = [link EXCEPT ![c] = r]
  BY <1>2 DEF HandleEvent
<1>6. /\ r \in LinkRecord /\ r.host = link[c].host /\ r.req = link[c].req /\ r.ev = q
      /\ r.guest = link[c].guest /\ r.out = link[c].out /\ r.cut = link[c].cut
  BY <1>1, <1>4 DEF LinkRecord
<1> HIDE DEF r
<1>7. link' \in [Conn -> LinkRecord] /\ link'[c] = r /\ OneLink(c)
  BY <1>5, <1>6, LinkPut
<1>8. wl' = [w \in Wl |-> IF wl[w] = None THEN None ELSE Applied(e, w, wl[w])]
      /\ UNCHANGED <<stored, call, guestvars, drops>>
  BY <1>3 DEF HandleEvent, bounds
<1>9. ASSUME NEW w \in Wl PROVE wl'[w] \in Entry \cup {None}
  <2>1. CASE wl[w] = None
    BY <1>8, <2>1
  <2>2. CASE wl[w] # None
    <3>1. PICK x \in Entry : x = wl[w]
      BY <2>2 DEF Types
    <3>2. Applied(e, w, x) \in Entry
      BY AppliedIs
    <3> QED  BY <1>8, <2>2, <3>1, <3>2
  <2> QED  BY <2>1, <2>2
<1>10. wl' \in [Wl -> Entry \cup {None}]
  BY <1>8, <1>9
<1>11. Types'
  BY <1>7, <1>8, <1>10 DEF Types, guestvars
<1> QED  BY <1>1, <1>2, <1>3, <1>6, <1>7, <1>8, <1>11

LEMMA ClosedIs ==
    ASSUME Types, NEW c \in Conn, Closed(c)
    PROVE  /\ Types' /\ OneLink(c) /\ link[c].cut
           /\ link'[c].host = "down" /\ link'[c].req = <<>> /\ link'[c].ev = <<>>
           /\ link'[c].guest = link[c].guest /\ link'[c].out = link[c].out
           /\ link'[c].cut = link[c].cut /\ link[c].host = "up"
           /\ UNCHANGED <<wl, call, guestvars, drops>>
<1>1. link[c] \in LinkRecord /\ <<>> \in Seq(Event) /\ <<>> \in Seq(Request)
  BY DEF Types
<1> DEFINE r == [link[c] EXCEPT !.host = "down", !.req = <<>>, !.ev = <<>>]
<1>2. link' = [link EXCEPT ![c] = r]
  BY DEF Closed, Types
<1>3. /\ r \in LinkRecord /\ r.host = "down" /\ r.req = <<>> /\ r.ev = <<>>
      /\ r.guest = link[c].guest /\ r.out = link[c].out /\ r.cut = link[c].cut
  BY <1>1 DEF LinkRecord
<1> HIDE DEF r
<1>4. link' \in [Conn -> LinkRecord] /\ link'[c] = r /\ OneLink(c)
  BY <1>2, <1>3, LinkPut
<1>5. stored' \in Conn \cup {None} /\ UNCHANGED <<wl, call, guestvars, drops>>
      /\ link[c].cut /\ link[c].host = "up"
  BY DEF Closed, Types, bounds, Open
<1>6. Types'
  BY <1>4, <1>5 DEF Types, guestvars
<1> QED  BY <1>3, <1>4, <1>5, <1>6

LEMMA AcceptIs ==
    ASSUME Types, Accept
    PROVE  \E c \in Conn :
              /\ Types' /\ OneLink(c) /\ backlog # <<>> /\ c = Head(backlog)
              /\ backlog' = Tail(backlog) /\ gconn' = c
              /\ link'[c].guest = "up"
              /\ link'[c].host = link[c].host /\ link'[c].req = link[c].req
              /\ link'[c].ev = link[c].ev /\ link'[c].out = link[c].out
              /\ link'[c].cut = link[c].cut
              /\ UNCHANGED <<hostvars, table, reap, drops>>
<1>1. backlog # <<>> /\ backlog \in Seq(Conn)
  BY DEF Accept, Types
<1>2. PICK c \in Conn : c = Head(backlog)
  BY <1>1, TailIs
<1>3. link[c] \in LinkRecord
  BY DEF Types
<1> DEFINE r == [link[c] EXCEPT !.guest = "up"]
<1>4. link' = [link EXCEPT ![c] = r]
  BY <1>2 DEF Accept
<1>5. /\ r \in LinkRecord /\ r.host = link[c].host /\ r.req = link[c].req
      /\ r.ev = link[c].ev /\ r.guest = "up" /\ r.out = link[c].out /\ r.cut = link[c].cut
  BY <1>3 DEF LinkRecord
<1> HIDE DEF r
<1>6. link' \in [Conn -> LinkRecord] /\ link'[c] = r /\ OneLink(c)
  BY <1>4, <1>5, LinkPut
<1>7. Tail(backlog) \in Seq(Conn)
  BY <1>1, TailIs
<1>8. gconn' = c /\ backlog' = Tail(backlog)
      /\ UNCHANGED <<hostvars, table, reap, term, drops>>
  BY <1>2 DEF Accept, bounds
<1>9. Types'
  BY <1>6, <1>7, <1>8 DEF Types, hostvars
<1> QED  BY <1>1, <1>2, <1>5, <1>6, <1>8, <1>9

LEMMA AnswerIs ==
    ASSUME Types, NEW c \in Conn, NEW e \in Event, link[c].req # <<>>, link' = Answer(c, e)
    PROVE  /\ link' \in [Conn -> LinkRecord] /\ OneLink(c)
           /\ link'[c].req = Tail(link[c].req) /\ link'[c].out = e
           /\ link'[c].host = link[c].host /\ link'[c].ev = link[c].ev
           /\ link'[c].guest = link[c].guest /\ link'[c].cut = link[c].cut
<1>1. link[c] \in LinkRecord /\ link[c].req \in Seq(Request)
  BY DEF Types, LinkRecord
<1>2. PICK q \in Seq(Request) : q = Tail(link[c].req)
  BY <1>1, TailIs
<1> DEFINE r == [link[c] EXCEPT !.req = q, !.out = e]
<1>3. link' = [link EXCEPT ![c] = r]
  <2>1. link' = [link EXCEPT ![c].req = q, ![c].out = e]
    BY <1>2 DEF Answer
  <2> QED  BY <2>1 DEF Types
<1>4. /\ r \in LinkRecord /\ r.host = link[c].host /\ r.req = q /\ r.ev = link[c].ev
      /\ r.guest = link[c].guest /\ r.out = e /\ r.cut = link[c].cut
  BY <1>1 DEF LinkRecord
<1> HIDE DEF r
<1> QED  BY <1>2, <1>3, <1>4, LinkPut

(* What a request makes of the guest's table, and what it answers. *)
Answered(r, e) ==
    \/ \E w \in Wl : r = Start(w) /\ e = Started(w) /\ table' = [table EXCEPT ![w] = "running"]
    \/ r.type # "list" /\ e.type \in {"error", "none"} /\ UNCHANGED table
    \/ r = List /\ e = ListResult /\ UNCHANGED table

LEMMA ServeIs ==
    ASSUME Types, NEW c \in Conn, Serve(c)
    PROVE  \E r \in Request, e \in Event :
              /\ Types' /\ OneLink(c) /\ link[c].req # <<>> /\ r = Head(link[c].req)
              /\ link[c].guest = "up" /\ link[c].out = Silent /\ ~link[c].cut
              /\ link'[c].req = Tail(link[c].req) /\ link'[c].out = e
              /\ link'[c].host = link[c].host /\ link'[c].ev = link[c].ev
              /\ link'[c].guest = link[c].guest /\ link'[c].cut = link[c].cut
              /\ Answered(r, e)
              /\ UNCHANGED <<hostvars, backlog, gconn, reap, drops>>
<1>1. /\ link[c].req # <<>> /\ link[c].guest = "up" /\ link[c].out = Silent /\ ~link[c].cut
      /\ UNCHANGED <<hostvars, backlog, gconn, reap, drops>>
      /\ link[c].req \in Seq(Request) /\ table \in [Wl -> TableState]
  BY DEF Serve, bounds, Types, LinkRecord
<1>2. PICK r \in Request : r = Head(link[c].req)
  BY <1>1, TailIs
<1>3. \/ r = List /\ r.type = "list"
      \/ r.w \in Wl /\ r = Start(r.w) /\ r.type = "start"
      \/ r.w \in Wl /\ r = Stop(r.w) /\ r.type = "stop"
  BY RequestCases
<1>4. PICK e \in Event :
          link' = Answer(c, e) /\ Answered(r, e) /\ term' \subseteq Wl
  <2>1. CASE r.type = "start"
    <3>1. PICK w \in Wl : w = r.w /\ r = Start(w)
      BY <1>3, <2>1
    <3>2. \/ table' = [table EXCEPT ![w] = "running"] /\ link' = Answer(c, Started(w))
             /\ UNCHANGED term
          \/ link' = Answer(c, Error(w)) /\ UNCHANGED <<table, term>>
      BY <1>2, <2>1, <3>1 DEF Serve
    <3>3. Started(w) \in Event /\ Error(w) \in Event /\ Error(w).type = "error"
      BY <1>1, EventOK
    <3> QED  BY <2>1, <3>1, <3>2, <3>3 DEF Answered, Types
  <2>2. CASE r.type = "stop"
    <3>1. PICK w \in Wl : w = r.w
      BY <1>3, <2>2
    <3>2. \/ link' = Answer(c, Error(w)) /\ UNCHANGED <<table, term>>
          \/ /\ link' = Answer(c, Silent) /\ UNCHANGED table
             /\ term' \in {term, term \cup {w}}
      BY <1>2, <2>2, <3>1 DEF Serve
    <3>3. Error(w) \in Event /\ Error(w).type = "error" /\ Silent \in Event
          /\ Silent.type = "none"
      BY <1>1, EventOK
    <3> QED  BY <2>2, <3>2, <3>3 DEF Answered, Types
  <2>3. CASE r.type = "list"
    <3>1. link' = Answer(c, ListResult) /\ UNCHANGED <<table, term>> /\ r = List
      BY <1>2, <1>3, <2>3 DEF Serve
    <3>2. ListResult \in Event
      BY <1>1, EventOK
    <3> QED  BY <3>1, <3>2 DEF Answered, Types
  <2> QED  BY <1>3, <2>1, <2>2, <2>3
<1>5. /\ link' \in [Conn -> LinkRecord] /\ OneLink(c)
      /\ link'[c].req = Tail(link[c].req) /\ link'[c].out = e
      /\ link'[c].host = link[c].host /\ link'[c].ev = link[c].ev
      /\ link'[c].guest = link[c].guest /\ link'[c].cut = link[c].cut
  BY <1>1, <1>4, AnswerIs
<1>6. table' \in [Wl -> TableState]
  BY <1>1, <1>4 DEF Answered, TableState
<1>7. Types'
  BY <1>1, <1>4, <1>5, <1>6 DEF Types, hostvars
<1> QED  BY <1>1, <1>2, <1>4, <1>5, <1>7

LEMMA EmitIs ==
    ASSUME NEW L \in [Conn -> LinkRecord], NEW e \in Event, gconn \in Conn \cup {None}
    PROVE  LET M == Emit(L, e)
           IN  /\ M \in [Conn -> LinkRecord]
               /\ \A d \in Conn :
                     /\ M[d].host = L[d].host /\ M[d].req = L[d].req
                     /\ M[d].guest = L[d].guest /\ M[d].out = L[d].out
                     /\ M[d].cut = L[d].cut
                     /\ M[d].ev = IF d = gconn /\ ~L[d].cut THEN Append(L[d].ev, e)
                                  ELSE L[d].ev
<1>1. CASE gconn = None \/ L[gconn].cut
  <2>1. Emit(L, e) = L
    BY <1>1 DEF Emit
  <2>2. \A d \in Conn : ~(d = gconn /\ ~L[d].cut)
    BY <1>1, NoneAssumption
  <2> QED  BY <2>1, <2>2
<1>2. CASE gconn # None /\ ~L[gconn].cut
  <2>1. PICK g \in Conn : g = gconn
    BY <1>2
  <2>2. L[g] \in LinkRecord /\ L[g].ev \in Seq(Event)
    BY DEF LinkRecord
  <2>3. PICK q \in Seq(Event) : q = Append(L[g].ev, e)
    BY <2>2, AppendIs
  <2> DEFINE r == [L[g] EXCEPT !.ev = q]
  <2>4. Emit(L, e) = [L EXCEPT ![g] = r]
    BY <1>2, <2>1, <2>3 DEF Emit
  <2>5. /\ r \in LinkRecord /\ r.host = L[g].host /\ r.req = L[g].req /\ r.ev = q
        /\ r.guest = L[g].guest /\ r.out = L[g].out /\ r.cut = L[g].cut
    BY <2>2 DEF LinkRecord
  <2> HIDE DEF r
  <2>6. PICK M : M = Emit(L, e)
    OBVIOUS
  <2>7. M \in [Conn -> LinkRecord] /\ M[g] = r /\ \A d \in Conn : d # g => M[d] = L[d]
    BY <2>4, <2>5, <2>6
  <2> QED  BY <1>2, <2>1, <2>3, <2>5, <2>6, <2>7
<1> QED  BY <1>1, <1>2

(* The event reaches the current connection, if it is whole. *)
Emitted(e) ==
    \A d \in Conn :
       /\ link'[d].host = link[d].host /\ link'[d].req = link[d].req
       /\ link'[d].guest = link[d].guest /\ link'[d].cut = link[d].cut
       /\ link'[d].ev = IF d = gconn /\ ~link[d].cut THEN Append(link[d].ev, e)
                        ELSE link[d].ev

LEMMA ReplyIs ==
    ASSUME Types, NEW c \in Conn, Reply(c)
    PROVE  \E e \in Event :
              /\ Types' /\ e = link[c].out /\ e # Silent /\ Emitted(e)
              /\ \A d \in Conn : link'[d].out = IF d = c THEN Silent ELSE link[d].out
              /\ \/ UNCHANGED reap
                 \/ \E w \in Wl : /\ e.type = "started" /\ e.w = w
                                  /\ reap' = [reap EXCEPT ![w] = "wait"]
              /\ UNCHANGED <<hostvars, backlog, gconn, table, drops>>
<1>1. link[c] \in LinkRecord /\ table \in [Wl -> TableState] /\ gconn \in Conn \cup {None}
  BY DEF Types
<1>2. PICK e \in Event : e = link[c].out
  BY <1>1 DEF LinkRecord
<1> DEFINE r == [link[c] EXCEPT !.out = Silent]
<1>3. /\ r \in LinkRecord /\ r.host = link[c].host /\ r.req = link[c].req
      /\ r.ev = link[c].ev /\ r.guest = link[c].guest /\ r.out = Silent
      /\ r.cut = link[c].cut
  BY <1>1, EventOK DEF LinkRecord
<1>4. PICK L : L = [link EXCEPT ![c] = r]
  OBVIOUS
<1>5. L = [link EXCEPT ![c].out = Silent]
  BY <1>4
<1> HIDE DEF r
<1>6. L \in [Conn -> LinkRecord] /\ L[c] = r /\ \A d \in Conn : d # c => L[d] = link[d]
  BY <1>3, <1>4 DEF Types
<1>7. /\ link' = Emit(L, e) /\ e # Silent
      /\ reap' = IF e.type = "started" THEN [reap EXCEPT ![e.w] = "wait"] ELSE reap
      /\ UNCHANGED <<hostvars, backlog, gconn, table, term, drops>>
  <2>1. link' = Emit([link EXCEPT ![c].out = Silent], link[c].out)
    BY DEF Reply
  <2>2. link' = Emit(L, e)
    BY <1>2, <1>5, <2>1, Zenon
  <2>3. /\ link[c].out # Silent
        /\ reap' = IF link[c].out.type = "started"
                   THEN [reap EXCEPT ![link[c].out.w] = "wait"] ELSE reap
        /\ UNCHANGED <<hostvars, backlog, gconn, table, term, drops>>
    BY DEF Reply, bounds
  <2> QED  BY <1>2, <2>2, <2>3
<1>8. PICK M : M = Emit(L, e)
  OBVIOUS
<1>9. /\ M \in [Conn -> LinkRecord]
      /\ \A d \in Conn :
            /\ M[d].host = L[d].host /\ M[d].req = L[d].req
            /\ M[d].guest = L[d].guest /\ M[d].out = L[d].out /\ M[d].cut = L[d].cut
            /\ M[d].ev = IF d = gconn /\ ~L[d].cut THEN Append(L[d].ev, e) ELSE L[d].ev
  BY <1>1, <1>6, <1>8, EmitIs
<1>10. link' = M
  BY <1>7, <1>8
<1>11. Emitted(e) /\ \A d \in Conn : link'[d].out = IF d = c THEN Silent ELSE link[d].out
  BY <1>3, <1>6, <1>9, <1>10 DEF Emitted
<1>12. \/ UNCHANGED reap
       \/ \E w \in Wl : /\ e.type = "started" /\ e.w = w
                        /\ reap' = [reap EXCEPT ![w] = "wait"]
  <2>1. CASE e.type = "started"
    <3>1. PICK w \in Wl : w = e.w
      BY <2>1, EventCases
    <3> QED  BY <1>7, <2>1, <3>1
  <2>2. CASE e.type # "started"
    BY <1>7, <2>2
  <2> QED  BY <2>1, <2>2
<1>13. Types'
  BY <1>7, <1>9, <1>10, <1>12 DEF Types, hostvars
<1> QED  BY <1>2, <1>7, <1>11, <1>12, <1>13

LEMMA ReapIs ==
    ASSUME Types, NEW w \in Wl, Reap(w)
    PROVE  /\ Types' /\ reap[w] = "wait" /\ table' = [table EXCEPT ![w] = "exited"]
           /\ reap' = [reap EXCEPT ![w] = "report"]
           /\ UNCHANGED <<hostvars, link, backlog, gconn, drops>>
<1>1. /\ reap[w] = "wait" /\ table' = [table EXCEPT ![w] = "exited"]
      /\ reap' = [reap EXCEPT ![w] = "report"]
      /\ UNCHANGED <<hostvars, link, backlog, gconn, term, drops>>
  BY DEF Reap, bounds
<1>2. table' \in [Wl -> TableState] /\ reap' \in [Wl -> {"none", "wait", "report", "done"}]
  BY <1>1 DEF Types, TableState
<1> QED  BY <1>1, <1>2 DEF Types, hostvars

LEMMA ReportExitIs ==
    ASSUME Types, NEW w \in Wl, ReportExit(w)
    PROVE  /\ Types' /\ reap[w] = "report" /\ Emitted(Exited(w))
           /\ \A d \in Conn : link'[d].out = link[d].out
           /\ reap' = [reap EXCEPT ![w] = "done"]
           /\ UNCHANGED <<hostvars, backlog, gconn, table, drops>>
<1>1. /\ link \in [Conn -> LinkRecord] /\ table \in [Wl -> TableState]
      /\ gconn \in Conn \cup {None}
  BY DEF Types
<1>2. PICK e \in Event : e = Exited(w)
  BY <1>1, EventOK
<1>3. PICK L \in [Conn -> LinkRecord] : L = link
  BY <1>1
<1>4. PICK M : M = Emit(L, e)
  OBVIOUS
<1>5. /\ M \in [Conn -> LinkRecord]
      /\ \A d \in Conn :
            /\ M[d].host = L[d].host /\ M[d].req = L[d].req
            /\ M[d].guest = L[d].guest /\ M[d].out = L[d].out /\ M[d].cut = L[d].cut
            /\ M[d].ev = IF d = gconn /\ ~L[d].cut THEN Append(L[d].ev, e) ELSE L[d].ev
  BY <1>1, <1>4, EmitIs
<1>6. /\ link' = M /\ reap[w] = "report" /\ reap' = [reap EXCEPT ![w] = "done"]
      /\ UNCHANGED <<hostvars, backlog, gconn, table, term, drops>>
  BY <1>2, <1>3, <1>4 DEF ReportExit, bounds
<1>7. Emitted(e) /\ \A d \in Conn : link'[d].out = link[d].out
  BY <1>3, <1>5, <1>6 DEF Emitted
<1>8. Types'
  BY <1>5, <1>6 DEF Types, hostvars
<1> QED  BY <1>2, <1>6, <1>7, <1>8

LEMMA HangUpIs ==
    ASSUME Types, NEW c \in Conn, HangUp(c)
    PROVE  /\ Types' /\ OneLink(c) /\ link[c].cut /\ link[c].guest = "up"
           /\ link'[c].guest = "down"
           /\ link'[c].host = link[c].host /\ link'[c].req = link[c].req
           /\ link'[c].ev = link[c].ev /\ link'[c].out = link[c].out
           /\ link'[c].cut = link[c].cut
           /\ gconn' = IF gconn = c THEN None ELSE gconn
           /\ UNCHANGED <<hostvars, backlog, table, reap, drops>>
<1>1. /\ link[c] \in LinkRecord /\ link[c].cut /\ link[c].guest = "up"
      /\ gconn' = IF gconn = c THEN None ELSE gconn
      /\ UNCHANGED <<hostvars, backlog, table, reap, term, drops>>
  BY DEF HangUp, Types, bounds
<1> DEFINE r == [link[c] EXCEPT !.guest = "down"]
<1>2. link' = [link EXCEPT ![c] = r]
  BY DEF HangUp
<1>3. /\ r \in LinkRecord /\ r.host = link[c].host /\ r.req = link[c].req
      /\ r.ev = link[c].ev /\ r.guest = "down" /\ r.out = link[c].out /\ r.cut = link[c].cut
  BY <1>1 DEF LinkRecord
<1> HIDE DEF r
<1>4. link' \in [Conn -> LinkRecord] /\ link'[c] = r /\ OneLink(c)
  BY <1>2, <1>3, LinkPut
<1>5. Types'
  BY <1>1, <1>4 DEF Types, hostvars
<1> QED  BY <1>1, <1>3, <1>4, <1>5

(* A suspend cuts every connection there is. *)
LEMMA SuspendIs ==
    ASSUME Types, Suspend
    PROVE  /\ Types'
           /\ \A c \in Conn :
                 /\ link'[c].host = link[c].host /\ link'[c].req = link[c].req
                 /\ link'[c].ev = link[c].ev /\ link'[c].guest = link[c].guest
                 /\ link'[c].out = link[c].out
                 /\ link[c] = NoLink => link'[c] = NoLink
                 /\ link[c] # NoLink => link'[c].cut
           /\ UNCHANGED <<hostvars, guestvars, drops>>
<1>1. /\ link' = [c \in Conn |-> IF link[c] = NoLink THEN NoLink ELSE Cut(c)]
      /\ UNCHANGED <<hostvars, guestvars, drops>>
  BY DEF Suspend, bounds
<1>2. ASSUME NEW c \in Conn
      PROVE  /\ link'[c] \in LinkRecord
             /\ link'[c].host = link[c].host /\ link'[c].req = link[c].req
             /\ link'[c].ev = link[c].ev /\ link'[c].guest = link[c].guest
             /\ link'[c].out = link[c].out
             /\ link[c] = NoLink => link'[c] = NoLink
             /\ link[c] # NoLink => link'[c].cut
  <2>1. CASE link[c] = NoLink
    BY <1>1, <2>1, NoLinkOK
  <2>2. CASE link[c] # NoLink
    <3>1. link[c] \in LinkRecord /\ link'[c] = [link[c] EXCEPT !.cut = TRUE]
      BY <1>1, <2>2 DEF Types, Cut
    <3> QED  BY <2>2, <3>1 DEF LinkRecord
  <2> QED  BY <2>1, <2>2
<1>3. link' \in [Conn -> LinkRecord]
  BY <1>1, <1>2
<1>4. Types'
  BY <1>1, <1>3 DEF Types, hostvars, guestvars
<1> QED  BY <1>1, <1>2, <1>4

(* The steps of the VM that cut nothing. *)
VmStep == AutoSuspend \/ ApiSuspend \/ SuspendFails \/ Restore

LEMMA VmStepIs ==
    ASSUME VmStep \/ UNCHANGED vars
    PROVE  UNCHANGED <<hostvars, link, guestvars, drops>>
  BY DEF VmStep, AutoSuspend, ApiSuspend, SuspendFails, Restore, vars, bounds


-----------------------------------------------------------------------------
(* Types hold throughout. *)

(* Every step is one of these, for one task, connection or workload. *)
TaskStep(t) ==
    \/ UseStored(t) \/ Connect(t) \/ ConnectFails(t) \/ Install(t) \/ Register(t)
    \/ SendStart(t) \/ MarkStop(t) \/ SendStop(t) \/ ArmCall(t) \/ Drop(t)

ConnStep(c) == HandleEvent(c) \/ Closed(c) \/ Serve(c) \/ Reply(c) \/ HangUp(c)

LEMMA StepIs ==
    ASSUME [Next]_vars
    PROVE  \/ \E t \in Task : TaskStep(t)
           \/ \E t \in Task, w \in Wl : StartCall(t, w) \/ StopCall(t, w)
           \/ \E c \in Conn : ConnStep(c)
           \/ \E w \in Wl : Reap(w) \/ ReportExit(w)
           \/ Accept \/ Suspend \/ VmStep \/ UNCHANGED vars
  BY DEF Next, CallStep, HostStep, GuestStep, TaskStep, ConnStep, VmStep

LEMMA TypesInit == Init => Types
<1> SUFFICES ASSUME Init PROVE Types
  OBVIOUS
<1>1. /\ wl = [w \in Wl |-> None] /\ stored = None /\ gconn = None
      /\ call = [t \in Task |-> NoCall] /\ link = [c \in Conn |-> NoLink]
      /\ backlog = <<>> /\ table = [w \in Wl |-> "none"]
      /\ reap = [w \in Wl |-> "none"] /\ term = {} /\ drops = 0
  BY DEF Init
<1>2. wl \in [Wl -> Entry \cup {None}] /\ call \in [Task -> CallRecord]
      /\ link \in [Conn -> LinkRecord] /\ backlog \in Seq(Conn)
  BY <1>1, NoCallOK, NoLinkOK
<1>3. \A t \in Task : CallOK(call[t])
  BY <1>1, NoCallOK
<1> QED  BY <1>1, <1>2, <1>3 DEF Types, TableState

LEMMA StartCallIs ==
    ASSUME Types, NEW t \in Task, NEW w \in Wl, StartCall(t, w)
    PROVE  /\ Types' /\ OneCall(t) /\ call[t] = NoCall
           /\ call'[t].pc = "conn" /\ call'[t].op = "start" /\ call'[t].w = w
           /\ wl[w] = None /\ table[w] = "none" /\ \A u \in Task : call[u].w # w
           /\ UNCHANGED <<wl, stored, guestside>>
  BY CallIs DEF StartCall

(* The other two calls: of a stop, or of the arming of the detector. *)
LEMMA OtherCallIs ==
    ASSUME Types, NEW t \in Task,
           ArmCall(t) \/ \E w \in Wl : StopCall(t, w)
    PROVE  /\ Types' /\ OneCall(t) /\ call[t] = NoCall
           /\ call'[t].pc = "conn" /\ call'[t].op \in {"stop", "arm"}
           /\ UNCHANGED <<wl, stored, guestside>>
<1>1. CASE ArmCall(t)
  BY <1>1, CallIs DEF ArmCall
<1>2. CASE \E w \in Wl : StopCall(t, w)
  BY <1>2, CallIs DEF StopCall
<1> QED  BY <1>1, <1>2

LEMMA TypesNext == Types /\ [Next]_vars => Types'
<1> SUFFICES ASSUME Types, [Next]_vars PROVE Types'
  OBVIOUS
<1>1. ASSUME NEW t \in Task, TaskStep(t) PROVE Types'
  BY <1>1, UseStoredIs, ConnectIs, ConnectFailsIs, InstallIs, RegisterIs, SendStartIs,
     MarkStopIs, SendStopIs, OtherCallIs, DropIs DEF TaskStep
<1>2. ASSUME NEW t \in Task, NEW w \in Wl, StartCall(t, w) \/ StopCall(t, w)
      PROVE  Types'
  BY <1>2, StartCallIs, OtherCallIs
<1>3. ASSUME NEW c \in Conn, ConnStep(c) PROVE Types'
  BY <1>3, HandleEventIs, ClosedIs, ServeIs, ReplyIs, HangUpIs DEF ConnStep
<1>4. ASSUME NEW w \in Wl, Reap(w) \/ ReportExit(w) PROVE Types'
  BY <1>4, ReapIs, ReportExitIs
<1>5. ASSUME Accept \/ Suspend \/ VmStep \/ UNCHANGED vars PROVE Types'
  <2>1. CASE Accept \/ Suspend
    BY <2>1, AcceptIs, SuspendIs
  <2>2. CASE VmStep \/ UNCHANGED vars
    BY <2>2, VmStepIs DEF Types, hostvars, guestvars
  <2> QED  BY <1>5, <2>1, <2>2
<1> QED  BY <1>1, <1>2, <1>3, <1>4, <1>5, StepIs

(* Every variable keeps its type, and a call holds a connection exactly    *)
(* where guest_conn has given it one.                                      *)
THEOREM TypeCorrect == Spec => []TypeOK
<1>1. ASSUME Types PROVE TypeOK
  <2>1. ASSUME NEW t \in Task
        PROVE  /\ call[t].w \in Wl \cup {None} /\ call[t].c \in Conn \cup {None}
               /\ call[t].c # None <=>
                     call[t].pc \in {"install", "register", "sendStart", "mark", "sendStop"}
    BY <1>1 DEF Types, CallRecord, CallOK, InHand
  <2>2. ASSUME NEW c \in Conn
        PROVE  /\ link[c].host \in {"none", "up", "down"}
               /\ link[c].guest \in {"none", "queued", "up", "down"}
               /\ \A i \in DOMAIN link[c].req : link[c].req[i] \in Request
               /\ \A i \in DOMAIN link[c].ev : link[c].ev[i] \in Event
               /\ link[c].out \in Event
    BY <1>1 DEF Types, LinkRecord
  <2> QED  BY <1>1, <2>1, <2>2 DEF Types, TypeOK
<1> QED  BY <1>1, TypesInit, TypesNext, PTL DEF Spec

-----------------------------------------------------------------------------
(* What is under way is true. *)

(* An event tells the truth of the guest's table tb. *)
ToldIn(tb, e) ==
    /\ e.type = "exited" => tb[e.w] = "exited"
    /\ e.type = "started" => tb[e.w] # "none"
    /\ e.type = "list" => \A w \in Wl : e.table[w] = "exited" => tb[w] = "exited"

EventsTold == \A c \in Conn :
    /\ ToldIn(table, link[c].out)
    /\ \A i \in DOMAIN link[c].ev : ToldIn(table, link[c].ev[i])

ReapOK == \A w \in Wl :
    /\ reap[w] # "none" => table[w] # "none"
    /\ reap[w] \in {"report", "done"} => table[w] = "exited"

(* A start of w is in a call, or in a request queue; guestd has not seen   *)
(* it, hostd's table has w exactly from Register on, and there is one.     *)
Starting(t, w) == call[t].pc # "idle" /\ call[t].op = "start" /\ call[t].w = w
Asked(c, i, w) == i \in DOMAIN link[c].req /\ link[c].req[i] = Start(w)

InCalls == \A w \in Wl, t \in Task : Starting(t, w) =>
    /\ table[w] = "none" /\ (wl[w] = None <=> call[t].pc # "sendStart")
    /\ \A u \in Task : Starting(u, w) => u = t

InQueues == \A w \in Wl, c \in Conn, i \in Nat : Asked(c, i, w) =>
    /\ table[w] = "none" /\ wl[w] # None /\ \A t \in Task : ~Starting(t, w)
    /\ \A d \in Conn, j \in Nat : Asked(d, j, w) => d = c /\ j = i

Safe == EventsTold /\ ReapOK /\ FinishedMeansExited /\ InCalls /\ InQueues

LEMMA SafeInit == Init => Safe
<1> SUFFICES ASSUME Init PROVE Safe
  OBVIOUS
<1>1. /\ \A w \in Wl : wl[w] = None /\ reap[w] = "none"
      /\ \A t \in Task : call[t].pc = "idle"
      /\ \A c \in Conn : link[c].req = <<>> /\ link[c].ev = <<>> /\ link[c].out = Silent
  BY NoCallOK, NoLinkOK DEF Init
<1>2. /\ \A c \in Conn : DOMAIN link[c].req = {} /\ DOMAIN link[c].ev = {}
      /\ \A c \in Conn : link[c].out.type = "none"
  BY <1>1 DEF Silent
<1>3. EventsTold
  BY <1>2 DEF EventsTold, ToldIn
<1>4. ReapOK /\ FinishedMeansExited /\ InCalls /\ InQueues
  BY <1>1, <1>2 DEF ReapOK, FinishedMeansExited, InCalls, InQueues, Starting, Asked
<1> QED  BY <1>3, <1>4 DEF Safe

(* guestd's table only moves on: none, running, exited. *)
MovesOn == \A w \in Wl : /\ table[w] = "exited" => table'[w] = "exited"
                         /\ table[w] # "none" => table'[w] # "none"

LEMMA StillTold ==
    ASSUME MovesOn, NEW e \in Event, ToldIn(table, e)
    PROVE  ToldIn(table', e)
<1>1. e.type \in {"started", "exited", "error"} => e.w \in Wl
  BY EventCases
<1> QED  BY <1>1 DEF ToldIn, MovesOn

(* Every event under way was under way before, or is true.                 *)
EventsFrom == \A c \in Conn :
    /\ link'[c].out = link[c].out \/ ToldIn(table', link'[c].out)
    /\ \A i \in DOMAIN link'[c].ev :
          \/ ToldIn(table', link'[c].ev[i])
          \/ \E j \in DOMAIN link[c].ev : link'[c].ev[i] = link[c].ev[j]

LEMMA ToldKept ==
    ASSUME Types, EventsTold, MovesOn, EventsFrom
    PROVE  EventsTold'
<1>1. ASSUME NEW c \in Conn
      PROVE  /\ ToldIn(table', link[c].out)
             /\ \A j \in DOMAIN link[c].ev : ToldIn(table', link[c].ev[j])
  <2>1. link[c] \in LinkRecord
    BY DEF Types
  <2>2. link[c].out \in Event /\ \A j \in DOMAIN link[c].ev : link[c].ev[j] \in Event
    BY <2>1 DEF LinkRecord
  <2> QED  BY <2>2, StillTold DEF EventsTold
<1>2. ASSUME NEW c \in Conn
      PROVE  /\ ToldIn(table', link'[c].out)
             /\ \A i \in DOMAIN link'[c].ev : ToldIn(table', link'[c].ev[i])
  BY <1>1 DEF EventsFrom
<1> QED  BY <1>2 DEF EventsTold

(* The starts under way were under way before, each of them once.          *)
CallsFrom == \A t \in Task, w \in Wl :
    Starting(t, w)' => /\ Starting(t, w)
                       /\ call'[t].pc = "sendStart" <=> call[t].pc = "sendStart"

AsksFrom == \A c \in Conn :
    \/ \A i \in Nat, w \in Wl : ~Asked(c, i, w)'
    \/ \A i \in Nat, w \in Wl : Asked(c, i, w)' => Asked(c, i, w)
    \/ \A i \in Nat, w \in Wl : Asked(c, i, w)' => Asked(c, i + 1, w)

TableFrom == \A w \in Wl : /\ wl'[w] = None <=> wl[w] = None
                           /\ table[w] = "none" => table'[w] = "none"

LEMMA StartsKept ==
    ASSUME InCalls, InQueues, CallsFrom, AsksFrom, TableFrom
    PROVE  InCalls' /\ InQueues'
<1>1. InCalls'
  BY DEF InCalls, CallsFrom, TableFrom
<1>2. ASSUME NEW w \in Wl, NEW c \in Conn, NEW i \in Nat, Asked(c, i, w)'
      PROVE  /\ table'[w] = "none" /\ wl'[w] # None /\ \A t \in Task : ~Starting(t, w)'
             /\ \A d \in Conn, j \in Nat : Asked(d, j, w)' => d = c /\ j = i
  <2>1. \A d \in Conn, j \in Nat : Asked(d, j, w)' =>
            Asked(d, j, w) \/ Asked(d, j + 1, w)
    BY DEF AsksFrom
  <2>2. PICK k \in Nat : Asked(c, k, w)
    BY <1>2, <2>1
  <2>3. table[w] = "none" /\ wl[w] # None /\ \A t \in Task : ~Starting(t, w)
    BY <2>2 DEF InQueues
  <2>4. \A d \in Conn, j \in Nat : Asked(d, j, w) => d = c /\ j = k
    BY <2>2 DEF InQueues
  <2>5. \A d \in Conn, j \in Nat : Asked(d, j, w)' => d = c
    BY <2>1, <2>4
  <2>6. \A j \in Nat : Asked(c, j, w)' => j = i
    <3>1. CASE \A j \in Nat, v \in Wl : Asked(c, j, v)' => Asked(c, j, v)
      BY <1>2, <2>4, <3>1
    <3>2. CASE \A j \in Nat, v \in Wl : Asked(c, j, v)' => Asked(c, j + 1, v)
      <4>1. \A j \in Nat : Asked(c, j, w)' => j + 1 = k
        BY <2>4, <3>2
      <4> QED  BY <1>2, <4>1
    <3> QED  BY <1>2, <3>1, <3>2 DEF AsksFrom
  <2> QED  BY <2>3, <2>5, <2>6 DEF TableFrom, CallsFrom
<1> QED  BY <1>1, <1>2 DEF InQueues

ReapFrom == \A w \in Wl : \/ reap'[w] = reap[w]
                          \/ reap'[w] = "wait" /\ table'[w] # "none"
                          \/ table'[w] = "exited"

(* hostd's table reports no new end but of a process that was reaped.      *)
EndsFrom == \A w \in Wl : wl'[w] # None /\ wl'[w].state \in {"Exited", "Stopped"} =>
    \/ wl[w] # None /\ wl[w].state \in {"Exited", "Stopped"}
    \/ table'[w] = "exited"

LEMMA RestKept ==
    ASSUME ReapOK, FinishedMeansExited, MovesOn, ReapFrom, EndsFrom
    PROVE  ReapOK' /\ FinishedMeansExited'
<1>1. ReapOK'
  BY DEF ReapOK, MovesOn, ReapFrom
<1>2. FinishedMeansExited'
  BY DEF FinishedMeansExited, MovesOn, EndsFrom
<1> QED  BY <1>1, <1>2

-----------------------------------------------------------------------------
(* Each action keeps that, and hostd's table keeps the ends it has.        *)

EndsStay == \A w \in Wl : Finished(w) => wl'[w] = None \/ wl'[w].state = wl[w].state

LEMMA SafeKept ==
    ASSUME Types, Safe, MovesOn, EventsFrom, CallsFrom, AsksFrom, TableFrom, ReapFrom,
           EndsFrom
    PROVE  Safe'
<1>1. EventsTold'
  BY ToldKept DEF Safe
<1>2. InCalls' /\ InQueues'
  BY StartsKept DEF Safe
<1>3. ReapOK' /\ FinishedMeansExited'
  BY RestKept DEF Safe
<1> QED  BY <1>1, <1>2, <1>3 DEF Safe

(* One call moves, and begins no start. *)
LEMMA CallMoves ==
    ASSUME NEW t \in Task, OneCall(t),
           \/ call'[t] = NoCall
           \/ call'[t].op \in {"stop", "arm"}
           \/ /\ call[t].pc # "idle" /\ call'[t].op = call[t].op /\ call'[t].w = call[t].w
              /\ call'[t].pc = "sendStart" <=> call[t].pc = "sendStart"
    PROVE  CallsFrom
  BY NoCallOK DEF CallsFrom, Starting, OneCall

(* One queue of requests changes, and no start is added. *)
LEMMA QueueMoves ==
    ASSUME Types, NEW c \in Conn, OneLink(c),
           \/ link'[c].req = link[c].req \/ link'[c].req = <<>> \/ link'[c].req = <<List>>
           \/ link[c].req # <<>> /\ link'[c].req = Tail(link[c].req)
           \/ \E w \in Wl : link'[c].req = Append(link[c].req, Stop(w))
    PROVE  AsksFrom
<1>1. \A d \in Conn : d # c => \A i \in Nat, w \in Wl : Asked(d, i, w)' => Asked(d, i, w)
  BY DEF OneLink, Asked
<1>2. link[c].req \in Seq(Request)
  BY DEF Types, LinkRecord
<1>3. \A w \in Wl : List # Start(w) /\ \A v \in Wl : Stop(v) # Start(w)
  BY DEF List, Start, Stop
<1>4. CASE link'[c].req = link[c].req
  BY <1>1, <1>4 DEF AsksFrom, Asked
<1>5. CASE link'[c].req = <<>> \/ link'[c].req = <<List>>
  <2>1. \A i \in DOMAIN link'[c].req : link'[c].req[i] = List
    BY <1>5
  <2> QED  BY <1>1, <1>3, <2>1 DEF AsksFrom, Asked
<1>6. CASE link[c].req # <<>> /\ link'[c].req = Tail(link[c].req)
  <2>1. \A i \in DOMAIN link'[c].req :
            i + 1 \in DOMAIN link[c].req /\ link'[c].req[i] = link[c].req[i + 1]
    BY <1>2, <1>6, TailIs
  <2> QED  BY <1>1, <2>1 DEF AsksFrom, Asked
<1>7. ASSUME NEW v \in Wl, link'[c].req = Append(link[c].req, Stop(v))
      PROVE  AsksFrom
  <2>1. Stop(v) \in Request
    BY RequestOK
  <2>2. \A i \in DOMAIN link'[c].req :
            \/ i \in DOMAIN link[c].req /\ link'[c].req[i] = link[c].req[i]
            \/ link'[c].req[i] = Stop(v)
    <3>1. PICK n \in Nat : n = Len(link[c].req)
      BY <1>2
    <3>2. /\ DOMAIN link[c].req = 1 .. n /\ DOMAIN link'[c].req = 1 .. n + 1
          /\ \A i \in 1 .. n : link'[c].req[i] = link[c].req[i]
          /\ link'[c].req[n + 1] = Stop(v)
      BY <1>2, <1>7, <2>1, <3>1, AppendIs
    <3>3. \A i \in 1 .. n + 1 : i \in 1 .. n \/ i = n + 1
      OBVIOUS
    <3> QED  BY <3>2, <3>3
  <2> QED  BY <1>1, <1>3, <2>2 DEF AsksFrom, Asked
<1> QED  BY <1>4, <1>5, <1>6, <1>7

(* The events of one connection go, or its next answer is made. *)
LEMMA EventsMove ==
    ASSUME Types, NEW c \in Conn, OneLink(c),
           \/ link'[c].ev = link[c].ev \/ link'[c].ev = <<>>
           \/ link[c].ev # <<>> /\ link'[c].ev = Tail(link[c].ev),
           link'[c].out = link[c].out \/ ToldIn(table', link'[c].out)
    PROVE  EventsFrom
<1>1. link[c].ev \in Seq(Event)
  BY DEF Types, LinkRecord
<1>2. \A i \in DOMAIN link'[c].ev : \E j \in DOMAIN link[c].ev : link'[c].ev[i] = link[c].ev[j]
  <2>1. CASE link'[c].ev = link[c].ev
    BY <2>1
  <2>2. CASE link'[c].ev = <<>>
    <3>1. DOMAIN link'[c].ev = {}
      BY <2>2
    <3> QED  BY <3>1
  <2>3. CASE link[c].ev # <<>> /\ link'[c].ev = Tail(link[c].ev)
    <3>1. \A i \in DOMAIN link'[c].ev :
              i + 1 \in DOMAIN link[c].ev /\ link'[c].ev[i] = link[c].ev[i + 1]
      BY <1>1, <2>3, TailIs
    <3> QED  BY <3>1
  <2> QED  BY <2>1, <2>2, <2>3
<1> QED  BY <1>2 DEF EventsFrom, OneLink

(* What the guest says is not disturbed by the host's steps. *)
LEMMA GuestStill ==
    ASSUME UNCHANGED <<table, reap>>
    PROVE  MovesOn /\ ReapFrom
  BY DEF MovesOn, ReapFrom

LEMMA WlStill ==
    ASSUME UNCHANGED wl, \A w \in Wl : table[w] = "none" => table'[w] = "none"
    PROVE  TableFrom /\ EndsFrom /\ EndsStay
  BY DEF TableFrom, EndsFrom, EndsStay, Finished

LEMMA LinksStill ==
    ASSUME \A c \in Conn : /\ link'[c].req = link[c].req /\ link'[c].ev = link[c].ev
                           /\ link'[c].out = link[c].out
    PROVE  AsksFrom /\ EventsFrom
  BY DEF AsksFrom, Asked, EventsFrom

LEMMA CallsStill == ASSUME UNCHANGED call PROVE CallsFrom
  BY DEF CallsFrom, Starting

LEMMA SafeCalls ==
    ASSUME Types, Safe, NEW t \in Task,
           \/ UseStored(t) \/ ConnectFails(t) \/ ArmCall(t)
           \/ \E w \in Wl : StopCall(t, w)
    PROVE  Safe' /\ EndsStay
<1>1. /\ OneCall(t) /\ UNCHANGED <<wl, guestside>>
      /\ \/ call'[t] = NoCall
         \/ call'[t].op \in {"stop", "arm"}
         \/ /\ call[t].pc = "conn" /\ call'[t].op = call[t].op /\ call'[t].w = call[t].w
            /\ call'[t].pc # "sendStart"
  BY UseStoredIs, ConnectFailsIs, OtherCallIs
<1>2. CallsFrom
  BY <1>1, CallMoves
<1>3. UNCHANGED <<wl, link, table, reap>>
  BY <1>1 DEF guestside, guestvars
<1>4. MovesOn /\ ReapFrom /\ TableFrom /\ EndsFrom /\ EndsStay /\ AsksFrom /\ EventsFrom
  BY <1>3, GuestStill, WlStill, LinksStill
<1> QED  BY <1>2, <1>4, SafeKept

LEMMA SafeConnect ==
    ASSUME Types, Safe, NEW t \in Task, Connect(t)
    PROVE  Safe' /\ EndsStay
<1>1. PICK c \in Conn :
          /\ OneCall(t) /\ OneLink(c) /\ link[c] = NoLink
          /\ link'[c] = [NoLink EXCEPT !.guest = "queued"]
          /\ call[t].pc = "connect" /\ call'[t].pc = "install"
          /\ call'[t].op = call[t].op /\ call'[t].w = call[t].w
          /\ UNCHANGED <<wl, table, reap>>
  BY ConnectIs
<1>2. /\ link'[c].req = link[c].req /\ link'[c].ev = link[c].ev
      /\ link'[c].out = link[c].out
  BY <1>1 DEF NoLink
<1>3. CallsFrom
  BY <1>1, CallMoves
<1>4. AsksFrom /\ EventsFrom
  BY <1>1, <1>2, LinksStill DEF OneLink
<1>5. MovesOn /\ ReapFrom /\ TableFrom /\ EndsFrom /\ EndsStay
  BY <1>1, GuestStill, WlStill
<1> QED  BY <1>3, <1>4, <1>5, SafeKept

LEMMA SafeInstall ==
    ASSUME Types, Safe, NEW t \in Task, Install(t)
    PROVE  Safe' /\ EndsStay
<1>1. PICK c \in Conn :
          /\ OneCall(t) /\ OneLink(c) /\ call[t].pc = "install"
          /\ link'[c].req = <<List>> /\ link'[c].ev = link[c].ev
          /\ link'[c].out = link[c].out
          /\ \/ call'[t] = NoCall
             \/ /\ call'[t].op = call[t].op /\ call'[t].w = call[t].w
                /\ call'[t].pc \in {"register", "mark"}
          /\ UNCHANGED <<wl, guestvars>>
  BY InstallIs
<1>2. CallsFrom
  BY <1>1, CallMoves
<1>3. AsksFrom /\ EventsFrom
  BY <1>1, QueueMoves, EventsMove
<1>4. MovesOn /\ ReapFrom /\ TableFrom /\ EndsFrom /\ EndsStay
  BY <1>1, GuestStill, WlStill DEF guestvars
<1> QED  BY <1>2, <1>3, <1>4, SafeKept

LEMMA SafeDrop ==
    ASSUME Types, Safe, NEW t \in Task, Drop(t)
    PROVE  Safe' /\ EndsStay
<1>1. /\ OneCall(t) /\ call'[t] = NoCall /\ UNCHANGED <<wl, guestvars>>
      /\ \/ UNCHANGED link
         \/ \E c \in Conn : /\ OneLink(c) /\ link'[c].ev = <<>>
                            /\ link'[c].req = link[c].req /\ link'[c].out = link[c].out
  BY DropIs
<1>2. CallsFrom
  BY <1>1, CallMoves
<1>3. AsksFrom /\ EventsFrom
  BY <1>1, QueueMoves, EventsMove, LinksStill
<1>4. MovesOn /\ ReapFrom /\ TableFrom /\ EndsFrom /\ EndsStay
  BY <1>1, GuestStill, WlStill DEF guestvars
<1> QED  BY <1>2, <1>3, <1>4, SafeKept

(* Setting a stop flag changes no state of an entry. *)
LEMMA FlagStays ==
    ASSUME Types, NEW flag \in BOOLEAN,
           UNCHANGED wl \/ \E w \in Wl : Flagged(w, flag), UNCHANGED table
    PROVE  TableFrom /\ EndsFrom /\ EndsStay
<1>1. ASSUME NEW x \in Wl
      PROVE  /\ wl'[x] = None <=> wl[x] = None
             /\ wl[x] # None => wl'[x].state = wl[x].state
  <2>1. CASE wl[x] = None \/ wl'[x] = wl[x]
    BY <2>1 DEF Flagged
  <2>2. CASE wl[x] # None /\ wl'[x] # wl[x]
    <3>1. wl'[x] = [wl[x] EXCEPT !.stop = flag] /\ wl[x] \in Entry
      BY <2>2 DEF Flagged, Types
    <3>2. wl'[x] \in Entry /\ wl'[x].state = wl[x].state
      BY <3>1 DEF Entry
    <3> QED  BY <2>2, <3>2, NoneAssumption
  <2> QED  BY <2>1, <2>2
<1> QED  BY <1>1 DEF TableFrom, EndsFrom, EndsStay, Finished

LEMMA SafeMark ==
    ASSUME Types, Safe, NEW t \in Task, MarkStop(t)
    PROVE  Safe' /\ EndsStay
<1>1. /\ OneCall(t) /\ UNCHANGED guestside
      /\ call'[t] = NoCall \/ call'[t].op = "stop"
      /\ UNCHANGED wl \/ \E w \in Wl : Flagged(w, TRUE)
  BY MarkStopIs
<1>2. UNCHANGED <<link, table, reap>>
  BY <1>1 DEF guestside, guestvars
<1>3. CallsFrom
  BY <1>1, CallMoves
<1>4. TableFrom /\ EndsFrom /\ EndsStay
  BY <1>1, <1>2, FlagStays
<1>5. MovesOn /\ ReapFrom /\ AsksFrom /\ EventsFrom
  BY <1>2, GuestStill, LinksStill
<1> QED  BY <1>3, <1>4, <1>5, SafeKept

LEMMA SafeSendStop ==
    ASSUME Types, Safe, NEW t \in Task, SendStop(t)
    PROVE  Safe' /\ EndsStay
<1>1. PICK w \in Wl, c \in Conn :
          /\ OneCall(t) /\ call'[t] = NoCall /\ UNCHANGED guestvars
          /\ \/ Sent(c, Stop(w)) /\ UNCHANGED wl
             \/ Flagged(w, FALSE) /\ UNCHANGED link
  BY SendStopIs
<1>2. UNCHANGED <<table, reap>>
  BY <1>1 DEF guestvars
<1>3. CallsFrom
  BY <1>1, CallMoves
<1>4. TableFrom /\ EndsFrom /\ EndsStay
  BY <1>1, <1>2, FlagStays
<1>5. AsksFrom /\ EventsFrom
  <2>1. CASE Sent(c, Stop(w))
    BY <2>1, QueueMoves, EventsMove DEF Sent
  <2>2. CASE UNCHANGED link
    BY <2>2, LinksStill
  <2> QED  BY <1>1, <2>1, <2>2
<1>6. MovesOn /\ ReapFrom
  BY <1>2, GuestStill
<1> QED  BY <1>3, <1>4, <1>5, <1>6, SafeKept

(* A start begins, for an id that is nowhere. *)
LEMMA SafeStartCall ==
    ASSUME Types, Safe, NEW t \in Task, NEW w \in Wl, StartCall(t, w)
    PROVE  Safe' /\ EndsStay
<1>1. /\ OneCall(t) /\ call'[t].pc = "conn" /\ call'[t].op = "start" /\ call'[t].w = w
      /\ wl[w] = None /\ table[w] = "none" /\ \A u \in Task : call[u].w # w
      /\ UNCHANGED <<wl, guestside>>
  BY StartCallIs
<1>2. UNCHANGED <<wl, link, table, reap>>
  BY <1>1 DEF guestside, guestvars
<1>3. \A u \in Task, v \in Wl :
          Starting(u, v)' => \/ u = t /\ v = w
                             \/ u # t /\ v # w /\ Starting(u, v) /\ call'[u] = call[u]
  BY <1>1 DEF Starting, OneCall
<1>4. InCalls'
  BY <1>1, <1>2, <1>3 DEF InCalls, Safe
<1>5. \A c \in Conn, i \in Nat : ~Asked(c, i, w)
  BY <1>1 DEF Safe, InQueues
<1>6. InQueues'
  <2>1. \A c \in Conn, i \in Nat, v \in Wl : Asked(c, i, v)' <=> Asked(c, i, v)
    BY <1>2 DEF Asked
  <2>2. ASSUME NEW v \in Wl, NEW c \in Conn, NEW i \in Nat, Asked(c, i, v)
        PROVE  v # w /\ wl'[v] # None /\ \A u \in Task : ~Starting(u, v)'
    <3>1. v # w /\ wl[v] # None /\ \A u \in Task : ~Starting(u, v)
      BY <1>5, <2>2 DEF InQueues, Safe
    <3> QED  BY <1>2, <1>3, <3>1
  <2> QED  BY <1>2, <2>1, <2>2 DEF InQueues, Safe
<1>7. MovesOn /\ EventsFrom /\ ReapFrom /\ EndsFrom /\ EndsStay
  BY <1>2, GuestStill, LinksStill, WlStill
<1>8. EventsTold' /\ ReapOK' /\ FinishedMeansExited'
  BY <1>7, ToldKept, RestKept DEF Safe
<1> QED  BY <1>4, <1>6, <1>7, <1>8 DEF Safe

LEMMA SafeRegister ==
    ASSUME Types, Safe, NEW t \in Task, Register(t)
    PROVE  Safe' /\ EndsStay
<1>1. PICK w \in Wl :
          /\ OneCall(t) /\ call[t].pc = "register" /\ call[t].w = w
          /\ call[t].op = "start" /\ call'[t].pc = "sendStart"
          /\ call'[t].op = call[t].op /\ call'[t].w = call[t].w
          /\ wl' = [wl EXCEPT ![w] = [state |-> "Starting", stop |-> FALSE]]
          /\ UNCHANGED guestside
  BY RegisterIs
<1>2. UNCHANGED <<link, table, reap>>
  BY <1>1 DEF guestside, guestvars
<1>3. Starting(t, w) /\ wl[w] = None /\ table[w] = "none"
  BY <1>1 DEF Starting, Safe, InCalls
<1>4. /\ wl'[w] = [state |-> "Starting", stop |-> FALSE] /\ wl'[w] # None
      /\ \A v \in Wl : v # w => wl'[v] = wl[v]
  <2>1. [state |-> "Starting", stop |-> FALSE] \in Entry
    BY DEF Entry, WorkloadState, Active
  <2>2. wl'[w] = [state |-> "Starting", stop |-> FALSE]
        /\ \A v \in Wl : v # w => wl'[v] = wl[v]
    BY <1>1 DEF Types
  <2> QED  BY <2>1, <2>2, NoneAssumption
<1>5. \A u \in Task, v \in Wl :
          Starting(u, v)' => /\ Starting(u, v)
                             /\ u = t => v = w /\ call'[u].pc = "sendStart"
                             /\ u # t => v # w /\ call'[u] = call[u]
  <2>1. \A u \in Task : Starting(u, w) => u = t
    BY <1>3 DEF Safe, InCalls
  <2> QED  BY <1>1, <2>1 DEF Starting, OneCall
<1>6. InCalls'
  BY <1>2, <1>4, <1>5 DEF InCalls, Safe
<1>7. InQueues'
  <2>1. \A c \in Conn, i \in Nat, v \in Wl : Asked(c, i, v)' <=> Asked(c, i, v)
    BY <1>2 DEF Asked
  <2>2. \A c \in Conn, i \in Nat : ~Asked(c, i, w)
    BY <1>3 DEF InQueues, Safe
  <2>3. ASSUME NEW v \in Wl, NEW c \in Conn, NEW i \in Nat, Asked(c, i, v)
        PROVE  v # w /\ wl'[v] # None /\ \A u \in Task : ~Starting(u, v)'
    <3>1. v # w /\ wl[v] # None /\ \A u \in Task : ~Starting(u, v)
      BY <2>2, <2>3 DEF InQueues, Safe
    <3> QED  BY <1>4, <1>5, <3>1
  <2> QED  BY <1>2, <2>1, <2>3 DEF InQueues, Safe
<1>8. MovesOn /\ EventsFrom /\ ReapFrom
  BY <1>2, GuestStill, LinksStill
<1>9. EndsFrom /\ EndsStay
  BY <1>3, <1>4 DEF EndsFrom, EndsStay, Finished
<1>10. EventsTold' /\ ReapOK' /\ FinishedMeansExited'
  BY <1>8, <1>9, ToldKept, RestKept DEF Safe
<1> QED  BY <1>6, <1>7, <1>9, <1>10 DEF Safe

(* The start of a call becomes a request, or is taken back. *)
LEMMA SafeSendStart ==
    ASSUME Types, Safe, NEW t \in Task, SendStart(t)
    PROVE  Safe' /\ EndsStay
<1>1. PICK w \in Wl, c \in Conn :
          /\ OneCall(t) /\ call[t].pc = "sendStart" /\ call[t].w = w
          /\ call[t].op = "start" /\ call'[t] = NoCall /\ UNCHANGED guestvars
          /\ \/ Sent(c, Start(w)) /\ UNCHANGED wl
             \/ wl' = [wl EXCEPT ![w] = None] /\ UNCHANGED link
  BY SendStartIs
<1>2. UNCHANGED <<table, reap>>
  BY <1>1 DEF guestvars
<1>3. /\ Starting(t, w) /\ wl[w] # None /\ table[w] = "none"
      /\ \A u \in Task : Starting(u, w) => u = t
      /\ \A d \in Conn, i \in Nat : ~Asked(d, i, w)
  <2>1. Starting(t, w)
    BY <1>1 DEF Starting
  <2> QED  BY <1>1, <2>1 DEF Safe, InCalls, InQueues
<1>4. \A u \in Task, v \in Wl : Starting(u, v)' => /\ Starting(u, v) /\ v # w
                                                   /\ call'[u] = call[u]
  BY <1>1, <1>3, NoCallOK DEF Starting, OneCall
<1>5. \A v \in Wl : v # w => wl'[v] = wl[v]
  BY <1>1 DEF Types
<1>6. InCalls'
  BY <1>2, <1>4, <1>5 DEF InCalls, Safe
<1>7. MovesOn /\ ReapFrom
  BY <1>2, GuestStill
<1>8. CASE wl' = [wl EXCEPT ![w] = None] /\ UNCHANGED link
  <2>1. InQueues'
    <3>1. \A d \in Conn, i \in Nat, v \in Wl : Asked(d, i, v)' <=> Asked(d, i, v)
      BY <1>8 DEF Asked
    <3>2. ASSUME NEW v \in Wl, NEW d \in Conn, NEW i \in Nat, Asked(d, i, v)
          PROVE  v # w /\ wl'[v] # None /\ \A u \in Task : ~Starting(u, v)'
      <4>1. v # w /\ wl[v] # None /\ \A u \in Task : ~Starting(u, v)
        BY <1>3, <3>2 DEF InQueues, Safe
      <4> QED  BY <1>4, <1>5, <4>1
    <3> QED  BY <1>2, <3>1, <3>2 DEF InQueues, Safe
  <2>2. wl'[w] = None
    BY <1>8 DEF Types
  <2>3. EndsFrom /\ EndsStay
    BY <1>5, <2>2 DEF EndsFrom, EndsStay, Finished
  <2>4. EventsFrom
    BY <1>8, LinksStill
  <2>5. EventsTold' /\ ReapOK' /\ FinishedMeansExited'
    BY <1>7, <2>3, <2>4, ToldKept, RestKept DEF Safe
  <2> QED  BY <1>6, <2>1, <2>3, <2>5 DEF Safe
<1>9. CASE Sent(c, Start(w)) /\ UNCHANGED wl
  <2>1. PICK n \in Nat : n = Len(link[c].req)
    BY DEF Types, LinkRecord
  <2>2. /\ DOMAIN link[c].req = 1 .. n /\ DOMAIN link'[c].req = 1 .. n + 1
        /\ \A i \in 1 .. n : link'[c].req[i] = link[c].req[i]
        /\ link'[c].req[n + 1] = Start(w)
    <3>1. link[c].req \in Seq(Request) /\ Start(w) \in Request
      BY RequestOK DEF Types, LinkRecord
    <3>2. link'[c].req = Append(link[c].req, Start(w))
      BY <1>9 DEF Sent
    <3> QED  BY <2>1, <3>1, <3>2, AppendIs
  <2>3. \A d \in Conn, i \in Nat, v \in Wl :
            Asked(d, i, v)' => \/ d = c /\ i = n + 1 /\ v = w
                               \/ Asked(d, i, v) /\ v # w
    <3>1. ASSUME NEW d \in Conn, NEW i \in Nat, NEW v \in Wl, Asked(d, i, v)'
          PROVE  (d = c /\ i = n + 1 /\ v = w) \/ Asked(d, i, v)
      <4>1. CASE d # c
        BY <1>9, <3>1, <4>1 DEF Sent, OneLink, Asked
      <4>2. CASE d = c /\ i = n + 1
        <5>1. Start(v).w = v /\ Start(w).w = w
          BY DEF Start
        <5> QED  BY <2>2, <3>1, <4>2, <5>1 DEF Asked
      <4>3. CASE d = c /\ i # n + 1
        <5>1. i \in 1 .. n + 1 /\ link'[c].req[i] = Start(v)
          BY <2>2, <3>1, <4>3 DEF Asked
        <5>2. i \in 1 .. n
          BY <4>3, <5>1
        <5> QED  BY <2>2, <4>3, <5>1, <5>2 DEF Asked
      <4> QED  BY <4>1, <4>2, <4>3
    <3> QED  BY <1>3, <3>1
  <2>4. InQueues'
    <3>1. ASSUME NEW v \in Wl, NEW d \in Conn, NEW i \in Nat, Asked(d, i, v)'
          PROVE  /\ table[v] = "none" /\ wl[v] # None /\ \A u \in Task : ~Starting(u, v)'
                 /\ \A e \in Conn, j \in Nat : Asked(e, j, v)' => e = d /\ j = i
      <4>1. CASE v = w
        BY <1>3, <1>4, <2>3, <3>1, <4>1
      <4>2. CASE v # w
        <5>1. Asked(d, i, v)
          BY <2>3, <3>1, <4>2
        <5> QED  BY <1>4, <2>3, <4>2, <5>1 DEF Safe, InQueues
      <4> QED  BY <4>1, <4>2
    <3> QED  BY <1>2, <1>9, <3>1 DEF InQueues
  <2>5. EventsFrom
    BY <1>9, EventsMove DEF Sent
  <2>6. EndsFrom /\ EndsStay
    BY <1>9 DEF EndsFrom, EndsStay, Finished
  <2>7. EventsTold' /\ ReapOK' /\ FinishedMeansExited'
    BY <1>7, <2>5, <2>6, ToldKept, RestKept DEF Safe
  <2> QED  BY <1>6, <2>4, <2>6, <2>7 DEF Safe
<1> QED  BY <1>1, <1>8, <1>9

(* An event only reports what is true, and spares the ends there are. *)
LEMMA SafeHandleEvent ==
    ASSUME Types, Safe, NEW c \in Conn, HandleEvent(c)
    PROVE  Safe' /\ EndsStay
<1>1. PICK e \in Event :
          /\ Types' /\ OneLink(c) /\ link[c].ev # <<>> /\ e = Head(link[c].ev)
          /\ link'[c].ev = Tail(link[c].ev) /\ link'[c].req = link[c].req
          /\ link'[c].out = link[c].out
          /\ \A w \in Wl : wl'[w] = IF wl[w] = None THEN None ELSE Applied(e, w, wl[w])
          /\ UNCHANGED <<call, guestvars>>
  BY HandleEventIs
<1>2. UNCHANGED <<table, reap>>
  BY <1>1 DEF guestvars
<1>3. ToldIn(table, e)
  <2>1. link[c].ev \in Seq(Event)
    BY DEF Types, LinkRecord
  <2>2. e = link[c].ev[1] /\ 1 \in DOMAIN link[c].ev
    BY <1>1, <2>1, TailIs
  <2> QED  BY <2>2 DEF Safe, EventsTold
<1>4. ASSUME NEW w \in Wl, wl[w] # None
      PROVE  /\ wl'[w] # None
             /\ wl[w].state \notin Active => wl'[w].state = wl[w].state
             /\ wl'[w].state \in {"Exited", "Stopped"} =>
                   wl[w].state \in {"Exited", "Stopped"} \/ table[w] = "exited"
  <2>1. PICK x \in Entry : x = wl[w]
    BY <1>4 DEF Types
  <2>2. wl'[w] = Applied(e, w, x)
    BY <1>1, <1>4, <2>1
  <2>3. /\ wl'[w] \in Entry
        /\ x.state \notin Active => wl'[w].state = x.state
        /\ wl'[w].state \in {"Exited", "Stopped"} =>
               \/ x.state \in {"Exited", "Stopped"}
               \/ e.type = "list" /\ e.table[w] = "exited"
               \/ e.type = "exited" /\ e.w = w
    BY <2>2, AppliedIs
  <2> QED  BY <1>3, <2>1, <2>3, NoneAssumption DEF ToldIn
<1>5. TableFrom /\ EndsFrom /\ EndsStay
  BY <1>1, <1>2, <1>4 DEF TableFrom, EndsFrom, EndsStay, Finished
<1>6. MovesOn /\ ReapFrom /\ CallsFrom /\ AsksFrom /\ EventsFrom
  BY <1>1, <1>2, GuestStill, CallsStill, QueueMoves, EventsMove
<1> QED  BY <1>5, <1>6, SafeKept

LEMMA SafeLink ==
    ASSUME Types, Safe, NEW c \in Conn,
           Closed(c) \/ HangUp(c)
    PROVE  Safe' /\ EndsStay
<1>1. /\ OneLink(c) /\ link'[c].out = link[c].out
      /\ link'[c].req = link[c].req \/ link'[c].req = <<>>
      /\ link'[c].ev = link[c].ev \/ link'[c].ev = <<>>
      /\ UNCHANGED <<wl, call, table, reap>>
  BY ClosedIs, HangUpIs DEF guestvars, hostvars
<1>2. AsksFrom /\ EventsFrom
  BY <1>1, QueueMoves, EventsMove
<1>3. MovesOn /\ ReapFrom /\ CallsFrom /\ TableFrom /\ EndsFrom /\ EndsStay
  BY <1>1, GuestStill, CallsStill, WlStill
<1> QED  BY <1>2, <1>3, SafeKept

LEMMA SafeAccept ==
    ASSUME Types, Safe, Accept
    PROVE  Safe' /\ EndsStay
<1>1. PICK c \in Conn :
          /\ OneLink(c) /\ link'[c].out = link[c].out /\ link'[c].req = link[c].req
          /\ link'[c].ev = link[c].ev /\ UNCHANGED <<hostvars, table, reap>>
  BY AcceptIs
<1>2. UNCHANGED <<wl, call>>
  BY <1>1 DEF hostvars
<1>3. AsksFrom /\ EventsFrom
  BY <1>1, QueueMoves, EventsMove
<1>4. MovesOn /\ ReapFrom /\ CallsFrom /\ TableFrom /\ EndsFrom /\ EndsStay
  BY <1>1, <1>2, GuestStill, CallsStill, WlStill
<1> QED  BY <1>3, <1>4, SafeKept

LEMMA SafeVm ==
    ASSUME Types, Safe, Suspend \/ VmStep \/ UNCHANGED vars
    PROVE  Safe' /\ EndsStay
<1>1. /\ UNCHANGED <<hostvars, table, reap>>
      /\ \A c \in Conn : /\ link'[c].req = link[c].req /\ link'[c].ev = link[c].ev
                         /\ link'[c].out = link[c].out
  BY SuspendIs, VmStepIs DEF guestvars
<1>2. UNCHANGED <<wl, call>>
  BY <1>1 DEF hostvars
<1>3. MovesOn /\ ReapFrom /\ CallsFrom /\ TableFrom /\ EndsFrom /\ EndsStay
      /\ AsksFrom /\ EventsFrom
  BY <1>1, <1>2, GuestStill, CallsStill, WlStill, LinksStill
<1> QED  BY <1>3, SafeKept

(* An event sent reaches one queue, and the rest stays. *)
LEMMA EmittedFrom ==
    ASSUME Types, NEW e \in Event, Emitted(e), ToldIn(table', e),
           \A d \in Conn : link'[d].out = link[d].out \/ link'[d].out = Silent
    PROVE  AsksFrom /\ EventsFrom
<1>1. AsksFrom
  BY DEF Emitted, AsksFrom, Asked
<1>2. Silent.type = "none"
  BY DEF Silent
<1>3. ASSUME NEW d \in Conn, NEW i \in DOMAIN link'[d].ev
      PROVE  \/ ToldIn(table', link'[d].ev[i])
             \/ \E j \in DOMAIN link[d].ev : link'[d].ev[i] = link[d].ev[j]
  <2>1. CASE link'[d].ev = link[d].ev
    BY <1>3, <2>1
  <2>2. CASE link'[d].ev = Append(link[d].ev, e)
    <3>1. link[d].ev \in Seq(Event)
      BY DEF Types, LinkRecord
    <3>2. PICK n \in Nat : n = Len(link[d].ev)
      BY <3>1
    <3>3. /\ DOMAIN link[d].ev = 1 .. n /\ DOMAIN link'[d].ev = 1 .. n + 1
          /\ \A j \in 1 .. n : link'[d].ev[j] = link[d].ev[j]
          /\ link'[d].ev[n + 1] = e
      BY <2>2, <3>1, <3>2, AppendIs
    <3>4. i \in 1 .. n \/ i = n + 1
      BY <1>3, <3>3
    <3> QED  BY <3>3, <3>4
  <2> QED  BY <2>1, <2>2 DEF Emitted
<1>4. EventsFrom
  BY <1>2, <1>3 DEF EventsFrom, ToldIn
<1> QED  BY <1>1, <1>4

LEMMA SafeReply ==
    ASSUME Types, Safe, NEW c \in Conn, Reply(c)
    PROVE  Safe' /\ EndsStay
<1>1. PICK e \in Event :
          /\ e = link[c].out /\ Emitted(e)
          /\ \A d \in Conn : link'[d].out = IF d = c THEN Silent ELSE link[d].out
          /\ \/ UNCHANGED reap
             \/ \E w \in Wl : /\ e.type = "started" /\ e.w = w
                              /\ reap' = [reap EXCEPT ![w] = "wait"]
          /\ UNCHANGED <<hostvars, table>>
  BY ReplyIs
<1>2. UNCHANGED <<wl, call, table>>
  BY <1>1 DEF hostvars
<1>3. ToldIn(table, e)
  BY <1>1 DEF Safe, EventsTold
<1>4. AsksFrom /\ EventsFrom
  BY <1>1, <1>2, <1>3, EmittedFrom
<1>5. ReapFrom
  BY <1>1, <1>2, <1>3 DEF ReapFrom, ToldIn, Types
<1>6. MovesOn /\ CallsFrom /\ TableFrom /\ EndsFrom /\ EndsStay
  BY <1>2, CallsStill, WlStill DEF MovesOn
<1> QED  BY <1>4, <1>5, <1>6, SafeKept

LEMMA SafeReap ==
    ASSUME Types, Safe, NEW w \in Wl, Reap(w)
    PROVE  Safe' /\ EndsStay
<1>1. /\ reap[w] = "wait" /\ table' = [table EXCEPT ![w] = "exited"]
      /\ reap' = [reap EXCEPT ![w] = "report"] /\ UNCHANGED <<hostvars, link>>
  BY ReapIs
<1>2. table'[w] = "exited" /\ \A v \in Wl : v # w => table'[v] = table[v] /\ reap'[v] = reap[v]
  BY <1>1 DEF Types
<1>3. table[w] # "none"
  BY <1>1 DEF Safe, ReapOK
<1>4. MovesOn /\ ReapFrom
  BY <1>2 DEF MovesOn, ReapFrom
<1>5. \A v \in Wl : table[v] = "none" => table'[v] = "none"
  BY <1>2, <1>3
<1>6. CallsFrom /\ TableFrom /\ EndsFrom /\ EndsStay /\ AsksFrom /\ EventsFrom
  BY <1>1, <1>5, CallsStill, WlStill, LinksStill DEF hostvars
<1> QED  BY <1>4, <1>6, SafeKept

LEMMA SafeReportExit ==
    ASSUME Types, Safe, NEW w \in Wl, ReportExit(w)
    PROVE  Safe' /\ EndsStay
<1>1. /\ reap[w] = "report" /\ Emitted(Exited(w))
      /\ \A d \in Conn : link'[d].out = link[d].out
      /\ reap' = [reap EXCEPT ![w] = "done"] /\ UNCHANGED <<hostvars, table>>
  BY ReportExitIs
<1>2. table[w] = "exited"
  BY <1>1 DEF Safe, ReapOK
<1>3. PICK e \in Event : e = Exited(w) /\ e.type = "exited" /\ e.w = w
  <2>1. table \in [Wl -> TableState]
    BY DEF Types
  <2> QED  BY <2>1, EventOK
<1>4. ToldIn(table', e) /\ Emitted(e)
  BY <1>1, <1>2, <1>3 DEF ToldIn
<1>5. AsksFrom /\ EventsFrom
  BY <1>1, <1>4, EmittedFrom
<1>6. ReapFrom
  BY <1>1, <1>2 DEF ReapFrom, Types
<1>7. MovesOn /\ CallsFrom /\ TableFrom /\ EndsFrom /\ EndsStay
  BY <1>1, CallsStill, WlStill DEF MovesOn, hostvars
<1> QED  BY <1>5, <1>6, <1>7, SafeKept

(* guestd takes a request: a start of w is the only one there is. *)
LEMMA SafeServe ==
    ASSUME Types, Safe, NEW c \in Conn, Serve(c)
    PROVE  Safe' /\ EndsStay
<1>1. PICK r \in Request, e \in Event :
          /\ OneLink(c) /\ link[c].req # <<>> /\ r = Head(link[c].req)
          /\ link'[c].req = Tail(link[c].req) /\ link'[c].out = e
          /\ link'[c].ev = link[c].ev /\ Answered(r, e)
          /\ UNCHANGED <<hostvars, reap>>
  BY ServeIs
<1>2. UNCHANGED <<wl, call>>
  BY <1>1 DEF hostvars
<1>3. CallsFrom /\ AsksFrom /\ ReapFrom
  BY <1>1, <1>2, CallsStill, QueueMoves DEF ReapFrom
<1>4. CASE UNCHANGED table
  <2>1. table \in [Wl -> TableState]
    BY DEF Types
  <2>2. ToldIn(table', e)
    <3>1. ListResult.type = "list" /\ ListResult.table = table
          /\ \A w \in Wl : Started(w).type = "started" /\ Started(w).w = w
      BY <2>1, EventOK
    <3>2. CASE e.type \in {"error", "none"}
      BY <3>2 DEF ToldIn
    <3>3. CASE e = ListResult
      BY <1>4, <3>1, <3>3 DEF ToldIn
    <3>4. CASE \E w \in Wl : e = Started(w) /\ table' = [table EXCEPT ![w] = "running"]
      BY <2>1, <3>1, <3>4 DEF ToldIn
    <3> QED  BY <1>1, <3>2, <3>3, <3>4 DEF Answered
  <2>3. EventsFrom
    BY <1>1, <2>2, EventsMove
  <2>4. MovesOn /\ TableFrom /\ EndsFrom /\ EndsStay
    BY <1>2, <1>4, WlStill DEF MovesOn
  <2> QED  BY <1>3, <2>3, <2>4, SafeKept
<1>5. ASSUME NEW w \in Wl, r = Start(w), e = Started(w),
             table' = [table EXCEPT ![w] = "running"]
      PROVE  Safe' /\ EndsStay
  <2>1. link[c].req \in Seq(Request) /\ table \in [Wl -> TableState]
    BY DEF Types, LinkRecord
  <2>2. Asked(c, 1, w)
    BY <1>1, <1>5, <2>1, TailIs DEF Asked
  <2>3. /\ table[w] = "none" /\ wl[w] # None /\ \A t \in Task : ~Starting(t, w)
        /\ \A d \in Conn, j \in Nat : Asked(d, j, w) => d = c /\ j = 1
    BY <2>2 DEF Safe, InQueues
  <2>4. /\ table'[w] = "running" /\ \A v \in Wl : v # w => table'[v] = table[v]
    BY <1>5, <2>1
  <2>5. MovesOn
    BY <2>3, <2>4 DEF MovesOn
  <2>6. ToldIn(table', e)
    <3>1. e.type = "started" /\ e.w = w
      BY <1>5 DEF Started
    <3> QED  BY <2>4, <3>1 DEF ToldIn
  <2>7. EventsFrom
    BY <1>1, <2>6, EventsMove
  <2>8. EndsFrom /\ EndsStay
    BY <1>2 DEF EndsFrom, EndsStay, Finished
  <2>9. EventsTold' /\ ReapOK' /\ FinishedMeansExited'
    BY <1>3, <2>5, <2>7, <2>8, ToldKept, RestKept DEF Safe
  <2>10. \A t \in Task, v \in Wl : Starting(t, v)' => Starting(t, v) /\ v # w
    BY <1>2, <2>3 DEF Starting
  <2>11. InCalls'
    BY <1>2, <2>4, <2>10 DEF Safe, InCalls
  <2>12. \A d \in Conn, i \in Nat, v \in Wl :
             Asked(d, i, v)' => /\ v # w
                                /\ d # c => Asked(d, i, v)
                                /\ d = c => Asked(d, i + 1, v)
    <3>1. \A i \in DOMAIN link'[c].req :
              i + 1 \in DOMAIN link[c].req /\ link'[c].req[i] = link[c].req[i + 1]
      BY <1>1, <2>1, TailIs
    <3>2. \A d \in Conn, i \in Nat, v \in Wl :
              Asked(d, i, v)' => /\ d # c => Asked(d, i, v)
                                 /\ d = c => Asked(d, i + 1, v)
      BY <1>1, <3>1 DEF Asked, OneLink
    <3>3. \A i \in Nat : i + 1 # 1 \/ i = 0
      OBVIOUS
    <3>4. ~Asked(c, 0, w)'
      <4>1. 0 \notin DOMAIN link'[c].req
        <5>1. PICK q \in Seq(Request) : q = link'[c].req
          BY <1>1, <2>1, TailIs
        <5>2. Len(q) \in Nat /\ DOMAIN q = 1 .. Len(q)
          BY <5>1
        <5> QED  BY <5>1, <5>2
      <4> QED  BY <4>1 DEF Asked
    <3> QED  BY <2>3, <3>2, <3>3, <3>4
  <2>13. InQueues'
    <3>1. ASSUME NEW v \in Wl, NEW d \in Conn, NEW i \in Nat, Asked(d, i, v)'
          PROVE  /\ table'[v] = "none" /\ wl[v] # None /\ \A t \in Task : ~Starting(t, v)'
                 /\ \A a \in Conn, j \in Nat : Asked(a, j, v)' => a = d /\ j = i
      <4>1. PICK k \in Nat : /\ Asked(d, k, v) /\ v # w
                             /\ d # c => k = i
                             /\ d = c => k = i + 1
        BY <2>12, <3>1
      <4>2. /\ table[v] = "none" /\ wl[v] # None /\ \A t \in Task : ~Starting(t, v)
            /\ \A a \in Conn, j \in Nat : Asked(a, j, v) => a = d /\ j = k
        BY <4>1 DEF Safe, InQueues
      <4>3. ASSUME NEW a \in Conn, NEW j \in Nat, Asked(a, j, v)'
            PROVE  a = d /\ j = i
        <5>1. CASE a # c
          <6>1. Asked(a, j, v)
            BY <2>12, <4>3, <5>1
          <6>2. a = d /\ j = k
            BY <4>2, <4>3, <6>1
          <6> QED  BY <4>1, <5>1, <6>2
        <5>2. CASE a = c
          <6>1. Asked(a, j + 1, v)
            BY <2>12, <4>3, <5>2
          <6>2. a = d /\ j + 1 = k
            BY <4>2, <4>3, <6>1
          <6> QED  BY <4>1, <5>2, <6>2
        <5> QED  BY <5>1, <5>2
      <4> QED  BY <2>4, <2>10, <4>1, <4>2, <4>3
    <3> QED  BY <1>2, <3>1 DEF InQueues
  <2> QED  BY <2>8, <2>9, <2>11, <2>13 DEF Safe
<1> QED  BY <1>1, <1>4, <1>5 DEF Answered

LEMMA SafeNext ==
    ASSUME Types, Safe, [Next]_vars
    PROVE  Safe' /\ EndsStay
<1>1. ASSUME NEW t \in Task, TaskStep(t) PROVE Safe' /\ EndsStay
  BY <1>1, SafeCalls, SafeConnect, SafeInstall, SafeRegister, SafeSendStart, SafeMark,
     SafeSendStop, SafeDrop DEF TaskStep
<1>2. ASSUME NEW t \in Task, NEW w \in Wl, StartCall(t, w) \/ StopCall(t, w)
      PROVE  Safe' /\ EndsStay
  BY <1>2, SafeStartCall, SafeCalls
<1>3. ASSUME NEW c \in Conn, ConnStep(c) PROVE Safe' /\ EndsStay
  BY <1>3, SafeHandleEvent, SafeLink, SafeServe, SafeReply DEF ConnStep
<1>4. ASSUME NEW w \in Wl, Reap(w) \/ ReportExit(w) PROVE Safe' /\ EndsStay
  BY <1>4, SafeReap, SafeReportExit
<1>5. ASSUME Accept \/ Suspend \/ VmStep \/ UNCHANGED vars PROVE Safe' /\ EndsStay
  BY <1>5, SafeAccept, SafeVm
<1> QED  BY <1>1, <1>2, <1>3, <1>4, <1>5, StepIs

(* hostd reports an end only of a process that guestd has reaped, whatever *)
(* comes late, and over however many connections.                          *)
THEOREM NoFalseEnd == Spec => []FinishedMeansExited
<1>1. Init => Types /\ Safe
  BY TypesInit, SafeInit
<1>2. Types /\ Safe /\ [Next]_vars => (Types /\ Safe)'
  BY TypesNext, SafeNext
<1>3. Safe => FinishedMeansExited
  BY DEF Safe
<1> QED  BY <1>1, <1>2, <1>3, PTL DEF Spec

(* No step changes the state of a workload that has ended in hostd's       *)
(* table.                                                                  *)
THEOREM EndsAreFinal == Spec => TerminalIsFinal
<1>1. Init => Types /\ Safe
  BY TypesInit, SafeInit
<1>2. Types /\ Safe /\ [Next]_vars => (Types /\ Safe)'
  BY TypesNext, SafeNext
<1>3. Types /\ Safe /\ [Next]_vars =>
          [\A w \in Wl : Finished(w) => wl'[w] = None \/ wl'[w].state = wl[w].state]_vars
  BY SafeNext DEF EndsStay
<1> QED  BY <1>1, <1>2, <1>3, PTL DEF Spec, TerminalIsFinal

-----------------------------------------------------------------------------
(* The connections: which of them guestd sends on, and what is on them.    *)

Lists(c) == \E i \in DOMAIN link[c].req : link[c].req[i] = List
Queued(c) == \E i \in DOMAIN backlog : backlog[i] = c

LinkOK(c) ==
    /\ link[c].guest = "none" => link[c] = NoLink
    /\ link[c].guest = "queued" <=> Queued(c)
    /\ link[c].host = "down" \/ link[c].guest = "down" => link[c].cut
    /\ link[c].host = "none" => link[c].req = <<>>
    /\ link[c].guest = "queued" /\ link[c].host = "up" => Lists(c)

(* A connection that hostd has not installed is in the hands of a call.    *)
Installed(c) ==
    link[c].host = "none" /\ link[c].guest # "none" /\ ~link[c].cut =>
        \E t \in Task : call[t].pc = "install" /\ call[t].c = c

Installing(t) ==
    \A c \in Conn : call[t].pc = "install" /\ call[t].c = c =>
        /\ link[c].host = "none" /\ link[c].guest # "none"
        /\ \A u \in Task : call[u].pc = "install" /\ call[u].c = c => u = t

Lines ==
    /\ \A i, j \in DOMAIN backlog : backlog[i] = backlog[j] => i = j
    /\ \A g \in Conn : gconn = g => link[g].guest = "up"

(* As long as no call was dropped, only a suspend cuts connections, and it *)
(* cuts all there are: of those guestd has and those that wait, in order,  *)
(* none is cut after one that is whole, and guestd sends on a whole one.   *)
CutOrder ==
    /\ \A i, j \in DOMAIN backlog :
          i < j /\ link[backlog[j]].cut => link[backlog[i]].cut
    /\ \A i \in DOMAIN backlog, c \in Conn :
          link[backlog[i]].cut /\ link[c].guest = "up" => link[c].cut
    /\ \A c \in Conn : link[c].guest = "up" /\ ~link[c].cut =>
          \E g \in Conn : gconn = g /\ ~link[g].cut

InOrder == drops = 0 => CutOrder

Wired == /\ \A c \in Conn : LinkOK(c) /\ Installed(c)
         /\ \A t \in Task : Installing(t)
         /\ Lines /\ InOrder

(* hostd does not know of the start or of the end of w. *)
Stale(w) ==
    /\ wl[w] # None
    /\ \/ table[w] = "exited" /\ IsActive(w)
       \/ table[w] = "running" /\ wl[w].state = "Starting"

News(e, w) ==
    \/ e.type = "exited" /\ e.w = w /\ table[w] = "exited"
    \/ e.type = "started" /\ e.w = w /\ table[w] = "running"
    \/ e.type = "list" /\ e.table[w] = table[w]

(* hostd will: the news are about to be sent, are on the connection g that *)
(* guestd sends on, or guestd will be asked on it.                         *)
Coming(g, w) ==
    \/ reap[w] = "report"
    \/ \E c \in Conn : News(link[c].out, w)
    \/ \E i \in DOMAIN link[g].ev : News(link[g].ev[i], w)
    \/ Lists(g)
    \/ link[g].host = "none"

Hears(w) == \A g \in Conn :
    gconn = g /\ ~link[g].cut /\ Stale(w) => Coming(g, w)

Heard == \A w \in Wl : Hears(w)

LEMMA WiredInit == Init => Wired /\ Heard
<1> SUFFICES ASSUME Init PROVE Wired /\ Heard
  OBVIOUS
<1>1. /\ \A w \in Wl : wl[w] = None /\ reap[w] = "none"
      /\ \A t \in Task : call[t].pc = "idle"
      /\ \A c \in Conn : link[c] = NoLink
      /\ backlog = <<>> /\ DOMAIN backlog = {} /\ gconn = None
  BY NoCallOK DEF Init
<1>2. ASSUME NEW c \in Conn PROVE LinkOK(c) /\ Installed(c)
  BY <1>1, NoLinkOK DEF LinkOK, Installed, Queued
<1>3. \A t \in Task : Installing(t)
  BY <1>1 DEF Installing
<1>4. Lines /\ CutOrder
  BY <1>1, NoLinkOK, NoneAssumption DEF Lines, CutOrder
<1>5. Heard
  BY <1>1 DEF Heard, Hears, Stale
<1> QED  BY <1>2, <1>3, <1>4, <1>5 DEF Wired, InOrder

GuestsStill == \A c \in Conn : link'[c].guest = link[c].guest
CutsStill == \A c \in Conn : link'[c].cut = link[c].cut

LEMMA LinesKept ==
    ASSUME Types, Lines, InOrder, GuestsStill, UNCHANGED <<backlog, gconn>>,
           drops' # 0 \/ (UNCHANGED drops /\ CutsStill)
    PROVE  Lines' /\ InOrder'
<1>1. \A i \in DOMAIN backlog : backlog[i] \in Conn
  BY DEF Types
<1>2. Lines'
  BY DEF Lines, GuestsStill
<1>3. InOrder'
  BY <1>1 DEF InOrder, CutOrder, GuestsStill, CutsStill
<1> QED  BY <1>2, <1>3

(* No connection gets into the hands of a call, or out of them. *)
HandsStill == \A t \in Task, c \in Conn :
    call'[t].pc = "install" /\ call'[t].c = c <=> call[t].pc = "install" /\ call[t].c = c

NonesStill == \A c \in Conn :
    /\ link'[c].host = "none" <=> link[c].host = "none"
    /\ link'[c].guest = "none" <=> link[c].guest = "none"
    /\ link[c].cut => link'[c].cut

LEMMA InstallsKept ==
    ASSUME \A c \in Conn : Installed(c), \A t \in Task : Installing(t), HandsStill, NonesStill
    PROVE  (\A c \in Conn : Installed(c)') /\ (\A t \in Task : Installing(t)')
<1>1. ASSUME NEW c \in Conn PROVE Installed(c)'
  BY DEF Installed, HandsStill, NonesStill
<1>2. ASSUME NEW t \in Task PROVE Installing(t)'
  BY DEF Installing, HandsStill, NonesStill
<1> QED  BY <1>1, <1>2

LEMMA HandsKept ==
    ASSUME UNCHANGED call \/ \E t \in Task : /\ OneCall(t) /\ call[t].pc # "install"
                                             /\ call'[t].pc # "install"
    PROVE  HandsStill
  BY DEF HandsStill, OneCall

(* One connection, of which the guest knows as much as before. *)
LinkFrom(c) ==
    /\ link'[c].guest = link[c].guest
    /\ link[c].guest = "none" => link'[c] = NoLink
    /\ link[c].cut => link'[c].cut
    /\ link'[c].host \in {"none", "up"} \/ link'[c].host = link[c].host \/ link'[c].cut
    /\ link'[c].host = "none" => link'[c].req = <<>>
    /\ link'[c].host = "up" => \/ Lists(c)'
                               \/ link[c].guest # "queued"
                               \/ link[c].host = "up" /\ (Lists(c) => Lists(c)')

LEMMA LinkKept ==
    ASSUME NEW c \in Conn, LinkOK(c), LinkFrom(c), UNCHANGED backlog
    PROVE  LinkOK(c)'
<1>1. Queued(c)' <=> Queued(c)
  BY DEF Queued
<1> QED  BY <1>1 DEF LinkOK, LinkFrom

LEMMA SameLinkFrom ==
    ASSUME NEW c \in Conn, LinkOK(c), link'[c] = link[c]
    PROVE  LinkFrom(c)
  BY DEF LinkOK, LinkFrom, Lists

LEMMA WiredKept ==
    ASSUME Types, Wired, HandsStill, NonesStill, \A c \in Conn : LinkFrom(c),
           UNCHANGED <<backlog, gconn>>, drops' # 0 \/ (UNCHANGED drops /\ CutsStill)
    PROVE  Wired'
<1>1. \A c \in Conn : LinkOK(c)'
  BY LinkKept DEF Wired
<1>2. (\A c \in Conn : Installed(c)') /\ (\A t \in Task : Installing(t)')
  BY InstallsKept DEF Wired
<1>3. Lines' /\ InOrder'
  <2>1. GuestsStill
    BY DEF GuestsStill, LinkFrom
  <2> QED  BY <2>1, LinesKept DEF Wired
<1> QED  BY <1>1, <1>2, <1>3 DEF Wired

StaleFrom == \A w \in Wl : Stale(w)' => Stale(w)

LEMMA StaleStill == ASSUME UNCHANGED <<wl, table>> PROVE StaleFrom
  BY DEF StaleFrom, Stale, IsActive

(* What was coming on a connection still comes. *)
LEMMA HeardKept ==
    ASSUME Heard, StaleFrom, UNCHANGED gconn, \A c \in Conn : link[c].cut => link'[c].cut,
           \A g \in Conn, w \in Wl :
              gconn = g /\ ~link'[g].cut /\ Stale(w)' /\ Coming(g, w) => Coming(g, w)'
    PROVE  Heard'
<1> SUFFICES ASSUME NEW w \in Wl, NEW g \in Conn, gconn' = g, ~link'[g].cut, Stale(w)'
             PROVE  Coming(g, w)'
  BY DEF Heard, Hears
<1>1. gconn = g /\ ~link[g].cut /\ Stale(w)
  BY DEF StaleFrom
<1>2. Coming(g, w)
  BY <1>1 DEF Heard, Hears
<1> QED  BY <1>1, <1>2

(* No event is taken or lost on a whole connection, and no list request.   *)
ComingFrom(g) ==
    /\ \A i \in DOMAIN link[g].ev : i \in DOMAIN link'[g].ev /\ link'[g].ev[i] = link[g].ev[i]
    /\ Lists(g) => Lists(g)'
    /\ link[g].host = "none" => link'[g].host = "none" \/ Lists(g)'

LEMMA ComingKept ==
    ASSUME NEW g \in Conn, NEW w \in Wl, UNCHANGED <<table, reap>>, ComingFrom(g),
           \A c \in Conn : link'[c].out = link[c].out, Coming(g, w)
    PROVE  Coming(g, w)'
<1>1. \A e : News(e, w)' <=> News(e, w)
  BY DEF News
<1> QED  BY <1>1 DEF Coming, ComingFrom

-----------------------------------------------------------------------------
(* Each action keeps the connections in order, and hostd in the know.      *)

LEMMA SameLinks ==
    ASSUME Wired, UNCHANGED link
    PROVE  NonesStill /\ CutsStill /\ \A c \in Conn : LinkFrom(c)
<1>1. \A c \in Conn : LinkFrom(c)
  BY SameLinkFrom DEF Wired
<1> QED  BY <1>1 DEF NonesStill, CutsStill

LEMMA QuietStep ==
    ASSUME Types, Wired, Heard, UNCHANGED <<link, backlog, gconn, table, reap>>,
           drops' # 0 \/ UNCHANGED drops, HandsStill, StaleFrom
    PROVE  Wired' /\ Heard'
<1>1. NonesStill /\ CutsStill /\ \A c \in Conn : LinkFrom(c)
  BY SameLinks
<1>2. Wired'
  BY <1>1, WiredKept
<1>3. ASSUME NEW g \in Conn, NEW w \in Wl, Coming(g, w) PROVE Coming(g, w)'
  <2>1. ComingFrom(g)
    BY DEF ComingFrom, Lists
  <2> QED  BY <1>3, <2>1, ComingKept
<1>4. Heard'
  BY <1>1, <1>3, HeardKept DEF CutsStill
<1> QED  BY <1>2, <1>4

LEMMA WiredCalls ==
    ASSUME Types, Wired, Heard, NEW t \in Task,
           \/ UseStored(t) \/ ConnectFails(t) \/ ArmCall(t)
           \/ \E w \in Wl : StartCall(t, w) \/ StopCall(t, w)
    PROVE  Wired' /\ Heard'
<1>1. /\ OneCall(t) /\ UNCHANGED <<wl, guestside>>
      /\ call[t] = NoCall \/ call[t].pc \in {"conn", "connect"}
      /\ call'[t] = NoCall \/ call'[t].pc \in {"conn", "connect", "register", "mark"}
  BY UseStoredIs, ConnectFailsIs, OtherCallIs, StartCallIs
<1>2. HandsStill
  BY <1>1, NoCallOK, HandsKept
<1>3. UNCHANGED <<wl, link, backlog, gconn, table, reap, drops>>
  BY <1>1 DEF guestside, guestvars
<1> QED  BY <1>2, <1>3, StaleStill, QuietStep

LEMMA WiredVm ==
    ASSUME Types, Wired, Heard, VmStep \/ UNCHANGED vars
    PROVE  Wired' /\ Heard'
<1>1. UNCHANGED <<wl, call, link, backlog, gconn, table, reap, drops>>
  BY VmStepIs DEF hostvars, guestvars
<1> QED  BY <1>1, HandsKept, StaleStill, QuietStep

LEMMA WiredRegister ==
    ASSUME Types, Safe, Wired, Heard, NEW t \in Task, Register(t)
    PROVE  Wired' /\ Heard'
<1>1. PICK w \in Wl :
          /\ OneCall(t) /\ call[t].pc = "register" /\ call[t].w = w
          /\ call[t].op = "start" /\ call'[t].pc = "sendStart"
          /\ wl' = [wl EXCEPT ![w] = [state |-> "Starting", stop |-> FALSE]]
          /\ UNCHANGED guestside
  BY RegisterIs
<1>2. UNCHANGED <<link, backlog, gconn, table, reap, drops>>
  BY <1>1 DEF guestside, guestvars
<1>3. HandsStill
  BY <1>1, HandsKept
<1>4. table[w] = "none"
  BY <1>1 DEF Safe, InCalls, Starting
<1>5. \A v \in Wl : v # w => wl'[v] = wl[v]
  BY <1>1 DEF Types
<1>6. StaleFrom
  BY <1>2, <1>4, <1>5 DEF StaleFrom, Stale, IsActive
<1> QED  BY <1>2, <1>3, <1>6, QuietStep

LEMMA FlagStale ==
    ASSUME Types, NEW flag \in BOOLEAN,
           UNCHANGED wl \/ \E w \in Wl : Flagged(w, flag), UNCHANGED table
    PROVE  StaleFrom
<1>1. ASSUME NEW x \in Wl
      PROVE  wl'[x] = wl[x] \/ (wl[x] # None /\ wl'[x].state = wl[x].state)
  <2>1. CASE wl[x] = None \/ wl'[x] = wl[x]
    BY <2>1 DEF Flagged
  <2>2. CASE wl[x] # None /\ wl'[x] # wl[x]
    <3>1. wl'[x] = [wl[x] EXCEPT !.stop = flag] /\ wl[x] \in Entry
      BY <2>2 DEF Flagged, Types
    <3>2. wl'[x].state = wl[x].state
      BY <3>1 DEF Entry
    <3> QED  BY <2>2, <3>2
  <2> QED  BY <2>1, <2>2
<1> QED  BY <1>1 DEF StaleFrom, Stale, IsActive

LEMMA WiredMark ==
    ASSUME Types, Wired, Heard, NEW t \in Task, MarkStop(t)
    PROVE  Wired' /\ Heard'
<1>1. /\ OneCall(t) /\ UNCHANGED guestside /\ call[t].pc = "mark"
      /\ call'[t] = NoCall \/ call'[t].pc = "sendStop"
      /\ UNCHANGED wl \/ \E w \in Wl : Flagged(w, TRUE)
  BY MarkStopIs
<1>2. UNCHANGED <<link, backlog, gconn, table, reap, drops>>
  BY <1>1 DEF guestside, guestvars
<1>3. HandsStill
  BY <1>1, NoCallOK, HandsKept
<1>4. StaleFrom
  BY <1>1, <1>2, FlagStale
<1> QED  BY <1>2, <1>3, <1>4, QuietStep

(* One connection moves, and the guest knows as much of it as before. *)
LEMMA OneWired ==
    ASSUME Types, Wired, NEW c \in Conn, OneLink(c), LinkFrom(c), HandsStill,
           link'[c].host = "none" <=> link[c].host = "none",
           link'[c].cut = link[c].cut, UNCHANGED <<backlog, gconn, drops>>
    PROVE  Wired' /\ CutsStill
<1>1. \A d \in Conn : LinkFrom(d)
  BY SameLinkFrom DEF Wired, OneLink
<1>2. NonesStill /\ CutsStill
  BY DEF NonesStill, CutsStill, OneLink, LinkFrom
<1> QED  BY <1>1, <1>2, WiredKept

(* A connection that is not the empty one is one guestd will know.         *)
LEMMA Known ==
    ASSUME Wired, NEW c \in Conn,
           \/ link[c].host # "none" \/ link[c].ev # <<>> \/ link[c].req # <<>>
           \/ link[c].out # Silent \/ link[c].cut
    PROVE  link[c].guest # "none"
  BY NoLinkOK DEF Wired, LinkOK

LEMMA SendListed ==
    ASSUME Types, NEW c \in Conn, NEW r \in Request, Sent(c, r)
    PROVE  Lists(c) => Lists(c)'
<1>1. link[c].req \in Seq(Request)
  BY DEF Types, LinkRecord
<1>2. \A i \in DOMAIN link[c].req :
          i \in DOMAIN link'[c].req /\ link'[c].req[i] = link[c].req[i]
  BY <1>1, AppendIs DEF Sent
<1> QED  BY <1>2 DEF Lists

LEMMA SentWired ==
    ASSUME Types, Wired, Heard, NEW c \in Conn, NEW r \in Request, link[c].host = "up",
           Sent(c, r), HandsStill, UNCHANGED <<wl, guestvars, drops>>
    PROVE  Wired' /\ Heard'
<1>1. Lists(c) => Lists(c)'
  BY SendListed
<1>2. LinkFrom(c)
  BY <1>1, Known DEF Sent, LinkFrom
<1>3. UNCHANGED <<backlog, gconn, table, reap>>
  BY DEF guestvars
<1>4. Wired' /\ CutsStill
  BY <1>2, <1>3, OneWired DEF Sent
<1>5. ASSUME NEW g \in Conn, NEW w \in Wl, Coming(g, w) PROVE Coming(g, w)'
  <2>1. ComingFrom(g)
    BY <1>1 DEF ComingFrom, Lists, Sent, OneLink
  <2>2. \A d \in Conn : link'[d].out = link[d].out
    BY DEF Sent, OneLink
  <2> QED  BY <1>3, <1>5, <2>1, <2>2, ComingKept
<1>6. Heard'
  BY <1>3, <1>4, <1>5, StaleStill, HeardKept DEF CutsStill
<1> QED  BY <1>4, <1>6

LEMMA WiredSend ==
    ASSUME Types, Wired, Heard, NEW t \in Task, SendStart(t) \/ SendStop(t)
    PROVE  Wired' /\ Heard'
<1>1. CASE SendStart(t)
  <2>1. PICK w \in Wl, c \in Conn :
            /\ OneCall(t) /\ call[t].pc = "sendStart" /\ call'[t] = NoCall
            /\ UNCHANGED <<guestvars, drops>>
            /\ \/ link[c].host = "up" /\ Sent(c, Start(w)) /\ UNCHANGED wl
               \/ wl' = [wl EXCEPT ![w] = None] /\ UNCHANGED link
    BY <1>1, SendStartIs
  <2>2. HandsStill
    BY <2>1, NoCallOK, HandsKept
  <2>3. CASE Sent(c, Start(w)) /\ link[c].host = "up" /\ UNCHANGED wl
    BY <2>1, <2>2, <2>3, RequestOK, SentWired
  <2>4. CASE wl' = [wl EXCEPT ![w] = None] /\ UNCHANGED link
    <3>1. UNCHANGED <<backlog, gconn, table, reap, drops>>
      BY <2>1 DEF guestvars
    <3>2. \A v \in Wl : wl'[v] = None \/ wl'[v] = wl[v]
      BY <2>4 DEF Types
    <3>3. StaleFrom
      BY <3>1, <3>2 DEF StaleFrom, Stale, IsActive
    <3> QED  BY <2>2, <2>4, <3>1, <3>3, QuietStep
  <2> QED  BY <2>1, <2>3, <2>4
<1>2. CASE SendStop(t)
  <2>1. PICK w \in Wl, c \in Conn :
            /\ OneCall(t) /\ call[t].pc = "sendStop" /\ call'[t] = NoCall
            /\ UNCHANGED <<guestvars, drops>>
            /\ \/ link[c].host = "up" /\ Sent(c, Stop(w)) /\ UNCHANGED wl
               \/ Flagged(w, FALSE) /\ UNCHANGED link
    BY <1>2, SendStopIs
  <2>2. HandsStill
    BY <2>1, NoCallOK, HandsKept
  <2>3. CASE Sent(c, Stop(w)) /\ link[c].host = "up" /\ UNCHANGED wl
    BY <2>1, <2>2, <2>3, RequestOK, SentWired
  <2>4. CASE Flagged(w, FALSE) /\ UNCHANGED link
    <3>1. UNCHANGED <<backlog, gconn, table, reap, drops>>
      BY <2>1 DEF guestvars
    <3>2. StaleFrom
      BY <2>4, <3>1, FlagStale
    <3> QED  BY <2>2, <2>4, <3>1, <3>2, QuietStep
  <2> QED  BY <2>1, <2>3, <2>4
<1> QED  BY <1>1, <1>2

(* hostd reads an event: the news it was, it has taken in. *)
LEMMA WiredHandleEvent ==
    ASSUME Types, Wired, Heard, NEW c \in Conn, HandleEvent(c)
    PROVE  Wired' /\ Heard'
<1>1. PICK e \in Event :
          /\ OneLink(c) /\ link[c].ev # <<>> /\ e = Head(link[c].ev)
          /\ link'[c].ev = Tail(link[c].ev)
          /\ link'[c].host = link[c].host /\ link'[c].req = link[c].req
          /\ link'[c].guest = link[c].guest /\ link'[c].out = link[c].out
          /\ link'[c].cut = link[c].cut
          /\ \A w \in Wl : wl'[w] = IF wl[w] = None THEN None ELSE Applied(e, w, wl[w])
          /\ UNCHANGED <<call, guestvars, drops>>
  BY HandleEventIs
<1>2. UNCHANGED <<backlog, gconn, table, reap>>
  BY <1>1 DEF guestvars
<1>3. LinkFrom(c)
  <2>1. link[c].guest # "none"
    BY <1>1, Known
  <2>2. Lists(c)' <=> Lists(c)
    BY <1>1 DEF Lists
  <2> QED  BY <1>1, <2>1, <2>2 DEF LinkFrom, Wired, LinkOK
<1>4. Wired' /\ CutsStill
  BY <1>1, <1>2, <1>3, HandsKept, OneWired
<1>5. ASSUME NEW w \in Wl, Stale(w)'
      PROVE  Stale(w) /\ ~News(e, w)
  <2>1. wl[w] # None /\ wl'[w] # None
    BY <1>1, <1>5 DEF Stale
  <2>2. PICK x \in Entry : x = wl[w]
    BY <2>1 DEF Types
  <2>3. wl'[w] = Applied(e, w, x)
    BY <1>1, <2>1, <2>2
  <2>4. PICK y : y = wl'[w]
    OBVIOUS
  <2>5. /\ y \in Entry
        /\ x.state \notin Active => y.state = x.state
        /\ y.state = "Starting" => x.state = "Starting"
        /\ e.type = "list" /\ e.table[w] = "exited" => y.state \notin Active
        /\ e.type = "exited" /\ e.w = w => y.state \notin Active
        /\ e.type = "list" /\ e.table[w] = "running" => y.state # "Starting"
        /\ e.type = "started" /\ e.w = w => y.state # "Starting"
    BY <2>3, <2>4, AppliedIs
  <2>6. \/ table[w] = "exited" /\ y.state \in Active
        \/ table[w] = "running" /\ y.state = "Starting"
    BY <1>2, <1>5, <2>4 DEF Stale, IsActive
  <2>7. Stale(w)
    BY <2>1, <2>2, <2>5, <2>6 DEF Stale, IsActive
  <2>8. ~News(e, w)
    BY <2>5, <2>6 DEF News
  <2> QED  BY <2>7, <2>8
<1>6. ASSUME NEW g \in Conn, NEW w \in Wl, Stale(w)', Coming(g, w)
      PROVE  Coming(g, w)'
  <2>1. \A d \in Conn : link'[d].out = link[d].out
    BY <1>1 DEF OneLink
  <2>2. CASE g # c
    <3>1. ComingFrom(g)
      BY <1>1, <2>2 DEF ComingFrom, OneLink, Lists
    <3> QED  BY <1>2, <1>6, <2>1, <3>1, ComingKept
  <2>3. CASE g = c
    <3>1. \A f : News(f, w)' <=> News(f, w)
      BY <1>2 DEF News
    <3>2. link[c].ev \in Seq(Event)
      BY DEF Types, LinkRecord
    <3>3. /\ e = link[c].ev[1]
          /\ \A i \in DOMAIN link[c].ev : i # 1 => /\ i - 1 \in DOMAIN link'[c].ev
                                                   /\ link'[c].ev[i - 1] = link[c].ev[i]
      BY <1>1, <3>2, TailIs
    <3>4. CASE \E i \in DOMAIN link[c].ev : News(link[c].ev[i], w)
      <4>1. PICK i \in DOMAIN link[c].ev : News(link[c].ev[i], w)
        BY <3>4
      <4>2. i # 1
        BY <1>5, <1>6, <3>3, <4>1
      <4> QED  BY <2>3, <3>1, <3>3, <4>1, <4>2 DEF Coming
    <3>5. CASE \/ reap[w] = "report" \/ Lists(c) \/ link[c].host = "none"
               \/ \E d \in Conn : News(link[d].out, w)
      BY <1>1, <1>2, <2>1, <2>3, <3>1, <3>5 DEF Coming, Lists
    <3> QED  BY <1>6, <2>3, <3>4, <3>5 DEF Coming
  <2> QED  BY <2>2, <2>3
<1>7. StaleFrom
  BY <1>5 DEF StaleFrom
<1>8. Heard'
  BY <1>2, <1>4, <1>6, <1>7, HeardKept DEF CutsStill
<1> QED  BY <1>4, <1>8

(* A connection that is cut, after the step, is none that guestd sends on. *)
LEMMA CutHeard ==
    ASSUME Types, Heard, NEW c \in Conn, OneLink(c), link'[c].cut,
           link'[c].out = link[c].out, UNCHANGED <<wl, table, reap, gconn>>
    PROVE  Heard'
<1>1. ASSUME NEW g \in Conn, NEW w \in Wl, ~link'[g].cut, Coming(g, w)
      PROVE  Coming(g, w)'
  <2>1. g # c
    BY <1>1
  <2>2. ComingFrom(g)
    BY <2>1 DEF ComingFrom, OneLink, Lists
  <2>3. \A d \in Conn : link'[d].out = link[d].out
    BY DEF OneLink
  <2> QED  BY <1>1, <2>2, <2>3, ComingKept
<1>2. \A d \in Conn : link[d].cut => link'[d].cut
  BY DEF OneLink
<1> QED  BY <1>1, <1>2, StaleStill, HeardKept

LEMMA WiredClosed ==
    ASSUME Types, Wired, Heard, NEW c \in Conn, Closed(c)
    PROVE  Wired' /\ Heard'
<1>1. /\ OneLink(c) /\ link[c].cut
      /\ link'[c].host = "down" /\ link[c].host = "up"
      /\ link'[c].guest = link[c].guest /\ link'[c].out = link[c].out
      /\ link'[c].cut = link[c].cut
      /\ UNCHANGED <<wl, call, guestvars, drops>>
  BY ClosedIs
<1>2. UNCHANGED <<backlog, gconn, table, reap>>
  BY <1>1 DEF guestvars
<1>3. LinkFrom(c)
  BY <1>1, Known DEF LinkFrom
<1>4. Wired'
  BY <1>1, <1>2, <1>3, HandsKept, OneWired
<1>5. Heard'
  BY <1>1, <1>2, CutHeard
<1> QED  BY <1>4, <1>5

(* The call with connection c in hand lets go of it.                       *)
LEMMA HandLetsGo ==
    ASSUME Wired, NEW t \in Task, NEW c \in Conn, call[t].pc = "install", call[t].c = c,
           OneCall(t), call'[t].pc # "install", OneLink(c),
           link'[c].host # "none", link[c].cut => link'[c].cut,
           link'[c].guest = link[c].guest
    PROVE  (\A d \in Conn : Installed(d)') /\ (\A u \in Task : Installing(u)')
<1>1. \A u \in Task, d \in Conn :
          call'[u].pc = "install" /\ call'[u].c = d =>
              call[u].pc = "install" /\ call[u].c = d /\ u # t /\ d # c
  <2>1. \A u \in Task : call[u].pc = "install" /\ call[u].c = c => u = t
    BY DEF Wired, Installing
  <2> QED  BY <2>1 DEF OneCall
<1>2. \A u \in Task, d \in Conn :
          call[u].pc = "install" /\ call[u].c = d /\ d # c =>
              call'[u].pc = "install" /\ call'[u].c = d
  BY DEF OneCall
<1>3. ASSUME NEW d \in Conn PROVE Installed(d)'
  <2>1. CASE d = c
    BY <2>1 DEF Installed
  <2>2. CASE d # c
    BY <1>2, <2>2 DEF Installed, Wired, OneLink
  <2> QED  BY <2>1, <2>2
<1>4. ASSUME NEW u \in Task PROVE Installing(u)'
  BY <1>1 DEF Installing, Wired, OneLink
<1> QED  BY <1>3, <1>4

LEMMA WiredInstall ==
    ASSUME Types, Wired, Heard, NEW t \in Task, Install(t)
    PROVE  Wired' /\ Heard'
<1>1. PICK c \in Conn :
          /\ OneCall(t) /\ OneLink(c) /\ call[t].pc = "install" /\ call[t].c = c
          /\ link'[c].host = "up" /\ link'[c].req = <<List>>
          /\ link'[c].ev = link[c].ev /\ link'[c].guest = link[c].guest
          /\ link'[c].out = link[c].out /\ link'[c].cut = link[c].cut
          /\ call'[t] = NoCall \/ call'[t].pc \in {"register", "mark"}
          /\ UNCHANGED <<wl, guestvars, drops>>
  BY InstallIs
<1>2. UNCHANGED <<backlog, gconn, table, reap>>
  BY <1>1 DEF guestvars
<1>3. link[c].guest # "none"
  BY <1>1 DEF Wired, Installing
<1>4. Lists(c)'
  <2>1. 1 \in DOMAIN link'[c].req /\ link'[c].req[1] = List
    BY <1>1
  <2> QED  BY <2>1 DEF Lists
<1>5. \A d \in Conn : LinkFrom(d)
  <2>1. LinkFrom(c)
    BY <1>1, <1>3, <1>4 DEF LinkFrom
  <2> QED  BY <1>1, <2>1, SameLinkFrom DEF Wired, OneLink
<1>6. (\A d \in Conn : Installed(d)') /\ (\A u \in Task : Installing(u)')
  BY <1>1, NoCallOK, HandLetsGo
<1>7. GuestsStill /\ CutsStill
  BY <1>1 DEF GuestsStill, CutsStill, OneLink
<1>8. Wired'
  <2>1. \A d \in Conn : LinkOK(d)'
    BY <1>2, <1>5, LinkKept DEF Wired
  <2>2. Lines' /\ InOrder'
    BY <1>1, <1>2, <1>7, LinesKept DEF Wired
  <2> QED  BY <1>6, <2>1, <2>2 DEF Wired
<1>9. ASSUME NEW g \in Conn, NEW w \in Wl, Coming(g, w) PROVE Coming(g, w)'
  <2>1. ComingFrom(g)
    BY <1>1, <1>4 DEF ComingFrom, OneLink, Lists
  <2>2. \A d \in Conn : link'[d].out = link[d].out
    BY <1>1 DEF OneLink
  <2> QED  BY <1>2, <1>9, <2>1, <2>2, ComingKept
<1>10. Heard'
  BY <1>1, <1>2, <1>7, <1>9, StaleStill, HeardKept DEF CutsStill
<1> QED  BY <1>8, <1>10

LEMMA WiredDrop ==
    ASSUME Types, Wired, Heard, NEW t \in Task, Drop(t)
    PROVE  Wired' /\ Heard'
<1>1. /\ OneCall(t) /\ call'[t] = NoCall /\ drops' = drops + 1
      /\ UNCHANGED <<wl, guestvars>>
  BY DropIs
<1>2. UNCHANGED <<backlog, gconn, table, reap>>
  BY <1>1 DEF guestvars
<1>3. drops' # 0
  BY <1>1 DEF Types
<1>4. CASE call[t].pc # "install" /\ UNCHANGED link
  <2>1. HandsStill
    BY <1>1, <1>4, NoCallOK, HandsKept
  <2> QED  BY <1>1, <1>2, <1>3, <1>4, <2>1, StaleStill, QuietStep
<1>5. ASSUME NEW c \in Conn, call[t].pc = "install", call[t].c = c, OneLink(c),
             link'[c].host = "down", link'[c].cut = TRUE,
             link'[c].guest = link[c].guest, link'[c].out = link[c].out
      PROVE  Wired' /\ Heard'
  <2>1. link[c].guest # "none"
    BY <1>5 DEF Wired, Installing
  <2>2. \A d \in Conn : LinkFrom(d)
    <3>1. LinkFrom(c)
      BY <1>5, <2>1 DEF LinkFrom
    <3> QED  BY <1>5, <3>1, SameLinkFrom DEF Wired, OneLink
  <2>3. (\A d \in Conn : Installed(d)') /\ (\A u \in Task : Installing(u)')
    BY <1>1, <1>5, NoCallOK, HandLetsGo
  <2>4. GuestsStill
    BY <1>5 DEF GuestsStill, OneLink
  <2>5. Wired'
    <3>1. \A d \in Conn : LinkOK(d)'
      BY <1>2, <2>2, LinkKept DEF Wired
    <3>2. Lines' /\ InOrder'
      BY <1>2, <1>3, <2>4, LinesKept DEF Wired
    <3> QED  BY <2>3, <3>1, <3>2 DEF Wired
  <2>6. Heard'
    BY <1>1, <1>2, <1>5, CutHeard
  <2> QED  BY <2>5, <2>6
<1>6. \/ call[t].pc # "install" /\ UNCHANGED link
      \/ \E c \in Conn :
            /\ call[t].pc = "install" /\ call[t].c = c /\ OneLink(c)
            /\ link'[c].host = "down" /\ link'[c].cut = TRUE
            /\ link'[c].guest = link[c].guest /\ link'[c].out = link[c].out
  BY DropIs
<1> QED  BY <1>4, <1>5, <1>6

(* A new connection waits last, whole, in the hands of its call.           *)
LEMMA WiredConnect ==
    ASSUME Types, Wired, Heard, NEW t \in Task, Connect(t)
    PROVE  Wired' /\ Heard'
<1>1. PICK c \in Conn :
          /\ OneCall(t) /\ OneLink(c) /\ link[c] = NoLink
          /\ link'[c] = [NoLink EXCEPT !.guest = "queued"]
          /\ call[t].pc = "connect" /\ call'[t].pc = "install" /\ call'[t].c = c
          /\ backlog' = Append(backlog, c)
          /\ UNCHANGED <<wl, gconn, table, reap, drops>>
  BY ConnectIs
<1>2. /\ link[c].guest = "none" /\ link[c].host = "none"
      /\ link'[c].guest = "queued" /\ link'[c].host = "none" /\ link'[c].req = <<>>
      /\ link'[c].cut = FALSE /\ link'[c].out = link[c].out
  BY <1>1, NoLinkOK DEF NoLink
<1>3. PICK n \in Nat : n = Len(backlog)
  BY DEF Types
<1>4. /\ DOMAIN backlog = 1 .. n /\ DOMAIN backlog' = 1 .. n + 1
      /\ \A i \in 1 .. n : backlog'[i] = backlog[i] /\ backlog[i] \in Conn
      /\ backlog'[n + 1] = c
  <2>1. backlog \in Seq(Conn)
    BY DEF Types
  <2> QED  BY <1>1, <1>3, <2>1, AppendIs
<1>5. \A i \in 1 .. n + 1 : i \in 1 .. n \/ i = n + 1
  OBVIOUS
<1>6. \A i \in 1 .. n : backlog[i] # c
  <2>1. ~Queued(c)
    BY <1>2 DEF Wired, LinkOK
  <2> QED  BY <1>4, <2>1 DEF Queued
<1>7. ASSUME NEW d \in Conn PROVE LinkOK(d)'
  <2>1. CASE d = c
    <3>1. Queued(c)'
      <4>1. n + 1 \in 1 .. n + 1
        OBVIOUS
      <4> QED  BY <1>4, <4>1 DEF Queued
    <3> QED  BY <1>2, <2>1, <3>1 DEF LinkOK
  <2>2. CASE d # c
    <3>1. Queued(d)' <=> Queued(d)
      <4>1. \A i \in 1 .. n : i \in 1 .. n + 1
        OBVIOUS
      <4> QED  BY <1>4, <1>5, <2>2, <4>1 DEF Queued
    <3>2. link'[d] = link[d] /\ LinkOK(d)
      BY <1>1, <2>2 DEF OneLink, Wired
    <3> QED  BY <3>1, <3>2 DEF LinkOK, Lists
  <2> QED  BY <2>1, <2>2
<1>8. \A u \in Task : call[u].pc = "install" => call[u].c # c
  BY <1>2 DEF Wired, Installing
<1>9. ASSUME NEW d \in Conn PROVE Installed(d)'
  <2>1. CASE d = c
    BY <1>1, <2>1 DEF Installed
  <2>2. CASE d # c
    BY <1>1, <2>2 DEF Installed, Wired, OneLink, OneCall
  <2> QED  BY <2>1, <2>2
<1>10. ASSUME NEW u \in Task PROVE Installing(u)'
  <2>1. CASE u = t
    <3>1. ASSUME NEW v \in Task, call'[v].pc = "install", call'[v].c = c PROVE v = t
      BY <1>1, <1>8, <3>1 DEF OneCall
    <3>2. ASSUME NEW d \in Conn, call'[t].pc = "install", call'[t].c = d
          PROVE  /\ link'[d].host = "none" /\ link'[d].guest # "none"
                 /\ \A v \in Task : call'[v].pc = "install" /\ call'[v].c = d => v = t
      <4>1. d = c
        BY <1>1, <3>2
      <4>2. link'[c].host = "none" /\ link'[c].guest # "none"
        BY <1>2
      <4> QED  BY <3>1, <4>1, <4>2
    <3> QED  BY <2>1, <3>2 DEF Installing
  <2>2. CASE u # t
    <3>1. call'[u] = call[u] /\ Installing(u)
      BY <1>1, <2>2 DEF OneCall, Wired
    <3>2. ASSUME NEW d \in Conn, call[u].pc = "install", call[u].c = d
          PROVE  /\ link'[d].host = "none" /\ link'[d].guest # "none"
                 /\ \A v \in Task : call'[v].pc = "install" /\ call'[v].c = d => v = u
      <4>1. d # c
        BY <1>8, <3>2
      <4>2. link'[d].host = "none" /\ link'[d].guest # "none"
        BY <1>1, <3>1, <3>2, <4>1 DEF Installing, OneLink
      <4>3. ASSUME NEW v \in Task, call'[v].pc = "install", call'[v].c = d PROVE v = u
        <5>1. v # t
          BY <1>1, <4>1, <4>3
        <5>2. call'[v] = call[v]
          BY <1>1, <5>1 DEF OneCall
        <5> QED  BY <3>1, <3>2, <4>3, <5>2 DEF Installing
      <4> QED  BY <4>2, <4>3
    <3> QED  BY <3>1, <3>2 DEF Installing
  <2> QED  BY <2>1, <2>2
<1>11. Lines'
  <2>1. \A i, j \in 1 .. n + 1 : backlog'[i] = backlog'[j] => i = j
    BY <1>4, <1>5, <1>6 DEF Wired, Lines
  <2>2. \A g \in Conn : gconn' = g => link'[g].guest = "up"
    BY <1>1, <1>2 DEF Wired, Lines, OneLink
  <2> QED  BY <1>4, <2>1, <2>2 DEF Lines
<1>12. InOrder'
  <2> SUFFICES ASSUME drops' = 0 PROVE CutOrder'
    BY DEF InOrder
  <2>1. CutOrder
    BY <1>1 DEF Wired, InOrder
  <2>2. /\ \A i \in 1 .. n : link'[backlog'[i]] = link[backlog[i]]
        /\ ~link'[backlog'[n + 1]].cut
    <3>1. ASSUME NEW i \in 1 .. n PROVE link'[backlog'[i]] = link[backlog[i]]
      <4>1. backlog'[i] = backlog[i] /\ backlog[i] \in Conn /\ backlog[i] # c
        BY <1>4, <1>6
      <4> QED  BY <1>1, <4>1 DEF OneLink
    <3>2. ~link'[backlog'[n + 1]].cut
      BY <1>2, <1>4
    <3> QED  BY <3>1, <3>2
  <2>3. \A i, j \in 1 .. n + 1 :
            i < j /\ link'[backlog'[j]].cut => link'[backlog'[i]].cut
    <3> SUFFICES ASSUME NEW i \in 1 .. n + 1, NEW j \in 1 .. n + 1, i < j,
                        link'[backlog'[j]].cut
                 PROVE  link'[backlog'[i]].cut
      OBVIOUS
    <3>1. j \in 1 .. n
      BY <1>5, <2>2
    <3>2. i \in 1 .. n
      BY <3>1
    <3> QED  BY <1>4, <2>1, <2>2, <3>1, <3>2 DEF CutOrder
  <2>4. \A i \in 1 .. n + 1, d \in Conn :
            link'[backlog'[i]].cut /\ link'[d].guest = "up" => link'[d].cut
    <3> SUFFICES ASSUME NEW i \in 1 .. n + 1, NEW d \in Conn,
                        link'[backlog'[i]].cut, link'[d].guest = "up"
                 PROVE  link'[d].cut
      OBVIOUS
    <3>1. i \in 1 .. n
      BY <1>5, <2>2
    <3>2. d # c
      BY <1>2
    <3> QED  BY <1>1, <1>4, <2>1, <2>2, <3>1, <3>2 DEF CutOrder, OneLink
  <2>5. \A d \in Conn : link'[d].guest = "up" /\ ~link'[d].cut =>
            \E g \in Conn : gconn' = g /\ ~link'[g].cut
    <3> SUFFICES ASSUME NEW d \in Conn, link'[d].guest = "up", ~link'[d].cut
                 PROVE  \E g \in Conn : gconn' = g /\ ~link'[g].cut
      OBVIOUS
    <3>1. d # c
      BY <1>2
    <3>2. PICK g \in Conn : gconn = g /\ ~link[g].cut
      BY <1>1, <2>1, <3>1 DEF CutOrder, OneLink
    <3> QED  BY <1>1, <1>2, <3>2 DEF OneLink
  <2> QED  BY <1>4, <2>3, <2>4, <2>5 DEF CutOrder
<1>13. Wired'
  BY <1>7, <1>9, <1>10, <1>11, <1>12 DEF Wired
<1>14. ASSUME NEW g \in Conn, NEW w \in Wl, gconn = g, Coming(g, w) PROVE Coming(g, w)'
  <2>1. g # c
    BY <1>2, <1>14 DEF Wired, Lines
  <2>2. ComingFrom(g)
    BY <1>1, <2>1 DEF ComingFrom, OneLink, Lists
  <2>3. \A d \in Conn : link'[d].out = link[d].out
    BY <1>1, <1>2 DEF OneLink
  <2> QED  BY <1>1, <1>14, <2>2, <2>3, ComingKept
<1>15. \A d \in Conn : link[d].cut => link'[d].cut
  BY <1>1, NoLinkOK DEF OneLink
<1>16. Heard'
  BY <1>1, <1>14, <1>15, StaleStill, HeardKept
<1> QED  BY <1>13, <1>16

(* guestd turns to the connection that waited longest: if it is whole, the *)
(* list request is on it, or will be.                                      *)
LEMMA WiredAccept ==
    ASSUME Types, Wired, Heard, Accept
    PROVE  Wired' /\ Heard'
<1>1. PICK c \in Conn :
          /\ OneLink(c) /\ backlog # <<>> /\ c = Head(backlog)
          /\ backlog' = Tail(backlog) /\ gconn' = c
          /\ link'[c].guest = "up"
          /\ link'[c].host = link[c].host /\ link'[c].req = link[c].req
          /\ link'[c].ev = link[c].ev /\ link'[c].out = link[c].out
          /\ link'[c].cut = link[c].cut
          /\ UNCHANGED <<hostvars, table, reap, drops>>
  BY AcceptIs
<1>2. UNCHANGED <<wl, call>> /\ CutsStill
  BY <1>1 DEF hostvars, CutsStill, OneLink
<1>3. /\ c = backlog[1] /\ 1 \in DOMAIN backlog
      /\ DOMAIN backlog \subseteq Nat /\ DOMAIN backlog' \subseteq Nat
      /\ \A i \in DOMAIN backlog' : i + 1 \in DOMAIN backlog /\ backlog'[i] = backlog[i + 1]
      /\ \A i \in DOMAIN backlog :
            i # 1 => i - 1 \in DOMAIN backlog' /\ backlog'[i - 1] = backlog[i]
  <2>1. backlog \in Seq(Conn)
    BY DEF Types
  <2> QED  BY <1>1, <2>1, TailIs
<1>4. \A i \in DOMAIN backlog' : i # 0
  <2>1. PICK q \in Seq(Conn) : q = backlog'
    <3>1. backlog \in Seq(Conn)
      BY DEF Types
    <3> QED  BY <1>1, <3>1, TailIs
  <2>2. DOMAIN q = 1 .. Len(q) /\ Len(q) \in Nat
    BY <2>1
  <2> QED  BY <2>1, <2>2
<1>5. /\ \A i, j \in DOMAIN backlog : backlog[i] = backlog[j] => i = j
      /\ \A i \in DOMAIN backlog : backlog[i] \in Conn
      /\ \A i \in DOMAIN backlog' : backlog'[i] \in Conn
  BY <1>3 DEF Wired, Lines, Types
<1>6. \A i \in DOMAIN backlog' : backlog'[i] # c
  <2> SUFFICES ASSUME NEW i \in DOMAIN backlog', backlog'[i] = c PROVE FALSE
    OBVIOUS
  <2>1. backlog[i + 1] = backlog[1] /\ i + 1 \in DOMAIN backlog /\ i \in Nat
    BY <1>3
  <2>2. i + 1 = 1
    BY <1>3, <1>5, <2>1
  <2> QED  BY <1>4, <2>1, <2>2
<1>7. link[c].guest = "queued"
  <2>1. Queued(c)
    BY <1>3 DEF Queued
  <2> QED  BY <2>1 DEF Wired, LinkOK
<1>8. ASSUME NEW d \in Conn PROVE LinkOK(d)'
  <2>1. CASE d = c
    <3>1. ~Queued(c)'
      BY <1>6 DEF Queued
    <3>2. LinkOK(c)
      BY DEF Wired
    <3> QED  BY <1>1, <1>7, <2>1, <3>1, <3>2 DEF LinkOK
  <2>2. CASE d # c
    <3>1. Queued(d)' <=> Queued(d)
      BY <1>3, <2>2 DEF Queued
    <3>2. link'[d] = link[d] /\ LinkOK(d)
      BY <1>1, <2>2 DEF OneLink, Wired
    <3> QED  BY <3>1, <3>2 DEF LinkOK, Lists
  <2> QED  BY <2>1, <2>2
<1>9. (\A d \in Conn : Installed(d)') /\ (\A u \in Task : Installing(u)')
  <2>1. NonesStill
    BY <1>1, <1>7 DEF NonesStill, OneLink
  <2> QED  BY <1>2, <2>1, HandsKept, InstallsKept DEF Wired
<1>10. Lines'
  <2>1. ASSUME NEW i \in DOMAIN backlog', NEW j \in DOMAIN backlog', backlog'[i] = backlog'[j]
        PROVE  i = j
    <3>1. i \in Nat /\ j \in Nat /\ i + 1 = j + 1
      BY <1>3, <1>5, <2>1
    <3> QED  BY <3>1
  <2> QED  BY <1>1, <2>1 DEF Lines
<1>11. InOrder'
  <2> SUFFICES ASSUME drops' = 0 PROVE CutOrder'
    BY DEF InOrder
  <2>1. CutOrder
    BY <1>1 DEF Wired, InOrder
  <2>2. \A i \in DOMAIN backlog' : link'[backlog'[i]] = link[backlog[i + 1]]
    BY <1>1, <1>3, <1>5, <1>6 DEF OneLink
  <2>3. ASSUME NEW i \in DOMAIN backlog', NEW j \in DOMAIN backlog', i < j,
               link'[backlog'[j]].cut
        PROVE  link'[backlog'[i]].cut
    <3>1. i \in Nat /\ j \in Nat /\ i + 1 < j + 1
      BY <1>3, <2>3
    <3> QED  BY <1>3, <2>1, <2>2, <2>3, <3>1 DEF CutOrder
  <2>4. ASSUME NEW i \in DOMAIN backlog', NEW d \in Conn,
               link'[backlog'[i]].cut, link'[d].guest = "up"
        PROVE  link'[d].cut
    <3>1. i + 1 \in DOMAIN backlog /\ link[backlog[i + 1]].cut /\ i \in Nat
      BY <1>3, <2>2, <2>4
    <3>2. CASE d = c
      <4>1. 1 < i + 1
        BY <1>4, <3>1
      <4>2. link[backlog[1]].cut
        BY <1>3, <2>1, <3>1, <4>1 DEF CutOrder
      <4> QED  BY <1>1, <1>3, <3>2, <4>2
    <3>3. CASE d # c
      BY <1>1, <2>1, <2>4, <3>1, <3>3 DEF CutOrder, OneLink
    <3> QED  BY <3>2, <3>3
  <2>5. ASSUME NEW d \in Conn, link'[d].guest = "up", ~link'[d].cut
        PROVE  ~link'[c].cut
    <3>1. CASE d = c
      BY <2>5, <3>1
    <3>2. CASE d # c
      <4>1. link[d].guest = "up" /\ ~link[d].cut
        BY <1>1, <2>5, <3>2 DEF OneLink
      <4>2. ~link[backlog[1]].cut
        BY <1>3, <2>1, <4>1 DEF CutOrder
      <4> QED  BY <1>1, <1>3, <4>2
    <3> QED  BY <3>1, <3>2
  <2> QED  BY <1>1, <2>3, <2>4, <2>5 DEF CutOrder
<1>12. Wired'
  BY <1>8, <1>9, <1>10, <1>11 DEF Wired
<1>13. Heard'
  <2>1. ASSUME ~link'[c].cut PROVE link'[c].host = "none" \/ Lists(c)'
    <3>1. ~link[c].cut /\ link[c].host \in {"none", "up", "down"}
      BY <1>1, <2>1 DEF Types, LinkRecord
    <3>2. link[c].host = "none" \/ Lists(c)
      BY <1>7, <3>1 DEF Wired, LinkOK
    <3> QED  BY <1>1, <3>2 DEF Lists
  <2> QED  BY <1>1, <2>1 DEF Heard, Hears, Coming
<1> QED  BY <1>12, <1>13

(* A handler ends, of a connection that was cut. *)
LEMMA WiredHangUp ==
    ASSUME Types, Wired, Heard, NEW c \in Conn, HangUp(c)
    PROVE  Wired' /\ Heard'
<1>1. /\ OneLink(c) /\ link[c].cut /\ link[c].guest = "up" /\ link'[c].guest = "down"
      /\ link'[c].host = link[c].host /\ link'[c].req = link[c].req
      /\ link'[c].ev = link[c].ev /\ link'[c].out = link[c].out
      /\ link'[c].cut = link[c].cut
      /\ gconn' = IF gconn = c THEN None ELSE gconn
      /\ UNCHANGED <<hostvars, backlog, table, reap, drops>>
  BY HangUpIs
<1>2. UNCHANGED <<wl, call>> /\ CutsStill
  BY <1>1 DEF hostvars, CutsStill, OneLink
<1>3. \A g \in Conn : gconn' = g => gconn = g /\ g # c
  BY <1>1, NoneAssumption
<1>4. ASSUME NEW d \in Conn PROVE LinkOK(d)'
  <2>1. Queued(d)' <=> Queued(d)
    BY <1>1 DEF Queued
  <2>2. LinkOK(d)
    BY DEF Wired
  <2>3. CASE d = c
    BY <1>1, <2>1, <2>2, <2>3 DEF LinkOK
  <2>4. CASE d # c
    BY <1>1, <2>1, <2>2, <2>4 DEF LinkOK, Lists, OneLink
  <2> QED  BY <2>3, <2>4
<1>5. (\A d \in Conn : Installed(d)') /\ (\A u \in Task : Installing(u)')
  <2>1. NonesStill
    BY <1>1 DEF NonesStill, OneLink
  <2> QED  BY <1>2, <2>1, HandsKept, InstallsKept DEF Wired
<1>6. Lines'
  BY <1>1, <1>3 DEF Wired, Lines, OneLink
<1>7. InOrder'
  <2> SUFFICES ASSUME drops' = 0 PROVE CutOrder'
    BY DEF InOrder
  <2>1. CutOrder
    BY <1>1 DEF Wired, InOrder
  <2>2. \A i \in DOMAIN backlog : backlog[i] \in Conn
    BY DEF Types
  <2>3. \A d \in Conn : link'[d].guest = "up" => link[d].guest = "up"
    BY <1>1 DEF OneLink
  <2>4. ASSUME NEW d \in Conn, link'[d].guest = "up", ~link'[d].cut
        PROVE  \E g \in Conn : gconn' = g /\ ~link'[g].cut
    <3>1. PICK g \in Conn : gconn = g /\ ~link[g].cut
      BY <1>2, <2>1, <2>3, <2>4 DEF CutOrder, CutsStill
    <3>2. g # c
      BY <1>1, <3>1
    <3> QED  BY <1>1, <1>2, <3>1, <3>2 DEF CutsStill
  <2>5. /\ \A i, j \in DOMAIN backlog :
              i < j /\ link'[backlog[j]].cut => link'[backlog[i]].cut
        /\ \A i \in DOMAIN backlog, d \in Conn :
              link'[backlog[i]].cut /\ link'[d].guest = "up" => link'[d].cut
    BY <1>2, <2>1, <2>2, <2>3 DEF CutOrder, CutsStill
  <2> QED  BY <1>1, <2>4, <2>5 DEF CutOrder
<1>8. Wired'
  BY <1>4, <1>5, <1>6, <1>7 DEF Wired
<1>9. Heard'
  <2> SUFFICES ASSUME NEW w \in Wl, NEW g \in Conn, gconn' = g, ~link'[g].cut, Stale(w)'
               PROVE  Coming(g, w)'
    BY DEF Heard, Hears
  <2>1. gconn = g /\ g # c /\ ~link[g].cut /\ Stale(w)
    BY <1>1, <1>2, <1>3, StaleStill DEF CutsStill, StaleFrom
  <2>2. Coming(g, w)
    BY <2>1 DEF Heard, Hears
  <2>3. ComingFrom(g)
    BY <1>1, <2>1 DEF ComingFrom, OneLink, Lists
  <2>4. \A d \in Conn : link'[d].out = link[d].out
    BY <1>1 DEF OneLink
  <2> QED  BY <1>1, <2>2, <2>3, <2>4, ComingKept
<1> QED  BY <1>8, <1>9

LEMMA WiredSuspend ==
    ASSUME Types, Wired, Heard, Suspend
    PROVE  Wired' /\ Heard'
<1>1. /\ \A c \in Conn :
            /\ link'[c].host = link[c].host /\ link'[c].req = link[c].req
            /\ link'[c].guest = link[c].guest
            /\ link[c] = NoLink => link'[c] = NoLink
            /\ link[c] # NoLink => link'[c].cut
      /\ UNCHANGED <<hostvars, guestvars, drops>>
  BY SuspendIs
<1>2. UNCHANGED <<wl, call, backlog, gconn, table, reap>>
  BY <1>1 DEF hostvars, guestvars
<1>3. \A c \in Conn : link'[c].guest # "none" => link'[c].cut
  BY <1>1, NoLinkOK
<1>4. \A c \in Conn : LinkFrom(c)
  <2> SUFFICES ASSUME NEW c \in Conn PROVE LinkFrom(c)
    OBVIOUS
  <2>1. LinkOK(c) /\ (Lists(c)' <=> Lists(c))
    BY <1>1 DEF Wired, Lists
  <2>2. link[c].cut => link[c] # NoLink
    BY NoLinkOK
  <2> QED  BY <1>1, <2>1, <2>2 DEF LinkFrom, LinkOK
<1>5. \A c \in Conn : LinkOK(c)'
  BY <1>2, <1>4, LinkKept DEF Wired
<1>6. (\A d \in Conn : Installed(d)') /\ (\A u \in Task : Installing(u)')
  <2>1. NonesStill
    BY <1>1, <1>4 DEF NonesStill, LinkFrom
  <2> QED  BY <1>2, <2>1, HandsKept, InstallsKept DEF Wired
<1>7. Lines'
  BY <1>1, <1>2 DEF Wired, Lines
<1>8. CutOrder'
  <2>1. ASSUME NEW i \in DOMAIN backlog' PROVE link'[backlog'[i]].cut
    <3>1. backlog[i] \in Conn /\ Queued(backlog[i]) /\ backlog'[i] = backlog[i]
      BY <1>2, <2>1 DEF Types, Queued
    <3>2. link[backlog[i]].guest = "queued"
      BY <3>1 DEF Wired, LinkOK
    <3> QED  BY <1>1, <1>3, <3>1, <3>2
  <2>2. \A c \in Conn : link'[c].guest = "up" => link'[c].cut
    BY <1>3
  <2> QED  BY <2>1, <2>2 DEF CutOrder
<1>9. Heard'
  <2>1. \A g \in Conn : gconn' = g => link'[g].cut
    BY <1>1, <1>2, <1>3 DEF Wired, Lines
  <2> QED  BY <2>1 DEF Heard, Hears
<1> QED  BY <1>5, <1>6, <1>7, <1>8, <1>9 DEF Wired, InOrder

(* The answer to a start is about to be sent: the reap thread comes after. *)
Spawning(c, w) == link[c].out.type = "started" /\ link[c].out.w = w

Spawned == \A w \in Wl, c \in Conn : Spawning(c, w) =>
    reap[w] = "none" /\ \A d \in Conn : Spawning(d, w) => d = c

LEMMA SpawnedKept ==
    ASSUME Spawned,
           \A w \in Wl, c \in Conn : Spawning(c, w)' => Spawning(c, w) /\ reap'[w] = reap[w]
    PROVE  Spawned'
  BY DEF Spawned

LEMMA SpawnedStill ==
    ASSUME Spawned, UNCHANGED reap, \A c \in Conn : link'[c].out = link[c].out
    PROVE  Spawned'
  BY SpawnedKept DEF Spawning

LEMMA SpawnedInit == Init => Spawned
<1> SUFFICES ASSUME Init PROVE Spawned
  OBVIOUS
<1>1. \A c \in Conn : link[c].out = Silent /\ Silent.type = "none"
  BY NoLinkOK DEF Init, Silent
<1> QED  BY <1>1 DEF Spawned, Spawning

LEMMA SpawnedNext ==
    ASSUME Types, Safe, Spawned, [Next]_vars
    PROVE  Spawned'
<1>1. Silent.type = "none"
  BY DEF Silent
<1>2. ASSUME NEW t \in Task,
             TaskStep(t) \/ \E w \in Wl : StartCall(t, w) \/ StopCall(t, w)
      PROVE  Spawned'
  <2>1. CASE \/ UseStored(t) \/ ConnectFails(t) \/ Register(t) \/ MarkStop(t)
             \/ ArmCall(t) \/ \E w \in Wl : StartCall(t, w) \/ StopCall(t, w)
    <3>1. UNCHANGED guestside
      BY <2>1, UseStoredIs, ConnectFailsIs, RegisterIs, MarkStopIs, OtherCallIs, StartCallIs
    <3> QED  BY <3>1, SpawnedStill DEF guestside, guestvars
  <2>2. CASE Connect(t)
    <3>1. UNCHANGED reap /\ \A c \in Conn : link'[c].out = link[c].out
      <4>1. PICK c \in Conn : /\ OneLink(c) /\ link[c] = NoLink
                              /\ link'[c] = [NoLink EXCEPT !.guest = "queued"]
                              /\ UNCHANGED reap
        BY <2>2, ConnectIs
      <4>2. link'[c].out = link[c].out
        BY <4>1 DEF NoLink
      <4> QED  BY <4>1, <4>2 DEF OneLink
    <3> QED  BY <3>1, SpawnedStill
  <2>3. CASE Install(t) \/ SendStart(t) \/ SendStop(t) \/ Drop(t)
    <3>1. UNCHANGED guestvars /\ \A c \in Conn : link'[c].out = link[c].out
      <4>1. CASE Install(t)
        BY <4>1, InstallIs DEF OneLink
      <4>2. CASE SendStart(t)
        BY <4>2, SendStartIs DEF OneLink, Sent
      <4>3. CASE SendStop(t)
        BY <4>3, SendStopIs DEF OneLink, Sent
      <4>4. CASE Drop(t)
        <5>1. \/ UNCHANGED link
              \/ \E c \in Conn : OneLink(c) /\ link'[c].out = link[c].out
          BY <4>4, DropIs
        <5> QED  BY <4>4, <5>1, DropIs DEF OneLink
      <4> QED  BY <2>3, <4>1, <4>2, <4>3, <4>4
    <3> QED  BY <3>1, SpawnedStill DEF guestvars
  <2> QED  BY <1>2, <2>1, <2>2, <2>3 DEF TaskStep
<1>3. ASSUME NEW c \in Conn, ConnStep(c) PROVE Spawned'
  <2>1. CASE HandleEvent(c) \/ Closed(c) \/ HangUp(c)
    <3>1. UNCHANGED reap /\ \A d \in Conn : link'[d].out = link[d].out
      BY <2>1, HandleEventIs, ClosedIs, HangUpIs DEF OneLink, guestvars
    <3> QED  BY <3>1, SpawnedStill
  <2>2. CASE Serve(c)
    <3>1. PICK r \in Request, e \in Event :
              /\ OneLink(c) /\ link[c].req # <<>> /\ r = Head(link[c].req)
              /\ link'[c].out = e /\ Answered(r, e) /\ UNCHANGED reap
      BY <2>2, ServeIs
    <3>2. CASE e.type # "started"
      BY <3>1, <3>2, SpawnedKept DEF Spawning, OneLink
    <3>3. ASSUME NEW v \in Wl, r = Start(v), e = Started(v) PROVE Spawned'
      <4>1. link[c].req \in Seq(Request) /\ e.type = "started" /\ e.w = v
        BY <3>3 DEF Types, LinkRecord, Started
      <4>2. Asked(c, 1, v)
        BY <3>1, <3>3, <4>1, TailIs DEF Asked
      <4>3. table[v] = "none"
        BY <4>2 DEF Safe, InQueues
      <4>4. reap[v] = "none" /\ \A d \in Conn : ~Spawning(d, v)
        <5>1. reap[v] = "none"
          BY <4>3 DEF Safe, ReapOK
        <5>2. ASSUME NEW d \in Conn, Spawning(d, v) PROVE FALSE
          BY <4>3, <5>2 DEF Safe, EventsTold, ToldIn, Spawning
        <5> QED  BY <5>1, <5>2
      <4>5. \A d \in Conn, w \in Wl :
                Spawning(d, w)' => \/ d = c /\ w = v
                                   \/ d # c /\ w # v /\ Spawning(d, w)
        BY <3>1, <4>1, <4>4 DEF Spawning, OneLink
      <4> QED  BY <3>1, <4>4, <4>5 DEF Spawned
    <3>4. e.type = "started" => \E v \in Wl : r = Start(v) /\ e = Started(v)
      <4>1. ListResult.type = "list"
        BY DEF ListResult
      <4> QED  BY <3>1, <4>1 DEF Answered
    <3> QED  BY <3>2, <3>3, <3>4
  <2>3. CASE Reply(c)
    <3>1. PICK e \in Event :
              /\ e = link[c].out
              /\ \A d \in Conn : link'[d].out = IF d = c THEN Silent ELSE link[d].out
              /\ \/ UNCHANGED reap
                 \/ \E w \in Wl : /\ e.type = "started" /\ e.w = w
                                  /\ reap' = [reap EXCEPT ![w] = "wait"]
      BY <2>3, ReplyIs
    <3>2. ASSUME NEW w \in Wl, NEW d \in Conn, Spawning(d, w)'
          PROVE  Spawning(d, w) /\ reap'[w] = reap[w]
      <4>1. d # c /\ Spawning(d, w)
        BY <1>1, <3>1, <3>2 DEF Spawning
      <4>2. ~Spawning(c, w)
        BY <4>1 DEF Spawned
      <4>3. reap'[w] = reap[w]
        BY <3>1, <4>2 DEF Spawning, Types
      <4> QED  BY <4>1, <4>3
    <3> QED  BY <3>2, SpawnedKept
  <2> QED  BY <1>3, <2>1, <2>2, <2>3 DEF ConnStep
<1>4. ASSUME NEW w \in Wl, Reap(w) \/ ReportExit(w) PROVE Spawned'
  <2>1. /\ reap[w] # "none" /\ \A v \in Wl : v # w => reap'[v] = reap[v]
        /\ \A d \in Conn : link'[d].out = link[d].out
    BY <1>4, ReapIs, ReportExitIs DEF Types
  <2> QED  BY <2>1, SpawnedKept DEF Spawning, Spawned
<1>5. CASE Accept \/ Suspend \/ VmStep \/ UNCHANGED vars
  <2>1. UNCHANGED reap /\ \A d \in Conn : link'[d].out = link[d].out
    BY <1>5, AcceptIs, SuspendIs, VmStepIs DEF OneLink, guestvars
  <2> QED  BY <2>1, SpawnedStill
<1> QED  BY <1>2, <1>3, <1>4, <1>5, StepIs

LEMMA SameRecord ==
    ASSUME NEW r \in LinkRecord, NEW s \in LinkRecord, r.host = s.host, r.req = s.req,
           r.ev = s.ev, r.guest = s.guest, r.out = s.out, r.cut = s.cut
    PROVE  r = s
  BY DEF LinkRecord

(* An event sent is on the current connection, with all that was there.    *)
LEMMA EmittedComes ==
    ASSUME Types, NEW e \in Event, Emitted(e), NEW g \in Conn, gconn = g, ~link[g].cut
    PROVE  ComingFrom(g) /\ \E i \in DOMAIN link'[g].ev : link'[g].ev[i] = e
<1>1. link[g].ev \in Seq(Event) /\ link'[g].ev = Append(link[g].ev, e)
  BY DEF Types, LinkRecord, Emitted
<1>2. PICK n \in Nat : n = Len(link[g].ev)
  BY <1>1
<1>3. /\ DOMAIN link'[g].ev = 1 .. n + 1 /\ link'[g].ev[n + 1] = e
      /\ \A i \in DOMAIN link[g].ev : i \in DOMAIN link'[g].ev /\ link'[g].ev[i] = link[g].ev[i]
  BY <1>1, <1>2, AppendIs
<1>4. n + 1 \in 1 .. n + 1
  OBVIOUS
<1> QED  BY <1>3, <1>4 DEF ComingFrom, Emitted, Lists

LEMMA EmittedWired ==
    ASSUME Types, Types', Wired, NEW e \in Event, Emitted(e),
           \A d \in Conn : link[d].guest = "none" => link'[d].out = link[d].out,
           UNCHANGED <<call, backlog, gconn, drops>>
    PROVE  Wired' /\ CutsStill
<1>1. NonesStill /\ CutsStill /\ HandsStill
  BY HandsKept DEF NonesStill, CutsStill, Emitted
<1>2. ASSUME NEW d \in Conn PROVE LinkFrom(d)
  <2>1. CASE link[d].guest = "none"
    <3>1. gconn # d /\ link[d] = NoLink
      BY <2>1 DEF Wired, Lines, LinkOK
    <3>2. link'[d] = link[d]
      <4>1. link'[d] \in LinkRecord /\ link[d] \in LinkRecord
        BY DEF Types
      <4>2. /\ link'[d].host = link[d].host /\ link'[d].req = link[d].req
            /\ link'[d].ev = link[d].ev /\ link'[d].guest = link[d].guest
            /\ link'[d].out = link[d].out /\ link'[d].cut = link[d].cut
        BY <2>1, <3>1 DEF Emitted
      <4> QED  BY <4>1, <4>2, SameRecord
    <3> QED  BY <3>2, SameLinkFrom DEF Wired
  <2>2. CASE link[d].guest # "none"
    <3>1. Lists(d)' <=> Lists(d)
      BY DEF Emitted, Lists
    <3>2. LinkOK(d)
      BY DEF Wired
    <3> QED  BY <2>2, <3>1, <3>2 DEF LinkFrom, LinkOK, Emitted
  <2> QED  BY <2>1, <2>2
<1> QED  BY <1>1, <1>2, WiredKept

(* The answer goes out: what it tells is now on the current connection.    *)
LEMMA WiredReply ==
    ASSUME Types, Spawned, Wired, Heard, NEW c \in Conn, Reply(c)
    PROVE  Wired' /\ Heard'
<1>1. PICK e \in Event :
          /\ Types' /\ e = link[c].out /\ e # Silent /\ Emitted(e)
          /\ \A d \in Conn : link'[d].out = IF d = c THEN Silent ELSE link[d].out
          /\ \/ UNCHANGED reap
             \/ \E w \in Wl : /\ e.type = "started" /\ e.w = w
                              /\ reap' = [reap EXCEPT ![w] = "wait"]
          /\ UNCHANGED <<hostvars, backlog, gconn, table, drops>>
  BY ReplyIs
<1>2. UNCHANGED <<wl, call, table>>
  BY <1>1 DEF hostvars
<1>3. link[c].guest # "none"
  BY <1>1, Known
<1>4. Wired' /\ CutsStill
  BY <1>1, <1>2, <1>3, EmittedWired
<1>5. \A w \in Wl : reap[w] = "report" => reap'[w] = "report"
  <2> SUFFICES ASSUME NEW w \in Wl, reap[w] = "report" PROVE reap'[w] = "report"
    OBVIOUS
  <2>1. ~Spawning(c, w)
    BY DEF Spawned
  <2> QED  BY <1>1, <2>1 DEF Spawning, Types
<1>6. \A f, w : News(f, w)' <=> News(f, w)
  BY <1>2 DEF News
<1>7. ASSUME NEW g \in Conn, NEW w \in Wl, gconn = g, ~link'[g].cut, Coming(g, w)
      PROVE  Coming(g, w)'
  <2>1. ~link[g].cut
    BY <1>4, <1>7 DEF CutsStill
  <2>2. ComingFrom(g) /\ \E i \in DOMAIN link'[g].ev : link'[g].ev[i] = e
    BY <1>1, <1>7, <2>1, EmittedComes
  <2>3. CASE \E d \in Conn : News(link[d].out, w)
    <3>1. CASE News(link[c].out, w)
      BY <1>1, <1>6, <2>2, <3>1 DEF Coming
    <3>2. CASE \E d \in Conn : d # c /\ News(link[d].out, w)
      BY <1>1, <1>6, <3>2 DEF Coming
    <3> QED  BY <2>3, <3>1, <3>2
  <2>4. CASE \/ reap[w] = "report" \/ Lists(g) \/ link[g].host = "none"
             \/ \E i \in DOMAIN link[g].ev : News(link[g].ev[i], w)
    BY <1>5, <1>6, <2>2, <2>4 DEF Coming, ComingFrom
  <2> QED  BY <1>7, <2>3, <2>4 DEF Coming
<1>8. Heard'
  BY <1>1, <1>2, <1>4, <1>7, StaleStill, HeardKept DEF CutsStill
<1> QED  BY <1>4, <1>8

LEMMA WiredReportExit ==
    ASSUME Types, Safe, Wired, Heard, NEW v \in Wl, ReportExit(v)
    PROVE  Wired' /\ Heard'
<1>1. /\ Types' /\ reap[v] = "report" /\ Emitted(Exited(v))
      /\ \A d \in Conn : link'[d].out = link[d].out
      /\ reap' = [reap EXCEPT ![v] = "done"]
      /\ UNCHANGED <<hostvars, backlog, gconn, table, drops>>
  BY ReportExitIs
<1>2. UNCHANGED <<wl, call, table>>
  BY <1>1 DEF hostvars
<1>3. PICK e \in Event : e = Exited(v) /\ e.type = "exited" /\ e.w = v
  <2>1. table \in [Wl -> TableState]
    BY DEF Types
  <2> QED  BY <2>1, EventOK
<1>4. Emitted(e)
  BY <1>1, <1>3
<1>5. Wired' /\ CutsStill
  BY <1>1, <1>2, <1>4, EmittedWired
<1>6. \A f, w : News(f, w)' <=> News(f, w)
  BY <1>2 DEF News
<1>7. News(e, v)
  BY <1>1, <1>3 DEF News, Safe, ReapOK
<1>8. ASSUME NEW g \in Conn, NEW w \in Wl, gconn = g, ~link'[g].cut, Coming(g, w)
      PROVE  Coming(g, w)'
  <2>1. ~link[g].cut
    BY <1>5, <1>8 DEF CutsStill
  <2>2. ComingFrom(g) /\ \E i \in DOMAIN link'[g].ev : link'[g].ev[i] = e
    BY <1>4, <1>8, <2>1, EmittedComes
  <2>3. CASE w = v
    BY <1>6, <1>7, <2>2, <2>3 DEF Coming
  <2>4. CASE w # v
    <3>1. reap'[w] = reap[w]
      BY <1>1, <2>4 DEF Types
    <3> QED  BY <1>1, <1>6, <1>8, <2>2, <3>1 DEF Coming, ComingFrom
  <2> QED  BY <2>3, <2>4
<1>9. Heard'
  BY <1>1, <1>2, <1>5, <1>8, StaleStill, HeardKept DEF CutsStill
<1> QED  BY <1>5, <1>9

(* A process ends: its exit is yet to be reported. *)
LEMMA WiredReap ==
    ASSUME Types, Wired, Heard, NEW v \in Wl, Reap(v)
    PROVE  Wired' /\ Heard'
<1>1. /\ table' = [table EXCEPT ![v] = "exited"] /\ reap' = [reap EXCEPT ![v] = "report"]
      /\ UNCHANGED <<hostvars, link, backlog, gconn, drops>>
  BY ReapIs
<1>2. UNCHANGED <<wl, call>>
  BY <1>1 DEF hostvars
<1>3. Wired'
  BY <1>1, <1>2, SameLinks, HandsKept, WiredKept
<1>4. reap'[v] = "report" /\ \A w \in Wl : w # v => table'[w] = table[w] /\ reap'[w] = reap[w]
  BY <1>1 DEF Types
<1>5. ASSUME NEW w \in Wl, NEW g \in Conn, gconn' = g, ~link'[g].cut, Stale(w)'
      PROVE  Coming(g, w)'
  <2>1. CASE w = v
    BY <1>4, <2>1 DEF Coming
  <2>2. CASE w # v
    <3>1. /\ gconn = g /\ ~link[g].cut /\ table'[w] = table[w] /\ reap'[w] = reap[w]
      BY <1>1, <1>4, <1>5, <2>2
    <3>2. Stale(w)
      BY <1>2, <1>5, <3>1 DEF Stale, IsActive
    <3>3. Coming(g, w)
      BY <3>1, <3>2 DEF Heard, Hears
    <3>4. \A f : News(f, w)' <=> News(f, w)
      BY <3>1 DEF News
    <3> QED  BY <1>1, <3>1, <3>3, <3>4 DEF Coming, Lists
  <2> QED  BY <2>1, <2>2
<1>6. Heard'
  BY <1>5 DEF Heard, Hears
<1> QED  BY <1>3, <1>6

(* guestd takes a request: of a start and of a list request it makes news. *)
LEMMA WiredServe ==
    ASSUME Types, Wired, Heard, NEW c \in Conn, Serve(c)
    PROVE  Wired' /\ Heard'
<1>1. PICK r \in Request, e \in Event :
          /\ OneLink(c) /\ link[c].req # <<>> /\ r = Head(link[c].req)
          /\ link[c].guest = "up" /\ link[c].out = Silent
          /\ link'[c].req = Tail(link[c].req) /\ link'[c].out = e
          /\ link'[c].host = link[c].host /\ link'[c].ev = link[c].ev
          /\ link'[c].guest = link[c].guest /\ link'[c].cut = link[c].cut
          /\ Answered(r, e)
          /\ UNCHANGED <<hostvars, backlog, gconn, reap, drops>>
  BY ServeIs
<1>2. UNCHANGED <<wl, call>>
  BY <1>1 DEF hostvars
<1>3. LinkFrom(c)
  <2>1. LinkOK(c)
    BY DEF Wired
  <2> QED  BY <1>1, <2>1 DEF LinkFrom, LinkOK
<1>4. Wired' /\ CutsStill
  BY <1>1, <1>2, <1>3, HandsKept, OneWired
<1>5. ASSUME NEW w \in Wl, NEW g \in Conn, gconn = g, ~link[g].cut, r # List,
             table'[w] = table[w], Stale(w)'
      PROVE  Coming(g, w)'
  <2>1. Stale(w)
    BY <1>2, <1>5 DEF Stale, IsActive
  <2>2. Coming(g, w)
    BY <1>5, <2>1 DEF Heard, Hears
  <2>3. \A f : News(f, w)' <=> News(f, w)
    BY <1>5 DEF News
  <2>4. \A d \in Conn : News(link[d].out, w) => d # c
    BY <1>1 DEF News, Silent
  <2>5. Lists(g) => Lists(g)'
    <3>1. CASE g # c
      BY <1>1, <3>1 DEF Lists, OneLink
    <3>2. CASE g = c
      <4>1. link[c].req \in Seq(Request)
        BY DEF Types, LinkRecord
      <4>2. /\ r = link[c].req[1]
            /\ \A i \in DOMAIN link[c].req :
                  i # 1 => i - 1 \in DOMAIN link'[c].req /\ link'[c].req[i - 1] = link[c].req[i]
        <5>1. link[c].req # <<>> /\ r = Head(link[c].req) /\ link'[c].req = Tail(link[c].req)
          BY <1>1
        <5> QED  BY <4>1, <5>1, TailIs
      <4> QED  BY <1>5, <3>2, <4>2 DEF Lists
    <3> QED  BY <3>1, <3>2
  <2>6. \A d \in Conn : link'[d].ev = link[d].ev /\ link'[d].host = link[d].host
    BY <1>1 DEF OneLink
  <2>7. \A d \in Conn : d # c => link'[d].out = link[d].out
    BY <1>1 DEF OneLink
  <2> QED  BY <1>1, <2>2, <2>3, <2>4, <2>5, <2>6, <2>7 DEF Coming
<1>6. ASSUME NEW w \in Wl, NEW g \in Conn, gconn' = g, ~link'[g].cut, Stale(w)'
      PROVE  Coming(g, w)'
  <2>1. gconn = g /\ ~link[g].cut
    BY <1>1, <1>4, <1>6 DEF CutsStill
  <2>2. CASE \E v \in Wl : r = Start(v) /\ e = Started(v)
                           /\ table' = [table EXCEPT ![v] = "running"]
    <3>1. PICK v \in Wl : r = Start(v) /\ e = Started(v)
                          /\ table' = [table EXCEPT ![v] = "running"]
      BY <2>2
    <3>2. CASE w = v
      <4>1. e.type = "started" /\ e.w = w /\ table'[w] = "running"
        BY <3>1, <3>2 DEF Started, Types
      <4>2. News(e, w)'
        BY <4>1 DEF News
      <4> QED  BY <1>1, <4>2 DEF Coming
    <3>3. CASE w # v
      <4>1. table'[w] = table[w] /\ r # List
        BY <3>1, <3>3 DEF Types, Start, List
      <4> QED  BY <1>5, <1>6, <2>1, <4>1
    <3> QED  BY <3>2, <3>3
  <2>3. CASE r.type # "list" /\ UNCHANGED table
    <3>1. r # List
      BY <2>3 DEF List
    <3> QED  BY <1>5, <1>6, <2>1, <2>3, <3>1
  <2>4. CASE e = ListResult /\ UNCHANGED table
    <3>1. e.type = "list" /\ e.table[w] = table'[w]
      BY <2>4 DEF ListResult
    <3>2. News(e, w)'
      BY <3>1 DEF News
    <3> QED  BY <1>1, <3>2 DEF Coming
  <2> QED  BY <1>1, <2>2, <2>3, <2>4 DEF Answered
<1>7. Heard'
  BY <1>6 DEF Heard, Hears
<1> QED  BY <1>4, <1>7

LEMMA WiredNext ==
    ASSUME Types, Safe, Spawned, Wired, Heard, [Next]_vars
    PROVE  Wired' /\ Heard'
<1>1. ASSUME NEW t \in Task, TaskStep(t) PROVE Wired' /\ Heard'
  BY <1>1, WiredCalls, WiredConnect, WiredInstall, WiredRegister, WiredSend, WiredMark,
     WiredDrop DEF TaskStep
<1>2. ASSUME NEW t \in Task, NEW w \in Wl, StartCall(t, w) \/ StopCall(t, w)
      PROVE  Wired' /\ Heard'
  BY <1>2, WiredCalls
<1>3. ASSUME NEW c \in Conn, ConnStep(c) PROVE Wired' /\ Heard'
  BY <1>3, WiredHandleEvent, WiredClosed, WiredServe, WiredReply, WiredHangUp DEF ConnStep
<1>4. ASSUME NEW w \in Wl, Reap(w) \/ ReportExit(w) PROVE Wired' /\ Heard'
  BY <1>4, WiredReap, WiredReportExit
<1>5. ASSUME Accept \/ Suspend \/ VmStep \/ UNCHANGED vars PROVE Wired' /\ Heard'
  BY <1>5, WiredAccept, WiredSuspend, WiredVm
<1> QED  BY <1>1, <1>2, <1>3, <1>4, <1>5, StepIs

(* When the two sides are connected and nothing is under way, nothing is   *)
(* left that hostd should know and does not.                               *)
LEMMA SettledKnows ==
    ASSUME Types, Wired, Heard
    PROVE  Resynced
<1> SUFFICES ASSUME Settled, NEW w \in Wl, Stale(w) PROVE FALSE
  BY DEF Resynced, Stale, IsActive
<1>1. PICK s \in Conn : s = stored /\ link[s].host = "up" /\ ~link[s].cut
  BY DEF Settled, Connected, Open, Types
<1>2. link[s].guest = "up"
  <2>1. LinkOK(s) /\ ~Queued(s)
    BY DEF Wired, Settled, Queued
  <2>2. link[s].guest \in {"none", "queued", "up", "down"}
    BY DEF Types, LinkRecord
  <2> QED  BY <1>1, <2>1, <2>2, NoLinkOK DEF LinkOK
<1>3. PICK g \in Conn : gconn = g /\ ~link[g].cut
  <2>1. CASE drops = 0
    <3>1. CutOrder
      BY <2>1 DEF Wired, InOrder
    <3> QED  BY <1>1, <1>2, <3>1 DEF CutOrder
  <2>2. CASE drops # 0
    <3>1. drops > 0
      BY <2>2 DEF Types
    <3> QED  BY <3>1 DEF Settled, Deaf, Types
  <2> QED  BY <2>1, <2>2
<1>4. Coming(g, w)
  BY <1>3 DEF Heard, Hears
<1>5. /\ reap[w] # "report" /\ link[g].ev = <<>> /\ link[g].req = <<>>
      /\ \A c \in Conn : link[c].out = Silent
  BY DEF Settled
<1>6. link[g].host = "none"
  <2>1. \A c \in Conn : ~News(link[c].out, w)
    BY <1>5 DEF News, Silent
  <2>2. DOMAIN link[g].ev = {} /\ ~Lists(g)
    BY <1>5 DEF Lists
  <2> QED  BY <1>4, <1>5, <2>1, <2>2 DEF Coming
<1>7. \E t \in Task : call[t].pc = "install"
  <2>1. link[g].guest = "up" /\ Installed(g)
    BY <1>3 DEF Wired, Lines
  <2> QED  BY <1>3, <1>6, <2>1 DEF Installed
<1> QED  BY <1>7 DEF Settled

(* The list request of install_guest_conn makes up for what was lost: when *)
(* hostd is connected and nothing is under way, it knows of every start    *)
(* and every exit.                                                         *)
THEOREM ResyncWorks == Spec => []Resynced
<1> DEFINE I == Types /\ Safe /\ Spawned /\ Wired /\ Heard
<1>1. Init => I
  BY TypesInit, SafeInit, SpawnedInit, WiredInit
<1>2. I /\ [Next]_vars => I'
  BY TypesNext, SafeNext, SpawnedNext, WiredNext
<1>3. I => Resynced
  BY SettledKnows
<1> QED  BY <1>1, <1>2, <1>3, PTL DEF Spec

(* Between two resyncs nothing is lost either, while the connection that   *)
(* guestd sends on is whole: a start or an exit hostd has not recorded is  *)
(* about to be reported by wait_and_reap or spawn_and_reply, is on that    *)
(* connection, or is in the list hostd will ask for on it when it installs *)
(* it.  It is the safety half of ExitReported: what a running workload     *)
(* still waits for is on its way.                                          *)
THEOREM NewsComing == Spec => []Heard
<1> DEFINE I == Types /\ Safe /\ Spawned /\ Wired /\ Heard
<1>1. Init => I
  BY TypesInit, SafeInit, SpawnedInit, WiredInit
<1>2. I /\ [Next]_vars => I'
  BY TypesNext, SafeNext, SpawnedNext, WiredNext
<1>3. I => Heard
  OBVIOUS
<1> QED  BY <1>1, <1>2, <1>3, PTL DEF Spec
=============================================================================

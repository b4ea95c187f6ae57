---------------------------- MODULE VolumeProofs ----------------------------
(***************************************************************************)
(* What a completed write and a completed flush of a block volume can be   *)
(* relied on for, for any number of queues, chunks and writes and any      *)
(* number of worker deaths; and that the eviction loop of the fd cache,    *)
(* which is a recursive function here, closes no dirty fd.                 *)
(***************************************************************************)
EXTENDS Volume, SequenceTheorems, WellFoundedInduction, TLAPS

IoRecord == [pc : IoPc, write : BOOLEAN, left : Seq(Chunk), ver : Nat]
SyncRecord == [step : [Chunk -> SyncPc], ok : BOOLEAN,
               marked : SUBSET Chunk, must : [Chunk -> Nat]]

(* The shape of what the argument is about. *)
Shapes ==
    /\ written \in [Chunk -> Nat]
    /\ acked \in [Chunk -> Nat]
    /\ durable \in [Chunk -> Nat]
    /\ dirty \subseteq Chunk
    /\ io \in [Queue -> IoRecord]
    /\ sync \in [Queue -> SyncRecord]

(* A thread under way has a chunk in hand; one that is about to mark it    *)
(* has put a version there.                                                *)
InHand(q) ==
    /\ io[q].pc \in {"fd", "data", "mark"} => io[q].left # <<>>
    /\ io[q].pc = "mark" => io[q].ver <= written[Head(io[q].left)]

(* The page cache is ahead of what was acknowledged, of what is on stable  *)
(* storage and of what a flush owes.                                       *)
Ahead(c) ==
    /\ acked[c] <= written[c] /\ durable[c] <= written[c]
    /\ \A q \in Queue : sync[q].must[c] <= written[c]

(* A chunk that is about to be unmarked is synced, unless it was written   *)
(* since, which `exposed` records.                                         *)
Synced(c) == Unmarking(c) => durable[c] = written[c] \/ c \in exposed

(* What a flush that has met no error is done with, it has made durable. *)
Covered(q) ==
    sync[q].ok =>
        \A c \in sync[q].marked :
            sync[q].step[c] \in {"none", "unmark"} => durable[c] >= sync[q].must[c]

IInv ==
    /\ Shapes
    /\ \A q \in Queue : InHand(q) /\ Covered(q)
    /\ \A c \in Chunk : Ahead(c) /\ Synced(c)
    /\ UnsyncedIsDirty

-----------------------------------------------------------------------------
(* How the updates of the threads' records read. *)

(* A request goes on to its next chunk, or is complete. *)
LEMMA AdvanceOK ==
    ASSUME Shapes, NEW q \in Queue, io[q].left # <<>>, Advance(q)
    PROVE  /\ io' \in [Queue -> IoRecord]
           /\ \A p \in Queue : p # q => io'[p] = io[p]
           /\ io'[q].pc \in {"idle", "fd"}
           /\ io'[q].pc = "fd" => io'[q].left # <<>>
<1> DEFINE r == IF Len(io[q].left) = 1 THEN Idle
                ELSE [io[q] EXCEPT !.pc = "fd", !.left = Tail(io[q].left)]
<1>1. io' = [io EXCEPT ![q] = r]
  BY DEF Advance
<1>2. io[q] \in IoRecord /\ io[q].left \in Seq(Chunk)
  BY DEF Shapes, IoRecord
<1>3. Idle \in IoRecord /\ Idle.pc = "idle"
  BY DEF Idle, IoRecord, IoPc
<1>4. CASE Len(io[q].left) = 1
  BY <1>1, <1>3, <1>4 DEF Shapes
<1>5. CASE Len(io[q].left) # 1
  <2>1. Tail(io[q].left) \in Seq(Chunk) /\ Tail(io[q].left) # <<>>
    <3>1. PICK s \in Seq(Chunk) : s = io[q].left
      BY <1>2
    <3>2. s # <<>> /\ Len(s) # 1
      BY <3>1, <1>5
    <3>3. Len(Tail(s)) = Len(s) - 1 /\ Tail(s) \in Seq(Chunk) /\ Len(s) \in Nat \ {0}
      BY <3>2, HeadTailProperties, EmptySeq
    <3>4. Len(Tail(s)) # 0
      BY <3>2, <3>3
    <3>5. Tail(s) # <<>>
      BY <3>4, EmptySeq
    <3> QED  BY <3>1, <3>3, <3>5
  <2>2. r = [io[q] EXCEPT !.pc = "fd", !.left = Tail(io[q].left)]
    BY <1>5
  <2>3. r \in IoRecord /\ r.pc = "fd" /\ r.left = Tail(io[q].left)
    BY <1>2, <2>1, <2>2 DEF IoRecord, IoPc
  <2> HIDE DEF r
  <2> QED  BY <1>1, <2>1, <2>3 DEF Shapes
<1> QED  BY <1>4, <1>5

(* A thread's request is replaced. *)
LEMMA IoPut ==
    ASSUME Shapes, NEW q \in Queue, NEW r \in IoRecord, io' = [io EXCEPT ![q] = r]
    PROVE  /\ io' \in [Queue -> IoRecord]
           /\ \A p \in Queue : p # q => io'[p] = io[p]
           /\ io'[q] = r
  BY DEF Shapes

LEMMA IdleOK == Idle \in IoRecord /\ Idle.pc = "idle"
  BY DEF Idle, IoRecord, IoPc

LEMMA NoFlushOK ==
    /\ NoFlush \in SyncRecord /\ NoFlush.marked = {}
    /\ \A c \in Chunk : NoFlush.step[c] = "none" /\ NoFlush.must[c] = 0
<1>1. [c \in Chunk |-> "none"] \in [Chunk -> SyncPc]
  BY DEF SyncPc
<1>2. [c \in Chunk |-> 0] \in [Chunk -> Nat]
  OBVIOUS
<1> QED  BY <1>1, <1>2 DEF NoFlush, SyncRecord

(* One chunk of one flush changes its step. *)
Steps(q, c, s) == sync' = [sync EXCEPT ![q].step[c] = s]

LEMMA StepTo ==
    ASSUME Shapes, NEW q \in Queue, NEW c \in Chunk, NEW s \in SyncPc, Steps(q, c, s)
    PROVE  /\ sync' \in [Queue -> SyncRecord]
           /\ \A p \in Queue : /\ sync'[p].ok = sync[p].ok
                               /\ sync'[p].marked = sync[p].marked
                               /\ sync'[p].must = sync[p].must
           /\ \A p \in Queue, d \in Chunk :
                  sync'[p].step[d] = IF p = q /\ d = c THEN s ELSE sync[p].step[d]
<1> DEFINE r == [sync[q] EXCEPT !.step = [sync[q].step EXCEPT ![c] = s]]
<1>1. sync' = [sync EXCEPT ![q] = r]
  BY DEF Steps
<1>2. sync[q] \in SyncRecord /\ sync[q].step \in [Chunk -> SyncPc]
  BY DEF Shapes, SyncRecord
<1>3. [sync[q].step EXCEPT ![c] = s] \in [Chunk -> SyncPc]
  BY <1>2
<1>4. /\ r \in SyncRecord /\ r.ok = sync[q].ok /\ r.marked = sync[q].marked
      /\ r.must = sync[q].must /\ r.step = [sync[q].step EXCEPT ![c] = s]
  BY <1>2, <1>3 DEF SyncRecord
<1> HIDE DEF r
<1>5. /\ sync' \in [Queue -> SyncRecord] /\ sync'[q] = r
      /\ \A p \in Queue : p # q => sync'[p] = sync[p]
  BY <1>1, <1>4 DEF Shapes
<1>6. \A d \in Chunk : r.step[d] = IF d = c THEN s ELSE sync[q].step[d]
  BY <1>2, <1>4
<1> QED  BY <1>4, <1>5, <1>6

LEMMA GiveUpOK ==
    ASSUME Shapes, NEW q \in Queue, NEW c \in Chunk, GiveUp(q, c)
    PROVE  /\ sync' \in [Queue -> SyncRecord]
           /\ \A p \in Queue : /\ sync'[p].ok = IF p = q THEN FALSE ELSE sync[p].ok
                               /\ sync'[p].marked = sync[p].marked
                               /\ sync'[p].must = sync[p].must
           /\ \A p \in Queue, d \in Chunk :
                  sync'[p].step[d] = IF p = q /\ d = c THEN "none" ELSE sync[p].step[d]
<1> DEFINE r == [sync[q] EXCEPT !.step = [sync[q].step EXCEPT ![c] = "none"], !.ok = FALSE]
<1>1. sync' = [sync EXCEPT ![q] = r]
  BY DEF GiveUp
<1>2. sync[q] \in SyncRecord /\ sync[q].step \in [Chunk -> SyncPc]
  BY DEF Shapes, SyncRecord
<1>3. [sync[q].step EXCEPT ![c] = "none"] \in [Chunk -> SyncPc]
  BY <1>2 DEF SyncPc
<1>4. /\ r \in SyncRecord /\ r.ok = FALSE /\ r.marked = sync[q].marked
      /\ r.must = sync[q].must /\ r.step = [sync[q].step EXCEPT ![c] = "none"]
  BY <1>2, <1>3 DEF SyncRecord
<1> HIDE DEF r
<1>5. /\ sync' \in [Queue -> SyncRecord] /\ sync'[q] = r
      /\ \A p \in Queue : p # q => sync'[p] = sync[p]
  BY <1>1, <1>4 DEF Shapes
<1>6. \A d \in Chunk : r.step[d] = IF d = c THEN "none" ELSE sync[q].step[d]
  BY <1>2, <1>4
<1> QED  BY <1>4, <1>5, <1>6

-----------------------------------------------------------------------------
(* The invariant is inductive. *)

LEMMA HeadOK ==
    ASSUME Shapes, NEW q \in Queue, io[q].left # <<>>
    PROVE  Head(io[q].left) \in Chunk
<1>1. PICK s \in Seq(Chunk) : s = io[q].left
  BY DEF Shapes, IoRecord
<1> QED  BY <1>1, HeadTailProperties

(* The threads that do not move keep what they have in hand: versions only *)
(* grow.                                                                   *)
LEMMA HandsKept ==
    ASSUME IInv, NEW q \in Queue, InHand(q)',
           \A p \in Queue : p # q => io'[p] = io[p],
           written' \in [Chunk -> Nat], \A c \in Chunk : written'[c] >= written[c]
    PROVE  \A p \in Queue : InHand(p)'
<1> SUFFICES ASSUME NEW p \in Queue, p # q PROVE InHand(p)'
  OBVIOUS
<1>1. InHand(p) /\ io'[p] = io[p]
  BY DEF IInv
<1>2. CASE io[p].pc # "mark"
  BY <1>1, <1>2 DEF InHand
<1>3. CASE io[p].pc = "mark"
  <2>1. PICK c \in Chunk : c = Head(io[p].left)
    BY <1>1, <1>3, HeadOK DEF InHand, IInv
  <2>2. io[p].ver \in Nat /\ written[c] \in Nat /\ written'[c] \in Nat
    BY DEF IInv, Shapes, IoRecord
  <2> QED  BY <1>1, <1>3, <2>1, <2>2 DEF InHand
<1> QED  BY <1>2, <1>3

(* A step that only moves a request along. *)
LEMMA OnlyIo ==
    ASSUME IInv, NEW q \in Queue, InHand(q)', io' \in [Queue -> IoRecord],
           \A p \in Queue : p # q => io'[p] = io[p],
           UNCHANGED <<written, acked, durable, dirty, sync, exposed>>
    PROVE  IInv'
<1>1. Shapes'
  BY DEF IInv, Shapes
<1>2. \A p \in Queue : InHand(p)'
  <2>1. \A c \in Chunk : written'[c] >= written[c]
    BY DEF IInv, Shapes
  <2>2. written' \in [Chunk -> Nat]
    BY <1>1 DEF Shapes
  <2> QED  BY <2>1, <2>2, HandsKept
<1>3. \A p \in Queue : Covered(p)'
  BY DEF IInv, Covered
<1>4. \A c \in Chunk : Ahead(c)' /\ Synced(c)'
  BY DEF IInv, Ahead, Synced, Unmarking
<1>5. UnsyncedIsDirty'
  BY DEF IInv, UnsyncedIsDirty
<1> QED  BY <1>1, <1>2, <1>3, <1>4, <1>5 DEF IInv

LEMMA SubmitOK ==
    ASSUME IInv, NEW q \in Queue, NEW write \in BOOLEAN, NEW req \in Requests,
           Submit(q, write, req)
    PROVE  IInv'
<1>1. req \in Seq(Chunk) /\ req # <<>>
  <2>1. CASE \E c \in Chunk : req = <<c>>
    BY <2>1
  <2>2. CASE \E c \in 0 .. Chunks - 2 : req = <<c, c + 1>>
    <3>1. PICK c \in 0 .. Chunks - 2 : req = <<c, c + 1>>
      BY <2>2
    <3>2. c \in Chunk /\ c + 1 \in Chunk
      BY ChunksAssumption DEF Chunk
    <3> QED  BY <3>1, <3>2
  <2> QED  BY <2>1, <2>2 DEF Requests
<1> DEFINE r == [pc |-> "fd", write |-> write, left |-> req, ver |-> 0]
<1>2. r \in IoRecord /\ r.pc = "fd" /\ r.left = req
  BY <1>1 DEF IoRecord, IoPc
<1>3. io' = [io EXCEPT ![q] = r]
  BY DEF Submit
<1> HIDE DEF r
<1>4. io' \in [Queue -> IoRecord] /\ io'[q] = r /\ \A p \in Queue : p # q => io'[p] = io[p]
  BY <1>2, <1>3, IoPut DEF IInv
<1>5. InHand(q)'
  BY <1>1, <1>2, <1>4 DEF InHand
<1>6. UNCHANGED <<written, acked, durable, dirty, sync, exposed>>
  BY DEF Submit, data
<1> QED  BY <1>4, <1>5, <1>6, OnlyIo

LEMMA IoFdOK ==
    ASSUME IInv, NEW q \in Queue, IoFd(q)
    PROVE  IInv'
<1>1. UNCHANGED <<written, acked, durable, dirty, sync, exposed>> /\ io[q].pc = "fd"
  BY DEF IoFd
<1>2. io[q].left # <<>> /\ Shapes
  BY <1>1 DEF IInv, InHand
<1>3. CASE io' = [io EXCEPT ![q] = Idle]
  <2>1. io' \in [Queue -> IoRecord] /\ io'[q] = Idle
        /\ \A p \in Queue : p # q => io'[p] = io[p]
    BY <1>2, <1>3, IoPut, IdleOK
  <2>2. InHand(q)'
    BY <2>1, IdleOK DEF InHand
  <2> QED  BY <1>1, <2>1, <2>2, OnlyIo
<1>4. CASE Advance(q)
  <2>1. InHand(q)'
    BY <1>2, <1>4, AdvanceOK DEF InHand
  <2> QED  BY <1>1, <1>2, <1>4, <2>1, AdvanceOK, OnlyIo
<1>5. CASE io' = [io EXCEPT ![q].pc = IF poisoned' THEN "dead" ELSE "data"]
  <2>1. PICK pc \in {"dead", "data"} : pc = IF poisoned' THEN "dead" ELSE "data"
    OBVIOUS
  <2> DEFINE r == [io[q] EXCEPT !.pc = pc]
  <2>2. r \in IoRecord /\ r.pc # "mark" /\ r.left = io[q].left
    BY <1>2, <2>1 DEF Shapes, IoRecord, IoPc
  <2>3. io' = [io EXCEPT ![q] = r]
    BY <1>5, <2>1
  <2> HIDE DEF r
  <2>4. io' \in [Queue -> IoRecord] /\ io'[q] = r
        /\ \A p \in Queue : p # q => io'[p] = io[p]
    BY <1>2, <2>2, <2>3, IoPut
  <2>5. InHand(q)'
    BY <1>2, <2>2, <2>4 DEF InHand
  <2> QED  BY <1>1, <2>4, <2>5, OnlyIo
<1> QED  BY <1>3, <1>4, <1>5 DEF IoFd

(* A write reaches the page cache. *)
LEMMA WroteOK ==
    ASSUME IInv, NEW q \in Queue, NEW c \in Chunk, InHand(q)',
           io' \in [Queue -> IoRecord], \A p \in Queue : p # q => io'[p] = io[p],
           written' = [written EXCEPT ![c] = @ + 1],
           \A d \in Chunk : d \in exposed' <=> d \in exposed \/ (d = c /\ Unmarking(d)),
           UNCHANGED <<acked, durable, dirty, sync>>
    PROVE  IInv'
<1>0. Shapes
  BY DEF IInv
<1>1. /\ written' \in [Chunk -> Nat]
      /\ \A d \in Chunk : written'[d] = IF d = c THEN written[d] + 1 ELSE written[d]
      /\ \A d \in Chunk : written[d] \in Nat /\ durable[d] \in Nat /\ acked[d] \in Nat
  BY <1>0 DEF Shapes
<1>2. Shapes'
  BY <1>0, <1>1 DEF Shapes
<1>3. \A d \in Chunk : written'[d] >= written[d]
  BY <1>1
<1>4. \A p \in Queue : InHand(p)'
  BY <1>1, <1>3, HandsKept
<1>5. \A p \in Queue : Covered(p)'
  BY DEF IInv, Covered
<1>6. ASSUME NEW d \in Chunk PROVE Ahead(d)'
  <2>1. Ahead(d) /\ \A p \in Queue : sync[p].must[d] \in Nat
    BY <1>0 DEF IInv, Shapes, SyncRecord
  <2> QED  BY <1>1, <1>3, <2>1 DEF Ahead
<1>7. ASSUME NEW d \in Chunk PROVE Synced(d)'
  <2>1. Synced(d) /\ (Unmarking(d)' <=> Unmarking(d))
    BY DEF IInv, Unmarking
  <2> QED  BY <1>1, <2>1 DEF Synced
<1>8. UnsyncedIsDirty'
  BY DEF IInv, UnsyncedIsDirty
<1> QED  BY <1>2, <1>4, <1>5, <1>6, <1>7, <1>8 DEF IInv

LEMMA IoDataOK ==
    ASSUME IInv, NEW q \in Queue, IoData(q)
    PROVE  IInv'
<1>0. io[q].pc = "data" /\ UNCHANGED <<acked, durable, dirty, sync>>
  BY DEF IoData
<1>1. io[q].left # <<>> /\ Shapes /\ io[q] \in IoRecord
  BY <1>0 DEF IInv, InHand, Shapes
<1>2. PICK c \in Chunk : c = Head(io[q].left)
  BY <1>1, HeadOK
<1> DEFINE next == [written EXCEPT ![c] = @ + 1]
<1>3. next[c] = written[c] + 1 /\ written[c] \in Nat /\ next[c] \in Nat
  BY <1>1 DEF Shapes
<1>4. exposed' = exposed \cup {d \in {c} : written'[d] # written[d] /\ Unmarking(d)}
  BY <1>2 DEF IoData
<1>5. written' = written => UNCHANGED exposed
  BY <1>4
<1>6. ASSUME written' = next
      PROVE  \A d \in Chunk : d \in exposed' <=> d \in exposed \/ (d = c /\ Unmarking(d))
  BY <1>3, <1>4, <1>6
<1>7. CASE ~io[q].write /\ Advance(q) /\ UNCHANGED written
  <2>1. InHand(q)'
    BY <1>1, <1>7, AdvanceOK DEF InHand
  <2> QED  BY <1>0, <1>1, <1>5, <1>7, <2>1, AdvanceOK, OnlyIo
<1>8. CASE /\ written' = next
           /\ io' = [io EXCEPT ![q].pc = "mark", ![q].ver = next[c]]
  <2>0. PICK n \in Nat : n = next[c]
    BY <1>3
  <2> DEFINE r == [io[q] EXCEPT !.pc = "mark", !.ver = n]
  <2>1. r \in IoRecord /\ r.pc = "mark" /\ r.left = io[q].left /\ r.ver = n
    BY <1>1 DEF IoRecord, IoPc
  <2>2. io' = [io EXCEPT ![q] = r]
    <3>1. io' = [io EXCEPT ![q].pc = "mark", ![q].ver = n]
      BY <1>8, <2>0
    <3> QED  BY <1>1, <3>1 DEF Shapes
  <2> HIDE DEF r
  <2>3. io' \in [Queue -> IoRecord] /\ io'[q] = r
        /\ \A p \in Queue : p # q => io'[p] = io[p]
    BY <1>1, <2>1, <2>2, IoPut
  <2>4. InHand(q)'
    BY <1>1, <1>2, <1>3, <1>8, <2>0, <2>1, <2>3 DEF InHand
  <2> QED  BY <1>0, <1>6, <1>8, <2>3, <2>4, WroteOK
<1>9. CASE written' \in {written, next} /\ io' = [io EXCEPT ![q] = Idle]
  <2>1. io' \in [Queue -> IoRecord] /\ io'[q] = Idle
        /\ \A p \in Queue : p # q => io'[p] = io[p]
    BY <1>1, <1>9, IoPut, IdleOK
  <2>2. InHand(q)'
    BY <2>1, IdleOK DEF InHand
  <2>3. CASE written' = written
    BY <1>0, <1>5, <2>1, <2>2, <2>3, OnlyIo
  <2>4. CASE written' = next
    BY <1>0, <1>6, <2>1, <2>2, <2>4, WroteOK
  <2> QED  BY <1>9, <2>3, <2>4
<1> QED  BY <1>2, <1>7, <1>8, <1>9 DEF IoData

LEMMA IoMarkOK ==
    ASSUME IInv, NEW q \in Queue, IoMark(q)
    PROVE  IInv'
<1>0. io[q].pc = "mark" /\ Advance(q) /\ UNCHANGED <<written, durable, sync, exposed>>
  BY DEF IoMark
<1>1. io[q].left # <<>> /\ Shapes /\ io[q].ver \in Nat
  BY <1>0 DEF IInv, InHand, Shapes, IoRecord
<1>2. PICK c \in Chunk : c = Head(io[q].left)
  BY <1>1, HeadOK
<1>3. io[q].ver <= written[c]
  BY <1>0, <1>2 DEF IInv, InHand
<1>4. dirty' = dirty \cup {c}
  BY <1>2 DEF IoMark
<1>5. /\ acked' \in [Chunk -> Nat]
      /\ \A d \in Chunk : d # c => acked'[d] = acked[d]
      /\ acked'[c] \in {acked[c], io[q].ver}
  BY <1>1, <1>2 DEF IoMark, Shapes
<1>6. Shapes'
  <2>1. dirty' \subseteq Chunk
    BY <1>1, <1>4 DEF Shapes
  <2>2. io' \in [Queue -> IoRecord]
    BY <1>0, <1>1, AdvanceOK
  <2> QED  BY <1>0, <1>1, <1>5, <2>1, <2>2 DEF Shapes
<1>7. \A p \in Queue : InHand(p)'
  <2>1. InHand(q)'
    BY <1>0, <1>1, AdvanceOK DEF InHand
  <2>2. \A p \in Queue : p # q => io'[p] = io[p]
    BY <1>0, <1>1, AdvanceOK
  <2>3. written' \in [Chunk -> Nat] /\ \A d \in Chunk : written'[d] >= written[d]
    BY <1>0, <1>1 DEF Shapes
  <2> QED  BY <2>1, <2>2, <2>3, HandsKept
<1>8. \A p \in Queue : Covered(p)'
  BY <1>0 DEF IInv, Covered
<1>9. \A d \in Chunk : Ahead(d)' /\ Synced(d)'
  BY <1>0, <1>1, <1>3, <1>5 DEF IInv, Ahead, Synced, Unmarking
<1>10. UnsyncedIsDirty'
  BY <1>0, <1>1, <1>4, <1>5 DEF IInv, UnsyncedIsDirty
<1> QED  BY <1>6, <1>7, <1>8, <1>9, <1>10 DEF IInv

(* A thread that leaves the requests alone, or turns to or from a flush,   *)
(* has nothing in hand.                                                    *)
LEMMA HandsFree ==
    ASSUME IInv, NEW q \in Queue, NEW r \in IoRecord,
           io' = [io EXCEPT ![q] = r], r.pc \notin {"fd", "data", "mark"},
           UNCHANGED written
    PROVE  io' \in [Queue -> IoRecord] /\ \A p \in Queue : InHand(p)'
<1>1. io' \in [Queue -> IoRecord] /\ io'[q] = r /\ \A p \in Queue : p # q => io'[p] = io[p]
  BY IoPut DEF IInv
<1>2. InHand(q)'
  BY <1>1 DEF InHand
<1>3. written' \in [Chunk -> Nat] /\ \A d \in Chunk : written'[d] >= written[d]
  BY DEF IInv, Shapes
<1> QED  BY <1>1, <1>2, <1>3, HandsKept

LEMMA FlushOK ==
    ASSUME IInv, NEW q \in Queue, Flush(q)
    PROVE  IInv'
<1>0. Shapes /\ io[q].pc = "idle" /\ UNCHANGED <<written, acked, durable, dirty, exposed>>
  BY DEF IInv, Flush, data
<1> DEFINE r == [io[q] EXCEPT !.pc = "flush"]
           s == [step |-> [c \in Chunk |-> IF c \in dirty THEN "fd" ELSE "none"],
                 ok |-> TRUE, marked |-> dirty, must |-> acked]
<1>1. io' = [io EXCEPT ![q] = r] /\ r \in IoRecord /\ r.pc = "flush"
  BY <1>0 DEF Flush, Shapes, IoRecord, IoPc
<1> HIDE DEF r
<1>2. io' \in [Queue -> IoRecord] /\ \A p \in Queue : InHand(p)'
  BY <1>0, <1>1, HandsFree
<1>3. /\ s \in SyncRecord /\ s.marked = dirty /\ s.must = acked
      /\ \A c \in Chunk : s.step[c] = IF c \in dirty THEN "fd" ELSE "none"
  <2>1. [c \in Chunk |-> IF c \in dirty THEN "fd" ELSE "none"] \in [Chunk -> SyncPc]
    BY DEF SyncPc
  <2> QED  BY <1>0, <2>1 DEF SyncRecord, Shapes
<1>4. sync' = [sync EXCEPT ![q] = s]
  BY DEF Flush
<1> HIDE DEF s
<1>5. /\ sync' \in [Queue -> SyncRecord] /\ sync'[q] = s
      /\ \A p \in Queue : p # q => sync'[p] = sync[p]
  BY <1>0, <1>3, <1>4 DEF Shapes
<1>6. Shapes'
  BY <1>0, <1>2, <1>5 DEF Shapes
<1>7. \A p \in Queue : Covered(p)'
  <2>1. Covered(q)'
    <3>1. \A c \in dirty : s.step[c] = "fd"
      BY <1>0, <1>3 DEF Shapes
    <3> QED  BY <1>3, <1>5, <3>1 DEF Covered
  <2>2. ASSUME NEW p \in Queue, p # q PROVE Covered(p)'
    BY <1>0, <1>5, <2>2 DEF Covered, IInv
  <2> QED  BY <2>1, <2>2
<1>8. \A c \in Chunk : Ahead(c)'
  BY <1>0, <1>3, <1>5 DEF IInv, Ahead
<1>9. \A c \in Chunk : Synced(c)'
  BY <1>0, <1>3, <1>5 DEF IInv, Synced, Unmarking
<1>10. UnsyncedIsDirty'
  BY <1>0 DEF IInv, UnsyncedIsDirty
<1> QED  BY <1>2, <1>6, <1>7, <1>8, <1>9, <1>10 DEF IInv

(* A step of a flush that syncs and unmarks nothing. *)
LEMMA FlushOnly ==
    ASSUME IInv, NEW q \in Queue, NEW c \in Chunk,
           GiveUp(q, c) \/ sync' = [sync EXCEPT ![q].step[c] = "sync"],
           io' \in [Queue -> IoRecord], \A p \in Queue : InHand(p)',
           UNCHANGED <<written, acked, durable, dirty, exposed>>
    PROVE  IInv'
<1>0. Shapes
  BY DEF IInv
<1>1. /\ sync' \in [Queue -> SyncRecord]
      /\ \A p \in Queue : /\ sync'[p].ok => sync[p].ok
                          /\ sync'[p].marked = sync[p].marked
                          /\ sync'[p].must = sync[p].must
      /\ \A p \in Queue, d \in Chunk :
            \/ sync'[p].step[d] = sync[p].step[d]
            \/ sync'[p].step[d] = "sync"
            \/ sync'[p].step[d] = "none" /\ ~sync'[p].ok
  <2>1. CASE GiveUp(q, c)
    <3>1. /\ sync' \in [Queue -> SyncRecord]
          /\ \A p \in Queue : /\ sync'[p].ok = IF p = q THEN FALSE ELSE sync[p].ok
                              /\ sync'[p].marked = sync[p].marked
                              /\ sync'[p].must = sync[p].must
          /\ \A p \in Queue, d \in Chunk :
                 sync'[p].step[d] = IF p = q /\ d = c THEN "none" ELSE sync[p].step[d]
      BY <1>0, <2>1, GiveUpOK, ZenonT(30)
    <3> QED  BY <3>1
  <2>2. CASE sync' = [sync EXCEPT ![q].step[c] = "sync"]
    <3>1. "sync" \in SyncPc /\ Steps(q, c, "sync")
      BY <2>2 DEF SyncPc, Steps
    <3>2. /\ sync' \in [Queue -> SyncRecord]
          /\ \A p \in Queue : /\ sync'[p].ok = sync[p].ok
                              /\ sync'[p].marked = sync[p].marked
                              /\ sync'[p].must = sync[p].must
          /\ \A p \in Queue, d \in Chunk :
                 sync'[p].step[d] = IF p = q /\ d = c THEN "sync" ELSE sync[p].step[d]
      BY <1>0, <3>1, StepTo
    <3> QED  BY <3>2
  <2> QED  BY <2>1, <2>2
<1>2. Shapes'
  BY <1>0, <1>1 DEF Shapes
<1>3. ASSUME NEW p \in Queue PROVE Covered(p)'
  <2>1. sync[p].marked \subseteq Chunk /\ Covered(p)
    BY <1>0 DEF Shapes, SyncRecord, IInv
  <2> QED  BY <1>1, <2>1 DEF Covered
<1>4. \A d \in Chunk : Ahead(d)'
  BY <1>1 DEF IInv, Ahead
<1>5. \A d \in Chunk : Synced(d)'
  BY <1>1 DEF IInv, Synced, Unmarking
<1>6. UnsyncedIsDirty'
  BY DEF IInv, UnsyncedIsDirty
<1> QED  BY <1>2, <1>3, <1>4, <1>5, <1>6 DEF IInv

LEMMA FlushFdOK ==
    ASSUME IInv, NEW q \in Queue, NEW c \in Chunk, FlushFd(q, c)
    PROVE  IInv'
<1>1. UNCHANGED <<written, acked, durable, dirty, exposed>>
  BY DEF FlushFd
<1>2. GiveUp(q, c) \/ sync' = [sync EXCEPT ![q].step[c] = "sync"]
  BY DEF FlushFd
<1>3. io' \in [Queue -> IoRecord] /\ \A p \in Queue : InHand(p)'
  <2>1. CASE UNCHANGED io
    BY <1>1, <2>1 DEF IInv, Shapes, InHand
  <2>2. CASE io' = [io EXCEPT ![q].pc = "panic"]
    <3> DEFINE r == [io[q] EXCEPT !.pc = "panic"]
    <3>1. io' = [io EXCEPT ![q] = r] /\ r \in IoRecord /\ r.pc = "panic"
      BY <2>2 DEF IInv, Shapes, IoRecord, IoPc
    <3> HIDE DEF r
    <3> QED  BY <1>1, <3>1, HandsFree
  <2> QED  BY <2>1, <2>2 DEF FlushFd
<1> QED  BY <1>1, <1>2, <1>3, FlushOnly

LEMMA FlushSyncOK ==
    ASSUME IInv, NEW q \in Queue, NEW c \in Chunk, FlushSync(q, c)
    PROVE  IInv'
<1>0. Shapes /\ UNCHANGED <<written, acked, dirty, io>>
  BY DEF IInv, FlushSync
<1>1. io' \in [Queue -> IoRecord] /\ \A p \in Queue : InHand(p)'
  BY <1>0 DEF IInv, Shapes, InHand
<1>2. CASE GiveUp(q, c) /\ UNCHANGED <<durable, exposed>>
  BY <1>0, <1>1, <1>2, FlushOnly
<1>3. CASE /\ durable' = [durable EXCEPT ![c] = written[c]]
           /\ sync' = [sync EXCEPT ![q].step[c] = "unmark"]
           /\ exposed' = exposed \ {c}
  <2>1. "unmark" \in SyncPc /\ Steps(q, c, "unmark")
    BY <1>3 DEF SyncPc, Steps
  <2>2. /\ sync' \in [Queue -> SyncRecord]
        /\ \A p \in Queue : /\ sync'[p].ok = sync[p].ok
                            /\ sync'[p].marked = sync[p].marked
                            /\ sync'[p].must = sync[p].must
        /\ \A p \in Queue, d \in Chunk :
               sync'[p].step[d] = IF p = q /\ d = c THEN "unmark" ELSE sync[p].step[d]
    BY <1>0, <2>1, StepTo
  <2>3. /\ durable' \in [Chunk -> Nat] /\ durable'[c] = written[c]
        /\ \A d \in Chunk : d # c => durable'[d] = durable[d]
        /\ \A d \in Chunk : durable[d] \in Nat /\ written[d] \in Nat /\ acked[d] \in Nat
    BY <1>0, <1>3 DEF Shapes
  <2>4. Shapes'
    BY <1>0, <2>2, <2>3 DEF Shapes
  <2>5. ASSUME NEW p \in Queue PROVE Covered(p)'
    <3> SUFFICES ASSUME sync[p].ok, NEW d \in sync[p].marked,
                        sync'[p].step[d] \in {"none", "unmark"}
                 PROVE  durable'[d] >= sync[p].must[d]
      BY <2>2 DEF Covered
    <3>1. d \in Chunk /\ sync[p].must[d] \in Nat
      BY <1>0 DEF Shapes, SyncRecord
    <3>2. Covered(p) /\ sync[p].must[d] <= written[d]
      BY <3>1 DEF IInv, Ahead
    <3>3. CASE d = c
      BY <2>3, <3>1, <3>2, <3>3
    <3>4. CASE d # c
      BY <2>2, <2>3, <3>1, <3>2, <3>4 DEF Covered
    <3> QED  BY <3>3, <3>4
  <2>6. ASSUME NEW d \in Chunk PROVE Ahead(d)' /\ Synced(d)'
    <3>1. Ahead(d) /\ Synced(d)
      BY DEF IInv
    <3>2. Ahead(d)'
      BY <1>0, <2>2, <2>3, <3>1 DEF Ahead
    <3>3. CASE d = c
      BY <1>0, <2>3, <3>2, <3>3 DEF Synced
    <3>4. CASE d # c
      BY <1>0, <1>3, <2>2, <2>3, <3>1, <3>2, <3>4 DEF Synced, Unmarking
    <3> QED  BY <3>2, <3>3, <3>4
  <2>7. UnsyncedIsDirty'
    <3>1. \A d \in Chunk : acked[d] <= written[d]
      BY DEF IInv, Ahead
    <3> QED  BY <1>0, <1>3, <2>3, <3>1 DEF IInv, UnsyncedIsDirty
  <2> QED  BY <1>1, <2>4, <2>5, <2>6, <2>7 DEF IInv
<1> QED  BY <1>2, <1>3 DEF FlushSync

LEMMA FlushUnmarkOK ==
    ASSUME IInv, NEW q \in Queue, NEW c \in Chunk, FlushUnmark(q, c)
    PROVE  IInv'
<1>0. /\ Shapes /\ UNCHANGED <<written, acked, durable, io, exposed, crashes>>
      /\ sync[q].step[c] = "unmark" /\ dirty' = dirty \ {c}
  BY DEF IInv, FlushUnmark, data, At
<1>1. "none" \in SyncPc /\ Steps(q, c, "none")
  BY DEF FlushUnmark, SyncPc, Steps
<1>2. /\ sync' \in [Queue -> SyncRecord]
      /\ \A p \in Queue : /\ sync'[p].ok = sync[p].ok
                          /\ sync'[p].marked = sync[p].marked
                          /\ sync'[p].must = sync[p].must
      /\ \A p \in Queue, d \in Chunk :
             sync'[p].step[d] = IF p = q /\ d = c THEN "none" ELSE sync[p].step[d]
  BY <1>0, <1>1, StepTo
<1>3. Shapes' /\ \A p \in Queue : InHand(p)'
  BY <1>0, <1>2 DEF IInv, Shapes, InHand
<1>4. ASSUME NEW p \in Queue PROVE Covered(p)'
  <2>1. Covered(p) /\ sync[p].marked \subseteq Chunk
    BY <1>0 DEF IInv, Shapes, SyncRecord
  <2>2. \A d \in Chunk : sync'[p].step[d] \in {"none", "unmark"} =>
                             sync[p].step[d] \in {"none", "unmark"}
    BY <1>0, <1>2
  <2> QED  BY <1>0, <1>2, <2>1, <2>2 DEF Covered
<1>5. \A d \in Chunk : Ahead(d)'
  BY <1>0, <1>2 DEF IInv, Ahead
<1>6. ASSUME NEW d \in Chunk PROVE Synced(d)'
  <2>1. Unmarking(d)' => Unmarking(d)
    BY <1>2 DEF Unmarking
  <2> QED  BY <1>0, <2>1 DEF IInv, Synced
<1>7. UnsyncedIsDirty'
  <2> SUFFICES ASSUME NEW d \in Chunk, acked[d] > durable[d] PROVE d \in dirty' \cup exposed
    BY <1>0 DEF UnsyncedIsDirty
  <2>1. CASE d = c
    <3>1. Synced(c) /\ Unmarking(c) /\ acked[c] <= written[c]
      BY <1>0 DEF IInv, Ahead, Unmarking
    <3>2. acked[c] \in Nat /\ written[c] \in Nat /\ durable[c] \in Nat
      BY <1>0 DEF Shapes
    <3> QED  BY <2>1, <3>1, <3>2 DEF Synced
  <2>2. CASE d # c
    BY <1>0, <2>2 DEF IInv, UnsyncedIsDirty
  <2> QED  BY <2>1, <2>2
<1> QED  BY <1>3, <1>4, <1>5, <1>6, <1>7 DEF IInv

LEMMA FlushDoneOK ==
    ASSUME IInv, NEW q \in Queue, FlushDone(q)
    PROVE  IInv'
<1>0. Shapes /\ UNCHANGED <<written, acked, durable, dirty, exposed, crashes>>
  BY DEF IInv, FlushDone, data
<1>1. PICK r \in IoRecord : /\ io' = [io EXCEPT ![q] = r]
                            /\ r.pc \notin {"fd", "data", "mark"}
  <2>1. Idle \in IoRecord /\ Idle.pc = "idle"
    BY IdleOK
  <2>2. /\ [Idle EXCEPT !.pc = "dead"] \in IoRecord
        /\ [Idle EXCEPT !.pc = "dead"].pc = "dead"
    BY <2>1 DEF IoRecord, IoPc
  <2> QED  BY <2>1, <2>2 DEF FlushDone
<1>2. io' \in [Queue -> IoRecord] /\ \A p \in Queue : InHand(p)'
  BY <1>0, <1>1, HandsFree
<1>3. sync' = [sync EXCEPT ![q] = NoFlush]
  BY DEF FlushDone
<1>4. /\ sync' \in [Queue -> SyncRecord] /\ sync'[q] = NoFlush
      /\ \A p \in Queue : p # q => sync'[p] = sync[p]
  BY <1>0, <1>3, NoFlushOK DEF Shapes
<1>5. Shapes'
  BY <1>0, <1>2, <1>4 DEF Shapes
<1>6. ASSUME NEW p \in Queue PROVE Covered(p)'
  BY <1>0, <1>4, NoFlushOK DEF IInv, Covered
<1>7. ASSUME NEW d \in Chunk PROVE Ahead(d)'
  <2>1. Ahead(d) /\ written[d] \in Nat
    BY <1>0 DEF IInv, Shapes
  <2> QED  BY <1>0, <1>4, <2>1, NoFlushOK DEF Ahead
<1>8. ASSUME NEW d \in Chunk PROVE Synced(d)'
  <2>1. Unmarking(d)' => Unmarking(d)
    BY <1>4, NoFlushOK DEF Unmarking
  <2> QED  BY <1>0, <2>1 DEF IInv, Synced
<1>9. UnsyncedIsDirty'
  BY <1>0 DEF IInv, UnsyncedIsDirty
<1> QED  BY <1>2, <1>5, <1>6, <1>7, <1>8, <1>9 DEF IInv

LEMMA WorkerCrashOK ==
    ASSUME IInv, WorkerCrash
    PROVE  IInv'
<1>0. /\ Shapes /\ UNCHANGED <<written, acked>> /\ dirty' = {}
      /\ crashes' = crashes + 1 /\ durable' \in {durable, written}
      /\ exposed' = {c \in Chunk : durable'[c] < written[c]}
      /\ io' = [q \in Queue |-> Idle] /\ sync' = [q \in Queue |-> NoFlush]
  BY DEF IInv, WorkerCrash
<1>1. Shapes'
  BY <1>0, IdleOK, NoFlushOK DEF Shapes
<1>2. \A p \in Queue : InHand(p)' /\ Covered(p)'
  BY <1>0, IdleOK, NoFlushOK DEF InHand, Covered
<1>3. ASSUME NEW c \in Chunk PROVE Ahead(c)' /\ Synced(c)'
  <2>1. /\ written[c] \in Nat /\ durable[c] \in Nat /\ acked[c] \in Nat
        /\ durable[c] <= written[c] /\ acked[c] <= written[c]
    BY <1>0 DEF Shapes, IInv, Ahead
  <2>2. Ahead(c)'
    BY <1>0, <2>1, NoFlushOK DEF Ahead
  <2>3. ~Unmarking(c)'
    BY <1>0, NoFlushOK DEF Unmarking
  <2> QED  BY <2>2, <2>3 DEF Synced
<1>4. UnsyncedIsDirty'
  <2> SUFFICES ASSUME NEW c \in Chunk, acked[c] > durable'[c] PROVE c \in exposed'
    BY <1>0 DEF UnsyncedIsDirty
  <2>1. /\ written[c] \in Nat /\ durable'[c] \in Nat /\ acked[c] \in Nat
        /\ acked[c] <= written[c]
    BY <1>0 DEF Shapes, IInv, Ahead
  <2> QED  BY <1>0, <2>1
<1> QED  BY <1>1, <1>2, <1>3, <1>4 DEF IInv

LEMMA InitOK == Init => IInv
<1> SUFFICES ASSUME Init PROVE IInv
  OBVIOUS
<1>1. Shapes
  BY IdleOK, NoFlushOK DEF Init, Shapes
<1>2. \A q \in Queue : InHand(q) /\ Covered(q)
  BY IdleOK, NoFlushOK DEF Init, InHand, Covered
<1>3. \A c \in Chunk : Ahead(c) /\ ~Unmarking(c)
  BY NoFlushOK DEF Init, Ahead, Unmarking
<1>4. UnsyncedIsDirty
  BY DEF Init, UnsyncedIsDirty
<1> QED  BY <1>1, <1>2, <1>3, <1>4 DEF IInv, Synced

LEMMA NextOK == IInv /\ [Next]_vars => IInv'
<1> SUFFICES ASSUME IInv, [Next]_vars PROVE IInv'
  OBVIOUS
<1>1. CASE UNCHANGED vars
  BY <1>1 DEF vars, data, IInv, Shapes, InHand, Covered, Ahead, Synced, Unmarking,
              UnsyncedIsDirty
<1>2. CASE WorkerCrash
  BY <1>2, WorkerCrashOK
<1>3. ASSUME NEW q \in Queue, Serve(q) PROVE IInv'
  <2>1. CASE \E write \in BOOLEAN, req \in Requests : Submit(q, write, req)
    BY <2>1, SubmitOK
  <2>2. CASE IoFd(q)
    BY <2>2, IoFdOK
  <2>3. CASE IoData(q)
    BY <2>3, IoDataOK
  <2>4. CASE IoMark(q)
    BY <2>4, IoMarkOK
  <2>5. CASE Flush(q)
    BY <2>5, FlushOK
  <2>6. CASE FlushDone(q)
    BY <2>6, FlushDoneOK
  <2>7. ASSUME NEW c \in Chunk, FlushFd(q, c) \/ FlushSync(q, c) \/ FlushUnmark(q, c)
        PROVE  IInv'
    BY <2>7, FlushFdOK, FlushSyncOK, FlushUnmarkOK
  <2> QED  BY <1>3, <2>1, <2>2, <2>3, <2>4, <2>5, <2>6, <2>7 DEF Serve
<1> QED  BY <1>1, <1>2, <1>3 DEF Next

(* The state the argument rests on, in every reachable state. *)
THEOREM Inductive == Spec => []IInv
  BY InitOK, NextOK, PTL DEF Spec

-----------------------------------------------------------------------------
(* A completed write that is not on stable storage has its chunk marked    *)
(* dirty, except in the window between a chunk's sync and its unmarking    *)
(* and after a worker's death (do_io, flush).                              *)
THEOREM UnsyncedDirty == Spec => []UnsyncedIsDirty
<1>1. IInv => UnsyncedIsDirty
  BY DEF IInv
<1> QED  BY <1>1, Inductive, PTL

(* A flush answers only when it has no chunk in progress. *)
LEMMA AnswersAtTheEnd ==
    ASSUME IInv, crashes \in Nat, [Next]_vars, NEW q \in Queue, FlushSucceeds(q)
    PROVE  \A c \in Chunk : sync[q].step[c] = "none"
<1>0. /\ Shapes /\ io[q].pc = "flush" /\ io'[q].pc = "idle" /\ crashes' = crashes
  BY DEF IInv, Shapes, FlushSucceeds
<1>1. PICK p \in Queue : Serve(p)
  <2>1. ~WorkerCrash
    BY <1>0 DEF WorkerCrash
  <2>2. ~UNCHANGED vars
    BY <1>0 DEF vars
  <2> QED  BY <2>1, <2>2 DEF Next
<1>2. ASSUME p # q PROVE io'[q] = io[q]
  <2>1. Advance(p) => io'[q] = io[q]
    BY <1>0, <1>2 DEF Advance, Shapes
  <2>2. (\E r : io' = [io EXCEPT ![p] = r]) => io'[q] = io[q]
    BY <1>0, <1>2 DEF Shapes
  <2>3. \A x, v : io' = [io EXCEPT ![p].pc = x, ![p].ver = v] => io'[q] = io[q]
    BY <1>0, <1>2 DEF Shapes
  <2>4. \A x : io' = [io EXCEPT ![p].pc = x] => io'[q] = io[q]
    BY <1>0, <1>2 DEF Shapes
  <2> QED  BY <1>1, <2>1, <2>2, <2>3, <2>4
           DEF Serve, Submit, IoFd, IoData, IoMark, Flush, FlushFd, FlushSync,
               FlushUnmark, FlushDone
<1>3. p = q
  BY <1>0, <1>2
<1>4. \/ Flush(q) \/ FlushDone(q)
      \/ \E c \in Chunk : FlushFd(q, c) \/ FlushSync(q, c) \/ FlushUnmark(q, c)
  BY <1>0, <1>1, <1>3 DEF Serve, Submit, IoFd, IoData, IoMark
<1>5. ~Flush(q)
  BY <1>0 DEF Flush
<1>6. ASSUME NEW c \in Chunk, FlushFd(q, c) \/ FlushSync(q, c) \/ FlushUnmark(q, c)
      PROVE  FALSE
  <2>1. CASE UNCHANGED io
    BY <1>0, <2>1
  <2>2. CASE io' = [io EXCEPT ![q].pc = "panic"]
    BY <1>0, <2>2 DEF Shapes, IoRecord
  <2> QED  BY <1>6, <2>1, <2>2 DEF FlushFd, FlushSync, FlushUnmark
<1> QED  BY <1>4, <1>5, <1>6 DEF FlushDone

(* The deaths of the worker are counted, and a flush is cut short by one. *)
Counted == crashes \in Nat

LEMMA AlwaysCounted == Spec => []Counted
<1>1. Init => Counted
  BY DEF Init, Counted
<1>2. Counted /\ [Next]_vars => Counted'
  <2>1. \A q \in Queue : Serve(q) => UNCHANGED crashes
    BY DEF Serve, Submit, IoFd, IoData, IoMark, Flush, FlushFd, FlushSync, FlushUnmark,
           FlushDone
  <2> QED  BY <2>1 DEF vars, Next, WorkerCrash, Counted
<1> QED  BY <1>1, <1>2, PTL DEF Spec

(* When a flush answers Ok, every chunk that was marked dirty when it      *)
(* began is on stable storage, at the version it had then or later.        *)
THEOREM FlushCovers == Spec => FlushCoversDirty
<1>1. IInv /\ Counted /\ [Next]_vars =>
          [\A q \in Queue : FlushSucceeds(q) =>
               \A c \in sync[q].marked : durable[c] >= sync[q].must[c]]_vars
  <2> SUFFICES ASSUME IInv, Counted, [Next]_vars,
                      NEW q \in Queue, FlushSucceeds(q), NEW c \in sync[q].marked
               PROVE  durable[c] >= sync[q].must[c]
    OBVIOUS
  <2>1. c \in Chunk
    BY DEF IInv, Shapes, SyncRecord
  <2>2. sync[q].step[c] = "none" /\ sync[q].ok
    BY <2>1, AnswersAtTheEnd DEF FlushSucceeds, Counted
  <2> QED  BY <2>2 DEF IInv, Covered
<1> QED  BY <1>1, Inductive, AlwaysCounted, PTL DEF Spec, FlushCoversDirty

-----------------------------------------------------------------------------
(* Recursion over the numbers. *)

(* A set of numbers that leaves one out has a first number it leaves out. *)
LEMMA FirstMissing ==
    ASSUME NEW S, NEW m \in Nat, m \notin S
    PROVE  \E n \in Nat : n \notin S /\ \A k \in Nat : k < n => k \in S
<1> DEFINE T == {n \in Nat : n \notin S}
<1>1. PICK n \in T : \A k \in T : ~(<<k, n>> \in OpToRel(<, Nat))
  <2>1. T \subseteq Nat /\ T # {}
    OBVIOUS
  <2> HIDE DEF T
  <2> QED  BY <2>1, NatLessThanWellFounded, WFMin, Zenon
<1>2. ASSUME NEW k \in Nat, k < n PROVE k \in S
  <2>1. k \in T => ~(<<k, n>> \in OpToRel(<, Nat))
    BY <1>1
  <2>2. <<k, n>> \in OpToRel(<, Nat)
    <3>1. <<k, n>> \in Nat \X Nat
      BY <1>1
    <3> QED  BY <1>2, <3>1 DEF OpToRel
  <2> QED  BY <2>1, <2>2
<1> QED  BY <1>1, <1>2

(* Induction, for a set that is there.                                     *)
LEMMA EveryNumber ==
    ASSUME NEW S, 0 \in S, \A n \in Nat : n \in S => n + 1 \in S
    PROVE  Nat \subseteq S
<1> SUFFICES ASSUME NEW m \in Nat, m \notin S PROVE FALSE
  OBVIOUS
<1>1. PICK n \in Nat : n \notin S /\ \A k \in Nat : k < n => k \in S
  BY FirstMissing
<1>2. n # 0
  BY <1>1
<1>3. n - 1 \in Nat /\ n - 1 < n /\ (n - 1) + 1 = n
  BY <1>2
<1>4. n - 1 \in S
  BY <1>1, <1>3
<1> QED  BY <1>1, <1>3, <1>4

(* What taking a step again and again goes through. *)
Moves(S) == [S -> S]
Runs(S, step, s) ==
    {g \in [Nat -> S] : g[0] = s /\ \A n \in Nat : g[n + 1] = step[g[n]]}

(* A step can be taken any number of times. *)
LEMMA Iterated ==
    ASSUME NEW S, NEW step \in Moves(S), NEW s \in S
    PROVE  Runs(S, step, s) # {}
<1> USE DEF Moves
<1> DEFINE Chain(n, c) == c \in [0 .. n -> S] /\ c[0] = s
                          /\ \A i \in 0 .. n : i # n => c[i + 1] = step[c[i]]
           Some == {n \in Nat : \E c \in [0 .. n -> S] : Chain(n, c)}
<1>1. 0 \in Some
  <2>1. Chain(0, [i \in 0 .. 0 |-> s])
    OBVIOUS
  <2> QED  BY <2>1
<1>2. ASSUME NEW n \in Nat, n \in Some PROVE n + 1 \in Some
  <2>1. PICK c \in [0 .. n -> S] : Chain(n, c)
    BY <1>2
  <2> DEFINE d == [i \in 0 .. n + 1 |-> IF i = n + 1 THEN step[c[n]] ELSE c[i]]
  <2>2. c[n] \in S /\ step[c[n]] \in S
    BY <2>1
  <2>3. d \in [0 .. n + 1 -> S]
    <3>1. \A i \in 0 .. n + 1 : i # n + 1 => i \in 0 .. n
      OBVIOUS
    <3> QED  BY <2>1, <2>2, <3>1
  <2>4. d[0] = s
    BY <2>1
  <2>5. ASSUME NEW i \in 0 .. n + 1, i # n + 1 PROVE d[i + 1] = step[d[i]]
    <3>1. i \in 0 .. n /\ i + 1 \in 0 .. n + 1 /\ d[i] = c[i]
      BY <2>5
    <3>2. CASE i = n
      BY <3>1, <3>2
    <3>3. CASE i # n
      BY <2>1, <3>1, <3>3
    <3> QED  BY <3>2, <3>3
  <2> QED  BY <2>3, <2>4, <2>5
<1>3. Nat \subseteq Some
  <2> HIDE DEF Some
  <2> QED  BY <1>1, <1>2, EveryNumber
<1>4. ASSUME NEW n \in Nat, NEW m \in Nat, n <= m, NEW c, NEW d, Chain(n, c), Chain(m, d)
      PROVE  \A i \in 0 .. n : c[i] = d[i]
  <2> DEFINE Same == {i \in Nat : i \in 0 .. n => c[i] = d[i]}
  <2>1. 0 \in Same
    BY <1>4
  <2>2. ASSUME NEW i \in Nat, i \in Same PROVE i + 1 \in Same
    <3> SUFFICES ASSUME i + 1 \in 0 .. n PROVE c[i + 1] = d[i + 1]
      OBVIOUS
    <3>1. i \in 0 .. n /\ i # n /\ i \in 0 .. m /\ i # m
      BY <1>4
    <3>2. c[i] = d[i] /\ c[i + 1] = step[c[i]] /\ d[i + 1] = step[d[i]]
      BY <1>4, <2>2, <3>1
    <3> QED  BY <3>2
  <2>3. Nat \subseteq Same
    <3> HIDE DEF Same
    <3> QED  BY <2>1, <2>2, EveryNumber
  <2> QED  BY <2>3
<1> DEFINE chain(n) == CHOOSE c \in [0 .. n -> S] : Chain(n, c)
           g == [n \in Nat |-> chain(n)[n]]
<1>5. \A n \in Nat : Chain(n, chain(n))
  BY <1>3
<1> HIDE DEF chain
<1>6. g \in [Nat -> S]
  BY <1>5
<1>7. g[0] = s
  BY <1>5
<1>8. ASSUME NEW n \in Nat PROVE g[n + 1] = step[g[n]]
  <2>1. Chain(n, chain(n)) /\ Chain(n + 1, chain(n + 1))
    BY <1>5
  <2> HIDE DEF Chain
  <2>2. chain(n)[n] = chain(n + 1)[n]
    BY <1>4, <2>1
  <2> USE DEF Chain
  <2>3. chain(n + 1)[n + 1] = step[chain(n + 1)[n]]
    BY <2>1
  <2> QED  BY <2>2, <2>3
<1> QED  BY <1>6, <1>7, <1>8 DEF Runs

-----------------------------------------------------------------------------
(* The eviction loop. *)

Entry == [idx : Chunk, live : BOOLEAN]
Cache == [map : SUBSET Chunk, ord : Seq(Entry)]

(* A pop leaves a cache, and every dirty fd open. *)
LEMMA PopKeeps ==
    ASSUME NEW s \in Cache
    PROVE  Pop(s) \in Cache /\ dirty \cap s.map \subseteq Pop(s).map
<1>0. s.map \subseteq Chunk /\ s.ord \in Seq(Entry) /\ s = [map |-> s.map, ord |-> s.ord]
  BY DEF Cache
<1>1. CASE Cardinality(s.map) <= Cap \/ s.ord = <<>>
  BY <1>1 DEF Pop
<1>2. CASE ~(Cardinality(s.map) <= Cap \/ s.ord = <<>>)
  <2>1. PICK e : e = Head(s.ord)
    OBVIOUS
  <2>2. PICK r : r = Tail(s.ord)
    OBVIOUS
  <2>3. e \in Entry /\ r \in Seq(Entry) /\ Append(r, e) \in Seq(Entry)
    BY <1>0, <1>2, <2>1, <2>2, HeadTailProperties, AppendProperties
  <2>4. Pop(s) = CASE e.idx \notin s.map \/ ~e.live -> [s EXCEPT !.ord = r]
                   [] e.idx \in s.map /\ e.live /\ e.idx \in dirty ->
                        [s EXCEPT !.ord = Append(r, e)]
                   [] OTHER -> [map |-> s.map \ {e.idx}, ord |-> r]
    BY <1>2, <2>1, <2>2 DEF Pop
  <2>5. CASE e.idx \notin s.map \/ ~e.live
    <3>1. Pop(s) = [map |-> s.map, ord |-> r]
      BY <1>0, <2>4, <2>5
    <3> QED  BY <1>0, <2>3, <3>1 DEF Cache
  <2>6. CASE e.idx \in s.map /\ e.live /\ e.idx \in dirty
    <3>1. PICK a : a = Append(r, e)
      OBVIOUS
    <3>2. Pop(s) = [map |-> s.map, ord |-> a]
      BY <1>0, <2>4, <2>6, <3>1
    <3> QED  BY <1>0, <2>3, <3>1, <3>2 DEF Cache
  <2>7. CASE e.idx \in s.map /\ e.live /\ e.idx \notin dirty
    <3>1. Pop(s) = [map |-> s.map \ {e.idx}, ord |-> r]
      BY <2>4, <2>7
    <3> QED  BY <1>0, <2>3, <2>7, <3>1 DEF Cache
  <2> QED  BY <2>5, <2>6, <2>7
<1> QED  BY <1>1, <1>2

(* The loop, pop by pop. *)
IsPopped(s, w) == w = [n \in Nat |-> IF n = 0 THEN s ELSE Pop(w[n - 1])]

LEMMA PoppedExists ==
    ASSUME NEW s \in Cache
    PROVE  \E w : IsPopped(s, w)
<1> DEFINE step == [x \in Cache |-> Pop(x)]
<1>1. step \in Moves(Cache)
  BY PopKeeps DEF Moves
<1>2. PICK g \in [Nat -> Cache] : g[0] = s /\ \A n \in Nat : g[n + 1] = step[g[n]]
  <2> HIDE DEF step
  <2>1. Runs(Cache, step, s) # {}
    BY <1>1, Iterated
  <2> QED  BY <2>1 DEF Runs
<1>3. ASSUME NEW n \in Nat PROVE g[n] = IF n = 0 THEN s ELSE Pop(g[n - 1])
  <2>1. CASE n = 0
    BY <1>2, <2>1
  <2>2. CASE n # 0
    <3>1. n - 1 \in Nat /\ (n - 1) + 1 = n
      BY <2>2
    <3>2. g[n] = step[g[n - 1]] /\ g[n - 1] \in Cache
      BY <1>2, <3>1
    <3> QED  BY <2>2, <3>2
  <2> QED  BY <2>1, <2>2
<1>4. g = [n \in Nat |-> g[n]]
  BY <1>2
<1> QED  BY <1>3, <1>4 DEF IsPopped

(* The loop closes no dirty fd, however long it goes on. *)
LEMMA EvictKeeps ==
    ASSUME NEW s \in Cache
    PROVE  Evict(s) \in Cache /\ dirty \cap s.map \subseteq Evict(s).map
<1> DEFINE w == CHOOSE v : IsPopped(s, v)
<1>1. Evict(s) = w[2 * Cap]
  BY DEF Evict, IsPopped
<1>2. IsPopped(s, w)
  BY PoppedExists
<1> HIDE DEF w
<1> DEFINE Kept == {n \in Nat : w[n] \in Cache /\ dirty \cap s.map \subseteq w[n].map}
<1>3. 0 \in Kept
  <2>1. w[0] = s
    BY <1>2 DEF IsPopped
  <2> QED  BY <2>1
<1>4. ASSUME NEW n \in Nat, n \in Kept PROVE n + 1 \in Kept
  <2>1. n + 1 \in Nat /\ n + 1 # 0 /\ (n + 1) - 1 = n
    OBVIOUS
  <2>2. w[n + 1] = Pop(w[n])
    BY <1>2, <2>1 DEF IsPopped
  <2>3. w[n] \in Cache /\ dirty \cap s.map \subseteq w[n].map
    BY <1>4
  <2>4. Pop(w[n]) \in Cache /\ dirty \cap w[n].map \subseteq Pop(w[n]).map
    BY <2>3, PopKeeps
  <2> QED  BY <2>1, <2>2, <2>3, <2>4
<1>5. Nat \subseteq Kept
  <2> HIDE DEF Kept
  <2> QED  BY <1>3, <1>4, EveryNumber
<1>6. 2 * Cap \in Nat
  BY CapAssumption
<1> QED  BY <1>1, <1>5, <1>6

CacheOK == cached \subseteq Chunk /\ order \in Seq(Entry)

LEMMA UsedOK ==
    ASSUME NEW c \in Chunk, NEW ord \in Seq(Entry)
    PROVE  Used(c, ord) \in Seq(Entry)
<1> DEFINE old == [i \in 1 .. Len(ord) |->
                      IF ord[i].idx = c THEN [ord[i] EXCEPT !.live = FALSE] ELSE ord[i]]
           new == [idx |-> c, live |-> TRUE]
<1>1. Len(ord) \in Nat /\ \A i \in 1 .. Len(ord) : ord[i] \in Entry
  BY ElementOfSeq
<1>2. ASSUME NEW e \in Entry PROVE [e EXCEPT !.live = FALSE] \in Entry
  BY DEF Entry
<1>3. \A i \in 1 .. Len(ord) : old[i] \in Entry
  BY <1>1, <1>2
<1>4. old \in Seq(Entry)
  <2> HIDE DEF old
  <2>1. old \in [1 .. Len(ord) -> Entry]
    BY <1>3 DEF old
  <2> QED  BY <1>1, <2>1, SeqDef
<1>5. new \in Entry
  BY DEF Entry
<1>6. Used(c, ord) = Append(old, new)
  BY DEF Used
<1> HIDE DEF old, new
<1> QED  BY <1>4, <1>5, <1>6, AppendProperties

(* chunk_fd opens an fd and closes no dirty one. *)
LEMMA ChunkFdKeeps ==
    ASSUME CacheOK, NEW c \in Chunk, NEW create, ChunkFd(c, create)
    PROVE  CacheOK' /\ dirty \cap cached \subseteq cached'
<1>1. cached \subseteq Chunk /\ order \in Seq(Entry) /\ Used(c, order) \in Seq(Entry)
  BY UsedOK DEF CacheOK
<1>2. cached' = Opened(c).map /\ order' = Opened(c).ord
  BY DEF ChunkFd
<1>3. CASE c \in cached
  BY <1>1, <1>2, <1>3 DEF Opened, CacheOK
<1>4. CASE c \notin cached
  <2>1. PICK s : s = [map |-> cached \cup {c}, ord |-> Used(c, order)]
    OBVIOUS
  <2>2. s \in Cache /\ s.map = cached \cup {c}
    BY <1>1, <2>1 DEF Cache
  <2>3. Evict(s) \in Cache /\ dirty \cap s.map \subseteq Evict(s).map
    BY <2>2, EvictKeeps
  <2>4. Opened(c) = Evict(s)
    BY <1>4, <2>1 DEF Opened
  <2> QED  BY <1>2, <2>2, <2>3, <2>4 DEF CacheOK, Cache
<1> QED  BY <1>3, <1>4

(* Steps that do not open an fd leave the cache alone, but for a worker's  *)
(* death.                                                                  *)
LEMMA CacheStep ==
    ASSUME IInv, CacheOK, [Next]_vars
    PROVE  CacheOK' /\ (WorkerCrash \/ dirty \cap cached \subseteq cached')
<1>1. ASSUME UNCHANGED cachevars PROVE CacheOK' /\ dirty \cap cached \subseteq cached'
  BY <1>1 DEF cachevars, CacheOK
<1>2. CASE WorkerCrash
  BY <1>2 DEF WorkerCrash, CacheOK
<1>3. ASSUME NEW q \in Queue, IoFd(q) PROVE CacheOK' /\ dirty \cap cached \subseteq cached'
  <2>1. PICK c : c = Head(io[q].left)
    OBVIOUS
  <2>2. c \in Chunk
    <3>1. io[q].left # <<>> /\ Shapes
      BY <1>3 DEF IoFd, IInv, InHand
    <3> QED  BY <2>1, <3>1, HeadOK
  <2>3. CASE ChunkFd(c, io[q].write)
    <3>1. PICK b : b = io[q].write
      OBVIOUS
    <3> QED  BY <2>2, <2>3, <3>1, ChunkFdKeeps
  <2> QED  BY <1>1, <1>3, <2>1, <2>3 DEF IoFd
<1>4. ASSUME NEW q \in Queue, NEW c \in Chunk, FlushFd(q, c)
      PROVE  CacheOK' /\ dirty \cap cached \subseteq cached'
  <2>1. CASE ChunkFd(c, FALSE)
    BY <2>1, ChunkFdKeeps
  <2> QED  BY <1>1, <1>4, <2>1 DEF FlushFd
<1>5. ASSUME NEW q \in Queue, Serve(q)
      PROVE  CacheOK' /\ dirty \cap cached \subseteq cached'
  <2>1. CASE \/ \E write \in BOOLEAN, req \in Requests : Submit(q, write, req)
             \/ IoData(q) \/ IoMark(q) \/ Flush(q) \/ FlushDone(q)
             \/ \E c \in Chunk : FlushSync(q, c) \/ FlushUnmark(q, c)
    BY <1>1, <2>1 DEF Submit, IoData, IoMark, Flush, FlushDone, FlushSync, FlushUnmark
  <2> QED  BY <1>3, <1>4, <1>5, <2>1 DEF Serve
<1> QED  BY <1>1, <1>2, <1>5 DEF Next, vars

LEMMA AlwaysCache == Spec => []CacheOK
<1>1. Init => CacheOK
  BY DEF Init, CacheOK
<1>2. IInv /\ CacheOK /\ [Next]_vars => CacheOK'
  BY CacheStep
<1> QED  BY <1>1, <1>2, Inductive, PTL DEF Spec

(* Volume docs: dirty fds are never evicted from the open-fd cache: each   *)
(* one stays open until its chunk is synced, or the worker dies.           *)
THEOREM DirtyPinned == Spec => DirtyFdsPinned
<1>1. IInv /\ Counted /\ CacheOK /\ [Next]_vars =>
          [UNCHANGED crashes => (dirty \cap cached) \ cached' = {}]_vars
  <2> SUFFICES ASSUME IInv, Counted, CacheOK, [Next]_vars, UNCHANGED crashes
               PROVE  (dirty \cap cached) \ cached' = {}
    OBVIOUS
  <2>1. ~WorkerCrash
    BY DEF WorkerCrash, Counted
  <2> QED  BY <2>1, CacheStep
<1> QED  BY <1>1, Inductive, AlwaysCounted, AlwaysCache, PTL DEF Spec, DirtyFdsPinned

-----------------------------------------------------------------------------
(* Types. *)

(* No more writes reach a chunk than the bound, and no chunk from outside  *)
(* the volume turns up.                                                    *)
Bounded ==
    /\ exists \subseteq Chunk /\ exposed \subseteq Chunk /\ poisoned \in BOOLEAN
    /\ \A c \in Chunk : written[c] <= MaxWrites

LEMMA OpensWithin ==
    ASSUME Bounded, NEW c \in Chunk, NEW create, ChunkFd(c, create),
           UNCHANGED <<written, exposed>>
    PROVE  Bounded'
<1>1. exists' \subseteq Chunk
  BY DEF ChunkFd, Bounded
<1>2. poisoned' \in BOOLEAN
  BY DEF ChunkFd
<1> QED  BY <1>1, <1>2 DEF Bounded

LEMMA BoundedStep ==
    ASSUME IInv, Bounded, [Next]_vars
    PROVE  Bounded'
<1>0. Shapes
  BY DEF IInv
<1>1. ASSUME UNCHANGED <<exists, poisoned, written>>, exposed' \subseteq Chunk PROVE Bounded'
  BY <1>1 DEF Bounded
<1>2. CASE WorkerCrash
  BY <1>2 DEF WorkerCrash, Bounded
<1>3. ASSUME NEW q \in Queue, IoFd(q) PROVE Bounded'
  <2>1. PICK c : c = Head(io[q].left)
    OBVIOUS
  <2>2. c \in Chunk
    BY <1>0, <1>3, <2>1, HeadOK DEF IoFd, IInv, InHand
  <2>3. UNCHANGED <<written, exposed>>
    BY <1>3 DEF IoFd
  <2>4. CASE ChunkFd(c, io[q].write)
    <3>1. PICK b : b = io[q].write
      OBVIOUS
    <3> QED  BY <2>2, <2>3, <2>4, <3>1, OpensWithin
  <2>5. CASE UNCHANGED <<exists, cachevars>>
    BY <2>3, <2>5 DEF Bounded, cachevars
  <2> QED  BY <1>3, <2>1, <2>4, <2>5 DEF IoFd
<1>4. ASSUME NEW q \in Queue, NEW c \in Chunk, FlushFd(q, c) PROVE Bounded'
  <2>1. UNCHANGED <<written, exposed>>
    BY <1>4 DEF FlushFd
  <2>2. CASE ChunkFd(c, FALSE)
    BY <2>1, <2>2, OpensWithin
  <2>3. CASE UNCHANGED <<exists, cachevars>>
    BY <2>1, <2>3 DEF Bounded, cachevars
  <2> QED  BY <1>4, <2>2, <2>3 DEF FlushFd
<1>5. ASSUME NEW q \in Queue, IoData(q) PROVE Bounded'
  <2>1. PICK c \in Chunk : c = Head(io[q].left)
    <3>1. io[q].left # <<>>
      BY <1>5 DEF IoData, IInv, InHand
    <3> QED  BY <1>0, <3>1, HeadOK
  <2>2. /\ UNCHANGED <<exists, poisoned>> /\ exposed' \subseteq exposed \cup {c}
        /\ \/ written' = written
           \/ written' = [written EXCEPT ![c] = @ + 1] /\ written[c] < MaxWrites
    BY <1>5, <2>1 DEF IoData, cachevars
  <2>3. \A d \in Chunk : written[d] \in Nat
    BY <1>0 DEF Shapes
  <2>4. \A d \in Chunk : written'[d] <= MaxWrites
    BY <1>0, <2>2, <2>3, BoundsAssumption DEF Bounded, Shapes
  <2> QED  BY <2>1, <2>2, <2>4 DEF Bounded
<1>6. ASSUME NEW q \in Queue, Serve(q) PROVE Bounded'
  <2>1. CASE \/ \E write \in BOOLEAN, req \in Requests : Submit(q, write, req)
             \/ IoMark(q) \/ Flush(q) \/ FlushDone(q)
             \/ \E c \in Chunk : FlushSync(q, c) \/ FlushUnmark(q, c)
    <3>1. UNCHANGED <<exists, poisoned, written>> /\ exposed' \subseteq exposed
      BY <2>1 DEF Submit, IoMark, Flush, FlushDone, FlushSync, FlushUnmark, cachevars, data
    <3> QED  BY <1>1, <3>1 DEF Bounded
  <2> QED  BY <1>3, <1>4, <1>5, <1>6, <2>1 DEF Serve
<1>7. CASE UNCHANGED vars
  BY <1>7 DEF vars, cachevars, data, Bounded
<1> QED  BY <1>2, <1>6, <1>7 DEF Next

LEMMA TypesFollow == IInv /\ CacheOK /\ Bounded => TypeOK
<1> SUFFICES ASSUME IInv, CacheOK, Bounded PROVE TypeOK
  OBVIOUS
<1>1. ASSUME NEW c \in Chunk
      PROVE  /\ written[c] \in 0 .. MaxWrites /\ acked[c] \in 0 .. MaxWrites
             /\ durable[c] \in 0 .. MaxWrites
  <2>1. /\ written[c] \in Nat /\ acked[c] \in Nat /\ durable[c] \in Nat
        /\ acked[c] <= written[c] /\ durable[c] <= written[c] /\ written[c] <= MaxWrites
    BY DEF IInv, Shapes, Ahead, Bounded
  <2> QED  BY <2>1, BoundsAssumption
<1>2. /\ written \in [Chunk -> 0 .. MaxWrites] /\ acked \in [Chunk -> 0 .. MaxWrites]
      /\ durable \in [Chunk -> 0 .. MaxWrites]
  BY <1>1 DEF IInv, Shapes
<1>3. \A i \in 1 .. Len(order) : order[i].idx \in Chunk
  <2>1. \A i \in 1 .. Len(order) : order[i] \in Entry
    BY DEF CacheOK
  <2> QED  BY <2>1 DEF Entry
<1>4. \A q \in Queue : io[q].pc \in IoPc /\ sync[q].step \in [Chunk -> SyncPc]
  BY DEF IInv, Shapes, IoRecord, SyncRecord
<1>5. dirty \subseteq Chunk /\ cached \subseteq Chunk
  BY DEF IInv, Shapes, CacheOK
<1> QED  BY <1>2, <1>3, <1>4, <1>5 DEF TypeOK, Bounded

(* The state of the volume keeps its types; versions stay within what was  *)
(* written.                                                                *)
THEOREM TypeCorrect == Spec => []TypeOK
<1>1. Init => Bounded
  <2>1. Init => \A c \in Chunk : written[c] = 0
    BY DEF Init
  <2>2. 0 <= MaxWrites
    BY BoundsAssumption
  <2>3. Init => poisoned \in BOOLEAN
    BY DEF Init
  <2> QED  BY <2>1, <2>2, <2>3 DEF Init, Bounded
<1>2. IInv /\ Bounded /\ [Next]_vars => Bounded'
  BY BoundedStep
<1> QED  BY <1>1, <1>2, TypesFollow, Inductive, AlwaysCache, PTL DEF Spec
=============================================================================

------------------------------- MODULE Volume -------------------------------
(***************************************************************************)
(* The chunk-backed block volume a ublk worker serves: reads, writes and   *)
(* flushes of several queue threads over one open-fd cache and one dirty   *)
(* set (storage/volume.rs, driven by storage/ublk_worker.rs).              *)
(*                                                                         *)
(* A chunk's content is a version: the number of writes it has received.   *)
(* The page cache holds `written`, stable storage holds `durable`; an      *)
(* fdatasync copies the one to the other.  Every lock scope of the code is *)
(* one step, and a request is a thread's walk over the chunks it covers.   *)
(***************************************************************************)
EXTENDS Naturals, Sequences, FiniteSets

CONSTANTS
    Queue,       \* the ublk queue threads
    Chunks,      \* the volume has chunks 0 .. Chunks - 1
    Cap,         \* FD_CACHE_CAP
    MaxWrites,   \* bound: writes to one chunk
    MaxOrder,    \* bound: entries of the eviction order
    MaxCrashes   \* bound: worker crashes

ASSUME ChunksAssumption == Chunks \in Nat \ {0}
ASSUME CapAssumption == Cap \in Nat \ {0}
ASSUME BoundsAssumption == MaxWrites \in Nat /\ MaxOrder \in Nat
                            /\ MaxCrashes \in Nat

VARIABLES
    exists,     \* chunks with a file
    written,    \* version in the page cache, per chunk
    acked,      \* version of the last completed write, per chunk
    durable,    \* version on stable storage, per chunk
    dirty,      \* Volume.dirty
    cached,     \* keys of FdCache.map
    order,      \* FdCache.order: entries [idx, live]
    poisoned,   \* the cache mutex was poisoned by a panic
    io,         \* the request each queue thread is serving
    sync,       \* the flush each queue thread is serving, chunk by chunk
    exposed,    \* history: chunks written between a sync and its unmark, or
                \* by a worker that died
    crashes     \* worker crashes so far (bounded)

cachevars == <<cached, order, poisoned>>
data == <<exists, written, acked, durable>>
vars == <<data, dirty, cachevars, io, sync, exposed, crashes>>

Chunk == 0 .. Chunks - 1

(* A request covers one chunk or, when it straddles a boundary, two. *)
Requests == {<<c>> : c \in Chunk} \cup {<<c, c + 1>> : c \in 0 .. Chunks - 2}

IoPc == {"idle", "fd", "data", "mark", "flush", "panic", "dead"}
SyncPc == {"none", "fd", "sync", "unmark"}

Idle == [pc |-> "idle", write |-> FALSE, left |-> <<>>, ver |-> 0]
NoFlush == [step |-> [c \in Chunk |-> "none"], ok |-> TRUE,
            marked |-> {}, must |-> [c \in Chunk |-> 0]]

Init ==
    /\ exists = {} /\ dirty = {} /\ cached = {} /\ order = <<>>
    /\ written = [c \in Chunk |-> 0]
    /\ acked = [c \in Chunk |-> 0]
    /\ durable = [c \in Chunk |-> 0]
    /\ poisoned = FALSE
    /\ io = [q \in Queue |-> Idle]
    /\ sync = [q \in Queue |-> NoFlush]
    /\ exposed = {} /\ crashes = 0

-----------------------------------------------------------------------------
(* The fd cache. *)

(* An entry of the eviction order counts only while its generation is the  *)
(* chunk's current one: a use of chunk c outdates its earlier entries.     *)
Used(c, ord) ==
    Append([i \in 1 .. Len(ord) |->
               IF ord[i].idx = c THEN [ord[i] EXCEPT !.live = FALSE] ELSE ord[i]],
           [idx |-> c, live |-> TRUE])

(* Mutant: a pop of the eviction loop that does not spare dirty fds. *)
PopAny(s) ==
    IF Cardinality(s.map) <= Cap \/ s.ord = <<>> THEN s
    ELSE [map |-> s.map \ {Head(s.ord).idx}, ord |-> Tail(s.ord)]

(* One pop of the eviction loop: a stale entry is thrown away, a dirty fd  *)
(* rotates to the back, a clean fd is closed.                              *)
Pop(s) ==
    IF Cardinality(s.map) <= Cap \/ s.ord = <<>> THEN s
    ELSE LET e == Head(s.ord)
         IN  CASE e.idx \notin s.map \/ ~e.live -> [s EXCEPT !.ord = Tail(@)]
               [] e.idx \in s.map /\ e.live /\ e.idx \in dirty ->
                    [s EXCEPT !.ord = Append(Tail(@), e)]
               [] OTHER -> [map |-> s.map \ {e.idx}, ord |-> Tail(s.ord)]

(* The loop stops at the capacity or after 2 * Cap pops. *)
Evict(s) ==
    LET popped[n \in Nat] == IF n = 0 THEN s ELSE Pop(popped[n - 1])
    IN  popped[2 * Cap]

Opened(c) ==
    IF c \in cached THEN [map |-> cached, ord |-> Used(c, order)]
    ELSE Evict([map |-> cached \cup {c}, ord |-> Used(c, order)])

(* chunk_fd(c, create) finds or opens the fd, evicts, and takes the fd it  *)
(* just inserted out of the map: the panic when it is not there leaves the *)
(* mutex poisoned.                                                         *)
ChunkFd(c, create) ==
    /\ Len(order) < MaxOrder
    /\ exists' = IF create THEN exists \cup {c} ELSE exists
    /\ cached' = Opened(c).map
    /\ order' = Opened(c).ord
    /\ poisoned' = (c \notin Opened(c).map)

-----------------------------------------------------------------------------
(* do_io: for each chunk of the range take an fd, move the data and, for a *)
(* write, mark the chunk dirty.                                            *)

Submit(q, write, req) ==
    /\ io[q].pc = "idle"
    /\ write => \A i \in 1 .. Len(req) : written[req[i]] < MaxWrites
    /\ io' = [io EXCEPT ![q] = [pc |-> "fd", write |-> write,
                                left |-> req, ver |-> 0]]
    /\ UNCHANGED <<data, dirty, cachevars, sync, exposed, crashes>>

(* The thread goes on to the next chunk, or completes the request. *)
Advance(q) ==
    LET r == io[q]
    IN  io' = [io EXCEPT ![q] = IF Len(r.left) = 1 THEN Idle
                                ELSE [r EXCEPT !.pc = "fd", !.left = Tail(r.left)]]

IoFd(q) ==
    LET c == Head(io[q].left) IN
    /\ io[q].pc = "fd"
    /\ \/ /\ poisoned \/ c \notin cached          \* EIO: no lock, or no open
          /\ io' = [io EXCEPT ![q] = Idle]
          /\ UNCHANGED <<exists, cachevars>>
       \/ /\ ~poisoned /\ ~io[q].write /\ c \notin exists  \* reads zeros
          /\ c \notin cached
          /\ Advance(q)
          /\ UNCHANGED <<exists, cachevars>>
       \/ /\ ~poisoned /\ (io[q].write \/ c \in exists)
          /\ ChunkFd(c, io[q].write)
          /\ io' = [io EXCEPT ![q].pc = IF poisoned' THEN "dead" ELSE "data"]
    /\ UNCHANGED <<written, acked, durable, dirty, sync, exposed, crashes>>

Unmarking(c) == \E q \in Queue : sync[q].step[c] = "unmark"

(* read_at, or write_all_at into the page cache.  A write that fails may   *)
(* have written a part; the chunk is not marked and the rest is not tried. *)
IoData(q) ==
    LET c == Head(io[q].left)
        next == [written EXCEPT ![c] = @ + 1]
    IN
    /\ io[q].pc = "data"
    /\ \/ ~io[q].write /\ Advance(q) /\ UNCHANGED written
       \/ /\ io[q].write /\ written[c] < MaxWrites
          /\ written' = next
          /\ io' = [io EXCEPT ![q].pc = "mark", ![q].ver = next[c]]
       \/ /\ written' \in {written} \cup {w \in {next} : io[q].write /\ written[c] < MaxWrites}
          /\ io' = [io EXCEPT ![q] = Idle]
    /\ exposed' = exposed \cup {d \in {c} : written'[d] # written[d] /\ Unmarking(d)}
    /\ UNCHANGED <<exists, acked, durable, dirty, cachevars, sync, crashes>>

(* Mutant: the chunk is not marked dirty. *)
IoMarkNothing(q) ==
    LET c == Head(io[q].left) IN
    /\ io[q].pc = "mark"
    /\ acked' = [acked EXCEPT ![c] = IF @ < io[q].ver THEN io[q].ver ELSE @]
    /\ Advance(q)
    /\ UNCHANGED <<exists, written, durable, dirty, cachevars, sync, exposed, crashes>>

IoMark(q) ==
    LET c == Head(io[q].left) IN
    /\ io[q].pc = "mark"
    /\ dirty' = dirty \cup {c}
    /\ acked' = [acked EXCEPT ![c] = IF @ < io[q].ver THEN io[q].ver ELSE @]
    /\ Advance(q)
    /\ UNCHANGED <<exists, written, durable, cachevars, sync, exposed, crashes>>

-----------------------------------------------------------------------------
(* flush: copy the dirty set, sync its chunks in parallel (one scoped      *)
(* thread each, up to FLUSH_THREADS), unmarking each chunk as it is        *)
(* synced.  `must` and `marked` record what the flush has to cover.        *)

Flush(q) ==
    /\ io[q].pc = "idle"
    /\ io' = [io EXCEPT ![q].pc = "flush"]
    /\ sync' = [sync EXCEPT ![q] =
                  [step |-> [c \in Chunk |-> IF c \in dirty THEN "fd" ELSE "none"],
                   ok |-> TRUE, marked |-> dirty, must |-> acked]]
    /\ UNCHANGED <<data, dirty, cachevars, exposed, crashes>>

At(q, c, step) == io[q].pc \in {"flush", "panic"} /\ sync[q].step[c] = step

(* A failed step ends the chunk's group; the flush reports the error.      *)
(* (Every chunk has a group of its own while no more than FLUSH_THREADS    *)
(* are dirty.)                                                             *)
GiveUp(q, c) ==
    sync' = [sync EXCEPT ![q].step[c] = "none", ![q].ok = FALSE]

FlushFd(q, c) ==
    /\ At(q, c, "fd")
    /\ \/ /\ poisoned \/ c \notin cached
          /\ GiveUp(q, c) /\ UNCHANGED <<exists, cachevars, io>>
       \/ /\ ~poisoned
          /\ ChunkFd(c, FALSE)
          /\ IF poisoned'
             THEN io' = [io EXCEPT ![q].pc = "panic"] /\ GiveUp(q, c)
             ELSE sync' = [sync EXCEPT ![q].step[c] = "sync"] /\ UNCHANGED io
    /\ UNCHANGED <<written, acked, durable, dirty, exposed, crashes>>

(* sync_data, which may fail. *)
FlushSync(q, c) ==
    /\ At(q, c, "sync")
    /\ \/ /\ durable' = [durable EXCEPT ![c] = written[c]]
          /\ sync' = [sync EXCEPT ![q].step[c] = "unmark"]
          /\ exposed' = exposed \ {c}
       \/ GiveUp(q, c) /\ UNCHANGED <<durable, exposed>>
    /\ UNCHANGED <<exists, written, acked, dirty, cachevars, io, crashes>>

FlushUnmark(q, c) ==
    /\ At(q, c, "unmark")
    /\ dirty' = dirty \ {c}
    /\ sync' = [sync EXCEPT ![q].step[c] = "none"]
    /\ UNCHANGED <<data, cachevars, io, exposed, crashes>>

(* Mutant: the flush answers without waiting for its threads. *)
FlushDoneEarly(q) ==
    /\ io[q].pc = "flush"
    /\ io' = [io EXCEPT ![q] = Idle]
    /\ sync' = [sync EXCEPT ![q] = NoFlush]
    /\ UNCHANGED <<data, dirty, cachevars, exposed, crashes>>

(* All scoped threads are joined; the panic of one is passed on. *)
FlushDone(q) ==
    /\ io[q].pc \in {"flush", "panic"}
    /\ \A c \in Chunk : sync[q].step[c] = "none"
    /\ io' = [io EXCEPT ![q] =
                 IF @.pc = "panic" THEN [Idle EXCEPT !.pc = "dead"] ELSE Idle]
    /\ sync' = [sync EXCEPT ![q] = NoFlush]
    /\ UNCHANGED <<data, dirty, cachevars, exposed, crashes>>

(* The worker dies and the monitor respawns it with --recover: requests in *)
(* flight fail, the volume is opened anew with nothing cached and nothing  *)
(* dirty.  Closing the files writes them back on NFS, not on a local       *)
(* directory.                                                              *)
WorkerCrash ==
    /\ crashes < MaxCrashes
    /\ crashes' = crashes + 1
    /\ durable' \in {durable, written}
    /\ exposed' = {c \in Chunk : durable'[c] < written[c]}
    /\ dirty' = {} /\ cached' = {} /\ order' = <<>> /\ poisoned' = FALSE
    /\ io' = [q \in Queue |-> Idle]
    /\ sync' = [q \in Queue |-> NoFlush]
    /\ UNCHANGED <<exists, written, acked>>

-----------------------------------------------------------------------------
Serve(q) ==
    \/ \E write \in BOOLEAN, req \in Requests : Submit(q, write, req)
    \/ IoFd(q) \/ IoData(q) \/ IoMark(q)
    \/ Flush(q) \/ FlushDone(q)
    \/ \E c \in Chunk : FlushFd(q, c) \/ FlushSync(q, c) \/ FlushUnmark(q, c)

Next == WorkerCrash \/ \E q \in Queue : Serve(q)

Spec == Init /\ [][Next]_vars

-----------------------------------------------------------------------------
(* Properties *)

(* Types of the cache, the dirty set and the threads. *)
TypeOK ==
    /\ exists \subseteq Chunk /\ dirty \subseteq Chunk /\ cached \subseteq Chunk
    /\ written \in [Chunk -> 0 .. MaxWrites]
    /\ acked \in [Chunk -> 0 .. MaxWrites]
    /\ durable \in [Chunk -> 0 .. MaxWrites]
    /\ \A i \in 1 .. Len(order) : order[i].idx \in Chunk
    /\ poisoned \in BOOLEAN /\ exposed \subseteq Chunk
    /\ \A q \in Queue : io[q].pc \in IoPc /\ sync[q].step \in [Chunk -> SyncPc]

(* A flush that answers Ok. *)
FlushSucceeds(q) ==
    /\ io[q].pc = "flush" /\ io'[q].pc = "idle" /\ sync[q].ok
    /\ UNCHANGED crashes

(* Volume docs: dirty fds are never evicted from the open-fd cache (a      *)
(* worker's death closes them all).                                        *)
DirtyFdsPinned ==
    [][UNCHANGED crashes => (dirty \cap cached) \ cached' = {}]_vars

(* flush: every chunk that was marked dirty when the flush began is on     *)
(* stable storage, at the version it had then or later, when it answers.   *)
FlushCoversDirty ==
    [][\A q \in Queue : FlushSucceeds(q) =>
          \A c \in sync[q].marked : durable[c] >= sync[q].must[c]]_vars

(* Storage docs: a completed FLUSH makes every write completed before it   *)
(* began durable, dirty bit or not.                                        *)
FlushDurable ==
    [][\A q \in Queue : FlushSucceeds(q) =>
          \A c \in Chunk : durable[c] >= sync[q].must[c]]_vars

(* What the durability of the next flush rests on: a completed write that  *)
(* is not on stable storage has its chunk marked dirty.  The one window is *)
(* between a chunk's sync_data and its removal from the dirty set (and the *)
(* death of a worker).                                                     *)
UnsyncedIsDirty ==
    \A c \in Chunk : acked[c] > durable[c] => c \in dirty \cup exposed
=============================================================================

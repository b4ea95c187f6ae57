# TikoVM in TLA+

TikoVM runs Firecracker micro-VMs on one host. `hostd` (Rust, tokio/axum) keeps
a table of VMs, drives one Firecracker process per VM over a Unix socket, gives
each VM an address and a TAP device, serves optional block volumes from
`ublk-worker` processes, suspends idle VMs to snapshot files and wakes them when a
request arrives. `guestd` runs inside a VM and executes workloads. A reverse proxy
forwards HTTP and TCP to exposed ports. This directory holds the TLA+ model of the
parts whose correctness depends on the order of events, the TLC configurations
that check them and TLAPS proofs about the core. Paths below are relative to
`src/`; `vmm.rs` is `hostd/src/vmm/firecracker/vmm.rs`.

## Inventory

| Component | State it keeps | Operations | What is hard |
|---|---|---|---|
| VM lifecycle (`vmm.rs`, `vm.rs`, `setup.rs`, `api.rs`) | `vms` map of `FcVmEntry` (instance behind a mutex, `Child` handle), `wake_locks`, `wake_times`; work dir, snapshot files | create, start, pause, resume, snapshot, restore, ensure_started, destroy | any of them may be called concurrently by API handlers, the proxy, the auto-suspender and schedules; every one awaits Firecracker between two state transitions, and the handler's future can be dropped there |
| Block volume (`storage/volume.rs`) | chunk files, fd cache with an eviction deque, dirty set, one mutex each | read, write, flush (parallel `sync_data`), discard | several queue threads; fd and dirty mark are taken in separate critical sections |
| Storage manager (`storage/manager.rs`, `worker.rs`) | `volumes` map (device id, pid, respawn count), worker processes, kernel devices | attach, detach, monitor and respawn, reconcile | detach races the monitor; pids and device ids are reused; handshake timeouts |
| Network allocator (`net/`) | IPAM state in memory and in `network_state.json`, bridges, TAPs, NAT rules | allocate, release, reconcile at start | host commands fail half way, crash between a device and the save |
| Auto-suspend (`auto_suspend.rs`, `activity.rs`) | activity counters and timestamps per VM | begin/end of a request, sweep, guest events | the decision is older than the suspend it leads to |
| Workloads and guest agent (`workload.rs`, `guest.rs`, `vsock.rs`, `guestd/`) | workload table on both sides, control connection | start, stop, exit events, reconnect after restore | events lost or repeated over a reconnect |
| Scheduler (`schedule.rs`) | run locks per VM; the state of a run is in its task | tick, spawn, run, time out, snapshot at the end | overlapping fires, a VM that the API suspends or destroys under a run, a stop that cannot be delivered |
| Reverse proxy (`proxy/`) | tokens, exposed ports | sniff, negotiate, rewrite the start-up message, resolve, wake, forward | a target that is suspended between resolve and connect; peers that close in the middle of a frame; quoting in `options` |
| Web application server (`webapp/server`) | registry of projects (a tree of database branches), in memory only | provision, branch, delete with a cascade, TTL sweep, orphan sweep, shutdown | deletions that overlap each other and provisioning; crash with VMs left in hostd |
| Node client, vmtop, web front end, scripts | none of their own | - | - |

Interactions. The lifecycle calls the network allocator and the storage manager
from `create_vm` and `destroy_vm` (in `VmLifecycle` they are the flags `net` and
`vol`, whose inner workings are `NetAlloc` and `Storage`). The worker processes of
`Storage` run the code of `Volume`. The proxy, the scheduler and the workload
routes wake a VM through `ensure_started`; the auto-suspender calls `snapshot_vm`:
all are callers (`Task`) of `VmLifecycle`. What such a caller may rely on is `AbstractVm`; the
scheduler is modelled on top of it. The web application is a client of hostd's HTTP API: in
`Webapp` hostd is a set of VMs that are created and deleted, or not.

What makes each part correct:

- lifecycle: an operation has the VM to itself between its two transitions; a VM
  has one Firecracker process, a suspended one none and complete files; nothing
  survives a destroy; operations end;
- volume: what a completed flush covers is on disk; a dirty file's fd is not
  dropped from the cache;
- storage manager: no worker without a volume; one VM's fault or detach does not
  touch another VM's device;
- network: two VMs never share an address; a VM that was told its address is
  wired up and survives in the state file; restarts leak nothing;
- auto-suspend: a VM in use is not suspended; an idle one eventually is;
- workloads: hostd's status of a workload ends up as the guest's;
- scheduler: runs of a VM do not overlap, end, and leave the VM suspended;
- proxy start-up: the guest gets the client's message without the token, and nothing else is
  changed; a task ends with its peer;
- web application: no database is left that reads wiped chunks; no project is stuck; no VM
  outlives the application.

## Modules

| Module | Models | Used by |
|---|---|---|
| `VmLifecycle` | one VM and all callers | `MCVmLifecycle`, `VmLifecycleProofs` |
| `AbstractVm` | what `Vmm` promises about one VM | `VmLifecycle` (which implements it), `Schedule` (built on it) |
| `Volume` | one volume served by several queue threads | `MCVolume`, `VolumeProofs` |
| `NetAlloc` | `NetworkManager` with the devices on the host | `MCNetAlloc`, `NetAllocProofs` |
| `Storage` | `StorageManager` with workers and kernel devices | `MCStorage`, `StorageProofs` |
| `Workload` | hostd's workload table, the control connections, guestd | `MCWorkload`, `WorkloadProofs` |
| `AutoSuspend` | the traffic of one VM: proxied requests, exec calls, wake, activity, the idle detectors | `MCAutoSuspend`, `AutoSuspendProofs` |
| `Schedule` | the cron scheduler and one VM in schedule mode | `MCSchedule`, `ScheduleProofs` |
| `ProxyStartup` | one proxy connection up to the splice | `MCProxyStartup` |
| `Webapp` | the web application's projects and their deletion | `MCWebapp`, `WebappProofs` |
| `...Proofs` | the theorems on the eight modules with one | - |

The `MC*` modules only add the symmetry sets and, in `MCProxyStartup`, the messages that
clients send.

### VmLifecycle

A task is one call of a `Vmm` method. `pc[t]` names the place it is at; a handler is
cut into actions at every `await` and every mutex release, so one action is what
runs atomically under a lock or between two awaits.

| Actions | Code |
|---|---|
| `CreateBegin` ... `CreateRegister`, `CreateUndo` | `create_vm`, with `spawn`/`configure` of `setup.rs` and the clean-up branch |
| `Enter`, `Begin` (`StartBegin`, `PauseBegin`, ...) | `entry_parts`, then the first `transition` under the instance mutex |
| `StartPut`, `StartWait` | `start_vm`: InstanceStart and the polling of `wait_until_running` |
| `PausePatch`, `ResumePatch` | `pause_vm`, `resume_vm` |
| `SnapPatch` ... `SnapCommit`, `SnapUndo` | `snapshot_vm`: pause, write files, take and kill the child, commit; or resume and roll back |
| `RestoreEnter` ... `RestoreFinish`, `RestoreFail` | `restore_vm` |
| `WakeEnter`, `WakeAcquire`, `WakeRead` | `ensure_started` and its per-VM tokio mutex |
| `DestroyEnter` ... `DestroyCleanup` | `destroy_vm`, which takes the entry out of the map without a transition check |
| `Disconnect` | the client goes away and hyper drops the future: locals are dropped (`kill_on_drop` child, lock guard), nothing else runs |
| `FcExit`, `GuestRuns` | Firecracker, external: it may exit at any time; a running guest writes its disks, which makes existing snapshot files stale |

VM ids are fresh UUIDs, so one VM is created once. Request validation and the JSON
sent to Firecracker are abstracted to "accepted" or "refused".

### Volume

`io[q]` is the request of a queue thread: for each chunk of the byte range it gets an
fd (`ChunkFd`, with the `2 * Cap` bounded pops of the eviction deque in `Evict`),
does the I/O, and marks the chunk dirty, each in its own critical section. A flush
copies the dirty set and works on every chunk with its own scoped thread
(`FlushFd`, `FlushSync`, `FlushUnmark`). Data is a version number per chunk:
`written`, `acked` and `durable`. Opens, writes and syncs may fail. `WorkerCrash` loses
cache, dirty set and requests. A panic under the cache mutex poisons it.

### NetAlloc

Operations run one at a time (the manager's async mutex), each as a sequence of host
commands. The set `faults`, chosen at the start, says which kinds of command may fail in
the behaviour. `Crash` may strike between any two steps; `Restart` loads the file and
reconciliation removes what it lists and stray bridges. Subnets are numbers, a
subnet of `SubnetSize` addresses keeps the code's reserved ones (network, gateway,
broadcast). TLC chooses any free subnet and host where the code takes the first.

### Storage

Per VM: the attach/detach handler (`task`), the map entry, and the monitor task
(`mon`). Worker processes have pids from a finite pool and become zombies until reaped;
devices are ids from a finite pool the kernel hands out, so ids are reused. A worker that dies parks its
device for recovery. `AttachDropped` is the dropped handler future;
`Restart` is hostd's restart with reconciliation, which deletes device by device; each may fail.

### Workload

One VM. On hostd's side the calls (`start_workload`, `stop_workload`,
`arm_guest_detector`), the stored handle and one task per connection; on the guest's
side the accept loop, a handler thread per connection and a reap thread per workload. A
connection is a record: `req` is the request channel together with the bytes written from
it (one queue, lost as a whole when the connection is cut), `ev` the events under
way, `out` the event a handler thread has computed and not yet sent. `send_event` holds
guestd's connection mutex while it writes, so emitting is atomic.
`run_guest_conn` owns a clone of its own sender, so its channel never closes because the other
senders are gone: a connection that was replaced stays open, and two live connections are
possible for as long as the VM runs. `Suspend` cuts all of them; guestd is frozen until `Restore`.
`AutoSuspend` is the gate (no active workload), `ApiSuspend` the ungated request; the
cut follows later. Left out: captured output (appended to a log), and the timing of the
idle detectors (an auto-suspend may be tried at any time; `AutoSuspend` has them).

### AutoSuspend

One permanent VM with an `auto_suspend` configuration, and everyone who decides whether it is
up. A caller is a proxied request, an exec call, one of the two detectors or the management
API; as in `VmLifecycle`, an action is what runs under one lock or between two awaits.

| Actions | Code |
|---|---|
| `Arrive`, `Look`, `Check`, `Connect`, `Answer`, `StreamEnd` | `proxy/http.rs` (`forward`), `proxy/tcp.rs` (`run`) and `resolve_target` of `target.rs`; the guard counted in `Arrive` lives until the response body or the splice ends; a guest that runs may answer a request or never do |
| `WakeAcquire`, `WakeLoop`, `RestoreBegin`, `RestoreEnd`, `RestoreRecord` | `ensure_started` and `restore_vm`; the wake time is written after the state, under its own lock |
| `ExecCall`, `Launch`, `Reach`, `Poll`, `Stop`, `WorkloadExits` | `routes/exec.rs` with its polling and deadline, `start_workload` (the check of the state, then the connection, then the registration) and `stop_workload`; whether any workload is active is one flag |
| `HttpScan`, `GuestIdle`, `GuestSignal` | the HTTP sweep, guestd's idle event through the bounded channel, the guest loop |
| `GateVm`, `GateFlight`, `GateWake` | `auto_suspend_gate`, one action per lock it takes |
| `SnapBegin`, `SnapEnd`, `PauseResume`, `DestroyEnter`, `DestroyClean` | the operations of `VmLifecycle`, reduced to their first and last transition |
| `AddPort`, `RemovePort`, `MintToken` | `routes/ports.rs`, `token.rs` |
| `Drop` | the client goes away at an await: guard and lock are released |
| `Tick` | time: Instants are ages in ticks, up to the idle timeout |

A request and an exec are names that are used again after they return. The history variable
`since` records, per detector, the requests and wakes that came after its gate had read the
in-flight count. Left out: bytes and headers, the expiry and signature of tokens (a request
without a valid token changes nothing), and the start-up frames a TCP session parses first
(`ProxyStartup`).

### AbstractVm and the refinement

`AbstractVm` has the state of `vm.rs`, whether the VM is in the map, the set of its live
processes and whether a snapshot that matches its disks is on file. An operation begins in a
state it is for (`Begin`), and completes (`Complete`) or is undone (`RollBack`). Its guards are
promises: a VM in the map is suspended only without a process and with a matching snapshot; a
process is spawned only in create and restore, and never beside another one; a failed restore
leaves no process.

`VmLifecycle!ImplementsVmButUndo` is the refinement, with `state <- vmState`, `from <- origin`,
`present <- registered`, `live <-` the processes that are ready, running or paused, and
`saved <- (files = "full")`. Everything else of `VmLifecycle` (tasks, sockets, handles, locks,
dropped futures) is hidden. The code keeps the promise but for one step: the comment at
`vm.rs:81` lets a failed operation roll back to the previous stable state, and a failed snapshot
goes to `Started`, also when the VM was `Paused` (`vmm.rs:420`). `Spec` of `AbstractVm` is the
promise, and TLC finds `ImplementsVm` (`Abstract!Spec`) violated; `SpecButUndo` adds that step by
name (`SnapshotUndone`), and is what is checked and proved.

### Schedule

The VM is `AbstractVm`, whose actions runs (`Run`) and the management API (`Api`) take.

| Actions | Code |
|---|---|
| `FireDue`, `SpawnRun`, `SkipFire` | `fire_due_schedules` (under the map's lock) and `spawn_scheduled_run` (after it); `LockFor` is `ScheduleRunLocks::lock_for` |
| `Look`, `Wake`, `Launch`, `GuestConn`, `Send` | `run_scheduled_inner`: the match on the state, `ensure_started`, `start_workload` |
| `Poll`, `StopSend`, `Drain` | `await_workload` with its timeout, `stop_workload` |
| `Settle` and the `Snap*` actions | the end of `run_scheduled` |
| `Begin`, `Finish`, `Restore*`, `Snap*` | the operations of `vmm.rs`, reduced to what `AbstractVm` tells apart |
| `JobStarts`, `JobEnds`, `TakeStop`, `Hear` | guestd and hostd's connection task, for the workload of a run |
| `ApiCall`, `ApiAbandon`, `ApiConnect`, `ApiDestroy`, `DestroyCleanup`, `FcExit` | the API, a dropped API call, the two ends of `destroy_vm`, a dying Firecracker |

A run is a name that is used again once its workload is gone. A snapshot freezes the guest
(`Frozen`: its processes come back with a restore), a death without one ends it (`Dead`).

### ProxyStartup

One connection: `sniff_prefix`, the negotiation loop of `tcp.rs`, `parse_startup`,
`extract_token` and `build_startup`. Bytes are units, the smallest pieces the code tells
apart (NUL, space, backslash, the two quotes, `-c`, `tikovm_token=`, a word); `Scan` is one
round of the loop in `split_opts`. Frames arrive in up to three pieces: less than the eight bytes of
the header, the header, all. The splice ends when both ends have closed, or with an error of one that has
gone. The reference that `TokenStripped` compares with is written
differently: it finds escaped and quoted units and the words by position, reads the settings
as a postmaster does, and says what must be left of them.

### Webapp

Node runs one task up to its next await, and an action is such a stretch. `deleteProject` is
recursive, so a deletion is a stack of calls (`Opened`, `Marked`; `Cascade`, `Wipe`,
`Kill`). The tasks are the delete route, ticks of the TTL sweeper and, in a shutdown, one per
project. Provisioning (`Backup`, `Create`: hostd has made the VM, `Created`: its answer has arrived and the
project knows the VM, `Setup`, `ProvisionFails`) goes on whether its
project is still registered or not, and overwrites the status. `Exit` is the end of the
process, at any moment; `Start` the next run, which listens before it has swept. hostd may
fail a deletion. Left out: the VMs users add to a project (extra, lambda, PostgREST), which
are deleted with it by the same `allSettled`, and the removal of a backup pack.

## Runs

Passing:

| Run | Instance | Shows |
|---|---|---|
| `lifecycle` | 2 tasks, 2 processes, 1 disconnect, fairness | the refinement of `AbstractVm` but for `SnapshotUndone`; the safety properties; operations end, wakers are answered, processes die, destroys and failed creates leave nothing |
| `volume` | 2 queues, 2 chunks, cache of 1, 2 writes, 1 crash | dirty marks, pinned fds, what a flush covers |
| `net` | 3 VMs, 2 projects, 2 subnets of 8 addresses, every fault, crashes without bound | unique addresses, wiring, state file, nothing left over |
| `storage` | 2 VMs, 2 device ids, 2 pids, 2 respawns, 2 worker deaths, fairness | no orphan worker, detach finds the worker, a crash is handled |
| `workload` | 1 workload, 2 tasks, 2 connections, 3 calls, 1 suspend, 1 dropped call, fairness | no end is invented, an end is final, a reconnect brings what was missed |
| `auto_suspend` | 2 requests, both detectors, every API operation, 1 drop | the in-flight count is exact, the gate holds for what came before it |
| `traffic` | 1 request, 1 exec, the HTTP detector, suspend, pause and resume through the API, 1 drop, fairness | every request reaches the guest or is refused, every exec is answered, an idle VM does not stay up |
| `schedule` | 2 runs, 2 locks, 1 process, suspend, restore and destroy through the API, 1 dropped call, timeout, fairness | runs do not overlap, clean up and end |
| `startup` | every `options` value of up to 3 units, with and without other parameters, 2 frames, fairness | the message is rewritten right, the task ends with its peer and the guest |
| `webapp` | 3 projects, 1 deletion besides the 2 of a shutdown, 2 server runs, 1 failed VM deletion | the cascade covers every branch, no project is stuck, leftovers are swept |

Violations, each a disagreement between the code and what its own comments promise:

| Run | What TLC finds |
|---|---|
| `flush_race` | a write between a chunk's `sync_data` and its removal from the dirty set is forgotten by the next flush (`volume.rs:20`) |
| `paused_snapshot` | a snapshot of a paused VM that fails leaves the VM `Started`, not in the state it came from (`vm.rs:81`) |

Three more such disagreements are reached in passing runs. The last two are exceptions that a
property names, and TLC reports it violated when the exception is taken out:

- `volume`: opening a chunk when all cached fds are dirty evicts the fd just inserted, panics and
  poisons the cache mutex (`Evict`, `poisoned`); the comment says the cache grows
  (`volume.rs:187`). `DirtyFdsPinned` holds all the same;
- `startup`: a peer that closes after one to seven bytes keeps `sniff_prefix` in a busy loop;
  the comment says it waits until the peer goes away (`server.rs:91`). `EndsWithPeer` excepts
  `got = "few"`;
- `webapp`: a branch made of a project whose deletion is under way is not deleted with it;
  `state.ts:12` says that every deletion must cascade to all descendants. `CascadeCovers`
  excepts `late`.

### Properties

Lifecycle: `OneOperationAtATime` (the transitional states are a lock),
`SuspendedAtRest`, `OneProcess`, `NoStrayProcess`, `PausedIsFrozen`,
`OperationsSettle` (the second transition is never refused), `ImplementsVmButUndo` (the refinement:
among others, the guest does not run between the snapshot
and the kill, and an operation that fails goes back to where it began, a snapshot excepted),
`DestroyReleases` (of destroys and of creates that failed, only while no handler was cut off; a
create whose network was refused keeps its directory), and
`WorkEnds` (operations end unless a handler was cut off, processes die with their VM, wakers
are answered).

Volume: `UnsyncedIsDirty` holds outside the window `flush_race` is about: a chunk written
between a sync and its unmark is recorded in the history variable `exposed`.
`DirtyFdsPinned`, `FlushCoversDirty`.

Workload: `FinishedMeansExited`, `TerminalIsFinal`, `Resynced` (with a connection and
nothing under way, a connection that waits to be installed included, hostd agrees with
guestd's table) and `ExitReported`. The last two
except one case by name: `Deaf`, when a second connection was accepted by guestd and its
maker was dropped before hostd installed it. guestd then clears its current connection and
sends nothing on the first, which hostd goes on using.

Auto-suspend: `InFlightExact` (a guard is dropped exactly once on each of the many ways a
request ends, and not counted against a VM that was forgotten), `GateHolds`. The gate does not exclude a
request that arrives after `in_flight` was read: the snapshot takes the VM's mutex later and
looks at the state only. `GateHolds` says this is the only way a request is suspended
underfoot, and likewise for a wake within its cooldown (an idle signal queued before the last
suspend does not pass). `CallersAnswered`: a request is handed to the guest or refused, an exec
ends at its deadline at the latest unless the VM is paused under it; both may end with an error,
and when the guest answers a request is its own affair. `IdleIsSuspended` (while nobody uses
the VM a suspend is tried again and again; each may fail).

Network: `AddressesUnique`, `LiveIsWired`, `LiveIsSaved`, `NoLeftovers` (between operations
only live VMs have a lease, and no two bridges have the same gateway, unless deleting or
saving failed). Storage: `NoOrphanWorker`, `DetachFindsWorker`, `CrashHandled`.

Schedule: `NoOverlap` (two runs are never at work together, and the guest has two commands at
once only when one of them belongs to a run that could not deliver its stop), `RunsCleanUp`
(a VM that a run woke is up only while that run is there), `TimeoutEndsRun` (with the one
exception `CutOff`: the connection or the guest goes while the run waits for the exit of a
workload it stopped).

Proxy start-up: `TokenStripped`, for values the reference reads the same way (`Plain`, one kind
of quotes and no backslash among single ones) and that are well-formed settings;
`EndsWithPeer` (the peer has gone, and the guest has closed its side once the session is
spliced), except for a peer that closed after one to seven bytes.

Web application: `CascadeCovers` (except for a branch made of a project whose own
deletion was under way, and what is branched from that, `late`), `NoneStuck`, `LeftoversSwept`.

### Known limits of the code the properties leave room for

The exceptions above, and states the models reach that no property forbids, are what the code
does; a reader of the properties should know them.

- A handler that is dropped between its two transitions (`Disconnect`) leaves the VM in a
  transitional state; only destroy is left. `vm.rs:81` describes operations that run to their
  end.
- After a crash between creating devices and saving the state, reconciliation removes what the
  file lists and stray bridges, but not a TAP or NAT rule that is in no file.
- A workload that is registered after the auto-suspend gate looked is lost with the connection
  and stays `Starting`.
- A scheduled run whose VM the API suspends cannot deliver the stop of its timeout
  (`schedule.rs:258`, the `?`): its command is frozen with the VM and comes back beside the
  command of the next run. A run whose stop was sent and lost waits without a bound
  (`schedule.rs:261`), holding the run lock.
- Beside the two exceptions above (`got = "few"`, `late`): a session whose client has gone lasts
  until the guest closes its side too (`copy_bidirectional` waits for both), and counts as in
  flight.
- A request to a guest that accepts it and never answers, or is suspended under it, waits as long
  as its client does: `http.rs:107` sets no timeout. An exec whose VM is paused under it waits in
  `guest_conn`.
- A request counted after the auto-suspend gate has read the count, and a wake recorded after it
  has read the wake time, do not stop the suspend.
- A VM that hostd makes for a create of a server that has died, after the next run's sweep has
  listed the VMs, stays until a later sweep. (In the model hostd makes it before the end of the
  run or not at all.)
- The web application's ids start at 1000 in every run, so a new project can get the database
  id of one whose namespace a crash left on the shared storage.
- A VM created before the first sweep of a run has listed the VMs is taken for an orphan.

### Bounds

- `MaxDisconnects`: a second dropped handler adds no new situation, since after
  one the VM is either in a stable state or can only be destroyed; the proofs have no bound.
- `Proc`: processes that exist at the same time; a dead one's name is reused. Two are
  needed for a restore racing a destroy; `OneProcess` shows more are never alive.
- `MaxCalls` = 3, `Conn` of 2, `MaxSuspends` = 1: enough for two live connections, for a
  connection before and one after a suspend, and for a stop that races its start. `Capacity` is
  64 in the code; 2 makes a full channel reachable.
- `IdleTimeout` = 1 tick tells old from recent, which is all the code compares; channel
  `Capacity` 1 (64 in the code) makes a dropped signal reachable; `MaxDrops` = 1, since a
  dropped caller leaves nothing but, in a restore, a VM that stays `Restoring`. `ApiOps` and
  `GuestCheck` are configuration: `traffic` leaves out destroy, which only ends its
  behaviours early, restore, which a waker does as well, and the guest detector, to keep the
  liveness graph small: that an idle VM is suspended is shown for the HTTP detector.
- `MaxWrites`, `MaxOrder`: the deque of the fd cache grows with every hit and is not
  bounded by the code; the model stops serving requests at `MaxOrder`. A cache of 1 with 2 chunks
  has the eviction loop's full cycle: a dirty fd rotates to the back and the next pop takes the
  other one.
- `MaxCrashes`, `MAX_RESPAWNS` = 2 in `Storage.cfg` (3 in the code): two is the smallest
  limit with a respawn that is neither the first nor the last.
- `Schedule`: two runs are the most that can meet (a third would need a third lock); `ApiOps`
  leaves out pause, resume and start through the API, which take the VM to states a run refuses
  at once; `MaxAbandons` = 1 since an abandoned call leaves the VM where only destroy helps.
- `MaxUnits` = 3: a value of three units has an escape, a quote or a separator on either side of the
  token (`MCProxyStartup` puts longer values of chosen shapes beside them). `MaxFrames` = 2: a refusal
  of encryption and the start-up message.
- `N` = 3 is a chain of branches, or a branch with a sibling. `MaxAtStop` = 2 and one `Deleter`:
  a shutdown deletes up to two projects at once, an ancestor and its branch among them, while the
  deleter may be deleting either or the third. A second `Deleter` makes the instance too large;
  the proof of `CascadeCovers` has no bound on either. `MaxRoots` = 1 (the projects of a run form
  one tree: trees have nothing to do with each other) and `MaxMaking` = 1 (a project is made when
  no other is being provisioned) keep the rest small.
  `MaxRuns` = 2: one run to leave
  something behind, one to sweep it. `MaxFails` = 1.
- `SubnetSize` = 8 leaves five host addresses, more than the VMs, and two subnets for two projects:
  a subnet is released and given to the other project.

Deadlock is checked where the system never stops (`net`, `auto_suspend`, `traffic`). The other systems do stop:
a destroyed VM whose id is never used again, or a bound that is used up.

### Fairness

`VmLifecycle!Fairness` is weak fairness of `Step(t)`: tokio polls a ready task, and
Firecracker answers or its socket reports an error. The code has no timeout on an API
call, so a Firecracker process that accepts a connection and never answers is outside
this assumption (it would hold the VM in a transitional state; listed as a hazard).
Tokio's mutex is fair, hence strong fairness of `WakeAcquire`. Calls, exits and
disconnects have no fairness. `Storage` assumes weak fairness of the monitor and of a
detach that has begun, nothing about attaches or worker deaths. `Workload` assumes that
tasks and threads run and that a signalled process ends (SIGKILL follows SIGTERM).
`AutoSuspend` assumes weak fairness of what wakers, detectors and the API have begun and of
time, strong fairness of the wake lock, and nothing about how long a session lasts, about new
calls or about idle signals. That Firecracker answers a restore and a snapshot, or fails, is
assumed as in `VmLifecycle`. Nothing is assumed of the guest: `Answer` has no fairness, and an
exec's calls to it (`GuestCall`, which connect within the timeout of `guest_conn` or fail) have
it only while the VM is not paused. `Schedule` assumes that a run, a task nobody cancels, goes on,
that guestd and hostd's connection task do while the guest runs, and that a workload that got its stop
ends (SIGKILL follows SIGTERM); nothing about the API, the ticks or how long a command takes.
`ProxyStartup` assumes that the task of a connection is polled; nothing about the client or the
guest, which may keep its side open for ever.

## Proofs

`VmLifecycleProofs` proves, for every set of tasks and processes and every number of
disconnects, from the three assumptions of `VmLifecycle` (`NoTask` and `NoProc` are
not elements of the sets, `MaxDisconnects` is a natural number):

- `TypeCorrect`: `Spec => []TypeOK`, split into Boolean flags and the other shapes,
  which suit different provers;
- `Inductive`: `Spec => []IInv`, from which follow
- `Exclusion` (`OneOperationAtATime`), `Rest` (`SuspendedAtRest`), `SingleProcess`
  (`OneProcess`) and `NoStrays` (`NoStrayProcess`).

None of the four is inductive alone. `OneProcess`, for example, depends on a restore
finding the map's slot empty, which depends on nobody else filling it while the VM is
`Restoring`, which is exclusion; and a process may be alive outside the slot only in
the hands of a task. `IInv` collects these facts: `Owner` (who is between two
transitions, and in which state), `Held` (every live process is the slot's or some
task's child, never two handles), `EmptySlot` (where the slot is known to be empty),
`Phases` (before registration only the creator acts; after destroy nobody refills), and
`Files` (where complete files are known to exist). Each conjunct has a lemma with a step per
group of actions.

`AutoSuspendProofs` proves, for every finite set of requests and every timeout, capacity and
configuration, from `NumbersAssumption`, `ConfigAssumption` and `CallerAssumption` (requests,
execs and detectors are different callers, and `None`, nobody, is no waker):

- `TypeCorrect` (`TypeOK`, again in a Boolean part and the shapes), `Inductive`;
- `CountExact` (`InFlightExact`) and `GateSound` (`GateHolds`);
- `NobodyForgotten` (`WaitedForGoOn`), the safety half of `CallersAnswered`.

`IInv` adds two facts. `Counted` is `InFlightExact` together with what makes it inductive:
a tracker without an entry counts nothing, the count never exceeds the open requests, and a
VM that is being forgotten is out of the map. A request that arrives or returns changes the set of open requests by one element, and
the count with it (`OpenFinite` and the cardinality facts of the library). `Passed` extends
`GateHolds` to the step before the snapshot, where the gate has read the count but not yet
the wake time. `WaitedForGoOn` rests on three of its own: the wake lock is held by the caller
that is at a step under it and by no other (`LockHeld`), and a VM that is `Suspending` or
`Restoring` is so by exactly one snapshot or restore (`Suspends`, `Restores`), with the one
exception of a restore whose client went away, which leaves the VM `Restoring`. `Places` says
which caller can be at which step.

`AbstractVm` and the rest of the lifecycle rest on a second invariant, `Layer2`, proved on top
of `IInv` (`Inductive2`):

- `Bound`: the API socket is that of the slot's process, or of the one about to become it, so a
  request to Firecracker reaches the VM's own process;
- `Filled`: where the slot holds a child; `Frozen`: while the VM is `Paused` or `Resuming`, the
  process in the slot is paused or gone; `Matches`: from a complete snapshot to the kill no
  process runs;
- `Origins`: which stable state each transitional one was entered from; `Released`: what a
  destroy that was not cut off has still to give back, by the place it is at, and `Undone` the same
  for a create that failed.

From it follow `PausedFrozen` (`PausedIsFrozen`), `DestroyedReleases` (`DestroyReleases`),
`Settles` (the action property `OperationsSettle`) and `Implements` (`ImplementsVmButUndo`):
initial states map to initial states, and `StepMapped` has a case per action, each of
which is one of the abstract steps `BeginMapped`, `CompleteMapped`, `RollBackMapped`,
`SpawnMapped`, `FilesMapped`, `KillStep` or a stutter.

`HandlersAtWork` (`WorkHasItsHandler`) is the safety half of `WorkEnds`: a VM in the map is in a
transitional state because a handler put it there and has not returned (`Worked`, from
`ReturnSettles` and `BeginOwns`), a process outside the map is in a handler's hands (`Held`), and
whoever holds the wake lock is inside `ensure_started` (`Guarded`).

`NetAllocProofs`, for every set of VMs and projects, every supernet and subnet size, and any
mix of failing commands and crashes, from `VmAssumption`, `SubnetAssumption` and
`FaultsAssumption`: `TypeCorrect` (`TypeOK`), `Unique` (`AddressesUnique`), `WiredLive`
(`LiveIsWired`), `SavedLive` (`LiveIsSaved`), `Leftovers` (`NoLeftovers`). Uniqueness is the
consistency of the allocator state (`Consistent`: a subnet has one project, a VM one lease, a
project an entry exactly while it has a VM) together with `Leased` (an address is a lease, the
operation in flight has its lease already or has given it back). The same `Consistent` is kept
for the state file, because a restart makes it the state. `LiveIsWired` needs `Sole`: an
operation that sets a subnet up or tears it down is alone on it, so the devices it touches are
nobody else's (`EntriesWired`, `TapsOn`). `NoIdleLease` and `Gateways` are the two halves of
`NoLeftovers` with the operation under way. The operators on the state (`AllocateState`,
`ForgetState`, `LeaseFree`, `ForgetKeeps`, `ForgetGone`) and `MinElement` have lemmas of their
own.

`ScheduleProofs`, for any number of runs, locks and processes, from `ScheduleAssumption`:
`Overlap` (`NoOverlap`) and `CleanUp` (`RunsCleanUp`). While the VM is in the map every run
holds the lock that is in the map, so there is one (`LocksOK`); after a destroy a new run may
get a fresh lock, but finds no VM and never gets to work (`OneAtWork`). The second half of
`NoOverlap` is about the guest: a run that has sent a stop waits for the exit (`JobsOK`).
`RunsCleanUp` needs `Own`: the state of a VM under an operation is that operation's, so a run
that is about to return knows that its snapshot, or somebody else's operation, ends with the
VM down or in other hands.

Three further results say what `TimeoutEndsRun` and the use of `AbstractVm` rest on. `Forward`
(the action property `RunsGoForward`): every step of a run decreases `ToGo`, the number of
steps it has left at most, and no other step moves it, so a run can only stand still.
`WaitIsFounded` (`StopStands`): where it may stand still without a bound, waiting for the exit of
a workload it stopped, the stop is under way, or guestd has it and the workload runs or has an
exit to be heard of; only `CutOff` is left out. Its invariant is `Placed` (which operation each
place is in, where a snapshot must be there, where a process must not) and `Taken` (a workload
whose stop guestd took is lost only with a guest that nothing brings back). `NotHeldUp`
(`GuardsAreMet`): `Schedule` takes the steps of `AbstractVm`, whose guards demand that there is no
process and a snapshot at the end of a suspend and no process at the spawn of a restore; they are
always met there, so the guards, which the code does not have, cut no behaviour off.
`TypeCorrect` (`TypeOK` of the proof module) gives the types of the VM and of the runs.

`StorageProofs`, for any number of VMs, devices, pids, respawns and deaths, from
`BoundsAssumption` and `NoneAssumption` (`None` is no pid, device, VM or record of these):
`TypeCorrect` (`TypeOK`), `NoOrphan` (`NoOrphanWorker`), `DetachFinds` (`DetachFindsWorker`).
A live worker that hostd has not lost is the child of one attach or one monitor, which keeps
its pid from being used again until it reaps it (`ChildrenOK`); the map entry names that child
whenever the monitor waits (`EntryNames`); and the entry exists exactly between attach and
detach (`PhaseOK`). `Respawning` keeps the count below its limit during a respawn.
`NeverForgotten` (`MonitorAttends`) is the safety half of `CrashHandled`: the monitor of an
attached volume waits for a worker that is its own child, goes round for a new one with respawns
left, or has given up because there are none.

`VolumeProofs`, for any number of queues, chunks and writes, from `ChunksAssumption`,
`CapAssumption` and `BoundsAssumption`: `UnsyncedDirty` (`UnsyncedIsDirty`), `FlushCovers`
(the action property `FlushCoversDirty`), `DirtyPinned` (`DirtyFdsPinned`) and `TypeCorrect`
(`TypeOK`). `Ahead` orders the versions (nothing acknowledged,
durable or owed is newer than what was written), `Synced` says that a chunk about to be
unmarked is durable or exposed, and `Covered` carries what the flush has achieved so far from
chunk to chunk. None of it depends on which fds the cache keeps. That the eviction loop closes no dirty fd
does: the loop is a recursive function of the number of pops (`Evict`), and what it keeps is
proved by induction on that number. The library's induction theorems cannot be instantiated by the
provers at hand, so the induction is spelled out: the set of numbers for which it fails has a least element
(`WellFoundedInduction`), which is neither 0 nor a successor.

`WebappProofs`, for any number of projects, deleting tasks and failures, from
`WebappAssumption` (among others, the deleting tasks are not named by projects, which name the
tasks of a shutdown): `NeverStuck` (`NoneStuck`), `SweptClean` (`LeftoversSwept`) and
`CascadeReaches` (`CascadeCovers`).
The first follows from the calls of a task as a stack: `PushStack` and `PopStack` say which
projects a stack is deleting after a call and a return, `JobsOK`, `Stopping` and `Statuses` give
the shapes and that a task of the shutdown is used once. The second from `Newer`: whatever this
run makes has a higher number than all that was there before it.

`CascadeCovers` speaks of branches of branches to any depth, and its invariant (`Cascading`) of one
generation at a time. Call a registered project whole when it is neither under deletion nor
late. What a whole project is a branch of is whole (`Chained`); a project is marked, hence not
whole, before its data is wiped (`WipedMarked`); and a deletion that has not marked its
project yet has every whole branch of it still to do, which is why marking it keeps `Chained`
(`AllToDo`); all of them exist (`Numbered`). The ancestors of a whole project are then whole by
induction over the generations, spelled out as above (`EveryNumber`); that the recursive
definition has the values it says is a lemma of its own (`Iterated`).

`WorkloadProofs`, for any number of workloads, calls, connections, suspends and dropped calls,
from `BoundsAssumption`, `ApiAssumption` and `NoneAssumption`: `TypeCorrect` (`TypeOK`), `NoFalseEnd`
(`FinishedMeansExited`), `EndsAreFinal` (the action property `TerminalIsFinal`) and
`ResyncWorks` (`Resynced`). The first part has, for every operation, a lemma on what it does
(`...Is`), and one on each invariant it could disturb (`Safe...`, `Wired...`). The invariant has
four layers.

- `Types`: the shapes, with `CallOK`: a call has a connection in hand exactly at the steps
  after it got one.
- `Safe`: an event under way, wherever it is, tells the truth of guestd's table (`EventsTold`,
  `ReapOK`), which is what makes `FinishedMeansExited` inductive; and the start of a workload is
  in one call or once in one request queue, before guestd has seen it (`InCalls`,
  `InQueues`), which is why no start can follow an exit.
- `Wired` and `Spawned`: which connection guestd sends on. A connection that hostd has not
  installed is in the hands of one call (`Installed`, `Installing`); what waits in guestd's backlog
  waits once (`Lines`); and as long as no call was dropped, connections are cut in the order in
  which they were opened, so that guestd sends on a whole one if there is one (`CutOrder`).
- `Heard`: what hostd does not know of a workload is on its way (`Coming`): about to be
  reported by the reap thread, in an event on guestd's connection, or in the list that hostd
  asks for there. When nothing is under way, hostd therefore knows it all (`SettledKnows`).
  `NewsComing` states it as it is, the safety half of `ExitReported`.

The proof of `Resynced` corrected the property: with three connections hostd may go on using an
open one, a second one may have been dropped while guestd was deaf, and a third be accepted by
guestd and not yet installed. Nothing is in any queue then, and the news come with the list
the third one asks for when it is installed. `Settled` therefore says that no call waits to
install a connection. (The instance of `workload` has two connections and never got there.)

Every invariant above was first checked by TLC as an invariant of the instance of its run, the one of
`Workload` also on an instance with three connections.

Only model-checked:

- liveness (`WorkEnds`, `CrashHandled`, `ExitReported`, `CallersAnswered`, `IdleIsSuspended`,
  `TimeoutEndsRun`, `EndsWithPeer`): fairness and `ENABLED` are beyond the prover. What five of
  them rest on is safety and proved: that nobody waits for somebody who is not there
  (`HandlersAtWork`, `NeverForgotten`, `NewsComing`, `NobodyForgotten`, `WaitIsFounded`);
- `TokenStripped` of `ProxyStartup`: it compares two readings of one sequence of any length,
  units by position and units by a scan, and needs an induction over the sequence for each
  round of the scan and of the reference; TLC compares them on every value of the bound.

## Plan

Done: the modules above, in the order lifecycle, volume, network, storage, workloads, traffic,
abstract VM, schedule, start-up, web application; the proofs of every safety and action property
of the runs but `TokenStripped`; and the safety facts that the liveness properties rest on. Left:

1. `TokenStripped`, with the scan and the reference as recursive functions of the position;
2. the extra, lambda and PostgREST VMs in `Webapp`, for what a deletion does with them when
   hostd fails.

## Not modelled

- The parsing of requests, CIDR strings, cron expressions and the contents of the Firecracker
  configuration: functions of their input with unit tests in the repository.
- Logging, metrics, the API's JSON and the display programs (`vmtop`, the web front end).
- The Node client: every call is one HTTP request without state.
- The extra, lambda and PostgREST VMs of the web application: further clients of the same hostd
  calls, deleted with their project.
- Image and kernel build scripts.
- The kernel, Firecracker and `ip`/`iptables` beyond how hostd uses them.

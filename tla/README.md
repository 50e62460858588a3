# TLA+ models of CC-SIM

CC-SIM (`src/src`) is a discrete-event simulator of causally consistent
geo-replicated key-value stores. It contains two protocols: Gentle Rain (GR),
which uses scalar timestamps, and GRV, which uses vector timestamps. Each
server node is one simulated process (`server.c`). It is one partition of
one replica. It runs its protocol handlers on a simulated CPU (`src/cpu`)
that has a bounded number of cores, a ready queue and asynchronous locks.
Nodes exchange messages over FIFO links (`network.c`), and clients
(`src/client`) send get and put requests.

This directory models the CPU substrate, the Gentle Rain engine and the GRV
engine. The models are checked with TLC.

## The parts and how they interact

- **CPU substrate** (`cpu.c`, `schedule.c`, `lock.c`, `state.c`).
  - An event that arrives while every core is busy waits in the ready queue.
  - A handler that takes a lock does not get it at once. It schedules a
    `CPU_LOCK_LOCK` message.
  - When that message is delivered, `on_lock_lock` either runs the locked
    continuation or parks it on the lock's queue. Parking gives the core
    back and schedules a zero-delay `CPU_EVENT`.
  - `on_lock_unlock` frees the lock and moves the longest waiter to the
    front of the ready queue. It then runs the unlocked continuation.
  - `rwlock.c` has the same protocol for read/write locks. `counter`
    counts the readers holding, and `write_locked` is set while anyone
    holds the lock. A reader is parked only if the lock is held and nobody
    is reading, so it joins other readers even when a writer waits. A
    release frees the lock only if it is a write release or the last read
    release, and it then wakes the head waiter.
- **Gentle Rain engine** (`server/protocols/gr`).
  - `getput.c` handles puts and gets. Each one is split into a locked and
    an unlocked half around `state->lock`.
  - `replication.c` keeps one queue of updates per source replica. It
    detects conflicts and applies updates under `replica_locks[source]`.
  - `heartbeat.c` and the clock tick in `gr.c` announce each replica's
    clock.
  - `gst.c` aggregates local stable times up a tree of partitions and
    broadcasts the global stable time (gst) back down.
  - `rotx.c`, `snapshot.c` and `slice.c` run read-only transactions (rotx).
    The node a client contacts waits until its gst covers the client's
    dependency time. It then fixes a snapshot time, asks the owner of
    every key for the newest version at or below that time, and answers
    the client when every slice is in.
- **GRV engine** (`server/protocols/grv`). It has the same handlers as GR,
  but timestamps are vectors with one entry per replica.
  - Two locks: `lock_vv` guards the version vector and `lock_gsv` the gst
    vector.
  - A conflicting replica update that is not older is applied, not left
    queued.
  - Heartbeats always take `lock_vv`.
  - `grv_process_gst_from_root` relays the gst vector to the children
    before it takes `lock_gsv`.
  - `rotx.c` and `slice.c` run read-only transactions without waiting on
    gst. The coordinator raises its gst vector to the client's under
    `lock_gsv` if needed. It takes the snapshot time as the larger of its
    clock and the client's dependency time on its replica, and sends one
    slice request per partition. An owner waits for its clock to reach the
    snapshot time, raises its gst vector under `lock_gsv` if needed, and
    reads every key with its gst vector whose own entry is set to its
    clock.
- **Clients** (`client/protocols/gr.c`, `client/protocols/grv.c`). A client
  has at most one outstanding request.
  - A GR client keeps the highest update time it has seen
    (`dependency_time`) and the highest gst it has seen.
  - A GRV client keeps a dependency vector and a gst vector.
- **Client shell and workloads** (`client/client.c`,
  `client/workloads/*.c`). `client_process_event` reschedules the INIT of
  time 0, then runs `client_init` and the workload's `on_init`; a
  `CLIENT_TICK` runs `on_tick`; a response runs the protocol's handler,
  which calls `client_finish_request` and the workload's response handler.
  The workload decides what to send and schedules the next tick:
  `get_put_rr` gets on each partition in turn and then puts,
  `rotx_put_rr` alternates read-only transactions over successive
  partitions with puts, `probabilistic` draws the request type.

## Modules

| module | models | state | actions |
|---|---|---|---|
| `CpuLock` | `cpu.c`, `schedule.c`, `lock.c`, `rwlock.c` | `busy_cores`, `queue`, `locked`, `counter`, `lock_queue`, the pending event of each operation, the pending `CPU_EVENT`s | `Arrive`, `LockMsg`, `UnlockMsg`, `FreeCore`, `CpuEvent` |
| `Mutex` | what a lock promises (abstract) | `owner`, `sections` | `Acquire`, `Release`, `Handover` |
| `RwMutex` | what a read/write lock promises (abstract) | `readers`, `writer`, `sections` | `Acquire`, `Release`, `Handover` |
| `MCCpuLock` | instance: 2 cores, 6 operations, 2 locks and a read/write lock | | refinement mappings to `Mutex` and `RwMutex` |
| `Cluster` | `cluster.c`, `server.c`, `network.c`, `queue.c`: nodes, the partition tree, clients, events, channels, the replica-update FIFO | | shared by `GentleRain` and `GRV` |
| `GentleRain` | the GR engine over `Replicas x Partitions` nodes, with clients | see below | see below |
| `MCGentleRain` | skew and client definitions for the cfgs | | |
| `GRV` | the GRV engine, extending `Cluster` | see below | see below |
| `MCGRV` | skew and client definitions, and the `GstBacklog` constraint | | |
| `GRVRotx` | GRV read-only transactions, extending `GRV` | `rotxs`, `rstate` (rotx states per coordinator), `rreads` (history of slice reads) | see below |
| `MCGRVRotx` | `MCGRV` for `GRVRotx` | | |
| `Client` | `client.c`, `client/protocols/gr.c` (request and response calls), the three workloads | `ev` (pending INIT and tick events), `requesting` (`request_time != -1`), `toServer`, `toClient`, `wl` (workload state), `round` (history) | `Init0`, `InitClient`, `ClientTick`, `Serve`, `Receive` |
| `MCClient` | instance: one client per workload | | |

### `CpuLock`

An operation arrives and runs. It then takes the locks of `Plan[o]` one
after another, as the gr handlers do:
lock → locked continuation → unlock → unlocked continuation. If
`NoEventEnd[o]` holds, its last unlock continues with `CPU_NO_EVENT`, as
heartbeats and forwarded gets do.

The model keeps every branch:

- the `cpu_busy` check at arrival;
- `cpu_busy_cores_dec` in `on_lock_lock` and `on_lock_unlock`;
- a park that schedules a `CPU_EVENT`;
- a wake-up pushed to the front of the ready queue;
- `CPU_NO_EVENT`, which starts the next ready item on the same core;
- `CPU_FREE_CORE`.

The ready queue and the lock queues are sequences, head first; `CpuBusy`,
`ListPush`, `ListShift` and `ListUnshift` are `cpu_busy` (`state.c`) and
`cpu_list_push`, `cpu_list_shift` and `cpu_list_unshift` (`list.c`).

Time is abstracted away. The zero-delay `CPU_EVENT` is delivered before any
other event of the node, because nothing else can carry the same timestamp.

A step of a plan is a lock, or a pair (read/write lock, "read" or
"write"). The lock and unlock messages of both kinds share `LockMsg` and
`UnlockMsg`, as `cpu_rwlock_process_event` shares the queue handling of
`lock.c`. Only the conditions differ. `Blocked` is the parking condition of
`on_rwlock_read_lock` and `on_rwlock_write_lock`. `Frees` is the condition
under which an unlock clears `write_locked` and wakes the head waiter.

The abstract `Mutex` and `RwMutex` need `Handover` for one case. An unlock
that ends with `CPU_NO_EVENT` starts the next ready item in the same step.
That item is the woken waiter, or a waiter woken earlier for another lock
that is free, and it takes its lock in that step.

The six operations of `MCCpuLock` are these:

- o1 takes l1, then l2.
- o2 takes l1 and ends with `CPU_NO_EVENT`.
- o4 takes no lock.
- o5 and o6 read `rl`. o6 ends with `CPU_NO_EVENT`.
- o7 writes `rl`, then takes l2.

### `GentleRain`

**State.** One variable per field of `gr_server_state_t` that the protocol
reads:

- `store` (version chains, newest first), `vv`, `gst`;
- `min_lst` and `lst_received`;
- `locked` and `lock_queue` of `state->lock` (`GstLock`) and of the replica
  locks;
- `ruq` (`replica_update_queues`).

It also has:

- `events[n]`, a bag of the events that node n scheduled for itself;
- `chan[<<s, n>>]`, a FIFO channel per ordered pair of nodes;
- the client state;
- two history variables: `sent`, the updates replicated so far, and
  `log[n]`, the updates that n has applied or ignored, in order.

**Actions.**

- `Receive(s, n)` takes the head of a channel and hands it to `Dispatch`.
  `Dispatch` is `gr_process_event`, and it selects `PutRequest`,
  `GetRequest`, `ReplicaUpdate`, `Heartbeat`, `LstFromLeaf` or
  `GstFromRoot`.
- `Lock(n, e)` and `Unlock(n, e)` deliver lock and unlock events. Each one
  runs the whole `*_LOCKED` or `*_UNLOCKED` continuation in the same step,
  which is what `on_lock_lock` and `on_lock_unlock` do.
- `ClockTick` and `StartGstComputation` are the two timers.
- `ClientMsg` delivers a client request, or a put that was postponed until
  the clock passes its dependency time.
- `ClientPut`, `ClientGet` and `ClientRotx` issue requests.
- `Tick` lets time pass.

**Time.**

- The clock of node n is `now + Skew[n]`.
- A put first advances `now` (`PutTime`). No two events of the simulator
  share a timestamp, so a put's stamp is greater than any clock value read
  before it.
- `Tick` is bounded by `MaxTime`. A granted put may still advance time,
  up to `MaxTime + MaxPuts`, so that a put parked on a lock is never
  blocked by the bound.

**The CPU.** Cores are abstracted to the `Mutex` that `CpuLock` is shown to
implement. A lock event either takes a free lock and runs its continuation,
or parks the continuation.

**Read-only transactions.**

- `RotxRequest` is `gr_process_rotx_request`. It schedules the snapshot
  request (`SnapshotEv`) at once if the dependency time is at most gst.
  Otherwise it puts the rotx in `parked[n]`, which stands for
  `waiting_gst`.
- `UpdateGst` is `gr_update_gst`, and it includes
  `gr_rotx_on_gst_updated`. When it raises gst, it takes out of `parked`
  the rotxs whose dependency time is below the new gst (`Released`). Every
  caller schedules their snapshot requests (`RotxSends`) in the same step.
- `SnapshotRequest`, `SnapshotLocked` and `SnapshotUnlocked` create the
  snapshot state in `snap[n]`. They raise gst to the client's gst under
  `state->lock` and take the raised gst as the snapshot time. They then
  send one slice request to the owner of each key.
- `SliceRequest` and `SliceResponse` take the lock to raise gst first if
  needed. `SliceReply` reads the newest version stamped at or below the
  snapshot time (`SnapshotVersion`, `gr_get_value_at` with
  `is_value_visible_snapshot`).
- `SliceCollect` folds a slice into the snapshot. When the last slice is
  in, the client receives the largest gst and update time, and the state
  is freed.
- The history variable `rreads` records every slice read: the owner, the
  key, the snapshot time, the version read and the rotx's dependency time.

**Left out of `GentleRain`:**

- Heartbeats with time 0. They never change the receiver.
- The proxy hop of responses. It only relays.
- Values. A version is identified by its update time and source replica.

### `GRV`

`GRV` has the same structure as `GentleRain`, and the same event,
channel and client machinery from `Cluster`. The differences follow the
code:

- `vv`, `gsv`, `min_lst` and the client's `cdv` and `cgv` are vectors
  `[Replicas -> Nat]`. `VecMax` and `VecMin` are `set_max` and `set_min`
  applied to each entry.
- `Visible` is `grv_is_value_visible`. A version is visible if it was
  written at the own replica, or if every other entry of its dependency
  vector is at most the gst vector.
- `PutRequest` postpones a put until the clock passes the largest entry of
  its dependency vector. `PutLocked` stamps it and sets `vv[own]`.
  `PutUnlocked` answers and calls `Replicate`.
- `Drain` is `grv_process_replica_update_work`. An update that is older
  than the conflicting head is dropped and the next one is tried. Any
  other update asks for `lock_vv`. `ReplicaUpdateLocked` stores it and
  assigns `vv[source]` without comparing, as `replication.c:63` does.
- `Heartbeat` always asks for `lock_vv`. `ClockTickLocked` sets `vv[own]`
  to the clock, and `ClockTickUnlocked` calls `SendHeartbeat`.
- `GstFromRoot` calls `SendGst` to the children first, and only then asks
  for `lock_gsv`. A forwarded get raises `gsv` at once, without the lock
  (`getput.c:77`).

### `GRVRotx`

`GRVRotx` keeps every action of `GRV`, which leaves the rotx state alone.
It adds the rotx handlers:

- `ClientRotx` is `grv_client_rotx_request`. It sends the keys, the gst
  vector and the dependency time on the client's replica.
- `RotxRequest` asks for `lock_gsv` if the client's gst vector is newer.
  Otherwise it calls `RotxStart` (`grv_process_rotx_request_unlocked`),
  which creates the rotx state and sends a slice request to each
  partition owning keys.
- `SliceRequest` reschedules itself (`SliceWaitEv`) while the snapshot
  time is ahead of the clock. It then asks for `lock_gsv`, or calls
  `SliceReply` at once. `SliceReply` reads with `VisibleAt`
  (`is_value_visible_snapshot`) and `SliceVersion` (`grv_get_value_at`),
  and records each read in `rreads`.
- `SliceResponse` raises the rotx's dependency vector to each value's
  update time. When every value is in, `SendRotxResponse` answers the
  client, which raises its dependency vector.
- `RotxLocked` and `RotxUnlocked` are the locked and unlocked
  continuations. `LockR` and `UnlockR` grant and release `lock_gsv` for
  them, and a taken lock parks them through `GRV`'s `Lock`.

### `Client`

The client library and its workloads, against an abstract server that
answers each request in order (`Serve`). GR's handling of the request is
`GentleRain`'s business; here a request is its type and the partitions
of its keys, since keys matter to a workload only through
`client_random_key_on_partition`.

- `Init0` is the INIT at time 0, rescheduled "so that clients do not
  start at the same time"; `InitClient` is the later INIT, which sets
  `request_time` to -1 and runs `on_init`.
- `ClientTick` runs `on_tick`; `Receive` is `get_response`,
  `put_response` or `rotx_response`: `client_finish_request`, then the
  workload's handler.
- Each workload handler is an operator that yields the new workload
  state, the request it sends (through `Request`, which is
  `client_begin_request` and `client_send`) and the tick it schedules:
  `GetPutTick`/`GetPutInit`/`GetPutResponse`,
  `RotxPutTick`/`RotxPutInit`/`RotxPutResponse` with `DoRotx`, `DoPut`
  and the recursive `RotxParts`, and `ProbTick`/`ProbInit`/`ProbResponse`.
  `IncRange` is `inc_range`.
- `ClusterRandomKeyOnPartition` is `cluster_random_key_on_partition`
  (`cluster.c`), with `ClusterRandomKey` and `PartitionForKey`, in the
  integer widths of the build: `int` and `unsigned int` of `UintBits`
  bits, `gr_key` of `KeyBits`. The key a workload sends for a partition
  is abstracted to that partition, and `KeyOnPartition` checks, at every
  send, the algorithm for every key the draw can give.
- `random_uint(0, n)` is inclusive, so `GetPutInit` starts from any of
  `0..NumPartitions`. Think times are left out: a scheduled tick is just
  pending.

## Runs

| run | cfg | checks | result |
|---|---|---|---|
| cpu_lock | `MCCpuLock.cfg` | TypeOK, MutualExclusion, CoreAccounting, OneContinuation, RwExclusion, AllComplete, MutexSpec, RwMutexSpec | pass, 32k states |
| gst_tree | `MCGentleRain_tree.cfg` (1 replica x 4 partitions, fanout 2, one writer on two skewed partitions, 2 puts) | LstOncePerRound, GstBelowVv, PostponedPutServed | pass, 144k states |
| reads | `MCGentleRain_reads.cfg` (1 x 2, skewed clocks, two writers, one of which also gets and runs a rotx, 2 keys) | TypeOK, GstBelowVv, SnapshotStable, CausalSnapshot, RotxParked | pass, 1.98M states |
| convergence | `MCGentleRain_conv.cfg` (2 x 1, one writer per replica, 2 puts) | OneApplyPerSource, SourceOrder | pass, 309k states |
| vv_monotonic | `MCGentleRain_vv.cfg` | VvMonotonic | violation |
| gst_single_partition | `MCGentleRain_gst1.cfg` | GstSound | violation |
| stuck_queue | `MCGentleRain_stuck.cfg` (as convergence) | UpdatesHandled | violation |
| grv_replication | `MCGRV_conv.cfg` (2 x 1, one writer per replica, client 0 also reads, 2 puts) | StampAfterDeps, Convergence, OneApplyPerSource, UpdatesHandled | pass, 430k states |
| grv_gst_tree | `MCGRV_tree.cfg` (1 x 4, fanout 2, no clients) | TypeOK, LstOncePerRound, GstBelowVv | pass, 597k states |
| grv_gst_hb_race | `MCGRV_hb.cfg` | GstVectorSound | violation |
| grv_rotx_snapshot | `MCGRVRotx_snapshot.cfg` (1 x 2, a writer and a rotx reader) | SnapshotAtTime | violation |
| client_workloads | `MCClient.cfg` (3 clients, one per workload, 2 partitions, 2 keys per rotx, 2 rotx and 2 puts per loop) | OneToken, WorkloadAsserts, PartitionChoice, KeyOnPartition, Progress | pass, 36k states |

What the passing runs show:

- **CpuLock** never lets two continuations hold a lock. It keeps
  `busy_cores` equal to the number of operations in service, and never
  above `cores`. It keeps exactly one suspended continuation per waiting
  operation. Every operation completes, and the substrate refines `Mutex`.
  A read/write lock is never held by a writer together with anyone else,
  and `counter` never drifts from the readers really holding it, so the
  assertions of `rwlock.c` hold. The substrate refines `RwMutex`, in which
  every parked reader and writer eventually gets the lock.
- **The tree aggregation** never delivers two lsts of one child in a round,
  which is the assertion at `gst.c:43`. No node's gst exceeds the version
  vector of any partition of its replica, also when a client's gst raises
  the gst of a node.
- **Postponed puts** (`PostponedPutServed`, in `gst_tree`). The client
  writes key 1 at partition 1, whose clock runs ahead, then key 2 at
  partition 2, whose clock does not: the second put carries a dependency
  time above its owner's clock and `gr_process_put_request` reschedules it.
  Whenever a put is pending at the owner of its key with a dependency
  time the owner's clock reaches within `MaxTime`, the client is
  eventually answered. That needs the postponed put to be rescheduled
  (the mutant that loses the `server_schedule_self` call leaves the client
  waiting forever), and the lock the put then takes to be
  granted, although root GST rounds and ticks keep asking for the same
  `state->lock` (see Fairness).
- **Read-only transactions.** Every slice reads the newest version of its
  key, at its owner, that is stamped at or below the snapshot time. No
  version at or below that time appears there later (`SnapshotStable`).
  So a snapshot is stable, even though gst may have moved on by the time
  the slice request leaves the node. No version at or below the client's
  dependency time is missed either (`CausalSnapshot`), so the client reads
  its own writes. Nothing stays parked once gst has passed its dependency
  time (`RotxParked`).
- **Replication** keeps one update per source in work, and it is the head
  of that source's queue. It handles the updates of a source in stamp
  order. No agreement of the GR replicas is stated: once two replicas
  write concurrently, an update whose stamp is not above the receiver's
  version vector stays at the head of its queue (`stuck_queue`), so a
  quiet state with all updates applied is never reached. `UpdatesHandled` is checked for GRV in
  `grv_replication` and found violated for GR in `stuck_queue`; GR's
  one-writer case, where it holds, no longer has a run of its own, to
  keep the number of runs at twelve.

- **GRV.** Both writing replicas' updates are always handled, unlike in
  GR. Whenever nothing is in flight the replicas agree. Every put is stamped above every entry of its
  dependency vector. The tree rounds keep the assertion and keep every gst
  vector below every version vector, even though `gst_from_root` relays
  before it takes the lock.
- **Clients.** Every client has exactly one INIT, tick or request in
  flight, and `request_time` is set exactly while a request is, so the
  assertions of `client_begin_request` and `client_finish_request` hold
  however the INIT rescheduling, ticks and responses interleave
  (`OneToken`). `rotx_put_rr`'s assertions, `probabilistic`'s `exit(1)`
  and `get_put_rr`'s missing rotx handler are never reached
  (`WorkloadAsserts`). Every key is on an existing partition although
  `get_put_rr` starts one past the last, `get_put_rr` gets on every
  partition exactly once between puts, and a rotx of `rotx_put_rr` has
  its keys on distinct partitions (`PartitionChoice`). The uniform key
  drawn for a partition is on it, whatever `key_max` and whatever key the
  draw gives, including the shift that passes `key_max` and the one that
  wraps `gr_key` when `key_max` is `UINT_MAX`; it stays in the key space
  unless there are fewer keys than partitions (`KeyOnPartition`). Every client keeps
  sending and being answered (`Progress`).

What the violations show (details in `PROJECT.json` `findings`):

1. **vv_monotonic.**
   - A heartbeat of replica r can take `replica_locks[r]` before an older
     update of r that is still queued.
   - The update then sets `version_vector[r]` back, because
     `replication.c:60` assigns without comparing.
2. **gst_single_partition.**
   - With one partition per replica, `gst.c:174` raises gst to
     `version_vector[0]` alone.
   - At replica 0, gst then covers updates of replica 1 that have not
     arrived.
   - The same race also makes gst cover an update that is still queued.
3. **stuck_queue.**
   - A conflicting update that is not older is neither applied nor
     dequeued (`replication.c:40-48`).
   - The queue of its source stalls, and the replicas stop converging.
   - `spec.md:104` flags this branch.
4. **grv_gst_hb_race.**
   - In GRV, a heartbeat of replica r takes `lock_vv` before an update of r
     that is still queued.
   - `grv/heartbeat.c:19` raises `version_vector[r]`.
   - The next gst computation puts that time into the gst vector, so the
     gst vector covers an update that is not in the store.
5. **grv_rotx_snapshot.**
   - The coordinator fixes the snapshot time 1. The slice request reaches
     an owner whose clock has moved past 1, and a put stamped 2 is stored
     there.
   - `grv/slice.c:58` sets the own entry of the snapshot vector to the
     clock, not to the snapshot time. `is_value_visible_snapshot` tests
     only the dependency vector, which does not include the version's
     own stamp.
   - So the slice returns the version stamped 2. `spec.md` 4.6 says each
     owner replies with the value visible at the snapshot time.

Each property of a passing run has a mutant in `PROJECT.json`: a plausible
bug in the mapped code under which TLC finds that property violated.

Observations that have no run of their own:

- `rotx.c:66` dispatches a rotx at once when `dependency_time <= gst`.
  `spec.md` says a rotx waits until gst covers the dependency time. But
  the gst callback at `rotx.c:100` releases a parked rotx only when
  `dependency_time < gst`. A rotx parked at exactly its dependency time
  therefore waits for a further raise of gst. `Released` keeps the code's
  strict test, and `RotxParked` is stated for it.
- `client/workloads/rotx_put_rr.c:74` resets both counters when
  `put_count < num_put`, which holds right after the first put. So the
  workload alternates `num_rotx` rotxs with single puts, while its header
  comment says it performs `num_put` puts. `RotxPutTick` follows the
  code; no run states the comment's loop.
- `client/workloads/rotx_put_rr.c:88` calls
  `random_uint(0, num_partitions - 1)`, which asserts `min < max`, so
  the workload aborts at start-up with a single partition.
- `cluster.c:98`: `cluster_random_key_zipf_on_partition` returns a key
  of the block `partition * keys_per_partition + ...`, but
  `partition_for_key` places keys by `key % num_partitions`. With the
  zipfian distribution, the key drawn "on" a partition is mostly owned
  by another, so the round-robin workloads do not visit partitions as
  intended (the servers forward the requests, so nothing fails). No run
  checks it; the uniform counterpart is `KeyOnPartition`.
- `cpu.c:38` asserts that a CPU_EVENT finds a free core. The event is
  scheduled with delay 0, and `CpuLock` makes it urgent, which holds for
  distinct timestamps. With the `constant` timing distribution, or a
  `cpu_allow_no_time` continuation whose CPU_FREE_CORE falls at the same
  time, another event of the node can share the CPU_EVENT's timestamp.
  If ROOT-Sim runs an arrival first, the arrival takes the freed core and
  the assertion can fail. ROOT-Sim's order for equal timestamps is outside
  this repository, so no run checks this case.
- `getput.c:207`: `gr_put_value` discards a put when the owner already
  stores a version with a higher ut that is not yet visible (a replica
  update). The client is still answered with the put's timestamp, and a
  later get returns the older visible version. The model reaches this.
  `spec.md`'s read-your-writes excludes an intervening conflicting write,
  so this is last-writer-wins behaviour and no property states it.
- `client/client.c:113` steps `last_used_partition` with
  `inc_range(..., 0, num_partitions)`, and that range includes
  `num_partitions`, one past the last partition. The branch is dead:
  `client_setup` ties every client to a partition (`client.c:307`), so
  every request goes to the client's own partition.

## Bounds

- Two cores and six operations make two operations contend for `l1` while
  a third waits in the ready queue. This covers barging, push-to-front
  wake-ups, and a `CPU_NO_EVENT` unlock that starts a woken waiter. Two
  readers and a writer of `rl` cover readers joining, a writer parked
  behind them, and readers parked behind the writer.
- A 4-partition tree of fanout 2 has a root with two children, one of
  which is interior. This exercises the partial rounds and both the root
  and the relay paths. `gst_tree` adds one client with two puts, on keys
  owned by partitions 1 (clock one unit ahead) and 2 (no skew). That is
  the smallest shape in which a put is postponed. Stamping the first put
  advances simulated time by one, so the postponed put depends on time 2:
  `MaxTime` 2 is the least bound under which its owner's clock still
  reaches it. The clock interval 4 gives a tick round within that time
  and keeps the liveness check within reach.
- GRV's gst relay runs ahead of its lock. So leaves start new rounds
  while lock events of older gst vectors pile up at an interior node, and
  the reachable state space is infinite. `MCGRV_tree.cfg` therefore bounds
  the backlog with the constraint `GstBacklog`, at most
  `MaxGstBacklog` = 2 pending relayed gst vectors per node. That is enough
  for a node to hold an old and a new gst vector at once.
- `MaxTime` 2 or 3 and at most two puts and two gets are enough to reach
  every race above. Each violation is reached within 3 time units.
- The reads run has `MaxTime` 1, two puts, one get and one rotx over both
  partitions. The second writer's put raises the version vector so that
  gst passes a parked rotx's dependency. The get and the slices raise gst
  through the forwarding and locked paths.
- Skews that differ per node make stamps of different nodes overlap and tie.
- The GRV rotx run needs one writer, one reader and two partitions whose
  clocks differ. The clock interval is above `MaxTime`, so no heartbeat
  interferes, and the divergence is reached within 2 time units.

- The client run has one client per workload and two partitions, so
  `get_put_rr` completes rounds and wraps from its out-of-range start,
  and `rotx_put_rr` wraps its rotx and put partitions. Two rotxs and two
  puts per loop reach the counter reset. Integer widths are scaled down
  to 4-bit `int`/`unsigned int` and a 6-bit `gr_key`, keeping their
  order, so `key_max = UINT_MAX`, negative draws and the wrap of the
  shift all occur.

## Fairness

- The simulator eventually delivers every scheduled event and every
  message. Service and network times are positive and finite.
- Fairness is weak fairness per channel, per (node, event class) and on
  `Tick`. Clients of `GentleRain` and `GRV` are not obliged to send.
- `GentleRain` adds strong fairness for a put's request of `state->lock`.
  A woken waiter goes back to the ready queue, and a new lock message can
  take the lock first. So the put's lock request is not continuously
  enabled, and weak fairness alone admits a behaviour in which GST rounds
  at the final time keep winning the lock. TLC finds that behaviour without
  the strong fairness. The CPU substrate serves every waiter in the end
  (`AllComplete` and `MutexSpec` of `cpu_lock`). Periodic timers do not
  fire infinitely often at one simulated time. That is what justifies the
  strong fairness. It is stated only for the put class: strong fairness
  for every lock class makes the tableau of TLC's liveness check too large.
- In `Client`, every pending INIT and tick is delivered, the servers
  answer every request and every response is delivered (weak fairness
  per client and action). The simulator processes every scheduled event.
  That the GR servers answer a postponed put is checked in `gst_tree`
  (`PostponedPutServed`). That they answer gets and rotxs is an assumption
  of this run.
- At most one replica-update event per source is pending at a node. So a
  class stands for a single event wherever the properties need one.

## Not modelled

- Rotx requests from another node (`GR_GET_SNAPSHOT_RESPONSE` to a remote
  coordinator). The GR client sends each rotx to a partition of its own
  replica, so the snapshot coordinator is always the node holding the rotx
  state.
- GRV heartbeats with time 0. They take `lock_vv` and change nothing.
- Which protocols take read/write locks. None does, so `MCCpuLock`
  exercises them with synthetic operations.
- Statistics, parameters and output, the clients' latency accounting
  and think times, and the zipfian key distribution (ROOT-Sim's sampler).
- Garbage collection, which is disabled in the code.
- Message layout and the generic containers. They are abstracted to
  records and sequences.

----------------------------- MODULE GentleRain -----------------------------
(***************************************************************************)
(* The scalar Gentle Rain protocol engine of src/src/server/protocols/gr:  *)
(* put and get, replication with per-source update queues and conflict     *)
(* detection, heartbeats, clock ticks and the GST tree aggregation, over   *)
(* Replicas x Partitions server nodes.                                     *)
(*                                                                         *)
(* Events.  Every node has a bag of events it scheduled for itself (lock   *)
(* and unlock messages, timers, postponed puts) and a FIFO channel from    *)
(* every other node (network.c asserts per sender-receiver FIFO).  Any     *)
(* pending event may be delivered next: with exponential timing any order  *)
(* of independent events is possible.  Cores and the ready queue are       *)
(* abstracted to the Mutex they implement (CpuLock refines Mutex): a lock  *)
(* message takes a free lock and runs the locked handler in the same step, *)
(* as on_lock_lock does, or parks the continuation on the lock; an unlock  *)
(* message frees the lock, makes the longest waiter try again, and runs    *)
(* the unlocked handler.                                                   *)
(*                                                                         *)
(* Time.  now is the simulated time and Skew[n] the node's fixed offset    *)
(* (clock_skew.c), so the clock of n is now + Skew[n].  No two events      *)
(* happen at the same instant, so a step that stamps a value with the      *)
(* clock (a put, a clock tick, a heartbeat) first advances now by one.     *)
(* Tick lets time pass otherwise.  Values are left out: a version is       *)
(* identified by its update time and source replica.                       *)
(***************************************************************************)
EXTENDS Cluster

CONSTANTS
    ClockInterval,  \* gr clock_interval
    MaxTime,        \* bound on simulated time
    MaxPuts,        \* bound on client put requests
    MaxGets,        \* bound on client get requests
    MaxRotx         \* bound on client read-only transactions

(* gr_lpid_for_key: the partition of the replica of n that stores k.     *)
Owner(n, k) == <<n[1], PartitionOf(k)>>

(* The lock ids of a node: state->lock and replica_locks[r].              *)
GstLock == -1
LockIds == {GstLock} \cup Replicas

Version == [ut : Nat, sr : Replicas]
(* gr_replica_update_t: the update, its source and the version it replaced *)
Update == [key : Keys, ut : Nat, sr : Replicas, pst : Nat, psr : Replicas]
NoUpdate == [key |-> -1]

VARIABLES
    now,           \* simulated time
    store,         \* store[n][k]: the version chain of k, newest first
    vv,            \* version_vector
    gst,           \* gst
    min_lst,       \* min_lst
    lst_received,  \* lst_received, as the set of child indices received
    locked,        \* locked[n][l]: cpu_lock.locked
    lock_queue,    \* lock_queue[n][l]: continuations parked on the lock
    ruq,           \* replica_update_queues[r]
    events,        \* events[n]: bag of events n scheduled for itself
    chan,          \* chan[<<m, n>>]: messages in flight from m to n
    cdep, cgst,    \* dependency_time and gst of each client
    waiting,       \* waiting[c]: the client awaits a response
    puts, gets,    \* client requests issued so far
    rotxs,
    parked,        \* parked[n]: rotx states of n with waiting_gst set
    snap,          \* snap[n]: snapshot states of n, one per client
    rreads,        \* history: every slice read, at its owner
    sent,          \* history: every update a put has replicated
    log            \* history: log[n], updates n applied or dropped, in order

vars == <<now, store, vv, gst, min_lst, lst_received, locked, lock_queue,
          ruq, events, chan, cdep, cgst, waiting, puts, gets, rotxs, parked,
          snap, rreads, sent, log>>

Clock(n) == now + Skew[n]
(* The clock read by a step that stamps with it, after now advanced.      *)
StampClock(n) == now + 1 + Skew[n]
AdvanceTime == now < MaxTime /\ now' = now + 1
(* A put advances now even at the bound on ticks, so that a granted put   *)
(* is never blocked by it; each put adds at most one.                     *)
PutTime == now < MaxTime + MaxPuts /\ now' = now + 1

(* The head of the chain of k, or {0, 0} as gr_get_value_at returns it    *)
(* for a key with no version.                                             *)
HeadOf(n, k) ==
    IF store[n][k] = <<>> THEN [ut |-> 0, sr |-> 0] ELSE Head(store[n][k])

(* Mutation of SelfVersion: the partition id passed as the source.      *)
SelfVersionByPartition(n, ts) == [ut |-> ts, sr |-> n[2]]

(* The version a put at n stores: its time and the replica of n, the      *)
(* arguments gr_process_put_request_locked passes to gr_put_value.        *)
SelfVersion(n, ts) == [ut |-> ts, sr |-> n[1]]

(* min_replica_version                                                    *)
MinVv(n) == Min({vv[n][r] : r \in Replicas})

Timer(kind) == Ev(kind, GstLock, None)
(* A request for n: from a client, or put back by n until its clock passes *)
(* the dependency time (wait).                                             *)
MsgEv(m, wait) == [kind |-> "msg", lk |-> GstLock, c |-> None, m |-> m, wait |-> wait]

(* The version of k a get at n returns: the newest one written at n's     *)
(* replica or not newer than gst (gr_is_value_visible), 0 if none.        *)
VisibleUt(n, k) ==
    LET i == SelectInSeq(store[n][k], LAMBDA v : v.sr = n[1] \/ v.ut <= gst[n])
    IN IF i = 0 THEN 0 ELSE store[n][k][i].ut

(* A parked rotx (gr_rotx_state_t with its snapshot request), and a      *)
(* snapshot state (gr_snapshot_state_t): the time and gst of the snapshot, *)
(* the largest update time read and the slices received.  dep is kept in  *)
(* the snapshot state for the properties only.                            *)
Rotx == [client : Clients, keys : SUBSET Keys, gst : Nat, dep : Nat]
Snap == [client : Clients, keys : SUBSET Keys, gst : Nat, time : Nat, ut : Nat,
         recv : Nat, dep : Nat]
(* A slice read: the owner, the key, the snapshot time, the version read  *)
(* and the dependency time of the transaction.                            *)
SliceRead == [node : Node, key : Keys, time : Nat, v : Version, dep : Nat]

Request == [type : {"put"}, key : Keys, dep : Nat, client : Clients, proxied : BOOLEAN]
           \cup [type : {"get"}, key : Keys, gst : Nat, client : Clients, proxied : BOOLEAN]
Message == Request
           \cup [type : {"replica_update"}, u : Update]
           \cup [type : {"heartbeat"}, replica : Replicas, time : Nat]
           \cup [type : {"lst"}, lst : Nat, from : Partitions]
           \cup [type : {"gst_root"}, gst : Nat]
           \cup [type : {"slice_req"}, key : Keys, time : Nat, from : Node, client : Clients]
           \cup [type : {"slice_resp"}, key : Keys, v : Version, gst : Nat, client : Clients]

TypeOK ==
    /\ now \in 0..(MaxTime + MaxPuts)
    /\ store \in [Node -> [Keys -> Seq(Version)]]
    /\ vv \in [Node -> [Replicas -> Nat]]
    /\ gst \in [Node -> Nat] /\ min_lst \in [Node -> Nat]
    /\ lst_received \in [Node -> SUBSET (0..(Fanout - 1))]
    /\ locked \in [Node -> [LockIds -> BOOLEAN]]
    /\ ruq \in [Node -> [Replicas -> Seq(Update)]]
    /\ \A n \in Node : IsABag(events[n])
    /\ chan \in [Node \X Node -> Seq(Message)]
    /\ cdep \in [Clients -> Nat] /\ cgst \in [Clients -> Nat]
    /\ waiting \in [Clients -> BOOLEAN]
    /\ puts \in 0..MaxPuts /\ gets \in 0..MaxGets /\ rotxs \in 0..MaxRotx
    /\ parked \in [Node -> SUBSET Rotx]
    /\ snap \in [Node -> SUBSET Snap]
    /\ rreads \subseteq SliceRead
    /\ sent \subseteq Update
    /\ log \in [Node -> Seq(Update)]

(* gr_init_state: every node schedules its first clock tick, and leaves   *)
(* the start of the first GST computation.                                *)
Init ==
    /\ now = 0
    /\ store = [n \in Node |-> [k \in Keys |-> <<>>]]
    /\ vv = [n \in Node |-> [r \in Replicas |-> 0]]
    /\ gst = [n \in Node |-> 0]
    /\ min_lst = [n \in Node |-> 0]
    /\ lst_received = [n \in Node |-> {}]
    /\ locked = [n \in Node |-> [l \in LockIds |-> FALSE]]
    /\ lock_queue = [n \in Node |-> [l \in LockIds |-> <<>>]]
    /\ ruq = [n \in Node |-> [r \in Replicas |-> <<>>]]
    /\ events = [n \in Node |->
                   SetToBag({Timer("tick")}
                            \cup IF IsLeaf(n[2]) THEN {Timer("start_gst")} ELSE {})]
    /\ chan = [p \in Node \X Node |-> <<>>]
    /\ cdep = [c \in Clients |-> 0] /\ cgst = [c \in Clients |-> 0]
    /\ waiting = [c \in Clients |-> FALSE]
    /\ puts = 0 /\ gets = 0 /\ rotxs = 0
    /\ parked = [n \in Node |-> {}]
    /\ snap = [n \in Node |-> {}]
    /\ rreads = {}
    /\ sent = {}
    /\ log = [n \in Node |-> <<>>]

-----------------------------------------------------------------------------
(* Helpers.  Handlers take the events ev0 and channels ch0 left after the *)
(* delivery of their input and add what they schedule and send.           *)

Add(ev0, n, S) == events' = [ev0 EXCEPT ![n] = Schedule(@, S)]

client == <<cdep, cgst, waiting, puts, gets, rotxs>>
rtx == <<snap, rreads>>
tree == <<min_lst, lst_received>>

(* The GR_GET_SNAPSHOT_REQUEST a rotx schedules for its own node          *)
(* (gr_send_rotx_snapshot_request).                                       *)
SnapshotEv(r) == MsgEv([type |-> "snapshot", client |-> r.client, keys |-> r.keys,
                        gst |-> r.gst, dep |-> r.dep], FALSE)

(* Mutation of Released: the callback compares with the gst before the    *)
(* raise, as if gr_rotx_on_gst_updated ran before state->gst = gst.       *)
ReleasedStale(n, g) ==
    IF gst[n] < g THEN {r \in parked[n] : r.dep < gst[n]} ELSE {}

(* gr_rotx_on_gst_updated, run when gr_update_gst raises gst to g: every   *)
(* parked rotx whose dependency time is below the new gst is released.    *)
Released(n, g) ==
    IF gst[n] < g THEN {r \in parked[n] : r.dep < g} ELSE {}

(* gr_update_gst: raise gst, never lower it, and release parked rotx; the *)
(* caller schedules RotxSends(n, g).                                      *)
UpdateGst(n, g) ==
    /\ gst' = [gst EXCEPT ![n] = IF @ < g THEN g ELSE @]
    /\ parked' = [parked EXCEPT ![n] = @ \ Released(n, g)]
RotxSends(n, g) == {SnapshotEv(r) : r \in Released(n, g)}

(* update_times of the client on a response (client/protocols/gr.c).     *)
Respond(c, g, ut) ==
    /\ cdep' = [cdep EXCEPT ![c] = IF @ < ut THEN ut ELSE @]
    /\ cgst' = [cgst EXCEPT ![c] = IF @ < g THEN g ELSE @]
    /\ waiting' = [waiting EXCEPT ![c] = FALSE]

(* The update at the head of a per-source queue is older than the version *)
(* h it conflicts with, and is ignored.                                   *)
Older(u, h) == u.ut < h.ut \/ (u.ut = h.ut /\ u.sr < h.sr)

(* gr_process_replica_update_work applied to the queue q at n, chained    *)
(* through gr_process_replica_update_unlocked when the head is ignored:   *)
(* the rest of the queue, the updates ignored, and the lock request.      *)
RECURSIVE Drain(_, _)
Drain(n, q) ==
    IF QueueIsEmpty(q) THEN [rest |-> q, dropped |-> <<>>, lock |-> {}]
    ELSE LET u == QueuePeek(q)
             h == HeadOf(n, u.key)
         IN  IF u.pst = h.ut /\ u.psr = h.sr
             THEN [rest |-> q, dropped |-> <<>>,
                   lock |-> {LockEv(u.sr, [type |-> "replica_update", u |-> u])}]
             ELSE IF Older(u, h)
             THEN LET d == Drain(n, QueueDequeue(q))
                  IN  [d EXCEPT !.dropped = <<u>> \o @]
             ELSE [rest |-> q, dropped |-> <<>>, lock |-> {}]

ApplyDrain(n, r, q, ev0) ==
    LET d == Drain(n, q)
    IN  /\ ruq' = [ruq EXCEPT ![n][r] = d.rest]
        /\ log' = [log EXCEPT ![n] = @ \o d.dropped]
        /\ Add(ev0, n, d.lock)

-----------------------------------------------------------------------------
(* Handlers of requests and messages (gr_process_event).                  *)

(* Mutation of PutRequest: the postponed put is not rescheduled (the     *)
(* server_schedule_self call of the wait branch is lost).                 *)
PutRequestNoReschedule(n, m, ev0, ch0) ==
    /\ UNCHANGED <<rtx, now, store, vv, gst, parked, tree, ruq, client, sent, log>>
    /\ \/ /\ Owner(n, m.key) # n
          /\ chan' = Send(ch0, n, {Owner(n, m.key)}, [m EXCEPT !.proxied = TRUE])
          /\ events' = ev0
       \/ /\ Owner(n, m.key) = n /\ m.dep > Clock(n)
          /\ events' = ev0 /\ chan' = ch0
       \/ /\ Owner(n, m.key) = n /\ m.dep <= Clock(n)
          /\ Add(ev0, n, {LockEv(GstLock, [type |-> "put", key |-> m.key,
                                           client |-> m.client])})
          /\ chan' = ch0

(* gr_process_put_request: forward to the owner of the key, wait for the  *)
(* clock to pass the dependency time, or take state->lock.                *)
PutRequest(n, m, ev0, ch0) ==
    /\ UNCHANGED <<rtx, now, store, vv, gst, parked, tree, ruq, client, sent, log>>
    /\ \/ /\ Owner(n, m.key) # n
          /\ chan' = Send(ch0, n, {Owner(n, m.key)}, [m EXCEPT !.proxied = TRUE])
          /\ events' = ev0
       \/ /\ Owner(n, m.key) = n /\ m.dep > Clock(n)
          /\ Add(ev0, n, {MsgEv(m, TRUE)}) /\ chan' = ch0
       \/ /\ Owner(n, m.key) = n /\ m.dep <= Clock(n)
          /\ Add(ev0, n, {LockEv(GstLock, [type |-> "put", key |-> m.key,
                                           client |-> m.client])})
          /\ chan' = ch0

(* gr_process_get_request_unlocked: answer with gst and the visible value *)
GetReply(n, c) == Respond(c.client, gst[n], VisibleUt(n, c.key))

(* gr_process_get_request: forward to the owner, raising gst under the    *)
(* lock if the client knows a newer one; at the owner, raise gst under   *)
(* the lock first if needed, then answer.                                 *)
GetRequest(n, m, ev0, ch0) ==
    LET fwd == Send(ch0, n, {Owner(n, m.key)}, [m EXCEPT !.proxied = TRUE])
        c == [type |-> "get", key |-> m.key, gst |-> m.gst, client |-> m.client]
    IN
    /\ UNCHANGED <<rtx, now, store, vv, gst, parked, tree, ruq, puts, gets, rotxs, sent, log>>
    /\ \/ /\ Owner(n, m.key) # n /\ chan' = fwd
          /\ Add(ev0, n, IF gst[n] < m.gst
                         THEN {LockEv(GstLock, [type |-> "fwd_get", gst |-> m.gst])}
                         ELSE {})
          /\ UNCHANGED <<rtx, cdep, cgst, waiting>>
       \/ /\ Owner(n, m.key) = n /\ gst[n] < m.gst
          /\ Add(ev0, n, {LockEv(GstLock, c)}) /\ chan' = ch0
          /\ UNCHANGED <<rtx, cdep, cgst, waiting>>
       \/ /\ Owner(n, m.key) = n /\ ~(gst[n] < m.gst)
          /\ GetReply(n, c) /\ events' = ev0 /\ chan' = ch0

(* Mutation of ReplicaUpdate: work starts on every arrival, not only when *)
(* the queue was empty.                                                   *)
ReplicaUpdateAlways(n, m, ev0, ch0) ==
    /\ chan' = ch0
    /\ UNCHANGED <<rtx, now, store, vv, gst, parked, tree, client, sent>>
    /\ ApplyDrain(n, m.u.sr, Append(ruq[n][m.u.sr], m.u), ev0)

(* gr_process_replica_update: enqueue on the queue of the source; start   *)
(* work on it if the queue was empty.                                     *)
ReplicaUpdate(n, m, ev0, ch0) ==
    LET q == ruq[n][m.u.sr]
    IN  /\ chan' = ch0
        /\ UNCHANGED <<rtx, now, store, vv, gst, parked, tree, client, sent>>
        /\ IF QueueIsEmpty(q)
           THEN ApplyDrain(n, m.u.sr, <<m.u>>, ev0)
           ELSE /\ ruq' = [ruq EXCEPT ![n][m.u.sr] = QueueEnqueue(@, m.u)]
                /\ events' = ev0 /\ UNCHANGED log

(* gr_process_heartbeat: take the replica lock if the time is newer.      *)
Heartbeat(n, m, ev0, ch0) ==
    /\ Add(ev0, n, IF vv[n][m.replica] < m.time
                   THEN {LockEv(m.replica, [type |-> "heartbeat", replica |-> m.replica,
                                            time |-> m.time])}
                   ELSE {})
    /\ chan' = ch0
    /\ UNCHANGED <<rtx, now, store, vv, gst, parked, tree, ruq, client, sent, log>>

(* Mutations of the folds: min_lst taken from the last child only, and    *)
(* the own version vector left out of the round's minimum.                *)
FoldLstLast(n, m) == m.lst
FoldOwnSkipped(n, ml) == ml

(* The first lst of a round, or a smaller one, becomes min_lst.           *)
FoldLst(n, m) ==
    IF lst_received[n] = {} \/ min_lst[n] > m.lst THEN m.lst ELSE min_lst[n]

(* At the end of a round, min_replica_version is folded into min_lst.     *)
FoldOwn(n, ml) == IF MinVv(n) < ml THEN MinVv(n) ELSE ml

(* gr_process_lst_from_leaf: fold the lst of a child into min_lst; once   *)
(* every child reported, fold in the own minimum version, and either take *)
(* the lock (root) or send min_lst up (gr_send_lst_to_parent).            *)
LstFromLeaf(n, m, ev0, ch0) ==
    LET cnt == Cardinality(lst_received[n])
        ml == FoldLst(n, m)
        ml2 == FoldOwn(n, ml)
    IN
    /\ UNCHANGED <<rtx, now, store, vv, gst, parked, ruq, client, sent, log>>
    /\ \/ /\ cnt # Cardinality(Children(n[2])) - 1
          /\ lst_received' = [lst_received EXCEPT ![n] = @ \cup {ChildIndex(m.from)}]
          /\ min_lst' = [min_lst EXCEPT ![n] = ml]
          /\ events' = ev0 /\ chan' = ch0
       \/ /\ cnt = Cardinality(Children(n[2])) - 1
          /\ lst_received' = [lst_received EXCEPT ![n] = {}]
          /\ min_lst' = [min_lst EXCEPT ![n] = ml2]
          /\ \/ n[2] = 0 /\ Add(ev0, n, {LockEv(GstLock, [type |-> "root"])}) /\ chan' = ch0
             \/ n[2] # 0 /\ events' = ev0
                /\ chan' = Send(ch0, n, {ParentNode(n)},
                                [type |-> "lst", lst |-> ml2, from |-> n[2]])

(* gr_process_gst_from_root: take the lock to raise gst.                  *)
GstFromRoot(n, m, ev0, ch0) ==
    /\ Add(ev0, n, {LockEv(GstLock, [type |-> "gst_root", gst |-> m.gst])})
    /\ chan' = ch0
    /\ UNCHANGED <<rtx, now, store, vv, gst, parked, tree, ruq, client, sent, log>>

(* Mutation of RotxRequest: the dependency time is not waited for.       *)
RotxRequestNoWait(n, m, ev0, ch0) ==
    /\ chan' = ch0
    /\ Add(ev0, n, {SnapshotEv([client |-> m.client, keys |-> m.keys, gst |-> m.gst,
                                dep |-> m.dep])})
    /\ UNCHANGED <<rtx, now, store, vv, gst, parked, tree, ruq, client, sent, log>>

(* gr_process_rotx_request: dispatch the snapshot request at once if gst *)
(* covers the dependency time, else park the rotx (waiting_gst).          *)
RotxRequest(n, m, ev0, ch0) ==
    LET r == [client |-> m.client, keys |-> m.keys, gst |-> m.gst, dep |-> m.dep]
    IN
    /\ chan' = ch0
    /\ \/ m.dep <= gst[n] /\ Add(ev0, n, {SnapshotEv(r)}) /\ UNCHANGED parked
       \/ m.dep > gst[n] /\ parked' = [parked EXCEPT ![n] = @ \cup {r}] /\ events' = ev0
    /\ UNCHANGED <<rtx, now, store, vv, gst, tree, ruq, client, sent, log>>

(* gr_process_get_snapshot_request: create the snapshot state and take    *)
(* state->lock.                                                           *)
SnapshotRequest(n, m, ev0, ch0) ==
    /\ snap' = [snap EXCEPT ![n] = @ \cup {[client |-> m.client, keys |-> m.keys,
                                            gst |-> m.gst, time |-> 0, ut |-> 0,
                                            recv |-> 0, dep |-> m.dep]}]
    /\ Add(ev0, n, {LockEv(GstLock, [type |-> "snapshot", client |-> m.client])})
    /\ chan' = ch0
    /\ UNCHANGED <<rreads, now, store, vv, gst, parked, tree, ruq, client, sent, log>>

(* Mutation of IsValueVisibleSnapshot: a version stamped at the snapshot  *)
(* time is left out.                                                      *)
IsValueVisibleSnapshotStrict(v, t) == v.ut < t

(* is_value_visible_snapshot                                              *)
IsValueVisibleSnapshot(v, t) == v.ut <= t

(* gr_get_value_at with is_value_visible_snapshot: the newest version of  *)
(* k at n stamped at or before t, or {0, 0}.                              *)
SnapshotVersion(n, k, t) ==
    LET i == SelectInSeq(store[n][k], LAMBDA v : IsValueVisibleSnapshot(v, t))
    IN IF i = 0 THEN [ut |-> 0, sr |-> 0] ELSE store[n][k][i]

(* gr_process_slice_request_unlocked: answer the coordinator with the     *)
(* version visible at the snapshot time and gst.                          *)
SliceReply(n, m, ch0) ==
    chan' = Send(ch0, n, {m.from}, [type |-> "slice_resp", key |-> m.key,
                                    v |-> SnapshotVersion(n, m.key, m.time),
                                    gst |-> gst[n], client |-> m.client])

(* gr_process_slice_request: raise gst to the snapshot time under the     *)
(* lock first if needed.                                                  *)
SliceRequest(n, m, ev0, ch0) ==
    /\ \/ gst[n] < m.time /\ Add(ev0, n, {LockEv(GstLock, m)}) /\ chan' = ch0
       \/ ~(gst[n] < m.time) /\ SliceReply(n, m, ch0) /\ events' = ev0
    /\ UNCHANGED <<rtx, now, store, vv, gst, parked, tree, ruq, client, sent, log>>

(* gr_process_slice_response_unlocked: store the slice in the snapshot;   *)
(* when every slice is in, gr_send_snapshot_response, which for the rotx  *)
(* of this node calls gr_process_rotx_snapshot_response: the client gets  *)
(* the largest gst and update time of the slices, and both states are     *)
(* freed.                                                                 *)
SliceCollect(n, m, ev0, ch0) ==
    LET s == CHOOSE x \in snap[n] : x.client = m.client
        s2 == [s EXCEPT !.ut = Max({@, m.v.ut}), !.gst = Max({@, m.gst}),
                        !.recv = @ + 1]
    IN
    /\ rreads' = rreads \cup {[node |-> Owner(n, m.key), key |-> m.key,
                               time |-> s.time, v |-> m.v, dep |-> s.dep]}
    /\ IF s2.recv = Cardinality(s.keys)
       THEN /\ snap' = [snap EXCEPT ![n] = @ \ {s}]
            /\ Respond(m.client, s2.gst, s2.ut)
       ELSE /\ snap' = [snap EXCEPT ![n] = (@ \ {s}) \cup {s2}]
            /\ UNCHANGED <<cdep, cgst, waiting>>
    /\ events' = ev0 /\ chan' = ch0
    /\ UNCHANGED <<now, store, vv, gst, parked, tree, ruq, puts, gets, rotxs, sent, log>>

(* gr_process_slice_response: raise gst to the slice's under the lock     *)
(* first if needed.                                                       *)
SliceResponse(n, m, ev0, ch0) ==
    \/ /\ gst[n] < m.gst /\ Add(ev0, n, {LockEv(GstLock, m)}) /\ chan' = ch0
       /\ UNCHANGED <<rtx, now, store, vv, gst, parked, tree, ruq, client, sent, log>>
    \/ ~(gst[n] < m.gst) /\ SliceCollect(n, m, ev0, ch0)

-----------------------------------------------------------------------------
(* Continuations run when their lock is granted (the *_LOCKED events).    *)
(* None of them sends a message; each ends with cpu_lock_unlock.           *)

(* gr_process_forward_get_request_locked                                  *)
ForwardGetLocked(n, c, ev0) ==
    /\ UpdateGst(n, c.gst)
    /\ Add(ev0, n, {UnlockEv(GstLock, None)} \cup RotxSends(n, c.gst))
    /\ UNCHANGED <<rtx, now, store, vv, tree, ruq, client, sent, log>>

(* gr_process_get_request_locked                                          *)
GetLocked(n, c, ev0) ==
    /\ UpdateGst(n, c.gst)
    /\ Add(ev0, n, {UnlockEv(GstLock, c)} \cup RotxSends(n, c.gst))
    /\ UNCHANGED <<rtx, now, store, vv, tree, ruq, client, sent, log>>

(* gr_process_put_request_locked: stamp with the clock, raise the own     *)
(* version vector entry, and store the version unless the head is newer   *)
(* (gr_put_value), remembering the version it replaced.                   *)
PutLocked(n, c, ev0) ==
    LET ts == StampClock(n)
        h == HeadOf(n, c.key)
        discarded == store[n][c.key] # <<>> /\ h.ut > ts
        u == [key |-> c.key, ut |-> ts, sr |-> n[1], pst |-> h.ut, psr |-> h.sr]
    IN
    /\ PutTime
    /\ vv' = [vv EXCEPT ![n][n[1]] = ts]
    /\ store' = IF discarded THEN store
                ELSE [store EXCEPT ![n][c.key] = <<SelfVersion(n, ts)>> \o @]
    /\ sent' = IF discarded THEN sent ELSE sent \cup {u}
    /\ Add(ev0, n, {UnlockEv(GstLock, [type |-> "put", client |-> c.client,
                                       u |-> u, discarded |-> discarded])})
    /\ UNCHANGED <<rtx, gst, parked, tree, ruq, client, log>>

(* gr_process_replica_update_locked: gr_put_value, then set the version   *)
(* vector entry of the source to the update time.                         *)
ReplicaUpdateLocked(n, c, ev0) ==
    LET u == c.u
        h == HeadOf(n, u.key)
    IN
    /\ store' = IF store[n][u.key] # <<>> /\ h.ut > u.ut THEN store
                ELSE [store EXCEPT ![n][u.key] = <<[ut |-> u.ut, sr |-> u.sr]>> \o @]
    /\ vv' = [vv EXCEPT ![n][u.sr] = u.ut]
    /\ log' = [log EXCEPT ![n] = Append(@, u)]
    /\ Add(ev0, n, {UnlockEv(u.sr, c)})
    /\ UNCHANGED <<rtx, now, gst, parked, tree, ruq, client, sent>>

(* gr_process_lst_from_leaf_root_locked                                   *)
LstRootLocked(n, c, ev0) ==
    /\ UpdateGst(n, min_lst[n])
    /\ Add(ev0, n, {UnlockEv(GstLock, c)} \cup RotxSends(n, min_lst[n]))
    /\ UNCHANGED <<rtx, now, store, vv, tree, ruq, client, sent, log>>

(* gr_process_gst_from_root_locked                                        *)
GstFromRootLocked(n, c, ev0) ==
    /\ UpdateGst(n, c.gst)
    /\ Add(ev0, n, {UnlockEv(GstLock, c)} \cup RotxSends(n, c.gst))
    /\ UNCHANGED <<rtx, now, store, vv, tree, ruq, client, sent, log>>

(* gr_process_clock_tick_locked: if the clock is still clock_interval     *)
(* past the own entry, advance it to the clock and announce the time.     *)
ClockTickLocked(n, c, ev0) ==
    LET send == Clock(n) >= vv[n][n[1]] + ClockInterval
    IN
    /\ vv' = IF send THEN [vv EXCEPT ![n][n[1]] = Clock(n)] ELSE vv
    /\ Add(ev0, n, {UnlockEv(GstLock, [type |-> "tick", send |-> send])})
    /\ UNCHANGED <<rtx, now, store, gst, parked, tree, ruq, client, sent, log>>

(* gr_process_heartbeat_locked: raise the entry of the replica; the      *)
(* unlock has no continuation (CPU_NO_EVENT).                             *)
HeartbeatLocked(n, c, ev0) ==
    /\ vv' = IF vv[n][c.replica] < c.time
             THEN [vv EXCEPT ![n][c.replica] = c.time] ELSE vv
    /\ Add(ev0, n, {UnlockEv(c.replica, None)})
    /\ UNCHANGED <<rtx, now, store, gst, parked, tree, ruq, client, sent, log>>

(* gr_process_get_snapshot_request_locked: raise gst to the client's,    *)
(* and take the raised gst as the snapshot time.                          *)
SnapshotLocked(n, c, ev0) ==
    LET s == CHOOSE x \in snap[n] : x.client = c.client
    IN
    /\ UpdateGst(n, s.gst)
    /\ snap' = [snap EXCEPT ![n] = (@ \ {s}) \cup
                   {[s EXCEPT !.gst = 0, !.time = Max({gst[n], s.gst})]}]
    /\ Add(ev0, n, {UnlockEv(GstLock, c)} \cup RotxSends(n, s.gst))
    /\ UNCHANGED <<rreads, now, store, vv, tree, ruq, client, sent, log>>

(* gr_process_slice_request_locked and gr_process_slice_response_locked   *)
(* raise gst to the snapshot time or to the slice's gst.                  *)
SliceRequestLocked(n, c, ev0) ==
    /\ UpdateGst(n, c.time)
    /\ Add(ev0, n, {UnlockEv(GstLock, c)} \cup RotxSends(n, c.time))
    /\ UNCHANGED <<rtx, now, store, vv, tree, ruq, client, sent, log>>
SliceResponseLocked(n, c, ev0) ==
    /\ UpdateGst(n, c.gst)
    /\ Add(ev0, n, {UnlockEv(GstLock, c)} \cup RotxSends(n, c.gst))
    /\ UNCHANGED <<rtx, now, store, vv, tree, ruq, client, sent, log>>

-----------------------------------------------------------------------------
(* Continuations run when their lock is released (the *_UNLOCKED events). *)
(* None of them changes the version vector or the store.                  *)

(* CPU_NO_EVENT                                                           *)
NoEvent(n, c, ev0) ==
    /\ events' = ev0
    /\ UNCHANGED <<rtx, now, store, vv, gst, parked, tree, ruq, chan, client, sent, log>>

(* gr_process_get_request_unlocked                                        *)
GetUnlocked(n, c, ev0) ==
    /\ GetReply(n, c) /\ events' = ev0
    /\ UNCHANGED <<rtx, now, store, vv, gst, parked, tree, ruq, chan, puts, gets, rotxs, sent, log>>

(* gr_process_put_request_unlocked: answer the client, and replicate the  *)
(* update to the other replicas unless it was discarded.                  *)
PutUnlocked(n, c, ev0) ==
    /\ Respond(c.client, 0, c.u.ut)
    /\ chan' = IF c.discarded THEN chan
               ELSE Send(chan, n, Peers(n), [type |-> "replica_update", u |-> c.u])
    /\ events' = ev0
    /\ UNCHANGED <<rtx, now, store, vv, gst, parked, tree, ruq, puts, gets, rotxs, sent, log>>

(* Mutation of ReplicaUpdateUnlocked: the head is not dequeued.           *)
ReplicaUpdateUnlockedNoDequeue(n, c, ev0) ==
    /\ ApplyDrain(n, c.u.sr, ruq[n][c.u.sr], ev0)
    /\ UNCHANGED <<rtx, now, store, vv, gst, parked, tree, chan, client, sent>>

(* gr_process_replica_update_unlocked: dequeue the update and start work  *)
(* on the next one of the same source.                                    *)
ReplicaUpdateUnlocked(n, c, ev0) ==
    /\ ApplyDrain(n, c.u.sr, QueueDequeue(ruq[n][c.u.sr]), ev0)
    /\ UNCHANGED <<rtx, now, store, vv, gst, parked, tree, chan, client, sent>>

(* gr_process_lst_from_leaf_root_unlocked: gr_send_gst_to_children with   *)
(* the gst of the root when the continuation runs.                        *)
LstRootUnlocked(n, c, ev0) ==
    /\ chan' = Send(chan, n, ChildNodes(n), [type |-> "gst_root", gst |-> gst[n]])
    /\ events' = ev0
    /\ UNCHANGED <<rtx, now, store, vv, gst, parked, tree, ruq, client, sent, log>>

(* gr_process_gst_from_root_unlocked: a leaf arms the next round, other   *)
(* nodes relay the gst they received to their children.                   *)
GstFromRootUnlocked(n, c, ev0) ==
    /\ \/ IsLeaf(n[2]) /\ Add(ev0, n, {Timer("start_gst")}) /\ chan' = chan
       \/ ~IsLeaf(n[2]) /\ events' = ev0
          /\ chan' = Send(chan, n, ChildNodes(n), [type |-> "gst_root", gst |-> c.gst])
    /\ UNCHANGED <<rtx, now, store, vv, gst, parked, tree, ruq, client, sent, log>>

(* gr_process_clock_tick_unlocked: gr_send_heartbeat to the other         *)
(* replicas of the partition, with the clock if the entry was advanced,   *)
(* and arm the next tick.  A heartbeat with time 0 changes nothing at its *)
(* receiver (version vector entries are never below 0) and is left out.   *)
ClockTickUnlocked(n, c, ev0) ==
    /\ chan' = IF c.send
               THEN Send(chan, n, Peers(n),
                         [type |-> "heartbeat", replica |-> n[1], time |-> Clock(n)])
               ELSE chan
    /\ Add(ev0, n, {Timer("tick")})
    /\ UNCHANGED <<rtx, now, store, vv, gst, parked, tree, ruq, client, sent, log>>

(* gr_process_get_snapshot_request_unlocked: a slice request for every   *)
(* key to the partition that owns it, with the snapshot time.  The keys   *)
(* of a rotx lie on distinct partitions, so the order of the sends is     *)
(* immaterial.                                                            *)
SnapshotUnlocked(n, c, ev0) ==
    LET s == CHOOSE x \in snap[n] : x.client = c.client
        req(k) == [type |-> "slice_req", key |-> k, time |-> s.time, from |-> n,
                   client |-> c.client]
    IN
    /\ chan' = FoldSet(LAMBDA k, ch : Send(ch, n, {Owner(n, k)}, req(k)), chan, s.keys)
    /\ events' = ev0
    /\ UNCHANGED <<rtx, now, store, vv, gst, parked, tree, ruq, client, sent, log>>

(* gr_process_slice_request_unlocked and gr_process_slice_response_unlocked *)
SliceRequestUnlocked(n, c, ev0) ==
    /\ SliceReply(n, c, chan) /\ events' = ev0
    /\ UNCHANGED <<rtx, now, store, vv, gst, parked, tree, ruq, client, sent, log>>
SliceResponseUnlocked(n, c, ev0) == SliceCollect(n, c, ev0, chan)

-----------------------------------------------------------------------------
(* Delivery of events and messages.                                       *)

Dispatch(n, m, ev0, ch0) ==
    \/ m.type = "put" /\ PutRequest(n, m, ev0, ch0)
    \/ m.type = "get" /\ GetRequest(n, m, ev0, ch0)
    \/ m.type = "replica_update" /\ ReplicaUpdate(n, m, ev0, ch0)
    \/ m.type = "heartbeat" /\ Heartbeat(n, m, ev0, ch0)
    \/ m.type = "lst" /\ LstFromLeaf(n, m, ev0, ch0)
    \/ m.type = "gst_root" /\ GstFromRoot(n, m, ev0, ch0)
    \/ m.type = "rotx" /\ RotxRequest(n, m, ev0, ch0)
    \/ m.type = "snapshot" /\ SnapshotRequest(n, m, ev0, ch0)
    \/ m.type = "slice_req" /\ SliceRequest(n, m, ev0, ch0)
    \/ m.type = "slice_resp" /\ SliceResponse(n, m, ev0, ch0)

(* A client request, or a put put back until the clock reaches its        *)
(* dependency time, is delivered to n.                                    *)
ClientMsg(n, e) ==
    /\ e.kind = "msg" /\ e \in DOMAIN events[n]
    /\ e.wait => Clock(n) >= e.m.dep
    /\ Dispatch(n, e.m, [events EXCEPT ![n] = BagRemove(@, e)], chan)
    /\ UNCHANGED <<locked, lock_queue>>

(* The message at the head of the channel from s to n is delivered.       *)
Receive(s, n) ==
    /\ chan[<<s, n>>] # <<>>
    /\ Dispatch(n, Head(chan[<<s, n>>]), events, [chan EXCEPT ![<<s, n>>] = Tail(@)])
    /\ UNCHANGED <<locked, lock_queue>>

(* on_lock_lock: a free lock is taken and the continuation runs; a taken  *)
(* lock parks the continuation on its queue.                              *)
Lock(n, e) ==
    LET c == e.c
        ev0 == [events EXCEPT ![n] = BagRemove(@, e)]
    IN
    /\ e.kind = "lock" /\ e \in DOMAIN events[n]
    /\ \/ /\ locked[n][e.lk]
          /\ lock_queue' = [lock_queue EXCEPT ![n][e.lk] = Append(@, c)]
          /\ events' = ev0
          /\ UNCHANGED <<rtx, now, store, vv, gst, parked, tree, locked, ruq, chan, client, sent, log>>
       \/ /\ ~locked[n][e.lk]
          /\ locked' = [locked EXCEPT ![n][e.lk] = TRUE]
          /\ UNCHANGED <<lock_queue, chan>>
          /\ \/ c.type = "fwd_get" /\ ForwardGetLocked(n, c, ev0)
             \/ c.type = "get" /\ GetLocked(n, c, ev0)
             \/ c.type = "put" /\ PutLocked(n, c, ev0)
             \/ c.type = "replica_update" /\ ReplicaUpdateLocked(n, c, ev0)
             \/ c.type = "root" /\ LstRootLocked(n, c, ev0)
             \/ c.type = "gst_root" /\ GstFromRootLocked(n, c, ev0)
             \/ c.type = "tick" /\ ClockTickLocked(n, c, ev0)
             \/ c.type = "heartbeat" /\ HeartbeatLocked(n, c, ev0)
             \/ c.type = "snapshot" /\ SnapshotLocked(n, c, ev0)
             \/ c.type = "slice_req" /\ SliceRequestLocked(n, c, ev0)
             \/ c.type = "slice_resp" /\ SliceResponseLocked(n, c, ev0)

(* on_lock_unlock: free the lock, make its longest waiter try it again,   *)
(* and run the continuation.                                              *)
Unlock(n, e) ==
    LET c == e.c
        q == lock_queue[n][e.lk]
        woken == IF q = <<>> THEN {} ELSE {LockEv(e.lk, Head(q))}
        ev0 == [events EXCEPT ![n] = Schedule(BagRemove(@, e), woken)]
    IN
    /\ e.kind = "unlock" /\ e \in DOMAIN events[n]
    /\ locked' = [locked EXCEPT ![n][e.lk] = FALSE]
    /\ lock_queue' = [lock_queue EXCEPT ![n][e.lk] = IF q = <<>> THEN q ELSE Tail(q)]
    /\ \/ c.type = "none" /\ NoEvent(n, c, ev0)
       \/ c.type = "get" /\ GetUnlocked(n, c, ev0)
       \/ c.type = "put" /\ PutUnlocked(n, c, ev0)
       \/ c.type = "replica_update" /\ ReplicaUpdateUnlocked(n, c, ev0)
       \/ c.type = "root" /\ LstRootUnlocked(n, c, ev0)
       \/ c.type = "gst_root" /\ GstFromRootUnlocked(n, c, ev0)
       \/ c.type = "tick" /\ ClockTickUnlocked(n, c, ev0)
       \/ c.type = "snapshot" /\ SnapshotUnlocked(n, c, ev0)
       \/ c.type = "slice_req" /\ SliceRequestUnlocked(n, c, ev0)
       \/ c.type = "slice_resp" /\ SliceResponseUnlocked(n, c, ev0)

(* gr_process_clock_tick: take the lock if the clock is clock_interval    *)
(* past the own entry; otherwise run the unlocked part at once, which     *)
(* sends a heartbeat with time 0 (left out) and re-arms the tick.         *)
ClockTick(n, e) ==
    /\ e = Timer("tick") /\ e \in DOMAIN events[n]
    /\ Add([events EXCEPT ![n] = BagRemove(@, e)], n,
           IF Clock(n) >= vv[n][n[1]] + ClockInterval
           THEN {LockEv(GstLock, [type |-> "tick"])} ELSE {Timer("tick")})
    /\ UNCHANGED <<rtx, now, store, vv, gst, parked, tree, locked, lock_queue, ruq, chan,
                   client, sent, log>>

(* Mutation of StartGstComputation: every leaf re-arms the timer at once, *)
(* as the single-partition branch does, instead of on the gst from root.   *)
StartGstComputationRearm(n, e) ==
    LET ev0 == [events EXCEPT ![n] = BagRemove(@, e)]
    IN
    /\ e = Timer("start_gst") /\ e \in DOMAIN events[n]
    /\ Add(ev0, n, {Timer("start_gst")}
                   \cup IF n[2] = 0 THEN RotxSends(n, vv[n][0]) ELSE {})
    /\ \/ n[2] = 0 /\ UpdateGst(n, vv[n][0]) /\ UNCHANGED chan
       \/ /\ n[2] # 0 /\ UNCHANGED <<gst, parked>>
          /\ chan' = Send(chan, n, {ParentNode(n)},
                          [type |-> "lst", lst |-> MinVv(n), from |-> n[2]])
    /\ UNCHANGED <<rtx, now, store, vv, tree, locked, lock_queue, ruq, client, sent, log>>

(* gr_process_start_gst_computation at a leaf: a single partition raises  *)
(* gst to version_vector[0] and re-arms; any other leaf sends the minimum *)
(* of its version vector to its parent.                                   *)
StartGstComputation(n, e) ==
    LET ev0 == [events EXCEPT ![n] = BagRemove(@, e)]
    IN
    /\ e = Timer("start_gst") /\ e \in DOMAIN events[n]
    /\ \/ /\ n[2] = 0
          /\ UpdateGst(n, vv[n][0])
          /\ Add(ev0, n, {Timer("start_gst")} \cup RotxSends(n, vv[n][0]))
          /\ UNCHANGED chan
       \/ /\ n[2] # 0
          /\ chan' = Send(chan, n, {ParentNode(n)},
                          [type |-> "lst", lst |-> MinVv(n), from |-> n[2]])
          /\ events' = ev0 /\ UNCHANGED <<gst, parked>>
    /\ UNCHANGED <<rtx, now, store, vv, tree, locked, lock_queue, ruq, client, sent, log>>

(* The client c sends a put (gr_client_put_request) or a get              *)
(* (gr_client_get_request) with what it has seen, to the partition of the *)
(* key or, if it is tied to one, to its own partition, and waits for the  *)
(* response (client_begin_request).                                       *)
ClientPut(c, k, p) ==
    /\ c \in Writers /\ ~waiting[c] /\ puts < MaxPuts
    /\ events' = [events EXCEPT ![<<Home[c], p>>] =
                    Schedule(@, {MsgEv([type |-> "put", key |-> k, dep |-> cdep[c],
                                        client |-> c, proxied |-> FALSE], FALSE)})]
    /\ waiting' = [waiting EXCEPT ![c] = TRUE] /\ puts' = puts + 1
    /\ UNCHANGED <<rtx, now, store, vv, gst, parked, tree, locked, lock_queue, ruq, chan,
                   cdep, cgst, gets, rotxs, sent, log>>

ClientGet(c, k, p) ==
    /\ c \in Readers /\ ~waiting[c] /\ gets < MaxGets
    /\ events' = [events EXCEPT ![<<Home[c], p>>] =
                    Schedule(@, {MsgEv([type |-> "get", key |-> k, gst |-> cgst[c],
                                        client |-> c, proxied |-> FALSE], FALSE)})]
    /\ waiting' = [waiting EXCEPT ![c] = TRUE] /\ gets' = gets + 1
    /\ UNCHANGED <<rtx, now, store, vv, gst, parked, tree, locked, lock_queue, ruq, chan,
                   cdep, cgst, puts, rotxs, sent, log>>

(* gr_client_rotx_request: a read-only transaction over the keys K, one   *)
(* per partition as rotx_put_rr picks them, sent with the client's gst    *)
(* and dependency time to any partition of its replica                    *)
(* (lpid_of_any_partition).                                               *)
RotxKeys == {K \in SUBSET Keys :
               K # {} /\ \A k, j \in K : k # j => PartitionOf(k) # PartitionOf(j)}
ClientRotx(c, K, p) ==
    /\ c \in Readers /\ ~waiting[c] /\ rotxs < MaxRotx
    /\ events' = [events EXCEPT ![<<Home[c], p>>] =
                    Schedule(@, {MsgEv([type |-> "rotx", keys |-> K, gst |-> cgst[c],
                                        dep |-> cdep[c], client |-> c], FALSE)})]
    /\ waiting' = [waiting EXCEPT ![c] = TRUE] /\ rotxs' = rotxs + 1
    /\ UNCHANGED <<rtx, now, store, vv, gst, parked, tree, locked, lock_queue, ruq, chan,
                   cdep, cgst, puts, gets, sent, log>>

(* Simulated time passes.                                                 *)
Tick ==
    /\ AdvanceTime
    /\ UNCHANGED <<rtx, store, vv, gst, parked, tree, locked, lock_queue, ruq, events, chan,
                   client, sent, log>>

(* The delivery of the event e that n scheduled for itself.               *)
Deliver(n, e) ==
    \/ ClientMsg(n, e) \/ Lock(n, e) \/ Unlock(n, e)
    \/ ClockTick(n, e) \/ StartGstComputation(n, e)

Next ==
    \/ Tick
    \/ \E c \in Clients, k \in Keys, p \in Partitions : ClientPut(c, k, p) \/ ClientGet(c, k, p)
    \/ \E c \in Clients, K \in RotxKeys, p \in Partitions : ClientRotx(c, K, p)
    \/ \E s, n \in Node : Receive(s, n)
    \/ \E n \in Node : \E e \in DOMAIN events[n] : Deliver(n, e)

(* The simulator delivers every scheduled event and every message, and    *)
(* time advances.  Fairness is stated per channel and per class of event  *)
(* (kind, lock, continuation): at most one replica update of a source is  *)
(* pending at a node, so a class stands for a single event where the      *)
(* properties need one.  Clients are not obliged to send.  The gst lock  *)
(* is granted to a put that finds it free infinitely often (strong       *)
(* fairness): a woken waiter can lose the lock to a barging lock         *)
(* message, but the CPU substrate serves every waiter in the end (checked *)
(* as AllComplete and MutexSpec of CpuLock), and periodic timers do not   *)
(* fire infinitely often at one simulated time.                           *)
ContTypes == {"none", "fwd_get", "get", "put", "replica_update", "root",
              "gst_root", "tick", "heartbeat", "snapshot", "slice_req", "slice_resp"}
Classes == {<<k, GstLock, "none">> : k \in {"msg", "tick", "start_gst"}}
           \cup ({"lock", "unlock"} \X LockIds \X ContTypes)
ClassOf(e) ==
    IF e.kind \in {"lock", "unlock"} THEN <<e.kind, e.lk, e.c.type>>
    ELSE <<e.kind, GstLock, "none">>

Fairness ==
    /\ WF_vars(Tick)
    /\ \A s, n \in Node : WF_vars(Receive(s, n))
    /\ \A n \in Node, k \in Classes :
          WF_vars(\E e \in DOMAIN events[n] : ClassOf(e) = k /\ Deliver(n, e))
    /\ \A n \in Node :
            SF_vars(\E e \in DOMAIN events[n] :
                      /\ ClassOf(e) = <<"lock", GstLock, "put">>
                      /\ ~locked[n][GstLock] /\ Deliver(n, e))

Spec == Init /\ [][Next]_vars /\ Fairness

-----------------------------------------------------------------------------
(* Properties.                                                            *)

(* The updates of other replicas that node n stores (its partition owns   *)
(* the key), and the ones it has applied or ignored so far.               *)
Expected(n) == {u \in sent : u.sr # n[1] /\ PartitionOf(u.key) = n[2]}
Handled(n) == Range(log[n])

(* GST soundness, the guarantee Gentle Rain is built on: once gst at a    *)
(* node reaches an update time, the partition of its replica that stores  *)
(* the key has every update of another replica stamped at or below it.    *)
(* It is what makes gr_is_value_visible safe, and depends on the version  *)
(* vector entries set by replica updates (replication.c) and heartbeats   *)
(* (heartbeat.c) and on their aggregation (gst.c).                        *)
GstSound ==
    \A n \in Node : \A u \in sent :
        (u.sr # n[1] /\ u.ut <= gst[n]) => u \in Handled(<<n[1], PartitionOf(u.key)>>)

(* Version vector entries never decrease (the monotonicity the GST        *)
(* computation relies on): not by a replica update applied after a        *)
(* heartbeat of the same source (gr_process_replica_update_locked sets    *)
(* the entry without comparing), nor by anything else.                    *)
VvMonotonic == [][\A n \in Node, r \in Replicas : vv'[n][r] >= vv[n][r]]_vars

(* Per-source ordering: the updates of one source replica are handled at *)
(* a node in the order of their update times, which is the order the     *)
(* source produced them (per-source queues of replication.c over FIFO     *)
(* channels).                                                             *)
SourceOrder ==
    \A n \in Node, r \in Replicas :
        IsSorted(SelectSeq(log[n], LAMBDA u : u.sr = r), LAMBDA a, b : a.ut < b.ut)

(* The tree aggregation never delivers two lsts of one child in a round   *)
(* (the assertion at the top of gr_process_lst_from_leaf): an lst of a    *)
(* child in flight and its mark in lst_received of the parent exclude     *)
(* each other, and at most one is in flight.                              *)
LstOncePerRound ==
    \A n \in Node : n[2] # 0 =>
        LET ch == chan[<<n, ParentNode(n)>>]
        IN  Quantify(DOMAIN ch, LAMBDA i : ch[i].type = "lst")
              + (IF ChildIndex(n[2]) \in lst_received[ParentNode(n)] THEN 1 ELSE 0)
            <= 1

(* gst never runs ahead of the version vector of any partition of the     *)
(* replica: the tree folds the minimum of every partition's vector into   *)
(* the value the root installs (gr_process_lst_from_leaf,                 *)
(* gr_process_start_gst_computation) and relays it down unchanged.        *)
GstBelowVv == \A n, m \in Node : n[1] = m[1] => gst[n] <= MinVv(m)

(* The continuations that apply an update of source r at n: pending lock  *)
(* and unlock events and continuations parked on replica_locks[r].        *)
IsApply(c, r) == c.type = "replica_update" /\ c.u.sr = r
ApplyCount(n, r) ==
    SumFunctionOnSet(events[n], {e \in DOMAIN events[n] :
                                   e.kind \in {"lock", "unlock"} /\ IsApply(e.c, r)})
      + Quantify(DOMAIN lock_queue[n][r], LAMBDA i : IsApply(lock_queue[n][r][i], r))
ApplyConts(n, r) ==
    {e.c : e \in {e \in DOMAIN events[n] : e.kind \in {"lock", "unlock"} /\ IsApply(e.c, r)}}
      \cup {c \in Range(lock_queue[n][r]) : IsApply(c, r)}

(* At most one update per source is being applied at a node, and it is    *)
(* the head of the queue of that source: the assertions of                *)
(* gr_process_replica_update_unlocked, which dequeues the head as the     *)
(* update it just applied.                                                *)
OneApplyPerSource ==
    \A n \in Node, r \in Replicas :
        /\ ApplyCount(n, r) <= 1
        /\ \A c \in ApplyConts(n, r) : ruq[n][r] # <<>> /\ c.u = Head(ruq[n][r])

(* Every update a put replicates is eventually handled (applied or        *)
(* ignored as older) by every other replica of its partition: the queue   *)
(* of its source at each receiver keeps draining.                         *)
AllHandled == \A n \in Node : Expected(n) \subseteq Handled(n)
UpdatesHandled == <>[]AllHandled
(* A put request of c pending at the owner n of its key, first delivered *)
(* or rescheduled by gr_process_put_request, with a dependency time n's    *)
(* clock reaches before simulated time stops.                              *)
ReachablePut(c, n) ==
    \E e \in DOMAIN events[n] :
        /\ e.kind = "msg" /\ e.m.type = "put" /\ e.m.client = c
        /\ Owner(n, e.m.key) = n
        /\ e.m.dep <= MaxTime + Skew[n]

(* A put postponed because its dependency time is ahead of the owner's   *)
(* clock (gr_process_put_request reschedules it by the difference) is     *)
(* eventually stamped and answered, once that clock can reach the         *)
(* dependency time: the reschedule neither loses the put nor keeps it     *)
(* waiting once the clock has caught up, and the lock it then takes is    *)
(* granted.                                                               *)
PostponedPutServed ==
    \A c \in Clients : (\E n \in Node : ReachablePut(c, n)) ~> ~waiting[c]

(* Snapshot reads are stable: the version a slice returned for a key is  *)
(* never older than a version of that key stamped at or before the         *)
(* snapshot time, whenever that version reached the owner.  A rotx thus    *)
(* reads one consistent cut at its snapshot time.  It rests on the         *)
(* snapshot time being a gst of the coordinator (snapshot.c), on no        *)
(* partition stamping a put at or below a gst (getput.c, gst.c), and on    *)
(* is_value_visible_snapshot (slice.c).                                   *)
SnapshotStable ==
    \A r \in rreads : \A v \in Range(store[r.node][r.key]) :
        v.ut <= r.time => ~Older(r.v, v)

(* A rotx sees what its client depends on: no slice returns a version     *)
(* older than one of the key stamped at or before the client's dependency *)
(* time, so the client reads its own and its causal past's writes.  It    *)
(* needs gr_process_rotx_request to park the rotx until gst covers the    *)
(* dependency time, and the gst callback to release it only then.         *)
CausalSnapshot ==
    \A r \in rreads : \A v \in Range(store[r.node][r.key]) :
        v.ut <= r.dep => ~Older(r.v, v)

(* A rotx is parked only while gst has not passed its dependency time:    *)
(* every raise of gst (gr_update_gst, from gets, the tree, snapshots and  *)
(* slices) runs the callback with the raised value.  The callback's       *)
(* strict comparison (rotx.c) leaves a rotx parked when gst equals its    *)
(* dependency time, although gr_process_rotx_request dispatches that case. *)
RotxParked == \A n \in Node : \A r \in parked[n] : gst[n] <= r.dep
====

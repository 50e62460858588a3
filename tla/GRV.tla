-------------------------------- MODULE GRV --------------------------------
(***************************************************************************)
(* The vector variant of Gentle Rain, src/src/server/protocols/grv, with   *)
(* its clients (client/protocols/grv.c).  Every version carries the        *)
(* dependency vector of the put that wrote it; a node keeps a version      *)
(* vector and a gst vector, and a version of another replica is visible    *)
(* once every entry of its dependency vector but the own replica's is      *)
(* covered by the gst vector (grv_is_value_visible).                       *)
(*                                                                         *)
(* A node has two locks: lock_vv guards the version vector and the store   *)
(* (puts, replica updates, heartbeats, clock ticks), lock_gsv the gst      *)
(* vector.  Events, channels, time and the lock abstraction are those of  *)
(* GentleRain (see Cluster): a lock event takes a free lock and runs the   *)
(* locked handler in the same step or parks it; an unlock event frees the  *)
(* lock, makes the longest waiter try again and runs the unlocked handler. *)
(* Values are left out: a version is its update time, source replica and   *)
(* dependency vector.                                                      *)
(***************************************************************************)
EXTENDS Cluster

CONSTANTS
    ClockInterval,  \* gr clock_interval (shared with gr)
    MaxTime,        \* bound on simulated time
    MaxPuts,        \* bound on client put requests
    MaxGets         \* bound on client get requests

(* grv_lpid_for_key: the partition of the replica of n that stores k.    *)
Owner(n, k) == <<n[1], PartitionOf(k)>>

(* The locks of a node (grv_init_state).                                  *)
LockVv == "vv"
LockGsv == "gsv"
LockIds == {LockVv, LockGsv}

Vector == [Replicas -> Nat]
Zero == [i \in Replicas |-> 0]
(* set_max and set_min applied entry by entry.                            *)
VecMax(a, b) == [i \in Replicas |-> IF a[i] > b[i] THEN a[i] ELSE b[i]]
VecMin(a, b) == [i \in Replicas |-> IF a[i] < b[i] THEN a[i] ELSE b[i]]

Version == [ut : Nat, sr : Replicas, dv : Vector]
(* grv_replica_update_t: the version and the one it replaced at its source *)
Update == [key : Keys, ut : Nat, sr : Replicas, dv : Vector, pst : Nat, psr : Replicas]

VARIABLES
    now,           \* simulated time
    store,         \* store[n][k]: the version chain of k, newest first
    vv,            \* version_vector
    gsv,           \* gst_vector
    min_lst,       \* min_lst_vector
    lst_received,  \* lst_received, as the set of child indices received
    locked,        \* locked[n][l]: cpu_lock.locked of lock_vv and lock_gsv
    lock_queue,    \* lock_queue[n][l]: continuations parked on the lock
    ruq,           \* replica_update_queues[r]
    events,        \* events[n]: bag of events n scheduled for itself
    chan,          \* chan[<<m, n>>]: messages in flight from m to n
    cdv, cgv,      \* dependency_vector and gst_vector of each client
    waiting,       \* waiting[c]: the client awaits a response
    puts, gets,    \* client requests issued so far
    sent,          \* history: every update a put has replicated
    log            \* history: log[n], updates n applied or dropped, in order

vars == <<now, store, vv, gsv, min_lst, lst_received, locked, lock_queue,
          ruq, events, chan, cdv, cgv, waiting, puts, gets, sent, log>>

Clock(n) == now + Skew[n]
(* The clock read by a step that stamps with it, after now advanced.      *)
StampClock(n) == now + 1 + Skew[n]
AdvanceTime == now < MaxTime /\ now' = now + 1
(* A put advances now even at the bound on ticks, so that a granted put   *)
(* is never blocked by it; each put adds at most one.                     *)
PutTime == now < MaxTime + MaxPuts /\ now' = now + 1

(* The head of the chain of k (grv_get_value_at with grv_always_visible), *)
(* or time 0 and replica 0 for a key with no version.                     *)
HeadOf(n, k) ==
    IF store[n][k] = <<>> THEN [ut |-> 0, sr |-> 0] ELSE
    [ut |-> Head(store[n][k]).ut, sr |-> Head(store[n][k]).sr]

(* grv_is_value_visible                                                   *)
Visible(n, v) ==
    v.sr = n[1] \/ \A i \in Replicas \ {n[1]} : v.dv[i] <= gsv[n][i]

(* grv_get_value: the newest visible version of k, or time 0 from 0.      *)
VisibleVersion(n, k) ==
    LET i == SelectInSeq(store[n][k], LAMBDA v : Visible(n, v))
    IN  IF i = 0 THEN [ut |-> 0, sr |-> 0]
        ELSE [ut |-> store[n][k][i].ut, sr |-> store[n][k][i].sr]

(* grv_gst_vector_need_update                                             *)
NeedUpdate(n, g) == \E i \in Replicas : g[i] > gsv[n][i]

Timer(kind) == Ev(kind, LockGsv, None)
(* A request for n: from a client, or put back by n until its clock passes *)
(* the largest entry of the dependency vector (wait).                     *)
MsgEv(m, wait) == [kind |-> "msg", lk |-> LockGsv, c |-> None, m |-> m, wait |-> wait]

Request == [type : {"put"}, key : Keys, dep : Vector, client : Clients, proxied : BOOLEAN]
           \cup [type : {"get"}, key : Keys, gsv : Vector, client : Clients, proxied : BOOLEAN]
Message == Request
           \cup [type : {"replica_update"}, u : Update]
           \cup [type : {"heartbeat"}, replica : Replicas, time : Nat]
           \cup [type : {"lst"}, lst : Vector, from : Partitions]
           \cup [type : {"gst_root"}, gsv : Vector]

TypeOK ==
    /\ now \in 0..(MaxTime + MaxPuts)
    /\ store \in [Node -> [Keys -> Seq(Version)]]
    /\ vv \in [Node -> Vector] /\ gsv \in [Node -> Vector]
    /\ min_lst \in [Node -> Vector]
    /\ lst_received \in [Node -> SUBSET (0..(Fanout - 1))]
    /\ locked \in [Node -> [LockIds -> BOOLEAN]]
    /\ ruq \in [Node -> [Replicas -> Seq(Update)]]
    /\ \A n \in Node : IsABag(events[n])
    /\ chan \in [Node \X Node -> Seq(Message)]
    /\ cdv \in [Clients -> Vector] /\ cgv \in [Clients -> Vector]
    /\ waiting \in [Clients -> BOOLEAN]
    /\ puts \in 0..MaxPuts /\ gets \in 0..MaxGets
    /\ sent \subseteq Update
    /\ log \in [Node -> Seq(Update)]

(* grv_init_state: zero vectors, empty queues, the first clock tick, and  *)
(* at a leaf the start of the first gst computation; grv_client_init.     *)
Init ==
    /\ now = 0
    /\ store = [n \in Node |-> [k \in Keys |-> <<>>]]
    /\ vv = [n \in Node |-> Zero] /\ gsv = [n \in Node |-> Zero]
    /\ min_lst = [n \in Node |-> Zero]
    /\ lst_received = [n \in Node |-> {}]
    /\ locked = [n \in Node |-> [l \in LockIds |-> FALSE]]
    /\ lock_queue = [n \in Node |-> [l \in LockIds |-> <<>>]]
    /\ ruq = [n \in Node |-> [r \in Replicas |-> <<>>]]
    /\ events = [n \in Node |->
                   SetToBag({Timer("tick")}
                            \cup IF IsLeaf(n[2]) THEN {Timer("start_gst")} ELSE {})]
    /\ chan = [p \in Node \X Node |-> <<>>]
    /\ cdv = [c \in Clients |-> Zero] /\ cgv = [c \in Clients |-> Zero]
    /\ waiting = [c \in Clients |-> FALSE]
    /\ puts = 0 /\ gets = 0
    /\ sent = {}
    /\ log = [n \in Node |-> <<>>]

-----------------------------------------------------------------------------
(* Helpers.  Handlers take the events ev0 and channels ch0 left after the *)
(* delivery of their input and add what they schedule and send.           *)

Add(ev0, n, S) == events' = [ev0 EXCEPT ![n] = Schedule(@, S)]

client == <<cdv, cgv, waiting, puts, gets>>
tree == <<min_lst, lst_received>>

(* grv_update_gst_vector: raise every entry that the argument exceeds.    *)
UpdateGsv(n, g) == gsv' = [gsv EXCEPT ![n] = VecMax(@, g)]

(* update_times of the client on a response: the gst vector (gets only)   *)
(* and the entry of the source replica of the version read or written.    *)
Respond(c, g, ut, sr) ==
    /\ cgv' = [cgv EXCEPT ![c] = VecMax(@, g)]
    /\ cdv' = [cdv EXCEPT ![c][sr] = IF @ < ut THEN ut ELSE @]
    /\ waiting' = [waiting EXCEPT ![c] = FALSE]

(* Mutation of Older: the tie on the update time is not broken by the    *)
(* source replica.                                                        *)
OlderNoTie(u, h) == u.ut < h.ut

(* The update at the head of a per-source queue is older than the version *)
(* h it conflicts with, and is ignored.                                   *)
Older(u, h) == u.ut < h.ut \/ (u.ut = h.ut /\ u.sr < h.sr)

(* Mutation of Drain: a conflicting update that is not older is left at    *)
(* the head of its queue without a lock request, as gr's                  *)
(* gr_process_replica_update_work does.                                   *)
RECURSIVE DrainStuck(_, _)
DrainStuck(n, q) ==
    IF q = <<>> THEN [rest |-> q, dropped |-> <<>>, lock |-> {}]
    ELSE LET u == Head(q)
             h == HeadOf(n, u.key)
         IN  IF u.pst = h.ut /\ u.psr = h.sr
             THEN [rest |-> q, dropped |-> <<>>,
                   lock |-> {LockEv(LockVv, [type |-> "replica_update", u |-> u])}]
             ELSE IF Older(u, h)
             THEN LET d == DrainStuck(n, Tail(q))
                  IN  [d EXCEPT !.dropped = <<u>> \o @]
             ELSE [rest |-> q, dropped |-> <<>>, lock |-> {}]

(* grv_process_replica_update_work applied to the queue q at n, chained   *)
(* through grv_process_replica_update_vv_unlocked when the head is        *)
(* ignored: the rest of the queue, the updates ignored, and the lock      *)
(* request.  A conflicting update that is not older is applied.           *)
RECURSIVE Drain(_, _)
Drain(n, q) ==
    IF QueueIsEmpty(q) THEN [rest |-> q, dropped |-> <<>>, lock |-> {}]
    ELSE LET u == QueuePeek(q)
             h == HeadOf(n, u.key)
         IN  IF (u.pst # h.ut \/ u.psr # h.sr) /\ Older(u, h)
             THEN LET d == Drain(n, QueueDequeue(q))
                  IN  [d EXCEPT !.dropped = <<u>> \o @]
             ELSE [rest |-> q, dropped |-> <<>>,
                   lock |-> {LockEv(LockVv, [type |-> "replica_update", u |-> u])}]

ApplyDrain(n, r, q, ev0) ==
    LET d == Drain(n, q)
    IN  /\ ruq' = [ruq EXCEPT ![n][r] = d.rest]
        /\ log' = [log EXCEPT ![n] = @ \o d.dropped]
        /\ Add(ev0, n, d.lock)

(* grv_replicate_value: the update goes to the other replicas of the      *)
(* partition.                                                             *)
Replicate(ch, n, u) == Send(ch, n, Peers(n), [type |-> "replica_update", u |-> u])

(* grv_send_heartbeat with the clock, to the other replicas of the        *)
(* partition.                                                             *)
SendHeartbeat(ch, n) ==
    Send(ch, n, Peers(n), [type |-> "heartbeat", replica |-> n[1], time |-> Clock(n)])

(* grv_send_gst_to_children and grv_send_gst: the gst vector g goes to     *)
(* every child partition.                                                 *)
SendGst(ch, n, g) == Send(ch, n, ChildNodes(n), [type |-> "gst_root", gsv |-> g])

(* grv_send_lst_to_parent and the leaf's send in                          *)
(* grv_process_start_gst_computation: the vector l goes to the parent.    *)
SendLst(ch, n, l) == Send(ch, n, {ParentNode(n)}, [type |-> "lst", lst |-> l, from |-> n[2]])

(* The version stored by grv_put_value unless the head is newer.          *)
PutValue(n, k, v) ==
    IF store[n][k] # <<>> /\ Head(store[n][k]).ut > v.ut THEN store
    ELSE [store EXCEPT ![n][k] = <<v>> \o @]

-----------------------------------------------------------------------------
(* Handlers of requests and messages (grv_process_event).                 *)

(* Mutation of PutRequest: the owner takes lock_vv without waiting for    *)
(* its clock to pass the dependencies.                                    *)
PutRequestNoWait(n, m, ev0, ch0) ==
    /\ UNCHANGED <<now, store, vv, gsv, tree, ruq, client, sent, log>>
    /\ \/ /\ Owner(n, m.key) # n
          /\ chan' = Send(ch0, n, {Owner(n, m.key)}, [m EXCEPT !.proxied = TRUE])
          /\ events' = ev0
       \/ /\ Owner(n, m.key) = n
          /\ Add(ev0, n, {LockEv(LockVv, [type |-> "put", key |-> m.key,
                                          client |-> m.client, dep |-> m.dep])})
          /\ chan' = ch0

(* grv_process_put_request: forward to the owner of the key, wait for the *)
(* clock to pass the largest dependency, or take lock_vv.                 *)
PutRequest(n, m, ev0, ch0) ==
    /\ UNCHANGED <<now, store, vv, gsv, tree, ruq, client, sent, log>>
    /\ \/ /\ Owner(n, m.key) # n
          /\ chan' = Send(ch0, n, {Owner(n, m.key)}, [m EXCEPT !.proxied = TRUE])
          /\ events' = ev0
       \/ /\ Owner(n, m.key) = n /\ Max(Range(m.dep)) > Clock(n)
          /\ Add(ev0, n, {MsgEv(m, TRUE)}) /\ chan' = ch0
       \/ /\ Owner(n, m.key) = n /\ Max(Range(m.dep)) <= Clock(n)
          /\ Add(ev0, n, {LockEv(LockVv, [type |-> "put", key |-> m.key,
                                          client |-> m.client, dep |-> m.dep])})
          /\ chan' = ch0

(* grv_process_get_request_unlocked: answer with the visible version and  *)
(* the gst vector.                                                        *)
GetReply(n, c) ==
    LET v == VisibleVersion(n, c.key)
    IN  Respond(c.client, gsv[n], v.ut, v.sr)

(* grv_process_get_request: a non-owner forwards the request, takes       *)
(* lock_gsv if the client knows a newer gst vector, and raises its gst    *)
(* vector at once without the lock; the owner raises it under the lock    *)
(* first if needed, then answers.                                         *)
GetRequest(n, m, ev0, ch0) ==
    LET c == [type |-> "get", key |-> m.key, gsv |-> m.gsv, client |-> m.client]
    IN
    /\ UNCHANGED <<now, store, vv, tree, ruq, puts, gets, sent, log>>
    /\ \/ /\ Owner(n, m.key) # n
          /\ chan' = Send(ch0, n, {Owner(n, m.key)}, [m EXCEPT !.proxied = TRUE])
          /\ Add(ev0, n, IF NeedUpdate(n, m.gsv)
                         THEN {LockEv(LockGsv, [type |-> "fwd_get", gsv |-> m.gsv])}
                         ELSE {})
          /\ UpdateGsv(n, m.gsv)
          /\ UNCHANGED <<cdv, cgv, waiting>>
       \/ /\ Owner(n, m.key) = n /\ NeedUpdate(n, m.gsv)
          /\ Add(ev0, n, {LockEv(LockGsv, c)}) /\ chan' = ch0
          /\ UNCHANGED <<gsv, cdv, cgv, waiting>>
       \/ /\ Owner(n, m.key) = n /\ ~NeedUpdate(n, m.gsv)
          /\ GetReply(n, c) /\ events' = ev0 /\ chan' = ch0
          /\ UNCHANGED gsv

(* Mutation of ReplicaUpdate: work starts on every arrival, not only when *)
(* the queue was empty.                                                   *)
ReplicaUpdateAlways(n, m, ev0, ch0) ==
    /\ chan' = ch0
    /\ UNCHANGED <<now, store, vv, gsv, tree, client, sent>>
    /\ ApplyDrain(n, m.u.sr, Append(ruq[n][m.u.sr], m.u), ev0)

(* grv_process_replica_update: enqueue on the queue of the source; start  *)
(* work on it if the queue was empty.                                     *)
ReplicaUpdate(n, m, ev0, ch0) ==
    LET q == ruq[n][m.u.sr]
    IN  /\ chan' = ch0
        /\ UNCHANGED <<now, store, vv, gsv, tree, client, sent>>
        /\ IF QueueIsEmpty(q)
           THEN ApplyDrain(n, m.u.sr, <<m.u>>, ev0)
           ELSE /\ ruq' = [ruq EXCEPT ![n][m.u.sr] = QueueEnqueue(@, m.u)]
                /\ events' = ev0 /\ UNCHANGED log

(* grv_process_heartbeat: always take lock_vv.                            *)
Heartbeat(n, m, ev0, ch0) ==
    /\ Add(ev0, n, {LockEv(LockVv, [type |-> "heartbeat", replica |-> m.replica,
                                    time |-> m.time])})
    /\ chan' = ch0
    /\ UNCHANGED <<now, store, vv, gsv, tree, ruq, client, sent, log>>

(* Mutation of FoldOwn: the own version vector is left out of the round.  *)
FoldOwnSkipped(n, ml) == ml

(* The first lst of a round becomes min_lst; later ones are folded in.    *)
FoldLst(n, m) ==
    IF lst_received[n] = {} THEN m.lst ELSE VecMin(min_lst[n], m.lst)

(* At the end of a round the own version vector is folded in.             *)
FoldOwn(n, ml) == VecMin(ml, vv[n])

(* grv_process_lst_from_leaf: fold the lst vector of a child into         *)
(* min_lst; once every child reported, fold in the own version vector,    *)
(* and either take lock_gsv (root) or send min_lst up                     *)
(* (grv_send_lst_to_parent).                                              *)
LstFromLeaf(n, m, ev0, ch0) ==
    LET cnt == Cardinality(lst_received[n])
        ml == FoldLst(n, m)
        ml2 == FoldOwn(n, ml)
    IN
    /\ UNCHANGED <<now, store, vv, gsv, ruq, client, sent, log>>
    /\ \/ /\ cnt # Cardinality(Children(n[2])) - 1
          /\ lst_received' = [lst_received EXCEPT ![n] = @ \cup {ChildIndex(m.from)}]
          /\ min_lst' = [min_lst EXCEPT ![n] = ml]
          /\ events' = ev0 /\ chan' = ch0
       \/ /\ cnt = Cardinality(Children(n[2])) - 1
          /\ lst_received' = [lst_received EXCEPT ![n] = {}]
          /\ min_lst' = [min_lst EXCEPT ![n] = ml2]
          /\ \/ n[2] = 0 /\ Add(ev0, n, {LockEv(LockGsv, [type |-> "root"])}) /\ chan' = ch0
             \/ n[2] # 0 /\ events' = ev0
                /\ chan' = SendLst(ch0, n, ml2)

(* grv_process_gst_from_root: relay the gst vector to the children at     *)
(* once, then take lock_gsv to raise the own.                             *)
GstFromRoot(n, m, ev0, ch0) ==
    /\ chan' = SendGst(ch0, n, m.gsv)
    /\ Add(ev0, n, {LockEv(LockGsv, [type |-> "gst_root", gsv |-> m.gsv])})
    /\ UNCHANGED <<now, store, vv, gsv, tree, ruq, client, sent, log>>

-----------------------------------------------------------------------------
(* Continuations run when their lock is granted (the *_LOCKED events).    *)
(* None of them sends a message; each ends with cpu_lock_unlock.           *)

(* grv_process_forwarded_get_request_locked                               *)
ForwardGetLocked(n, c, ev0) ==
    /\ UpdateGsv(n, c.gsv)
    /\ Add(ev0, n, {UnlockEv(LockGsv, None)})
    /\ UNCHANGED <<now, store, vv, tree, ruq, client, sent, log>>

(* grv_process_get_request_locked                                         *)
GetLocked(n, c, ev0) ==
    /\ UpdateGsv(n, c.gsv)
    /\ Add(ev0, n, {UnlockEv(LockGsv, c)})
    /\ UNCHANGED <<now, store, vv, tree, ruq, client, sent, log>>

(* grv_process_put_request_locked: stamp with the clock, store the        *)
(* version with the dependency vector of the request unless the head is  *)
(* newer (grv_put_value), and set the own version vector entry to the     *)
(* stamp whether or not the version was stored.                           *)
PutLocked(n, c, ev0) ==
    LET ts == StampClock(n)
        h == HeadOf(n, c.key)
        discarded == store[n][c.key] # <<>> /\ h.ut > ts
        u == [key |-> c.key, ut |-> ts, sr |-> n[1], dv |-> c.dep,
              pst |-> h.ut, psr |-> h.sr]
    IN
    /\ PutTime
    /\ store' = PutValue(n, c.key, [ut |-> ts, sr |-> n[1], dv |-> c.dep])
    /\ vv' = [vv EXCEPT ![n][n[1]] = ts]
    /\ sent' = IF discarded THEN sent ELSE sent \cup {u}
    /\ Add(ev0, n, {UnlockEv(LockVv, [type |-> "put", client |-> c.client,
                                      u |-> u, discarded |-> discarded])})
    /\ UNCHANGED <<gsv, tree, ruq, client, log>>

(* grv_process_replica_update_vv_locked: grv_put_value, then set the      *)
(* version vector entry of the source to the update time.                 *)
ReplicaUpdateLocked(n, c, ev0) ==
    LET u == c.u
    IN
    /\ store' = PutValue(n, u.key, [ut |-> u.ut, sr |-> u.sr, dv |-> u.dv])
    /\ vv' = [vv EXCEPT ![n][u.sr] = u.ut]
    /\ log' = [log EXCEPT ![n] = Append(@, u)]
    /\ Add(ev0, n, {UnlockEv(LockVv, c)})
    /\ UNCHANGED <<now, gsv, tree, ruq, client, sent>>

(* grv_process_lst_from_leaf_root_locked                                  *)
LstRootLocked(n, c, ev0) ==
    /\ UpdateGsv(n, min_lst[n])
    /\ Add(ev0, n, {UnlockEv(LockGsv, c)})
    /\ UNCHANGED <<now, store, vv, tree, ruq, client, sent, log>>

(* grv_process_gst_from_root_locked                                       *)
GstFromRootLocked(n, c, ev0) ==
    /\ UpdateGsv(n, c.gsv)
    /\ Add(ev0, n, {UnlockEv(LockGsv, c)})
    /\ UNCHANGED <<now, store, vv, tree, ruq, client, sent, log>>

(* grv_process_clock_tick_locked: set the own entry to the clock, without *)
(* checking again that it is clock_interval behind.                       *)
ClockTickLocked(n, c, ev0) ==
    /\ vv' = [vv EXCEPT ![n][n[1]] = Clock(n)]
    /\ Add(ev0, n, {UnlockEv(LockVv, c)})
    /\ UNCHANGED <<now, store, gsv, tree, ruq, client, sent, log>>

(* grv_process_heartbeat_locked: raise the entry of the replica; the      *)
(* unlock has no continuation (CPU_NO_EVENT).                             *)
HeartbeatLocked(n, c, ev0) ==
    /\ vv' = [vv EXCEPT ![n][c.replica] = IF @ < c.time THEN c.time ELSE @]
    /\ Add(ev0, n, {UnlockEv(LockVv, None)})
    /\ UNCHANGED <<now, store, gsv, tree, ruq, client, sent, log>>

-----------------------------------------------------------------------------
(* Continuations run when their lock is released (the *_UNLOCKED events). *)

(* CPU_NO_EVENT                                                           *)
NoEvent(n, c, ev0) ==
    /\ events' = ev0
    /\ UNCHANGED <<now, store, vv, gsv, tree, ruq, chan, client, sent, log>>

(* grv_process_get_request_unlocked                                       *)
GetUnlocked(n, c, ev0) ==
    /\ GetReply(n, c) /\ events' = ev0
    /\ UNCHANGED <<now, store, vv, gsv, tree, ruq, chan, puts, gets, sent, log>>

(* grv_process_put_request_unlocked: answer the client (put_response      *)
(* raises its entry of the own replica), and replicate the update to the  *)
(* other replicas (grv_replicate_value) unless it was discarded.          *)
PutUnlocked(n, c, ev0) ==
    /\ Respond(c.client, Zero, c.u.ut, n[1])
    /\ chan' = IF c.discarded THEN chan
               ELSE Replicate(chan, n, c.u)
    /\ events' = ev0
    /\ UNCHANGED <<now, store, vv, gsv, tree, ruq, puts, gets, sent, log>>

(* grv_process_replica_update_vv_unlocked: dequeue the update and start   *)
(* work on the next one of the same source.                               *)
ReplicaUpdateUnlocked(n, c, ev0) ==
    /\ ApplyDrain(n, c.u.sr, QueueDequeue(ruq[n][c.u.sr]), ev0)
    /\ UNCHANGED <<now, store, vv, gsv, tree, chan, client, sent>>

(* grv_process_lst_from_leaf_root_unlocked: grv_send_gst_to_children with *)
(* the gst vector of the root when the continuation runs.                 *)
LstRootUnlocked(n, c, ev0) ==
    /\ chan' = SendGst(chan, n, gsv[n])
    /\ events' = ev0
    /\ UNCHANGED <<now, store, vv, gsv, tree, ruq, client, sent, log>>

(* grv_process_gst_from_root_unlocked: a leaf arms the next round.        *)
GstFromRootUnlocked(n, c, ev0) ==
    /\ Add(ev0, n, IF IsLeaf(n[2]) THEN {Timer("start_gst")} ELSE {})
    /\ UNCHANGED <<now, store, vv, gsv, tree, ruq, chan, client, sent, log>>

(* grv_process_clock_tick_unlocked after the locked part: grv_send_heartbeat *)
(* with the clock to the other replicas of the partition, and the next    *)
(* tick.                                                                  *)
ClockTickUnlocked(n, c, ev0) ==
    /\ chan' = SendHeartbeat(chan, n)
    /\ Add(ev0, n, {Timer("tick")})
    /\ UNCHANGED <<now, store, vv, gsv, tree, ruq, client, sent, log>>

-----------------------------------------------------------------------------
(* Delivery of events and messages.                                       *)

Dispatch(n, m, ev0, ch0) ==
    \/ m.type = "put" /\ PutRequest(n, m, ev0, ch0)
    \/ m.type = "get" /\ GetRequest(n, m, ev0, ch0)
    \/ m.type = "replica_update" /\ ReplicaUpdate(n, m, ev0, ch0)
    \/ m.type = "heartbeat" /\ Heartbeat(n, m, ev0, ch0)
    \/ m.type = "lst" /\ LstFromLeaf(n, m, ev0, ch0)
    \/ m.type = "gst_root" /\ GstFromRoot(n, m, ev0, ch0)

(* A client request, or a put put back until the clock reaches its        *)
(* largest dependency, is delivered to n.                                 *)
ClientMsg(n, e) ==
    /\ e.kind = "msg" /\ e \in DOMAIN events[n]
    /\ e.wait => Clock(n) >= Max(Range(e.m.dep))
    /\ Dispatch(n, e.m, [events EXCEPT ![n] = BagRemove(@, e)], chan)
    /\ UNCHANGED <<locked, lock_queue>>

(* The message at the head of the channel from s to n is delivered.       *)
Receive(s, n) ==
    /\ chan[<<s, n>>] # <<>>
    /\ Dispatch(n, Head(chan[<<s, n>>]), events, [chan EXCEPT ![<<s, n>>] = Tail(@)])
    /\ UNCHANGED <<locked, lock_queue>>

(* on_lock_lock: a free lock is taken and the continuation runs; a taken  *)
(* lock parks the continuation on its queue.                              *)
Lock(n, e) ==
    LET c == e.c
        ev0 == [events EXCEPT ![n] = BagRemove(@, e)]
    IN
    /\ e.kind = "lock" /\ e \in DOMAIN events[n]
    /\ \/ /\ locked[n][e.lk]
          /\ lock_queue' = [lock_queue EXCEPT ![n][e.lk] = Append(@, c)]
          /\ events' = ev0
          /\ UNCHANGED <<now, store, vv, gsv, tree, locked, ruq, chan, client, sent, log>>
       \/ /\ ~locked[n][e.lk]
          /\ locked' = [locked EXCEPT ![n][e.lk] = TRUE]
          /\ UNCHANGED <<lock_queue, chan>>
          /\ \/ c.type = "fwd_get" /\ ForwardGetLocked(n, c, ev0)
             \/ c.type = "get" /\ GetLocked(n, c, ev0)
             \/ c.type = "put" /\ PutLocked(n, c, ev0)
             \/ c.type = "replica_update" /\ ReplicaUpdateLocked(n, c, ev0)
             \/ c.type = "root" /\ LstRootLocked(n, c, ev0)
             \/ c.type = "gst_root" /\ GstFromRootLocked(n, c, ev0)
             \/ c.type = "tick" /\ ClockTickLocked(n, c, ev0)
             \/ c.type = "heartbeat" /\ HeartbeatLocked(n, c, ev0)

(* on_lock_unlock: free the lock, make its longest waiter try it again,   *)
(* and run the continuation.                                              *)
Unlock(n, e) ==
    LET c == e.c
        q == lock_queue[n][e.lk]
        woken == IF q = <<>> THEN {} ELSE {LockEv(e.lk, Head(q))}
        ev0 == [events EXCEPT ![n] = Schedule(BagRemove(@, e), woken)]
    IN
    /\ e.kind = "unlock" /\ e \in DOMAIN events[n]
    /\ locked' = [locked EXCEPT ![n][e.lk] = FALSE]
    /\ lock_queue' = [lock_queue EXCEPT ![n][e.lk] = IF q = <<>> THEN q ELSE Tail(q)]
    /\ \/ c.type = "none" /\ NoEvent(n, c, ev0)
       \/ c.type = "get" /\ GetUnlocked(n, c, ev0)
       \/ c.type = "put" /\ PutUnlocked(n, c, ev0)
       \/ c.type = "replica_update" /\ ReplicaUpdateUnlocked(n, c, ev0)
       \/ c.type = "root" /\ LstRootUnlocked(n, c, ev0)
       \/ c.type = "gst_root" /\ GstFromRootUnlocked(n, c, ev0)
       \/ c.type = "tick" /\ ClockTickUnlocked(n, c, ev0)

(* grv_process_clock_tick: take lock_vv if the clock is clock_interval    *)
(* past the own entry; otherwise run the unlocked part at once, which     *)
(* re-arms the tick and sends a heartbeat with time 0.  That heartbeat    *)
(* takes lock_vv at its receivers and changes nothing; it is left out.    *)
ClockTick(n, e) ==
    /\ e = Timer("tick") /\ e \in DOMAIN events[n]
    /\ Add([events EXCEPT ![n] = BagRemove(@, e)], n,
           IF Clock(n) >= vv[n][n[1]] + ClockInterval
           THEN {LockEv(LockVv, [type |-> "tick"])} ELSE {Timer("tick")})
    /\ UNCHANGED <<now, store, vv, gsv, tree, locked, lock_queue, ruq, chan,
                   client, sent, log>>

(* Mutation of StartGstComputation: every leaf re-arms the timer at once,  *)
(* as the single-partition branch does, instead of on the gst from root.   *)
StartGstComputationRearm(n, e) ==
    LET ev0 == [events EXCEPT ![n] = BagRemove(@, e)]
    IN
    /\ e = Timer("start_gst") /\ e \in DOMAIN events[n]
    /\ Add(ev0, n, {Timer("start_gst")})
    /\ \/ n[2] = 0 /\ UpdateGsv(n, vv[n]) /\ UNCHANGED chan
       \/ /\ n[2] # 0 /\ UNCHANGED gsv
          /\ chan' = SendLst(chan, n, vv[n])
    /\ UNCHANGED <<now, store, vv, tree, locked, lock_queue, ruq, client, sent, log>>

(* grv_process_start_gst_computation at a leaf: a single partition raises *)
(* its gst vector to its version vector and re-arms; any other leaf sends *)
(* its version vector to its parent.                                      *)
StartGstComputation(n, e) ==
    LET ev0 == [events EXCEPT ![n] = BagRemove(@, e)]
    IN
    /\ e = Timer("start_gst") /\ e \in DOMAIN events[n]
    /\ \/ /\ n[2] = 0
          /\ UpdateGsv(n, vv[n])
          /\ Add(ev0, n, {Timer("start_gst")}) /\ UNCHANGED chan
       \/ /\ n[2] # 0
          /\ chan' = SendLst(chan, n, vv[n])
          /\ events' = ev0 /\ UNCHANGED gsv
    /\ UNCHANGED <<now, store, vv, tree, locked, lock_queue, ruq, client, sent, log>>

(* The client c sends a put (grv_client_put_request) with the entrywise   *)
(* maximum of its gst and dependency vectors, or a get                    *)
(* (grv_client_get_request) with its gst vector, to the partition of the  *)
(* key or, if it is tied to one, to its own partition, and waits for the  *)
(* response (client_begin_request).                                       *)
ClientPut(c, k, p) ==
    /\ c \in Writers /\ ~waiting[c] /\ puts < MaxPuts
    /\ events' = [events EXCEPT ![<<Home[c], p>>] =
                    Schedule(@, {MsgEv([type |-> "put", key |-> k,
                                        dep |-> VecMax(cgv[c], cdv[c]),
                                        client |-> c, proxied |-> FALSE], FALSE)})]
    /\ waiting' = [waiting EXCEPT ![c] = TRUE] /\ puts' = puts + 1
    /\ UNCHANGED <<now, store, vv, gsv, tree, locked, lock_queue, ruq, chan,
                   cdv, cgv, gets, sent, log>>

ClientGet(c, k, p) ==
    /\ c \in Readers /\ ~waiting[c] /\ gets < MaxGets
    /\ events' = [events EXCEPT ![<<Home[c], p>>] =
                    Schedule(@, {MsgEv([type |-> "get", key |-> k, gsv |-> cgv[c],
                                        client |-> c, proxied |-> FALSE], FALSE)})]
    /\ waiting' = [waiting EXCEPT ![c] = TRUE] /\ gets' = gets + 1
    /\ UNCHANGED <<now, store, vv, gsv, tree, locked, lock_queue, ruq, chan,
                   cdv, cgv, puts, sent, log>>

(* Simulated time passes.                                                 *)
Tick ==
    /\ AdvanceTime
    /\ UNCHANGED <<store, vv, gsv, tree, locked, lock_queue, ruq, events, chan,
                   client, sent, log>>

(* The delivery of the event e that n scheduled for itself.               *)
Deliver(n, e) ==
    \/ ClientMsg(n, e) \/ Lock(n, e) \/ Unlock(n, e)
    \/ ClockTick(n, e) \/ StartGstComputation(n, e)

Next ==
    \/ Tick
    \/ \E c \in Clients, k \in Keys, p \in Partitions : ClientPut(c, k, p) \/ ClientGet(c, k, p)
    \/ \E s, n \in Node : Receive(s, n)
    \/ \E n \in Node : \E e \in DOMAIN events[n] : Deliver(n, e)

(* As in GentleRain: every scheduled event and every message is delivered *)
(* and time advances; fairness per channel and per class of event.        *)
ContTypes == {"none", "fwd_get", "get", "put", "replica_update", "root",
              "gst_root", "tick", "heartbeat"}
Classes == {<<k, LockGsv, "none">> : k \in {"msg", "tick", "start_gst"}}
           \cup ({"lock", "unlock"} \X LockIds \X ContTypes)
ClassOf(e) ==
    IF e.kind \in {"lock", "unlock"} THEN <<e.kind, e.lk, e.c.type>>
    ELSE <<e.kind, LockGsv, "none">>

Fairness ==
    /\ WF_vars(Tick)
    /\ \A s, n \in Node : WF_vars(Receive(s, n))
    /\ \A n \in Node, k \in Classes :
          WF_vars(\E e \in DOMAIN events[n] : ClassOf(e) = k /\ Deliver(n, e))

Spec == Init /\ [][Next]_vars /\ Fairness

-----------------------------------------------------------------------------
(* Properties.                                                            *)

(* The updates of other replicas that node n stores (its partition owns   *)
(* the key), and the ones it has applied or ignored so far.               *)
Expected(n) == {u \in sent : u.sr # n[1] /\ PartitionOf(u.key) = n[2]}
Handled(n) == Range(log[n])

(* Soundness of the gst vector, on which grv_is_value_visible rests: once *)
(* the entry of replica r at a node reaches an update time, the partition *)
(* of its replica that stores the key has handled every update of r       *)
(* stamped at or below it.  It depends on the version vector entries set  *)
(* by replica updates (replication.c) and heartbeats (heartbeat.c) and on *)
(* the vector minimum folded up the tree (gst.c).                         *)
GstVectorSound ==
    \A n \in Node : \A u \in sent :
        (u.sr # n[1] /\ u.ut <= gsv[n][u.sr])
            => u \in Handled(<<n[1], PartitionOf(u.key)>>)

(* Every version is stamped later than everything it depends on: the put  *)
(* handler waits until the clock passes the largest entry of the          *)
(* dependency vector the client sent (grv_process_put_request), whatever  *)
(* the skew between the replica that served the client's reads and the   *)
(* one that stamps the put.                                               *)
StampAfterDeps ==
    \A n \in Node, k \in Keys : \A i \in DOMAIN store[n][k] :
        \A r \in Replicas : store[n][k][i].dv[r] < store[n][k][i].ut

(* The tree aggregation never delivers two lsts of one child in a round   *)
(* (the assertion at the top of grv_process_lst_from_leaf).               *)
LstOncePerRound ==
    \A n \in Node : n[2] # 0 =>
        LET ch == chan[<<n, ParentNode(n)>>]
        IN  Quantify(DOMAIN ch, LAMBDA i : ch[i].type = "lst")
              + (IF ChildIndex(n[2]) \in lst_received[ParentNode(n)] THEN 1 ELSE 0)
            <= 1

(* No entry of the gst vector of a node runs ahead of the same entry of   *)
(* the version vector of any partition of its replica, also as the root's *)
(* vector is relayed before the relaying node takes lock_gsv              *)
(* (grv_process_gst_from_root) while older gst updates still wait for it. *)
GstBelowVv ==
    \A n, m \in Node : n[1] = m[1] => \A r \in Replicas : gsv[n][r] <= vv[m][r]

(* The continuations that apply an update of source r at n: pending lock  *)
(* and unlock events and continuations parked on lock_vv.                 *)
IsApply(c, r) == c.type = "replica_update" /\ c.u.sr = r
ApplyCount(n, r) ==
    SumFunctionOnSet(events[n], {e \in DOMAIN events[n] :
                                   e.kind \in {"lock", "unlock"} /\ IsApply(e.c, r)})
      + Quantify(DOMAIN lock_queue[n][LockVv], LAMBDA i : IsApply(lock_queue[n][LockVv][i], r))
ApplyConts(n, r) ==
    {e.c : e \in {e \in DOMAIN events[n] : e.kind \in {"lock", "unlock"} /\ IsApply(e.c, r)}}
      \cup {c \in Range(lock_queue[n][LockVv]) : IsApply(c, r)}

(* At most one update per source is being applied at a node, and it is    *)
(* the head of the queue of that source, which                            *)
(* grv_process_replica_update_vv_unlocked dequeues as the update it just  *)
(* applied (its assertions).                                              *)
OneApplyPerSource ==
    \A n \in Node, r \in Replicas :
        /\ ApplyCount(n, r) <= 1
        /\ \A c \in ApplyConts(n, r) : ruq[n][r] # <<>> /\ c.u = Head(ruq[n][r])

(* Nothing is left to deliver but the periodic timers.                    *)
Quiescent ==
    /\ \A p \in DOMAIN chan : chan[p] = <<>>
    /\ \A n \in Node : \A e \in DOMAIN events[n] : e.kind \in {"tick", "start_gst"}
    /\ \A n \in Node, r \in Replicas : ruq[n][r] = <<>>

(* Replicas converge: once nothing is in flight, every replica of a       *)
(* partition has the same newest version of each of its keys, whatever    *)
(* the order in which concurrent puts were stamped, replicated and        *)
(* resolved (conflict detection in grv_process_replica_update_work and    *)
(* grv_put_value's check of the head).                                    *)
Convergence ==
    Quiescent =>
        \A n, m \in Node : \A k \in Keys :
            (n[2] = PartitionOf(k) /\ m[2] = n[2]) => HeadOf(n, k) = HeadOf(m, k)

(* Every update a put replicates is eventually handled by every other     *)
(* replica of its partition: a conflicting update that is not older is    *)
(* applied, so the queue of its source keeps draining.                    *)
AllHandled == \A n \in Node : Expected(n) \subseteq Handled(n)
UpdatesHandled == <>[]AllHandled
====

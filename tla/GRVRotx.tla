------------------------------ MODULE GRVRotx ------------------------------
(***************************************************************************)
(* Read-only transactions of GRV (grv/rotx.c, grv/slice.c and              *)
(* grv_client_rotx_request), added to the GRV engine.  The coordinator    *)
(* raises its gst vector to the client's under lock_gsv if needed, fixes  *)
(* a snapshot time (the larger of its clock and the client's dependency   *)
(* time on its own replica) and sends one slice request per partition of  *)
(* its replica that owns some of the keys.  An owner waits for its clock  *)
(* to reach the snapshot time, raises its gst vector to the coordinator's *)
(* under lock_gsv if needed, and answers with, for every key, the newest  *)
(* version whose dependency vector is covered by its gst vector with the  *)
(* own entry set to its clock.  The coordinator answers the client once   *)
(* every value is in.                                                      *)
(*                                                                         *)
(* Every action of GRV is kept, leaving the rotx state alone; lock events *)
(* of rotx continuations park on a taken lock through GRV's Lock.         *)
(***************************************************************************)
EXTENDS GRV

CONSTANT MaxRotx    \* bound on client rotx requests

VARIABLES
    rotxs,    \* client rotx requests issued so far
    rstate,   \* rstate[n]: the rotx states of coordinator n (rotx_states)
    rreads    \* history: every slice read, with its snapshot time

rvars == <<rotxs, rstate, rreads>>
allvars == <<vars, rvars>>

(* What the rotx handlers never change.                                   *)
fixed == <<now, store, vv, tree, ruq, sent, log, cgv, puts, gets>>

InitR ==
    /\ Init
    /\ rotxs = 0
    /\ rstate = [n \in Node |-> {}]
    /\ rreads = {}

(* The event by which grv_process_slice_request schedules a slice request *)
(* for itself until its clock reaches the snapshot time.                   *)
SliceWaitEv(m) == [kind |-> "slice_wait", lk |-> LockGsv, c |-> None, m |-> m, wait |-> TRUE]

(* grv_process_rotx_request_unlocked: create the rotx state, take the     *)
(* snapshot time, and send each partition of the replica that owns some   *)
(* keys a slice request with them and the own gst vector                  *)
(* (foreach_partition with send_slice).                                   *)
RotxStart(n, m, ev0, ch0) ==
    LET st == IF Clock(n) > m.dtime THEN Clock(n) ELSE m.dtime
        req(p) == [type |-> "slice_req", keys |-> {k \in m.keys : PartitionOf(k) = p},
                   time |-> st, gsv |-> gsv[n], coord |-> n, client |-> m.client]
    IN
    /\ rstate' = [rstate EXCEPT ![n] = @ \cup {[client |-> m.client, keys |-> m.keys,
                                                dv |-> Zero, recv |-> 0]}]
    /\ chan' = FoldSet(LAMBDA p, ch : Send(ch, n, {<<n[1], p>>}, req(p)), ch0,
                       {PartitionOf(k) : k \in m.keys})
    /\ events' = ev0
    /\ UNCHANGED <<fixed, gsv, cdv, waiting, rotxs, rreads>>

(* grv_process_rotx_request: raise the gst vector under lock_gsv first if *)
(* the client knows a newer one.                                          *)
RotxRequest(n, m, ev0, ch0) ==
    \/ /\ NeedUpdate(n, m.gsv)
       /\ Add(ev0, n, {LockEv(LockGsv, m)}) /\ chan' = ch0
       /\ UNCHANGED <<fixed, gsv, cdv, waiting, rvars>>
    \/ ~NeedUpdate(n, m.gsv) /\ RotxStart(n, m, ev0, ch0)

(* is_value_visible_snapshot: every entry of the dependency vector of the *)
(* version is covered by the snapshot vector.                             *)
VisibleAt(v, sv) == \A r \in Replicas : v.dv[r] <= sv[r]

(* grv_get_value_at with is_value_visible_snapshot: the newest such       *)
(* version of k at n, or time 0 from replica 0.                           *)
SliceVersion(n, k, sv) ==
    LET i == SelectInSeq(store[n][k], LAMBDA v : VisibleAt(v, sv))
    IN  IF i = 0 THEN [ut |-> 0, sr |-> 0, dv |-> Zero] ELSE store[n][k][i]

(* grv_process_slice_request_unlocked: read every key of the slice with   *)
(* the gst vector whose own entry is the clock, and answer the            *)
(* coordinator.                                                           *)
SliceReply(n, m, ch0) ==
    LET sv == [gsv[n] EXCEPT ![n[1]] = Clock(n)]
        reads == {[key |-> k, v |-> SliceVersion(n, k, sv)] : k \in m.keys}
    IN
    /\ chan' = Send(ch0, n, {m.coord}, [type |-> "slice_resp", reads |-> reads,
                                       client |-> m.client])
    /\ rreads' = rreads \cup {[node |-> n, key |-> x.key, time |-> m.time, v |-> x.v] :
                                x \in reads}

(* grv_process_slice_request: wait for the clock to reach the snapshot    *)
(* time, then raise the gst vector under lock_gsv if the coordinator's is *)
(* newer, or answer at once.                                              *)
SliceRequest(n, m, ev0, ch0) ==
    \/ /\ m.time > Clock(n)
       /\ Add(ev0, n, {SliceWaitEv(m)}) /\ chan' = ch0
       /\ UNCHANGED <<fixed, gsv, cdv, waiting, rvars>>
    \/ /\ m.time <= Clock(n) /\ NeedUpdate(n, m.gsv)
       /\ Add(ev0, n, {LockEv(LockGsv, m)}) /\ chan' = ch0
       /\ UNCHANGED <<fixed, gsv, cdv, waiting, rvars>>
    \/ /\ m.time <= Clock(n) /\ ~NeedUpdate(n, m.gsv)
       /\ SliceReply(n, m, ch0) /\ events' = ev0
       /\ UNCHANGED <<fixed, gsv, cdv, waiting, rotxs, rstate>>

(* grv_send_rotx_response: answer the client of rotx state s at n with    *)
(* the dependency vector dv and free the state; the client's              *)
(* rotx_response raises its dependency vector to dv.                      *)
SendRotxResponse(n, s, dv) ==
    /\ rstate' = [rstate EXCEPT ![n] = @ \ {s}]
    /\ cdv' = [cdv EXCEPT ![s.client] = VecMax(@, dv)]
    /\ waiting' = [waiting EXCEPT ![s.client] = FALSE]

(* grv_process_slice_response: fold the slice into the rotx state: the    *)
(* entry of each value's source replica is raised to its update time;    *)
(* once every value is in, the rotx is answered.                          *)
SliceResponse(n, m, ev0, ch0) ==
    LET s == CHOOSE x \in rstate[n] : x.client = m.client
        dv2 == [r \in Replicas |->
                  Max({s.dv[r]} \cup {x.v.ut : x \in {y \in m.reads : y.v.sr = r}})]
        s2 == [s EXCEPT !.dv = dv2, !.recv = @ + Cardinality(m.reads)]
    IN
    /\ IF s2.recv = Cardinality(s.keys)
       THEN SendRotxResponse(n, s, dv2)
       ELSE /\ rstate' = [rstate EXCEPT ![n] = (@ \ {s}) \cup {s2}]
            /\ UNCHANGED <<cdv, waiting>>
    /\ events' = ev0 /\ chan' = ch0
    /\ UNCHANGED <<fixed, gsv, rotxs, rreads>>

DispatchR(n, m, ev0, ch0) ==
    \/ m.type = "rotx" /\ RotxRequest(n, m, ev0, ch0)
    \/ m.type = "slice_req" /\ SliceRequest(n, m, ev0, ch0)
    \/ m.type = "slice_resp" /\ SliceResponse(n, m, ev0, ch0)

(* grv_process_rotx_request_locked and grv_process_slice_request_locked:  *)
(* raise the gst vector, then cpu_lock_unlock.                            *)
RotxLocked(n, c, ev0) ==
    /\ UpdateGsv(n, c.gsv)
    /\ Add(ev0, n, {UnlockEv(LockGsv, c)})
    /\ UNCHANGED <<fixed, chan, cdv, waiting, rvars>>

(* grv_process_rotx_request_unlocked and                                  *)
(* grv_process_slice_request_unlocked after the lock.                     *)
RotxUnlocked(n, c, ev0) ==
    \/ c.type = "rotx" /\ RotxStart(n, c, ev0, chan)
    \/ /\ c.type = "slice_req" /\ SliceReply(n, c, chan) /\ events' = ev0
       /\ UNCHANGED <<fixed, gsv, cdv, waiting, rotxs, rstate>>

(* The rotx request of a client, or a slice request whose clock wait is   *)
(* over, is delivered to n.                                                *)
RotxMsg(n, e) ==
    /\ e \in DOMAIN events[n]
    /\ \/ e.kind = "msg" /\ e.m.type = "rotx"
       \/ e.kind = "slice_wait" /\ Clock(n) >= e.m.time
    /\ DispatchR(n, e.m, [events EXCEPT ![n] = BagRemove(@, e)], chan)
    /\ UNCHANGED <<locked, lock_queue>>

ReceiveR(s, n) ==
    /\ chan[<<s, n>>] # <<>>
    /\ Head(chan[<<s, n>>]).type \in {"rotx", "slice_req", "slice_resp"}
    /\ DispatchR(n, Head(chan[<<s, n>>]), events, [chan EXCEPT ![<<s, n>>] = Tail(@)])
    /\ UNCHANGED <<locked, lock_queue>>

(* on_lock_lock granting a free lock to a rotx continuation (a taken lock *)
(* parks it through GRV's Lock).                                          *)
LockR(n, e) ==
    /\ e.kind = "lock" /\ e \in DOMAIN events[n] /\ ~locked[n][e.lk]
    /\ e.c.type \in {"rotx", "slice_req"}
    /\ locked' = [locked EXCEPT ![n][e.lk] = TRUE]
    /\ UNCHANGED lock_queue
    /\ RotxLocked(n, e.c, [events EXCEPT ![n] = BagRemove(@, e)])

(* on_lock_unlock for a rotx continuation: free the lock, make the        *)
(* longest waiter try again, and run the continuation.                    *)
UnlockR(n, e) ==
    LET q == lock_queue[n][e.lk]
        woken == IF q = <<>> THEN {} ELSE {LockEv(e.lk, Head(q))}
    IN
    /\ e.kind = "unlock" /\ e \in DOMAIN events[n]
    /\ e.c.type \in {"rotx", "slice_req"}
    /\ locked' = [locked EXCEPT ![n][e.lk] = FALSE]
    /\ lock_queue' = [lock_queue EXCEPT ![n][e.lk] = IF q = <<>> THEN q ELSE Tail(q)]
    /\ RotxUnlocked(n, e.c, [events EXCEPT ![n] = Schedule(BagRemove(@, e), woken)])

(* grv_client_rotx_request: the keys (client_random_keys), the client's   *)
(* gst vector and its dependency time on its own replica, sent to a       *)
(* partition of its replica (lpid_of_any_partition).                      *)
ClientRotx(c, K, p) ==
    /\ c \in Readers /\ ~waiting[c] /\ rotxs < MaxRotx
    /\ events' = [events EXCEPT ![<<Home[c], p>>] =
                    Schedule(@, {MsgEv([type |-> "rotx", keys |-> K, gsv |-> cgv[c],
                                        dtime |-> cdv[c][Home[c]], client |-> c], FALSE)})]
    /\ waiting' = [waiting EXCEPT ![c] = TRUE] /\ rotxs' = rotxs + 1
    /\ UNCHANGED <<fixed, gsv, locked, lock_queue, chan, cdv, rstate, rreads>>

NextR ==
    \/ Next /\ UNCHANGED rvars
    \/ \E c \in Clients, K \in SUBSET Keys \ {{}}, p \in Partitions : ClientRotx(c, K, p)
    \/ \E s, n \in Node : ReceiveR(s, n)
    \/ \E n \in Node : \E e \in DOMAIN events[n] :
          RotxMsg(n, e) \/ LockR(n, e) \/ UnlockR(n, e)

SpecR == InitR /\ [][NextR]_allvars

-----------------------------------------------------------------------------
(* Properties.                                                            *)

(* A rotx is answered from a single snapshot time (spec.md 4.6: each       *)
(* owner replies with the value visible at the agreed snapshot time): a   *)
(* slice of the own replica's versions returns one stamped at or before   *)
(* the snapshot time that rotx_request_unlocked fixed, and no newer one   *)
(* at or before it is at the owner.  The owner waits for its clock to     *)
(* reach that time, but then reads with its clock as the own entry of the *)
(* snapshot vector (grv_process_slice_request_unlocked).                  *)
SnapshotAtTime ==
    \A r \in rreads : r.v.sr = r.node[1] =>
        /\ r.v.ut <= r.time
        /\ \A y \in Range(store[r.node][r.key]) :
              y.sr = r.node[1] /\ y.ut <= r.time => ~Older(r.v, y)
====

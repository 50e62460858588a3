------------------------------ MODULE CpuLock ------------------------------
(***************************************************************************)
(* The per-node CPU substrate of src/src/cpu: a bounded number of cores,   *)
(* a FIFO ready queue for events that arrive while every core is busy, and *)
(* mutual-exclusion locks whose acquire and release are themselves         *)
(* scheduled events (cpu/lock.c).                                          *)
(*                                                                         *)
(* Time is abstracted away.  Every event the node has scheduled for itself *)
(* (a lock or unlock message, a core-freeing event) or that arrives from   *)
(* elsewhere may be delivered next: with the exponential timing            *)
(* distribution of parameters.c any order of independent pending events   *)
(* has positive probability.  The zero-delay CPU_EVENT is delivered before *)
(* any other event of the node, since no other event carries the same      *)
(* timestamp.                                                              *)
(*                                                                         *)
(* An operation is one logical request of the protocol engine: it arrives, *)
(* runs, and then takes the locks of Plan[o] one after the other, each     *)
(* through the lock -> locked -> unlock -> unlocked continuation chain the *)
(* gr handlers use.  If NoEventEnd[o], its last unlock continues with      *)
(* CPU_NO_EVENT, as gr_process_heartbeat_locked and                        *)
(* gr_process_forward_get_request_locked do.  A step of a plan is a lock   *)
(* of Locks, or <<rl, "read">> or <<rl, "write">> for a read/write lock rl  *)
(* of RwLocks (cpu/rwlock.c), taken through the same chain of scheduled    *)
(* lock and unlock messages.                                               *)
(***************************************************************************)
EXTENDS Naturals, Sequences, FiniteSets

CONSTANTS
    Ops,         \* the operations (model values)
    Locks,       \* the locks created by cpu_lock_new
    RwLocks,     \* the read/write locks created by cpu_rwlock_new
    Cores,       \* cpu_state.cores
    Plan,        \* Plan[o]: the locks operation o takes, in order
    NoEventEnd   \* NoEventEnd[o]: the last unlock continues with CPU_NO_EVENT

ASSUME Cores \in Nat \ {0}
Modes == {"read", "write"}
Steps == Locks \cup (RwLocks \X Modes)
ASSUME Locks \cap RwLocks = {}
ASSUME Plan \in [Ops -> Seq(Steps)]
ASSUME NoEventEnd \in [Ops -> BOOLEAN]
ASSUME \A o \in Ops : NoEventEnd[o] => Len(Plan[o]) > 0

VARIABLES
    busy_cores,  \* cpu_state.busy_cores
    queue,       \* cpu_state.queue: the ready queue of postponed events
    locked,      \* cpu_lock.locked, and cpu_rwlock.write_locked
    counter,     \* cpu_rwlock.counter: the readers of each read/write lock
    lock_queue,  \* cpu_lock.queue and cpu_rwlock.queue: parked continuations
    ev,          \* ev[o]: the one event operation o has pending, if any
    cpu_events,  \* CPU_EVENTs scheduled and not yet delivered
    pc           \* pc[o]: critical sections operation o has completed

vars == <<busy_cores, queue, locked, counter, lock_queue, ev, cpu_events, pc>>

(* What an operation waits for.  "arrive": its request has not reached the *)
(* node; "lock"/"unlock": its CPU_LOCK_LOCK/CPU_LOCK_UNLOCK message is      *)
(* scheduled; "free": its CPU_FREE_CORE is scheduled; "wait": it sits in    *)
(* the ready queue or on a lock's queue; "done": it has finished.           *)
EvKind == {"arrive", "lock", "unlock", "free", "wait", "done"}

(* A ready-queue item: a postponed arrival or a woken CPU_LOCK_LOCK.       *)
Item == [kind : {"arrive", "lock"}, op : Ops]

(* The step of its plan operation o is taking or holds now, and its lock. *)
CurLock(o) == Plan[o][pc[o] + 1]
LockOf(x) == IF x \in Locks THEN x ELSE x[1]
IsRead(x) == x \in RwLocks \X {"read"}

(* What o schedules when its handler runs with p sections completed:       *)
(* the next lock request, or the CPU_FREE_CORE of cpu_process.             *)
AfterRun(o, p) == IF p < Len(Plan[o]) THEN "lock" ELSE "free"

TypeOK ==
    /\ busy_cores \in 0..Cores
    /\ queue \in Seq(Item)
    /\ locked \in [Locks \cup RwLocks -> BOOLEAN]
    /\ counter \in [RwLocks -> Nat]
    /\ lock_queue \in [Locks \cup RwLocks -> Seq(Ops)]
    /\ ev \in [Ops -> EvKind]
    /\ cpu_events \in Nat
    /\ pc \in [Ops -> Nat]

Init ==
    /\ busy_cores = 0
    /\ queue = <<>>
    /\ locked = [l \in Locks \cup RwLocks |-> FALSE]
    /\ counter = [l \in RwLocks |-> 0]
    /\ lock_queue = [l \in Locks \cup RwLocks |-> <<>>]
    /\ ev = [o \in Ops |-> "arrive"]
    /\ cpu_events = 0
    /\ pc = [o \in Ops |-> 0]

(* Whether the step x must wait: a lock, or a write lock, that is taken;  *)
(* a read lock while write_locked is set with no reader counted, that is, *)
(* while a writer holds it (on_rwlock_read_lock).                          *)
(* cpu_list_push, cpu_list_shift and cpu_list_unshift (list.c) on a       *)
(* list held as a sequence, head first.                                   *)
ListPush(l, it) == Append(l, it)
ListShift(l) == [item |-> Head(l), rest |-> Tail(l)]
ListUnshift(l, it) == <<it>> \o l

Blocked(lk, cn, x) ==
    IF IsRead(x) THEN lk[x[1]] /\ cn[x[1]] = 0 ELSE lk[LockOf(x)]

(* Mutations of LockAttempt: the lock is taken without looking at          *)
(* lock->locked, or taken without setting it.                              *)
LockAttemptNoCheck(b, q, lk, cn, wq, e, ce, o) ==
    /\ queue' = q /\ busy_cores' = b + 1 /\ lock_queue' = wq /\ cpu_events' = ce
    /\ locked' = [lk EXCEPT ![LockOf(CurLock(o))] = TRUE] /\ counter' = cn
    /\ ev' = [e EXCEPT ![o] = "unlock"]
LockAttemptNoMark(b, q, lk, cn, wq, e, ce, o) ==
    /\ queue' = q /\ counter' = cn
    /\ IF Blocked(lk, cn, CurLock(o))
       THEN /\ busy_cores' = b /\ locked' = lk /\ cpu_events' = ce + 1
            /\ lock_queue' = [wq EXCEPT ![LockOf(CurLock(o))] = Append(@, o)]
            /\ ev' = [e EXCEPT ![o] = "wait"]
       ELSE /\ busy_cores' = b + 1 /\ locked' = lk /\ lock_queue' = wq
            /\ ev' = [e EXCEPT ![o] = "unlock"] /\ cpu_events' = ce
(* Mutation of LockAttempt: a reader joining other readers is not counted. *)
LockAttemptNoCount(b, q, lk, cn, wq, e, ce, o) ==
    LET x == CurLock(o)
        l == LockOf(x)
    IN
    /\ queue' = q
    /\ IF Blocked(lk, cn, x)
       THEN /\ busy_cores' = b /\ locked' = lk /\ counter' = cn
            /\ lock_queue' = [wq EXCEPT ![l] = Append(@, o)]
            /\ ev' = [e EXCEPT ![o] = "wait"] /\ cpu_events' = ce + 1
       ELSE /\ busy_cores' = b + 1 /\ lock_queue' = wq
            /\ locked' = [lk EXCEPT ![l] = TRUE]
            /\ counter' = IF IsRead(x) /\ cn[l] = 0 THEN [cn EXCEPT ![l] = 1] ELSE cn
            /\ ev' = [e EXCEPT ![o] = "unlock"] /\ cpu_events' = ce

(* on_lock_lock, on_rwlock_read_lock and on_rwlock_write_lock for          *)
(* operation o, the core count already being b and the other structures   *)
(* q, lk, cn, wq, e (pc is left to the caller): park o on the lock and     *)
(* schedule a CPU_EVENT, or take the lock and run the locked continuation, *)
(* which schedules the unlock message on the same core.  A reader is       *)
(* counted, and the first reader sets write_locked to keep writers out.    *)
LockAttempt(b, q, lk, cn, wq, e, ce, o) ==
    LET x == CurLock(o)
        l == LockOf(x)
    IN
    /\ queue' = q
    /\ IF Blocked(lk, cn, x)
       THEN /\ busy_cores' = b
            /\ locked' = lk /\ counter' = cn
            /\ lock_queue' = [wq EXCEPT ![l] = ListPush(@, o)]
            /\ ev' = [e EXCEPT ![o] = "wait"]
            /\ cpu_events' = ce + 1
       ELSE /\ busy_cores' = b + 1
            /\ counter' = IF IsRead(x) THEN [cn EXCEPT ![l] = @ + 1] ELSE cn
            /\ locked' = IF IsRead(x) /\ cn[l] + 1 # 1 THEN lk
                         ELSE [lk EXCEPT ![l] = TRUE]
            /\ lock_queue' = wq
            /\ ev' = [e EXCEPT ![o] = "unlock"]
            /\ cpu_events' = ce

(* cpu_process_next_in_queue: start the head of the ready queue, if any.   *)
(* A woken lock message takes a core (cpu_process) and gives it back in    *)
(* its on_*_lock handler before it tries the lock again.                   *)
ProcessNextInQueue(b, q, lk, cn, wq, e, ce) ==
    IF q = <<>>
    THEN /\ busy_cores' = b /\ queue' = q /\ locked' = lk /\ counter' = cn
         /\ lock_queue' = wq /\ ev' = e /\ cpu_events' = ce
    ELSE LET it == ListShift(q).item IN
         IF it.kind = "arrive"
         THEN /\ busy_cores' = b + 1
              /\ queue' = ListShift(q).rest
              /\ ev' = [e EXCEPT ![it.op] = AfterRun(it.op, pc[it.op])]
              /\ locked' = lk /\ counter' = cn /\ lock_queue' = wq /\ cpu_events' = ce
         ELSE LockAttempt(b, ListShift(q).rest, lk, cn, wq, e, ce, it.op)

(* cpu_busy (state.c): every core is taken.                               *)
CpuBusy(b) == b >= Cores

(* The urgent CPU_EVENT blocks every other event of the node.              *)
NoCpuEvent == cpu_events = 0

(* Mutation of Arrive: cpu_busy compares with > instead of >=.            *)
ArriveOffByOne(o) ==
    /\ NoCpuEvent
    /\ ev[o] = "arrive"
    /\ IF busy_cores > Cores
       THEN /\ queue' = Append(queue, [kind |-> "arrive", op |-> o])
            /\ ev' = [ev EXCEPT ![o] = "wait"]
            /\ UNCHANGED busy_cores
       ELSE /\ busy_cores' = busy_cores + 1
            /\ ev' = [ev EXCEPT ![o] = AfterRun(o, pc[o])]
            /\ UNCHANGED queue
    /\ UNCHANGED <<locked, counter, lock_queue, cpu_events, pc>>

(* cpu_process_event, default branch: a request reaches the node.  It is   *)
(* queued when every core is busy and processed at once otherwise.         *)
Arrive(o) ==
    /\ NoCpuEvent
    /\ ev[o] = "arrive"
    /\ IF CpuBusy(busy_cores)
       THEN /\ queue' = ListPush(queue, [kind |-> "arrive", op |-> o])
            /\ ev' = [ev EXCEPT ![o] = "wait"]
            /\ UNCHANGED busy_cores
       ELSE /\ busy_cores' = busy_cores + 1
            /\ ev' = [ev EXCEPT ![o] = AfterRun(o, pc[o])]
            /\ UNCHANGED queue
    /\ UNCHANGED <<locked, counter, lock_queue, cpu_events, pc>>

(* Mutation of LockMsg: on_lock_lock without cpu_busy_cores_dec.          *)
LockMsgKeepsCore(o) ==
    /\ NoCpuEvent
    /\ ev[o] = "lock"
    /\ LockAttempt(busy_cores, queue, locked, counter, lock_queue, ev, cpu_events, o)
    /\ UNCHANGED pc

(* CPU_LOCK_LOCK delivered: on_lock_lock gives back the requester's core.  *)
LockMsg(o) ==
    /\ NoCpuEvent
    /\ ev[o] = "lock"
    /\ LockAttempt(busy_cores - 1, queue, locked, counter, lock_queue, ev, cpu_events, o)
    /\ UNCHANGED pc

(* Mutations of WakeWaiter: the waiter is left on the lock queue (lost     *)
(* wake-up), or put on the ready queue without being shifted off the lock. *)
WakeWaiterLost(l) == [q |-> queue, wq |-> lock_queue]
WakeWaiterNoShift(l) ==
    IF lock_queue[l] = <<>> THEN [q |-> queue, wq |-> lock_queue]
    ELSE [q |-> <<[kind |-> "lock", op |-> Head(lock_queue[l])]>> \o queue,
          wq |-> lock_queue]

(* on_lock_unlock, lines 75-78: the longest waiter on l, if any, is        *)
(* shifted off the lock and put at the front of the ready queue.           *)
WakeWaiter(l) ==
    IF lock_queue[l] = <<>> THEN [q |-> queue, wq |-> lock_queue]
    ELSE LET s == ListShift(lock_queue[l])
         IN  [q |-> ListUnshift(queue, [kind |-> "lock", op |-> s.item]),
              wq |-> [lock_queue EXCEPT ![l] = s.rest]]

(* Mutation of Frees: the read unlock frees the lock whatever the count.  *)
FreesAlways(x) == TRUE

(* Whether releasing the step x frees its lock: always for a lock and a    *)
(* write lock; for a read lock only when the last reader leaves            *)
(* (on_rwlock_read_unlock).                                                *)
Frees(x) == ~IsRead(x) \/ counter[x[1]] = 1

(* CPU_LOCK_UNLOCK, CPU_RWLOCK_READ_UNLOCK or CPU_RWLOCK_WRITE_UNLOCK      *)
(* delivered: a release that frees the lock clears it and moves its        *)
(* longest waiter to the front of the ready queue; a read unlock also      *)
(* uncounts the reader.  Then the unlocked continuation runs, or, for      *)
(* CPU_NO_EVENT, the next ready item starts on the same core.              *)
UnlockMsg(o) ==
    /\ NoCpuEvent
    /\ ev[o] = "unlock"
    /\ LET x   == CurLock(o)
           l   == LockOf(x)
           lk  == IF Frees(x) THEN [locked EXCEPT ![l] = FALSE] ELSE locked
           cn  == IF IsRead(x) THEN [counter EXCEPT ![l] = @ - 1] ELSE counter
           q   == IF Frees(x) THEN WakeWaiter(l).q ELSE queue
           wq  == IF Frees(x) THEN WakeWaiter(l).wq ELSE lock_queue
           p   == pc[o] + 1
       IN  IF NoEventEnd[o] /\ p = Len(Plan[o])
           THEN /\ ProcessNextInQueue(busy_cores - 1, q, lk, cn, wq,
                                      [ev EXCEPT ![o] = "done"], cpu_events)
                /\ pc' = [pc EXCEPT ![o] = p]
           ELSE /\ busy_cores' = busy_cores
                /\ queue' = q /\ locked' = lk /\ counter' = cn /\ lock_queue' = wq
                /\ ev' = [ev EXCEPT ![o] = AfterRun(o, p)]
                /\ pc' = [pc EXCEPT ![o] = p]
                /\ UNCHANGED cpu_events

(* CPU_FREE_CORE delivered: the operation's core is given back and the     *)
(* next ready item, if any, is started on it.                              *)
FreeCore(o) ==
    /\ NoCpuEvent
    /\ ev[o] = "free"
    /\ ProcessNextInQueue(busy_cores - 1, queue, locked, counter, lock_queue,
                          [ev EXCEPT ![o] = "done"], cpu_events)
    /\ UNCHANGED pc

(* CPU_EVENT delivered after a park: start the next ready item on the core *)
(* the parked operation gave back.                                         *)
CpuEvent ==
    /\ cpu_events > 0
    /\ ProcessNextInQueue(busy_cores, queue, locked, counter, lock_queue, ev, cpu_events - 1)
    /\ UNCHANGED pc

Done(o) == ev[o] = "done"

(* Every operation has finished: nothing is scheduled any more.            *)
Terminated ==
    /\ \A o \in Ops : Done(o)
    /\ UNCHANGED vars

Next ==
    \/ \E o \in Ops : Arrive(o) \/ LockMsg(o) \/ UnlockMsg(o) \/ FreeCore(o)
    \/ CpuEvent
    \/ Terminated

(* The simulation kernel delivers every scheduled event (spec section 5:   *)
(* every scheduled continuation eventually fires).                         *)
Fairness ==
    /\ \A o \in Ops : WF_vars(Arrive(o)) /\ WF_vars(LockMsg(o))
                      /\ WF_vars(UnlockMsg(o)) /\ WF_vars(FreeCore(o))
    /\ WF_vars(CpuEvent)

Spec == Init /\ [][Next]_vars /\ Fairness

-----------------------------------------------------------------------------
(* The operation holds lock l: it was granted and its unlock message has   *)
(* not been delivered.                                                     *)
Holds(o, l) == ev[o] = "unlock" /\ CurLock(o) = l

(* An operation in service holds a core until its lock message parks it,  *)
(* its unlock message ends it with CPU_NO_EVENT, or its CPU_FREE_CORE.     *)
InService == {o \in Ops : ev[o] \in {"lock", "unlock", "free"}}

(* Every ready-queue or lock-queue entry naming o.                         *)
Parked(o) ==
    Cardinality({i \in DOMAIN queue : queue[i].op = o})
      + Cardinality(UNION {{<<l, i>> : i \in {j \in DOMAIN lock_queue[l] :
                                                  lock_queue[l][j] = o}}
                           : l \in Locks \cup RwLocks})

(* Lock state agrees with its holder: a lock is marked locked exactly when *)
(* one operation holds it, so no two continuations of on_lock_lock run a   *)
(* critical section of the same lock at once, across parks, wake-ups to    *)
(* the ready-queue front and lock messages that overtake a woken waiter.   *)
MutualExclusion ==
    \A l \in Locks :
        /\ Cardinality({o \in Ops : Holds(o, l)}) <= 1
        /\ locked[l] <=> \E o \in Ops : Holds(o, l)

(* The readers and the writers holding the read/write lock l.             *)
ReadersOf(l) == {o \in Ops : Holds(o, <<l, "read">>)}
WritersOf(l) == {o \in Ops : Holds(o, <<l, "write">>)}

(* Read/write exclusion, and the bookkeeping it rests on: counter is the   *)
(* number of readers holding the lock, a writer holds it alone, and        *)
(* write_locked is set exactly while someone holds it.  This is what the   *)
(* assertions of on_rwlock_read_unlock and on_rwlock_write_unlock expect,  *)
(* across readers that join while a writer waits, wake-ups of one waiter   *)
(* per release, and lock messages that overtake a woken waiter.            *)
RwExclusion ==
    \A l \in RwLocks :
        /\ counter[l] = Cardinality(ReadersOf(l))
        /\ Cardinality(WritersOf(l)) <= 1
        /\ WritersOf(l) # {} => ReadersOf(l) = {}
        /\ locked[l] <=> ReadersOf(l) \cup WritersOf(l) # {}

(* busy_cores counts exactly the operations in service and never exceeds  *)
(* the cores: every increment in cpu_process is matched by the decrement   *)
(* of on_lock_lock, on_lock_unlock or CPU_FREE_CORE, on every path.        *)
CoreAccounting ==
    /\ busy_cores = Cardinality(InService)
    /\ busy_cores <= Cores

(* An operation has exactly one suspended continuation at a time: it is    *)
(* waiting in exactly one ready-queue or lock-queue slot iff it has no     *)
(* scheduled event (cpu_processing_continues_in_scheduled_event, state.c). *)
OneContinuation ==
    \A o \in Ops : Parked(o) = IF ev[o] = "wait" THEN 1 ELSE 0

(* Every operation eventually completes: no parked continuation is lost    *)
(* and no ready-queue item is left behind while cores are idle.            *)
AllComplete == <>(\A o \in Ops : Done(o))
=============================================================================

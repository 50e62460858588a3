------------------------------ MODULE RwMutex ------------------------------
(***************************************************************************)
(* What the read/write locks of the CPU substrate promise their users:     *)
(* any number of readers or a single writer hold a lock, an operation      *)
(* takes the steps of its plan one after the other, and every operation    *)
(* that keeps finding its lock available gets it.  Nothing is said about   *)
(* cores, queues, counters or messages.                                    *)
(***************************************************************************)
EXTENDS Naturals, Sequences

CONSTANTS Procs, RwLocks, Plan, NoProc

ASSUME NoProc \notin Procs
ASSUME Plan \in [Procs -> Seq(RwLocks \X {"read", "write"})]

VARIABLES
    readers,   \* readers[l]: the processes reading under l
    writer,    \* writer[l]: the process writing under l, or NoProc
    sections   \* sections[p]: sections p has completed

vars == <<readers, writer, sections>>

Wanted(p) == Plan[p][sections[p] + 1]
Active(p) == sections[p] < Len(Plan[p])
HoldsIn(p, rd, wr) == \E l \in RwLocks : p \in rd[l] \/ wr[l] = p

(* The lock state after p takes its wanted lock, from rd and wr.         *)
Take(p, rd, wr) ==
    LET l == Wanted(p)[1] IN
    IF Wanted(p)[2] = "read"
    THEN [rd |-> [rd EXCEPT ![l] = @ \cup {p}], wr |-> wr]
    ELSE [rd |-> rd, wr |-> [wr EXCEPT ![l] = p]]

(* p may take its wanted lock: a reader needs no writer, a writer needs    *)
(* nobody.                                                                 *)
CanTake(p, rd, wr) ==
    LET l == Wanted(p)[1] IN
    /\ Active(p) /\ ~HoldsIn(p, rd, wr)
    /\ wr[l] = NoProc
    /\ Wanted(p)[2] = "write" => rd[l] = {}

(* The lock state after p gives its lock up.                              *)
Give(p) ==
    LET l == Wanted(p)[1] IN
    [rd |-> [readers EXCEPT ![l] = @ \ {p}],
     wr |-> IF writer[l] = p THEN [writer EXCEPT ![l] = NoProc] ELSE writer]

CanGive(p) ==
    LET l == Wanted(p)[1] IN
    Active(p) /\ (p \in readers[l] \/ writer[l] = p)

Init ==
    /\ readers = [l \in RwLocks |-> {}]
    /\ writer = [l \in RwLocks |-> NoProc]
    /\ sections = [p \in Procs |-> 0]

Acquire(p) ==
    /\ CanTake(p, readers, writer)
    /\ readers' = Take(p, readers, writer).rd
    /\ writer' = Take(p, readers, writer).wr
    /\ UNCHANGED sections

Release(p) ==
    /\ CanGive(p)
    /\ readers' = Give(p).rd /\ writer' = Give(p).wr
    /\ sections' = [sections EXCEPT ![p] = @ + 1]

(* A release after which a waiting process takes its lock in the same     *)
(* step: a release that ends with CPU_NO_EVENT starts the next ready      *)
(* item, which may be a woken waiter.                                      *)
Handover(p, q) ==
    /\ p # q /\ CanGive(p)
    /\ CanTake(q, Give(p).rd, Give(p).wr)
    /\ readers' = Take(q, Give(p).rd, Give(p).wr).rd
    /\ writer' = Take(q, Give(p).rd, Give(p).wr).wr
    /\ sections' = [sections EXCEPT ![p] = @ + 1]

Next ==
    \/ \E p \in Procs : Acquire(p) \/ Release(p)
    \/ \E p, q \in Procs : Handover(p, q)

(* A lock is given up eventually, and a process that finds its lock        *)
(* available again and again gets it.                                      *)
Spec ==
    /\ Init /\ [][Next]_vars
    /\ \A p \in Procs : WF_vars(Release(p) \/ \E q \in Procs : Handover(p, q))
    /\ \A p \in Procs : SF_vars(Acquire(p) \/ \E q \in Procs : Handover(q, p))

====

------------------------------- MODULE Mutex -------------------------------
(***************************************************************************)
(* What the locks of the CPU substrate promise their users: each lock has  *)
(* at most one owner, an operation takes the locks of its plan one after   *)
(* the other, and every operation that wants a free lock gets it in the    *)
(* end.  Nothing is said about cores, queues or messages.                  *)
(***************************************************************************)
EXTENDS Naturals, Sequences

CONSTANTS Procs, Locks, Plan, NoProc

ASSUME NoProc \notin Procs

VARIABLES
    owner,     \* owner[l]: the process holding lock l, or NoProc
    sections   \* sections[p]: critical sections p has completed

vars == <<owner, sections>>

Wanted(p) == Plan[p][sections[p] + 1]

Init ==
    /\ owner = [l \in Locks |-> NoProc]
    /\ sections = [p \in Procs |-> 0]

Acquire(p) ==
    /\ sections[p] < Len(Plan[p])
    /\ \A l \in Locks : owner[l] # p
    /\ owner[Wanted(p)] = NoProc
    /\ owner' = [owner EXCEPT ![Wanted(p)] = p]
    /\ UNCHANGED sections

Release(p) ==
    /\ sections[p] < Len(Plan[p])
    /\ owner[Wanted(p)] = p
    /\ owner' = [owner EXCEPT ![Wanted(p)] = NoProc]
    /\ sections' = [sections EXCEPT ![p] = @ + 1]

(* A release after which another process takes its wanted lock in the    *)
(* same step: a release that ends with CPU_NO_EVENT starts the next ready  *)
(* item, which may be a woken waiter for this lock or for another one.     *)
Handover(p, q) ==
    /\ p # q
    /\ sections[p] < Len(Plan[p]) /\ sections[q] < Len(Plan[q])
    /\ owner[Wanted(p)] = p
    /\ Wanted(q) = Wanted(p) \/ owner[Wanted(q)] = NoProc
    /\ \A l \in Locks : owner[l] # q
    /\ owner' = [owner EXCEPT ![Wanted(p)] = NoProc, ![Wanted(q)] = q]
    /\ sections' = [sections EXCEPT ![p] = @ + 1]

Next ==
    \/ \E p \in Procs : Acquire(p) \/ Release(p)
    \/ \E p, q \in Procs : Handover(p, q)

(* A lock is given up eventually, and a process that finds its lock free   *)
(* again and again gets it.                                                *)
Spec ==
    /\ Init /\ [][Next]_vars
    /\ \A p \in Procs : WF_vars(Release(p) \/ \E q \in Procs : Handover(p, q))
    /\ \A p \in Procs : SF_vars(Acquire(p) \/ \E q \in Procs : Handover(q, p))
=============================================================================

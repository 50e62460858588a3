----------------------------- MODULE MCCpuLock -----------------------------
(* Model-checking instance of CpuLock: two cores and six operations.      *)
(* o1 takes l1 then l2 (the replica-update chain: the unlocked handler of  *)
(* one update requests the lock for the next one); o2 takes l1 and ends    *)
(* with CPU_NO_EVENT (a heartbeat); o4 takes no lock (a get on the fast    *)
(* path).  o5 and o6 read under the read/write lock rl, o6 ending with     *)
(* CPU_NO_EVENT, and o7 writes under rl and then takes l2.  With two cores *)
(* operations contend for l1, l2 and rl while others wait in the ready     *)
(* queue.                                                                  *)
EXTENDS CpuLock, TLC

CONSTANTS o1, o2, o4, o5, o6, o7, l1, l2, rl

MCPlan == (o1 :> <<l1, l2>>) @@ (o2 :> <<l1>>) @@ (o4 :> << >>)
          @@ (o5 :> <<<<rl, "read">>>>) @@ (o6 :> <<<<rl, "read">>>>)
          @@ (o7 :> <<<<rl, "write">>, l2>>)
MCNoEventEnd == (o1 :> FALSE) @@ (o2 :> TRUE) @@ (o4 :> FALSE)
                @@ (o5 :> FALSE) @@ (o6 :> TRUE) @@ (o7 :> FALSE)

(* The steps of o's plan on the set of locks S, and how many of them o    *)
(* has completed.                                                          *)
PlanOn(o, S) == SelectSeq(Plan[o], LAMBDA x : x \in S)
DoneOn(o, S) == Cardinality({i \in 1..pc[o] : Plan[o][i] \in S})

(* Refinement mapping: the owner of a lock is the operation holding it.  *)
LockOwner == [l \in Locks |->
    IF \E o \in Ops : Holds(o, l) THEN CHOOSE o \in Ops : Holds(o, l) ELSE "none"]

(* The abstract mutex CpuLock is meant to implement for Locks.            *)
Abstract == INSTANCE Mutex WITH
    Procs <- Ops, NoProc <- "none", owner <- LockOwner,
    Plan <- [o \in Ops |-> PlanOn(o, Locks)],
    sections <- [o \in Ops |-> DoneOn(o, Locks)]
MutexSpec == Abstract!Spec

(* Refinement mapping for RwLocks: the readers and the writer holding.    *)
RwWriter == [l \in RwLocks |->
    IF WritersOf(l) = {} THEN "none" ELSE CHOOSE o \in WritersOf(l) : TRUE]

(* The abstract read/write lock CpuLock is meant to implement for RwLocks. *)
RwAbstract == INSTANCE RwMutex WITH
    Procs <- Ops, NoProc <- "none",
    readers <- [l \in RwLocks |-> ReadersOf(l)], writer <- RwWriter,
    Plan <- [o \in Ops |-> PlanOn(o, RwLocks \X Modes)],
    sections <- [o \in Ops |-> DoneOn(o, RwLocks \X Modes)]
RwMutexSpec == RwAbstract!Spec
=============================================================================

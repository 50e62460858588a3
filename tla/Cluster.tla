------------------------------ MODULE Cluster ------------------------------
(***************************************************************************)
(* What the gr and grv protocol engines share: the cluster of             *)
(* Replicas x Partitions server nodes (cluster.c), the tree of partitions *)
(* of a replica (server.c), the clients and the replica each of them      *)
(* talks to, and the events and messages of the simulator: the lock and   *)
(* unlock events of cpu/lock.c, the bag of events a node scheduled for    *)
(* itself and the FIFO channels of network.c.                             *)
(***************************************************************************)
EXTENDS Integers, SequencesExt, BagsExt

CONSTANTS
    NumReplicas,    \* cluster->num_replicas
    NumPartitions,  \* cluster->num_partitions
    Fanout,         \* config->tree_fanout
    Keys,           \* the keys clients use
    Skew,           \* Skew[n]: the clock offset of node n
    Home,           \* Home[c]: the replica of client c (clients are the domain)
    Writers,        \* the clients that issue puts
    Readers         \* the clients that issue gets

Replicas == 0..(NumReplicas - 1)
Partitions == 0..(NumPartitions - 1)
Node == Replicas \X Partitions
Clients == DOMAIN Home

ASSUME Keys \subseteq Nat /\ Fanout \in Nat \ {0}
ASSUME Skew \in [Node -> Nat] /\ Home \in [Clients -> Replicas]
ASSUME Writers \cup Readers \subseteq Clients

(* partition_for_key (cluster.c): ownership is key mod partition count.   *)
PartitionOf(k) == k % NumPartitions

(* The tree of partitions of one replica (server.c).                      *)
Parent(p) == (p - 1) \div Fanout
Children(p) == {c \in Partitions : c # 0 /\ Parent(c) = p}
IsLeaf(p) == p * Fanout + 1 >= NumPartitions
(* Mutation of ChildIndex: the partition id used as the child index.      *)
ChildIndexIsId(c) == c
ChildIndex(c) == (c - 1) % Fanout

(* The other replicas of the partition of n (foreach_replica).            *)
Peers(n) == {<<r, n[2]>> : r \in Replicas \ {n[1]}}

(* The partitions of the same replica below n in the tree.                *)
ChildNodes(n) == {<<n[1], c>> : c \in Children(n[2])}
ParentNode(n) == <<n[1], Parent(n[2])>>

(* queue.c: the replica-update queue of a source is a FIFO list; the     *)
(* head is peeked and dequeued, new updates are enqueued at the tail.      *)
QueueIsEmpty(q) == q = <<>>
QueueEnqueue(q, x) == Append(q, x)
QueueDequeue(q) == Tail(q)
QueuePeek(q) == Head(q)

(* An event a node scheduled for itself: its kind, the lock it is about,  *)
(* and the continuation to run.                                           *)
Ev(kind, lk, c) == [kind |-> kind, lk |-> lk, c |-> c]
LockEv(lk, c) == Ev("lock", lk, c)
UnlockEv(lk, c) == Ev("unlock", lk, c)
(* CPU_NO_EVENT: an unlock with no continuation.                          *)
None == [type |-> "none"]

(* Add the events of the set S to the bag B.                              *)
Schedule(B, S) == B (+) SetToBag(S)

(* Append msg to the channel from n to every node of dests.               *)
Send(ch, n, dests, msg) ==
    [p \in DOMAIN ch |-> IF p[1] = n /\ p[2] \in dests
                         THEN Append(ch[p], msg) ELSE ch[p]]
====

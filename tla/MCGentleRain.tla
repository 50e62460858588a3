---------------------------- MODULE MCGentleRain ----------------------------
(***************************************************************************)
(* Instances of GentleRain for TLC.  Each configuration fixes the cluster  *)
(* shape, the clients and the bounds; the skews below give the nodes of    *)
(* different replicas (and partitions) clocks that disagree, which is what *)
(* makes the conflict and stability cases reachable.                       *)
(***************************************************************************)
EXTENDS GentleRain

(* Node <<r, p>> runs r + p mod 2 time units ahead of simulated time.      *)
SkewByNode == [n \in Node |-> (n[1] + n[2]) % 2]

(* Replica 1 runs one time unit ahead of replica 0.                        *)
SkewByReplica == [n \in Node |-> n[1]]
(* Clients, by number, and the replica each of them uses.                 *)
NoClients == [c \in {} |-> 0]
TwoAtZero == [c \in {1, 2} |-> 0]
OneEach == [c \in {0, 1} |-> c]
OneAtZero == [c \in {1} |-> 0]
OneAtOne == [c \in {1} |-> 1]
TwoAtZeroAndOne == [c \in {1, 2} |-> c - 1]
====

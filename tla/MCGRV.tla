------------------------------- MODULE MCGRV -------------------------------
(***************************************************************************)
(* Instances of GRV for TLC.  Each configuration fixes the cluster shape,  *)
(* the clients and the bounds; skews give the nodes of different replicas  *)
(* clocks that disagree.                                                   *)
(***************************************************************************)
EXTENDS GRV

(* Replica 1 runs one time unit ahead of replica 0.                        *)
SkewByReplica == [n \in Node |-> n[1]]
(* Node <<r, p>> runs r + p mod 2 time units ahead of simulated time.      *)
SkewByNode == [n \in Node |-> (n[1] + n[2]) % 2]
(* Clients, by number, and the replica each of them uses.                 *)
NoClients == [c \in {} |-> 0]
OneEach == [c \in {0, 1} |-> c]
OneAtZero == [c \in {1} |-> 0]
TwoAtZero == [c \in {1, 2} |-> 0]

(* grv_process_gst_from_root relays the gst vector to the children before *)
(* it takes lock_gsv, so the leaves below can start new rounds while the  *)
(* lock events of earlier rounds wait at the relaying node.  The model    *)
(* lets them wait forever; this bound on the backlog keeps the state      *)
(* space finite.                                                          *)
MaxGstBacklog == 2
GstBacklog ==
    \A n \in Node :
        SumFunctionOnSet(events[n], {e \in DOMAIN events[n] :
                                       e.kind \in {"lock", "unlock"} /\ e.c.type = "gst_root"})
          + Quantify(DOMAIN lock_queue[n][LockGsv],
                     LAMBDA i : lock_queue[n][LockGsv][i].type = "gst_root")
          <= MaxGstBacklog
====

----------------------------- MODULE MCClient -----------------------------
(* Model-checking instance of Client: one client per workload.           *)
EXTENDS Client

ThreeWorkloads == (1 :> "get_put_rr") @@ (2 :> "rotx_put_rr") @@ (3 :> "probabilistic")
====

----------------------------- MODULE MCGRVRotx -----------------------------
(***************************************************************************)
(* GRV with read-only transactions, for TLC: the skews and clients of      *)
(* MCGRV.                                                                  *)
(***************************************************************************)
EXTENDS GRVRotx, MCGRV
====

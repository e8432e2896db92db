------------------------------ MODULE MCAutoTx ------------------------------
(***************************************************************************)
(* Two transactions and two databases with one row each.                   *)
(***************************************************************************)
EXTENDS AutoTx

CONSTANTS t1, t2, d1, d2, r1, r2

Home == [r \in {r1, r2} |-> IF r = r1 THEN d1 ELSE d2]
=============================================================================

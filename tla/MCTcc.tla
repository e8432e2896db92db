-------------------------------- MODULE MCTcc -------------------------------
(***************************************************************************)
(* A transaction of three participants, with crashes of the recovery too.  *)
(***************************************************************************)
EXTENDS Tcc
=============================================================================

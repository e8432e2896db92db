------------------------------- MODULE MCSaga -------------------------------
(***************************************************************************)
(* A saga of three steps on one process, or of two on two replicas that    *)
(* share the store.                                                        *)
(***************************************************************************)
EXTENDS Saga

CONSTANTS p1, p2
=============================================================================

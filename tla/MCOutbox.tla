------------------------------ MODULE MCOutbox ------------------------------
(***************************************************************************)
(* Two relays on two records, fetched in batches of two.                   *)
(***************************************************************************)
EXTENDS Outbox

CONSTANTS a, b
=============================================================================

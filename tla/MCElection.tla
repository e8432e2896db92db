----------------------------- MODULE MCElection -----------------------------
(***************************************************************************)
(* Two elections on one key, and three holds that are referred to at once. *)
(***************************************************************************)
EXTENDS Election

CONSTANTS n1, n2, h1, h2, h3
=============================================================================

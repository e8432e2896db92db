--------------------------- MODULE MCAppLifecycle ---------------------------
(***************************************************************************)
(* AppLifecycle with three servers, one of them drain-aware, and a runner. *)
(***************************************************************************)
EXTENDS AppLifecycle

CONSTANTS s1, s2, s3
=============================================================================

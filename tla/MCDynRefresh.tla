---------------------------- MODULE MCDynRefresh ----------------------------
(***************************************************************************)
(* Two goroutines that refresh an application with one field from a file   *)
(* and one from a remote provider.  The second version of the file cannot   *)
(* be bound.                                                               *)
(***************************************************************************)
EXTENDS DynRefresh, TLC

CONSTANTS r1, r2, file, remote, f, g

MCObjects    == << f, g >>
MCKeyOf      == f :> file @@ g :> remote
MCUnbindable == file :> {1} @@ remote :> {}
MCLast       == file :> 2 @@ remote :> 1
=============================================================================

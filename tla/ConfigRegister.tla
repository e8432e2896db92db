--------------------------- MODULE ConfigRegister ---------------------------
(***************************************************************************)
(* What hot refresh promises (spring/gs/internal/gs_app/app.go:214-231):   *)
(* one current configuration, replaced as a whole by one that can be bound *)
(* and that is not older than it in any source, and left alone otherwise.  *)
(***************************************************************************)
EXTENDS Naturals

CONSTANTS Source, Version, Valid(_)

VARIABLE current

Snapshot == [Source -> Version]

NotOlder(new, old) == \A s \in Source : old[s] <= new[s]

Init == current \in Snapshot

Install(new) ==
    /\ Valid(new)
    /\ NotOlder(new, current)
    /\ current' = new

Next == \E new \in Snapshot : Install(new)

Spec == Init /\ [][Next]_current
=============================================================================

-------------------------- MODULE MCPresenceSilence --------------------------
(***************************************************************************)
(* PresenceSilence on a few slots and one target: see README.md for the   *)
(* bounds.                                                                 *)
(***************************************************************************)
EXTENDS PresenceSilence

Seen(exit, moving) == [exit |-> exit, moving |-> moving, distance |-> 1, margin |-> 0]

MotionObservations == {Seen(FALSE, m) : m \in BOOLEAN}

OneTick == {1}
Never   == {FALSE}
=============================================================================

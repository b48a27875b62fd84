-------------------------- MODULE MCPresenceSession --------------------------
(***************************************************************************)
(* PresenceSession on a few slots and one target: see README.md for the    *)
(* bounds.                                                                 *)
(***************************************************************************)
EXTENDS PresenceSession

Seen(exit, moving) == [exit |-> exit, moving |-> moving, distance |-> 1, margin |-> 0]

ExitObservations   == {Seen(e, FALSE) : e \in BOOLEAN}

OneTick == {1}
Never   == {FALSE}
=============================================================================

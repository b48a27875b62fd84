-------------------------- MODULE MCPresenceTracker --------------------------
(***************************************************************************)
(* PresenceTracker on two slots, with the values its inputs take in the    *)
(* runs: see README.md for the bounds.                                     *)
(***************************************************************************)
EXTENDS PresenceTracker

Seen(exit, moving, distance, margin) ==
  [exit |-> exit, moving |-> moving, distance |-> distance, margin |-> margin]

(* Targets inside the room, in an exit zone or not. *)
ExitObservations == {Seen(e, FALSE, 1, 0) : e \in BOOLEAN}

OneTick == {1}
Never   == {FALSE}
=============================================================================

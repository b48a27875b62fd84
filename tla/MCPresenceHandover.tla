-------------------------- MODULE MCPresenceHandover --------------------------
(***************************************************************************)
(* PresenceHandover with the code's window, hits and hold: see README.md.  *)
(***************************************************************************)
EXTENDS PresenceHandover

Plain   == {[exit |-> e, moving |-> FALSE, distance |-> 1, margin |-> 0] : e \in {TRUE, FALSE}}
OneTick == {1}
Never   == {FALSE}
=============================================================================

---------------------------- MODULE PayloadStore ----------------------------
(* What the payload storage promises to the readers of a payload, whatever   *)
(* requests, aborted uploads and power losses there are: a target holds      *)
(* nothing, one whole document, or damage; and a document is never replaced  *)
(* by another one behind the back of a reader, but only through damage that  *)
(* lasts until the new document is complete.                                 *)
CONSTANTS Targets, Documents, Nothing, Damage

VARIABLE visible    \* [Targets -> Documents \union {Nothing, Damage}]

Init == visible = [t \in Targets |-> Nothing]

\* A target is being rewritten.
Spoil(t) == visible' = [visible EXCEPT ![t] = Damage]

\* A rewrite is complete; until then nobody could read the target.
Store(t, d) ==
    /\ visible[t] \in {Nothing, Damage}
    /\ visible' = [visible EXCEPT ![t] = d]

\* Targets are deleted, or everything is because the header was lost.
Forget(ts) ==
    visible' = [t \in Targets |-> IF t \in ts THEN Nothing ELSE visible[t]]

Next ==
    \/ \E t \in Targets : Spoil(t)
    \/ \E t \in Targets, d \in Documents : Store(t, d)
    \/ \E ts \in SUBSET Targets : Forget(ts)

Spec == Init /\ [][Next]_visible
=============================================================================

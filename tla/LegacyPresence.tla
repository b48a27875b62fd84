---------------------------- MODULE LegacyPresence ----------------------------
(* The presence the 500 ms loop reports: that of the tracker and its fusion, *)
(* or, while legacyPresenceFallback is set, that of LegacyPresence, which    *)
(* builds confidence in a still target and holds presence while it decays.   *)
(* The dashboard may switch between the two at any time.  A step of the      *)
(* clock is one run of the loop.                                             *)
EXTENDS Integers

CONSTANTS
    Enter, Exit,        \* STILL_CONFIDENCE_ENTER 60, STILL_CONFIDENCE_EXIT 25
    Gain, SameAreaGain, \* STILL_LIVE_GAIN 14, STILL_SAME_AREA_GAIN 8
    MissingDecay,       \* STILL_MISSING_DECAY 6
    MovingDecay,        \* STILL_MOVING_EXIT_DECAY 18
    FarDecay,           \* STILL_FAR_TARGET_DECAY 12
    Full,               \* the most confidence there is, 100
    MaxHold,            \* runs in STILL_MAX_HOLD_MS, 240
    OffDelay,           \* runs in the 3 s for which presence is kept on, 6
    Horizon             \* bound: runs for which an empty room is observed

ASSUME LegacyAssumption ==
    /\ {Enter, Exit, Gain, SameAreaGain, MissingDecay, MovingDecay, FarDecay,
        Full, MaxHold, OffDelay, Horizon} \subseteq Nat
    /\ 0 < Exit /\ Exit <= Enter /\ Enter <= Full
    /\ 0 < MissingDecay /\ MissingDecay <= FarDecay /\ FarDecay <= MovingDecay

VARIABLES
    fallback,    \* legacy_presence_fallback_enabled, as the dashboard left it
    legacy,      \* LegacyPresence
    legacyOut,   \* its output
    stable,      \* state_presence_stable
    sinceOn,     \* runs since state_presence_last_on_ms
    empty        \* (history variable) runs since anything was seen

legacyVars == <<fallback, legacy, legacyOut, stable, sinceOn, empty>>

Never == -1  \* still_last_seen_ms_ is 0
NoLegacy == [confidence |-> 0, confirmed |-> FALSE, anchored |-> FALSE, seen |-> Never]
NoOutput == [presence |-> FALSE, hold |-> FALSE, motion |-> FALSE]

\* What the loop passes: how many targets of each kind, the PIR, whether a
\* filter blocks, and, of a still target, whether it has a position and whether
\* that is in the area of the last one.
LegacyInputs ==
    {i \in [still : BOOLEAN, moving : BOOLEAN, other : BOOLEAN, pir : BOOLEAN,
            blocked : BOOLEAN, placed : BOOLEAN, near : BOOLEAN] :
        (i.placed => i.still) /\ (i.near => i.placed)}
TargetSeen(i) == i.still \/ i.moving \/ i.other

Older(age) == IF age = Never THEN Never ELSE IF age > MaxHold THEN age ELSE age + 1
AtLeastZero(v) == IF v < 0 THEN 0 ELSE v
Least(v, w) == IF v < w THEN v ELSE w

\* The confidence after an input, and what goes with it.
Rated(l, i) ==
    LET aged == [l EXCEPT !.seen = Older(@)]
        same == i.near /\ l.anchored
    IN  IF i.blocked THEN [aged EXCEPT !.confidence = 0, !.confirmed = FALSE]
        ELSE IF i.still
        THEN LET c == Least(Full, l.confidence + Gain + (IF same THEN SameAreaGain ELSE 0))
             IN  [confidence |-> c, confirmed |-> l.confirmed \/ c >= Enter,
                  anchored |-> l.anchored \/ i.placed, seen |-> 0]
        ELSE [aged EXCEPT !.confidence = AtLeastZero(@ - (IF i.moving THEN MovingDecay
                                                          ELSE IF i.other THEN FarDecay
                                                          ELSE MissingDecay))]

Holding(l) == l.confirmed /\ l.seen # Never /\ l.seen <= MaxHold

\* Confidence and time end a confirmation.
Expired(l) ==
    [l EXCEPT !.confirmed = @ /\ l.confidence >= Exit /\ (l.seen # Never => l.seen <= MaxHold)]

\* LegacyPresence::update
Updated(l, i) == Expired(Rated(l, i))

OutputOf(l, i) ==
    LET hold == Holding(l) /\ ~TargetSeen(i)
    IN  [presence |-> TargetSeen(i) \/ hold \/ i.pir, hold |-> hold,
         motion |-> i.moving \/ (i.pir /\ ~i.blocked)]

\* Bug: what LegacyPresence knows is kept while it is off.
KeepWhileOff(l) == l

\* LegacyPresence::disable
Disabled(l) == NoLegacy

\* Debouncing: presence comes on at once and goes off late.
Debounce(raw) ==
    /\ sinceOn' = IF raw THEN 0 ELSE Least(sinceOn + 1, OffDelay)
    /\ stable' = (raw \/ (stable /\ sinceOn' < OffDelay))

\* A run with legacyPresenceFallback.
LegacyRun(i) ==
    /\ fallback
    /\ legacy' = Updated(legacy, i)
    /\ legacyOut' = OutputOf(legacy', i)
    /\ Debounce(legacyOut'.presence)
    /\ empty' = IF TargetSeen(i) \/ i.pir THEN 0 ELSE Least(empty + 1, Horizon)
    /\ UNCHANGED fallback

\* A run with the tracker; fused is what PresenceFusion finds.
TrackerRun(fused) ==
    /\ ~fallback
    /\ legacy' = Disabled(legacy)
    /\ legacyOut' = NoOutput
    /\ Debounce(fused)
    /\ empty' = IF fused THEN 0 ELSE Least(empty + 1, Horizon)
    /\ UNCHANGED fallback

\* A device configuration is saved.
SwitchFallback ==
    /\ fallback' \in BOOLEAN
    /\ UNCHANGED <<legacy, legacyOut, stable, sinceOn, empty>>

LegacyInit ==
    /\ fallback \in BOOLEAN
    /\ legacy = NoLegacy /\ legacyOut = NoOutput
    /\ stable = FALSE /\ sinceOn = OffDelay /\ empty = 0

LegacyNext ==
    \/ \E i \in LegacyInputs : LegacyRun(i)
    \/ \E fused \in BOOLEAN : TrackerRun(fused)
    \/ SwitchFallback

LegacySpec == LegacyInit /\ [][LegacyNext]_legacyVars

-----------------------------------------------------------------------------
(* Properties.                                                               *)

LegacyTypeOK ==
    /\ fallback \in BOOLEAN /\ stable \in BOOLEAN
    /\ legacy \in [confidence : 0..Full, confirmed : BOOLEAN, anchored : BOOLEAN,
                   seen : -1..(MaxHold + 1)]
    /\ legacyOut \in [presence : BOOLEAN, hold : BOOLEAN, motion : BOOLEAN]
    /\ sinceOn \in 0..OffDelay /\ empty \in Nat

\* A confirmation is paid for: it needs the confidence to keep it, and every
\* run since the target was last seen has cost some.  So no hold comes near
\* STILL_MAX_HOLD_MS.
HoldIsPaid ==
    legacy.confirmed =>
        /\ legacy.confidence >= Exit
        /\ legacy.seen # Never
        /\ legacy.confidence + MissingDecay * legacy.seen <= Full

\* An empty room is reported empty after the longest hold and the off delay,
\* however the dashboard switches between the two ways of finding presence.
EmptyRoomIsReported ==
    stable => MissingDecay * (empty - OffDelay) <= Full - Exit
=============================================================================

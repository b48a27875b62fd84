----------------------------- MODULE ReplayLine -----------------------------
(* A line of the presence replay log, from the sample of the main loop over  *)
(* the text that is downloaded to its two readers: replay.py, which reads    *)
(* every field by its position, and tracker_runner.cpp, which feeds a native *)
(* PresenceTracker with it.  Writer and readers keep the order of the fields *)
(* and the codes of the reasons in tables of their own.                      *)
EXTENDS Integers, Sequences, SequencesExt

CONSTANTS
    Numbers,      \* what measurements may be, beyond 16 bits on either side
    NaN           \* a sensor that has not measured yet

ASSUME NumbersAssumption == NaN \notin Int /\ Numbers \subseteq Int \union {NaN}

VARIABLES
    told,   \* what the loop hands to PresenceReplayLog::update
    line    \* the line that is downloaded

replayVars == <<told, line>>

TargetIndex == 1..3   \* targets

-----------------------------------------------------------------------------
(* What the loop knows of a tick: fields of the tracker's input, of the raw  *)
(* targets, and of the snapshot.                                             *)

Measurements == {"x", "y", "speed", "distance"}
RawParts == Measurements \union {"valid", "filterMode", "filtered", "rangeValid"}
\* PresenceTrackerTargetInput
TargetParts == Measurements \union {"valid", "exitMask", "inside", "outside", "margin"}
Distances == {"movingDistance", "stillDistance", "movingEnergy", "stillEnergy",
              "detectionDistance", "armElapsed"}
Reasons == {"presenceReason", "offReason", "motionReason", "stillState", "stillReason",
            "rangeReason", "trackerState", "trackerReason"}
Flags == {"pir", "blocked", "roomConfigured", "stationarySpeed",
          "available", "staticPresence", "moving", "still",
          "pirEvidence", "trackerEvidence", "armed", "active", "armPending", "exitVeto",
          "exitActive", "presence", "motion", "stillTarget",
          "trackerPresence", "trackerMotion"}
Counts == {"sequence", "ms", "suspects", "outOfRange", "candidates",
           "zoneMask", "exitTargets", "exitAge", "targets", "movers", "stills", "confidence",
           "emptySamples", "score", "detections", "tracks", "tentative", "confirmed",
           "coasting", "moverTracks", "stillTracks"}

-----------------------------------------------------------------------------
(* The codes of the reasons, counted from 0: those of the writer and those of *)
(* replay.py.  What the writer does not know is 255.                          *)

PresenceCodes ==
    <<"none", "target", "still_hold", "pir", "tracker_assist", "filter_blocked",
      "target_lost_hold_expired", "tracker_primary", "tracker_lost_hold_expired",
      "static_radar_assist", "static_radar_clear", "static_radar_unavailable",
      "lost_after_exit", "lost_without_exit", "lost_after_room_exit">>
\* presence_reason_code_ and the six functions after it
Codes ==
    [presenceReason |-> PresenceCodes, offReason |-> PresenceCodes,
     motionReason |-> <<"none", "moving_target", "pir", "motion_hold_expired",
         "filter_blocked", "tracker_motion">>,
     stillState |-> <<"idle", "candidate", "confirmed", "moving_decay", "lost">>,
     stillReason |-> <<"none", "target_missing", "moving_target", "anchor_set",
         "same_area_still", "confidence_expired", "far_from_anchor">>,
     rangeReason |-> <<"ok", "invalid_distance", "out_of_range", "remote_before_pir",
         "remote_pir_validated", "remote_without_pir">>,
     trackerState |-> <<"idle", "tentative", "confirmed", "coasting">>,
     trackerReason |-> <<"none", "confirmed_by_hits", "confirmed_by_pir_hint",
         "confirmed_reacquired", "coasting_missed", "pir", "idle", "filter_blocked",
         "filter_blocked_missed", "tentative_new", "tentative_waiting_hits",
         "tentative_missed", "coasting_after_exit", "lost_after_exit", "lost_without_exit",
         "coasting_after_room_exit", "lost_after_room_exit">>]
Unknown == 255

Code(field, reason) ==
    LET at == {i \in DOMAIN Codes[field] : Codes[field][i] = reason}
    IN  IF at = {} THEN Unknown ELSE (CHOOSE i \in at : TRUE) - 1

PRESENCE_REASON ==
    <<"none", "target", "still_hold", "pir", "tracker_assist", "filter_blocked",
      "target_lost_hold_expired", "tracker_primary", "tracker_lost_hold_expired",
      "static_radar_assist", "static_radar_clear", "static_radar_unavailable",
      "lost_after_exit", "lost_without_exit", "lost_after_room_exit">>
MOTION_REASON == <<"none", "moving_target", "pir", "motion_hold_expired", "filter_blocked",
                   "tracker_motion">>
STILL_STATE == <<"idle", "candidate", "confirmed", "moving_decay", "lost">>
STILL_REASON == <<"none", "target_missing", "moving_target", "anchor_set",
                  "same_area_still", "confidence_expired", "far_from_anchor">>
RANGE_REASON == <<"ok", "invalid_distance", "out_of_range", "remote_before_pir",
                  "remote_pir_validated", "remote_without_pir">>
TRACKER_STATE == <<"idle", "tentative", "confirmed", "coasting">>
TRACKER_REASON ==
    <<"none", "confirmed_by_hits", "confirmed_by_pir_hint", "confirmed_reacquired",
      "coasting_missed", "pir", "idle", "filter_blocked", "filter_blocked_missed",
      "tentative_new", "tentative_waiting_hits", "tentative_missed", "coasting_after_exit",
      "lost_after_exit", "lost_without_exit", "coasting_after_room_exit",
      "lost_after_room_exit">>
\* the dictionary in which each property of a sample looks its code up
Names ==
    [presenceReason |-> PRESENCE_REASON, offReason |-> PRESENCE_REASON,
     motionReason |-> MOTION_REASON, stillState |-> STILL_STATE,
     stillReason |-> STILL_REASON, rangeReason |-> RANGE_REASON,
     trackerState |-> TRACKER_STATE, trackerReason |-> TRACKER_REASON]

\* Bug: dictionaries from before the last code was given.
OlderName(field, code) ==
    CASE code = Unknown -> "unknown"
      [] code # Unknown /\ code + 1 < Len(Names[field]) -> Names[field][code + 1]
      [] OTHER -> "code"

\* code_name: a code that is in no dictionary is read as that code.
Name(field, code) ==
    CASE code = Unknown -> "unknown"
      [] code # Unknown /\ code + 1 \in DOMAIN Names[field] -> Names[field][code + 1]
      [] OTHER -> "code"

(* What the loop hands over as a reason: every text that it, the tracker and  *)
(* the fusion assign to it on the default path, and LegacyPresence on the     *)
(* other one.  The still fields hold the tracker's own state and reason       *)
(* unless the fallback is on.                                                 *)
OffReasons ==
    {"boot", "filter_blocked", "still_confidence_expired", "still_max_hold_expired",
     "static_radar_unavailable", "static_radar_clear", "lost_after_exit",
     "lost_after_room_exit", "lost_without_exit", "tracker_lost_hold_expired",
     "target_lost_hold_expired", "unknown"}
TrackerStates == {"idle", "tentative", "confirmed", "coasting"}
TrackerReasons ==
    {"none", "filter_blocked", "confirmed_by_hits", "confirmed_by_pir_hint",
     "confirmed_reacquired", "filter_blocked_missed", "coasting_after_exit",
     "coasting_after_room_exit", "coasting_missed"}
Reported ==
    [presenceReason |-> OffReasons \union {"none", "pir", "tracker_primary",
                                           "static_radar_assist", "target", "still_hold"},
     offReason |-> OffReasons,
     motionReason |-> {"boot", "none", "filter_blocked", "pir", "tracker_motion",
                       "moving_target", "motion_hold_expired"},
     stillState |-> TrackerStates \union {"blocked", "candidate", "moving_decay",
                                          "target_decay", "holding", "lost"},
     stillReason |-> TrackerReasons \union {"target_missing", "anchor_moved", "anchor_set",
                         "same_area_still", "still_no_coord", "moving_target",
                         "non_still_target", "confidence_expired", "max_hold_expired"},
     rangeReason |-> {"ok", "invalid_distance", "out_of_range", "remote_before_pir",
                      "remote_pir_validated", "remote_without_pir"},
     trackerState |-> TrackerStates,
     trackerReason |-> TrackerReasons]

-----------------------------------------------------------------------------
(* The sample.                                                               *)

\* clamp_i16_
ClampI16(v) == CASE v = NaN -> 0
                 [] v # NaN -> IF v > 32767 THEN 32767 ELSE IF v < -32768 THEN -32768 ELSE v
\* clamp_u16_
ClampU16(v) == CASE v = NaN -> 0
                 [] v # NaN -> IF v <= 0 THEN 0 ELSE IF v > 65535 THEN 65535 ELSE v

StoredPart(part, v) ==
    CASE part \in {"x", "y", "speed", "filterMode"} -> ClampI16(v)
      [] part = "distance" -> ClampU16(v)
      [] OTHER -> v
StoredField(field, v) ==
    CASE field \in Distances -> ClampU16(v)
      [] field \in Reasons -> Code(field, v)
      [] OTHER -> v

\* PresenceReplayLog::update
SampleOf(t) ==
    [raw |-> [i \in TargetIndex |-> [p \in RawParts |-> StoredPart(p, t.raw[i][p])]],
     targets |-> [i \in TargetIndex |-> [p \in Measurements \union {"valid"} |->
                                      StoredPart(p, t.targets[i][p])]],
     lux |-> t.lux,
     fields |-> [f \in DOMAIN t.fields |-> StoredField(f, t.fields[f])]]

-----------------------------------------------------------------------------
(* The line: numbers in the order of the format string.                      *)

Picked(fields, names) == [i \in DOMAIN names |-> fields[names[i]]]

\* format_ndjson_sample
LineOf(s) ==
    LET F(names) == Picked(s.fields, names)
    IN  [q |-> s.fields.sequence, t |-> s.fields.ms, p |-> s.fields.pir, lx |-> s.lux,
         r |-> [i \in TargetIndex |-> Picked(s.raw[i],
                   <<"valid", "x", "y", "speed", "distance", "filterMode", "filtered",
                     "rangeValid">>)],
         tg |-> [i \in TargetIndex |-> Picked(s.targets[i],
                   <<"valid", "x", "y", "speed", "distance">>)],
         sr |-> F(<<"available", "staticPresence", "moving", "still", "movingDistance",
                    "stillDistance", "movingEnergy", "stillEnergy", "detectionDistance">>),
         sf |-> F(<<"pirEvidence", "trackerEvidence", "armed", "active", "armPending",
                    "exitVeto", "armElapsed">>),
         f |-> F(<<"blocked", "rangeReason", "suspects", "outOfRange", "candidates">>),
         ex |-> F(<<"exitActive", "zoneMask", "exitTargets", "exitAge">>),
         l |-> F(<<"presence", "motion", "stillTarget", "targets", "movers", "stills",
                   "confidence", "emptySamples", "presenceReason", "offReason",
                   "motionReason", "stillState", "stillReason">>),
         tr |-> F(<<"trackerPresence", "trackerMotion", "trackerState", "trackerReason",
                    "score", "detections", "tracks", "tentative", "confirmed", "coasting",
                    "moverTracks", "stillTracks">>)]

\* json.loads takes no "nan".
IsJson(row) == row.lx # NaN

-----------------------------------------------------------------------------
(* replay.py: parse_raw_target, parse_target, parse_sample.                  *)

ReadRaw(v) == [valid |-> v[1], x |-> v[2], y |-> v[3], speed |-> v[4], distance |-> v[5],
               filterMode |-> v[6], filtered |-> v[7], rangeValid |-> v[8]]
ReadTarget(v) == [valid |-> v[1], x |-> v[2], y |-> v[3], speed |-> v[4], distance |-> v[5]]

ReadSample(row) ==
    [sequence |-> row.q, ms |-> row.t, pir |-> row.p,
     available |-> row.sr[1], staticPresence |-> row.sr[2], moving |-> row.sr[3],
     still |-> row.sr[4], movingDistance |-> row.sr[5], stillDistance |-> row.sr[6],
     movingEnergy |-> row.sr[7], stillEnergy |-> row.sr[8], detectionDistance |-> row.sr[9],
     pirEvidence |-> row.sf[1], trackerEvidence |-> row.sf[2], armed |-> row.sf[3],
     active |-> row.sf[4], armPending |-> row.sf[5], exitVeto |-> row.sf[6],
     armElapsed |-> row.sf[7],
     blocked |-> row.f[1], rangeReason |-> Name("rangeReason", row.f[2]),
     suspects |-> row.f[3], outOfRange |-> row.f[4], candidates |-> row.f[5],
     exitActive |-> row.ex[1], zoneMask |-> row.ex[2], exitTargets |-> row.ex[3],
     exitAge |-> row.ex[4],
     presence |-> row.l[1], motion |-> row.l[2], stillTarget |-> row.l[3],
     targets |-> row.l[4], movers |-> row.l[5], stills |-> row.l[6],
     confidence |-> row.l[7], emptySamples |-> row.l[8],
     presenceReason |-> Name("presenceReason", row.l[9]),
     offReason |-> Name("offReason", row.l[10]),
     motionReason |-> Name("motionReason", row.l[11]),
     stillState |-> Name("stillState", row.l[12]),
     stillReason |-> Name("stillReason", row.l[13]),
     trackerPresence |-> row.tr[1], trackerMotion |-> row.tr[2],
     trackerState |-> Name("trackerState", row.tr[3]),
     trackerReason |-> Name("trackerReason", row.tr[4]), score |-> row.tr[5],
     detections |-> row.tr[6], tracks |-> row.tr[7], tentative |-> row.tr[8],
     confirmed |-> row.tr[9], coasting |-> row.tr[10], moverTracks |-> row.tr[11],
     stillTracks |-> row.tr[12]]

-----------------------------------------------------------------------------
(* tracker_runner.cpp: parse_replay_line fills a PresenceTrackerInput; what  *)
(* it does not set keeps the default.                                        *)

RunnerTarget(numbers, i) ==
    LET base == (i - 1) * 5
    IN  [valid |-> numbers[base + 1], x |-> numbers[base + 2], y |-> numbers[base + 3],
         speed |-> numbers[base + 4], distance |-> numbers[base + 5],
         exitMask |-> 0, inside |-> 0, outside |-> 0, margin |-> 0]

RunnerInput(row) ==
    [ms |-> row.t, pir |-> row.p, blocked |-> row.f[1], roomConfigured |-> 0,
     stationarySpeed |-> 0,
     targets |-> [i \in TargetIndex |-> RunnerTarget(FlattenSeq(row.tg), i)]]

\* What the device's tracker got.
TrackerInput(t) ==
    [ms |-> t.fields.ms, pir |-> t.fields.pir, blocked |-> t.fields.blocked,
     roomConfigured |-> t.fields.roomConfigured,
     stationarySpeed |-> t.fields.stationarySpeed, targets |-> t.targets]

-----------------------------------------------------------------------------
(* A tick in which one field, or one part of a target, is out of the quiet.  *)

\* before anything was seen: the globals' initial values, the tracker's output
FirstReason ==
    [presenceReason |-> "boot", offReason |-> "boot", motionReason |-> "boot",
     stillState |-> "idle", stillReason |-> "none", rangeReason |-> "ok",
     trackerState |-> "idle", trackerReason |-> "none"]

Quiet ==
    [raw |-> [i \in TargetIndex |-> [p \in RawParts |-> 0]],
     targets |-> [i \in TargetIndex |-> [p \in TargetParts |-> 0]],
     lux |-> 0,
     fields |-> [f \in Flags \union Counts \union Distances \union Reasons |->
                    IF f \in Reasons THEN FirstReason[f] ELSE 0]]

Tell(t) == told' = t /\ line' = LineOf(SampleOf(t))

ReplayInit == told = Quiet /\ line = LineOf(SampleOf(Quiet))

ReplayNext ==
    \/ \E i \in TargetIndex, p \in Measurements, v \in Numbers : Tell([Quiet EXCEPT !.raw[i][p] = v])
    \/ \E i \in TargetIndex, p \in RawParts \ Measurements : Tell([Quiet EXCEPT !.raw[i][p] = 1])
    \/ \E i \in TargetIndex, p \in Measurements, v \in Numbers :
          Tell([Quiet EXCEPT !.targets[i][p] = v])
    \/ \E i \in TargetIndex, p \in TargetParts \ Measurements :
          Tell([Quiet EXCEPT !.targets[i][p] = 1])
    \/ \E v \in Numbers : Tell([Quiet EXCEPT !.lux = v])
    \/ \E f \in Flags \union Counts : Tell([Quiet EXCEPT !.fields[f] = 1])
    \/ \E f \in Distances, v \in Numbers : Tell([Quiet EXCEPT !.fields[f] = v])
    \/ \E f \in Reasons : \E v \in Reported[f] : Tell([Quiet EXCEPT !.fields[f] = v])

ReplaySpec == ReplayInit /\ [][ReplayNext]_replayVars

-----------------------------------------------------------------------------
(* Properties.                                                               *)

\* v, or the end of the range from lo to hi that it is beyond; 0 for NaN.
Nearest(r, v, lo, hi) ==
    IF v = NaN THEN r = 0
    ELSE IF v \in lo..hi THEN r = v ELSE r = (IF v > hi THEN hi ELSE lo)
PartIsRead(r, p, v) ==
    CASE p \in {"x", "y", "speed"} -> Nearest(r, v, -32768, 32767)
      [] p = "distance" -> Nearest(r, v, 0, 65535)
      [] OTHER -> r = v

\* The reasons that a log cannot tell from each other, as no code was given to
\* them: most of what the tracker puts into the still fields, some of what
\* LegacyPresence does, and what there is before the first change.
Unnamed ==
    [presenceReason |-> {"boot", "still_confidence_expired", "still_max_hold_expired", "unknown"},
     offReason |-> {"boot", "still_confidence_expired", "still_max_hold_expired", "unknown"},
     motionReason |-> {"boot"},
     stillState |-> {"tentative", "coasting", "blocked", "target_decay", "holding"},
     stillReason |-> {"filter_blocked", "confirmed_by_hits", "confirmed_by_pir_hint",
                      "confirmed_reacquired", "filter_blocked_missed", "coasting_after_exit",
                      "coasting_after_room_exit", "coasting_missed", "anchor_moved",
                      "still_no_coord", "non_still_target", "max_hold_expired"},
     rangeReason |-> {}, trackerState |-> {}, trackerReason |-> {}]

\* What replay.py reads in every field of a line is what the loop told there,
\* to the nearest number of 16 bits, and every reason is read by its name,
\* except those of Unnamed, which are read as unknown and never as another
\* reason: writer and reader agree on the order of about a hundred numbers and
\* on seven tables of codes.
ReplayReadsBack ==
    /\ \A i \in TargetIndex :
          LET raw == ReadRaw(line.r[i])
              target == ReadTarget(line.tg[i])
          IN  /\ \A p \in RawParts : PartIsRead(raw[p], p, told.raw[i][p])
              /\ \A p \in DOMAIN target : PartIsRead(target[p], p, told.targets[i][p])
    /\ LET read == ReadSample(line)
       IN  \A f \in DOMAIN read :
              IF f \in Distances THEN Nearest(read[f], told.fields[f], 0, 65535)
              ELSE IF f \in Reasons /\ told.fields[f] \in Unnamed[f] THEN read[f] = "unknown"
              ELSE read[f] = told.fields[f]

\* presence-replay.md, 2.2: "The endpoint returns newline-delimited JSON."
\* (The code does not keep it: see "Observed, without a run" in README.md.)
LinesAreJson == IsJson(line)

\* presence-replay.md, 2.2: "The replay log must include the input signals
\* needed to reconstruct tracker behavior": while its measurements fit, the
\* native tracker gets the input that the device's tracker got.
\* (The code does not keep it: see "Observed, without a run" in README.md.)
ReplayReconstructs ==
    (\A i \in TargetIndex : \A p \in Measurements : told.targets[i][p] \in -32768..32767)
    => RunnerInput(line) = TrackerInput(told)
=============================================================================

--------------------------- MODULE DiagnosticLogs ---------------------------
(* The diagnostic event log and the presence replay log: two rings in RAM    *)
(* that the main loop fills on every sample and the HTTP task downloads row  *)
(* by row.  Nothing locks them, so the writer is modelled store by store.    *)
EXTENDS Naturals, Sequences, FiniteSets

CONSTANTS
    Snapshots,  \* the samples of the 500 ms loop
    Capacity,   \* MAX_EVENTS, MAX_SAMPLES
    Retention,  \* RETENTION_MS, in ticks of time
    MaxClock,   \* bound: the time at which observation ends
    MaxEntries  \* bound: samples are taken until a log has had so many entries

ASSUME LogAssumption == Capacity \in Nat \ {0} /\ Retention \in Nat

VARIABLES
    clock,
    allocated, \* per log, whether its memory was obtained
    previous,  \* the last sample, previous_, or NoSnapshot
    writer,    \* what update does next, with its sample's events and time
    eventLog, replayLog,
    download,  \* the HTTP task: which log, the next row, what it sent
    history    \* (history variable) the time of every event ever appended

logVars == <<clock, allocated, previous, writer, eventLog, replayLog, download, history>>

NoSnapshot == [none |-> TRUE]

ASSUME SnapshotAssumption ==
    /\ NoSnapshot \notin Snapshots
    /\ \A s \in Snapshots :
          {s.presence, s.motion, s.target, s.exit, s.hold, s.tracker} \subseteq BOOLEAN

RingSlots == 0..(Capacity - 1)
EmptyLog == [ring |-> [i \in RingSlots |-> [sequence |-> 0, ms |-> 0, type |-> "none"]],
             start |-> 0, count |-> 0, next |-> 1, truncated |-> FALSE]
RestingWriter == [at |-> "rest", queue |-> << >>, ms |-> 0]
NoDownload == [of |-> "none", row |-> 0, at |-> "loop", last |-> 0, comma |-> FALSE]

-----------------------------------------------------------------------------
(* DiagnosticLog::update compares a sample with the previous one.            *)

Event(condition, type) == IF condition THEN <<type>> ELSE << >>
Edge(before, now, on, off) == Event(~before /\ now, on) \o Event(before /\ ~now, off)

StillEvent(state) == CASE state = "confirmed" -> "still_confirmed"
                       [] state = "lost" -> "still_lost"
                       [] OTHER -> "still_holding"

\* Bug: a target that is lost is compared with itself.
EventsWithoutLoss(p, s) ==
    Edge(p.presence, s.presence, "presence_on", "presence_off")
    \o Edge(p.motion, s.motion, "motion_on", "motion_off")
    \o Event(~p.target /\ s.target, "target_seen")
    \o Edge(p.exit, s.exit, "exit_zone_seen", "exit_zone_clear")
    \o Edge(p.tracker, s.tracker, "tracker_presence_on", "tracker_presence_off")

EventsOf(p, s) ==
    Edge(p.presence, s.presence, "presence_on", "presence_off")
    \o Edge(p.motion, s.motion, "motion_on", "motion_off")
    \o Edge(p.target, s.target, "target_seen", "target_lost")
    \o Event(p.still # s.still /\ s.still \in {"confirmed", "lost", "holding"},
             StillEvent(s.still))
    \o Edge(p.hold, s.hold, "still_hold_started", "still_hold_ended")
    \o Event(~p.unsure /\ s.unsure, "still_confidence_low")
    \o Event(p.range # s.range,
             IF s.range = "ok" THEN "range_gate_recovered" ELSE "range_gate_blocked")
    \o Edge(p.exit, s.exit, "exit_zone_seen", "exit_zone_clear")
    \o Edge(p.tracker, s.tracker, "tracker_presence_on", "tracker_presence_off")
    \o Event(p.track # s.track, "tracker_state")

SampleEvents(s) == IF previous = NoSnapshot THEN <<"diagnostic_started">>
                   ELSE EventsOf(previous, s)

-----------------------------------------------------------------------------
(* The writer: update_diagnostic_snapshot of the main loop.                  *)

IndexOf(log, offset) == (log.start + offset) % Capacity

MoveStart(log) == [log EXCEPT !.start = (@ + 1) % Capacity]

Sample(s) ==
    /\ writer.at = "rest"
    /\ eventLog.next <= MaxEntries /\ replayLog.next <= MaxEntries
    /\ IF allocated.events
       THEN /\ writer' = [at |-> "trim", queue |-> SampleEvents(s), ms |-> clock]
            /\ previous' = s
       ELSE /\ writer' = [RestingWriter EXCEPT !.at = "replay", !.ms = clock]
            /\ UNCHANGED previous
    /\ UNCHANGED <<clock, allocated, eventLog, replayLog, download, history>>

\* trim_: the oldest event goes when its age exceeds the retention; the start
\* moves before the count does.
TooOld(log, now) == log.count > 0 /\ now - log.ring[log.start].ms > Retention

Trim ==
    /\ writer.at = "trim"
    /\ IF TooOld(eventLog, writer.ms)
       THEN eventLog' = MoveStart(eventLog) /\ writer' = [writer EXCEPT !.at = "uncount"]
       ELSE writer' = [writer EXCEPT !.at = "append"] /\ UNCHANGED eventLog
    /\ UNCHANGED <<clock, allocated, previous, replayLog, download, history>>

Uncount ==
    /\ writer.at = "uncount"
    /\ eventLog' = [eventLog EXCEPT !.count = @ - 1, !.truncated = TRUE]
    /\ writer' = [writer EXCEPT !.at = "trim"]
    /\ UNCHANGED <<clock, allocated, previous, replayLog, download, history>>

\* append_event_: a slot is claimed, and then filled.
Claim ==
    /\ writer.at = "append" /\ writer.queue # << >>
    /\ eventLog' = IF eventLog.count < Capacity
                   THEN [eventLog EXCEPT !.count = @ + 1]
                   ELSE [MoveStart(eventLog) EXCEPT !.truncated = TRUE]
    /\ writer' = [writer EXCEPT !.at = "fill"]
    /\ UNCHANGED <<clock, allocated, previous, replayLog, download, history>>

Fill ==
    /\ writer.at = "fill"
    /\ eventLog' = [eventLog EXCEPT
                       !.ring[IndexOf(eventLog, eventLog.count - 1)] =
                           [sequence |-> eventLog.next, ms |-> writer.ms,
                            type |-> Head(writer.queue)],
                       !.next = @ + 1]
    /\ history' = Append(history, writer.ms)
    /\ writer' = [writer EXCEPT !.at = "append", !.queue = Tail(@)]
    /\ UNCHANGED <<clock, allocated, previous, replayLog, download>>

EndEvents ==
    /\ writer.at = "append" /\ writer.queue = << >>
    /\ writer' = [writer EXCEPT !.at = "replay"]
    /\ UNCHANGED <<clock, allocated, previous, eventLog, replayLog, download, history>>

\* Bug: the slot after the newest sample is taken for the start.
FillFromStart ==
    /\ writer.at = "replay" /\ allocated.replay
    /\ replayLog' = [replayLog EXCEPT
                        !.ring[replayLog.count % Capacity] =
                            [sequence |-> replayLog.next, ms |-> writer.ms, type |-> "sample"],
                        !.next = @ + 1]
    /\ writer' = [writer EXCEPT !.at = "count"]
    /\ UNCHANGED <<clock, allocated, previous, eventLog, download, history>>

\* PresenceReplayLog::update: the slot is filled, and then counted.
FillSample ==
    /\ writer.at = "replay" /\ allocated.replay
    /\ replayLog' = [replayLog EXCEPT
                        !.ring[IndexOf(replayLog, replayLog.count)] =
                            [sequence |-> replayLog.next, ms |-> writer.ms, type |-> "sample"],
                        !.next = @ + 1]
    /\ writer' = [writer EXCEPT !.at = "count"]
    /\ UNCHANGED <<clock, allocated, previous, eventLog, download, history>>

CountSample ==
    /\ writer.at = "count"
    /\ replayLog' = IF replayLog.count < Capacity
                    THEN [replayLog EXCEPT !.count = @ + 1]
                    ELSE [MoveStart(replayLog) EXCEPT !.truncated = TRUE]
    /\ writer' = RestingWriter
    /\ UNCHANGED <<clock, allocated, previous, eventLog, download, history>>

NoReplay ==
    /\ writer.at = "replay" /\ ~allocated.replay
    /\ writer' = RestingWriter
    /\ UNCHANGED <<clock, allocated, previous, eventLog, replayLog, download, history>>

-----------------------------------------------------------------------------
(* The HTTP task.                                                            *)

LogOf(name) == IF name = "events" THEN eventLog ELSE replayLog
RowCount(name) == IF allocated[name] THEN LogOf(name).count ELSE 0

\* GET /api/diagnostics/events, events.txt and replay.ndjson; a log without
\* memory answers 503.
StartDownload(name) ==
    /\ download.of = "none" /\ allocated[name]
    /\ download' = [NoDownload EXCEPT !.of = name]
    /\ UNCHANGED <<clock, allocated, previous, writer, eventLog, replayLog, history>>

\* The loop looks at the count before every row; a list separates its rows.
NextRow ==
    /\ download.of # "none" /\ download.at = "loop"
    /\ download.row < RowCount(download.of)
    /\ download' = [download EXCEPT !.at = "format",
                                    !.comma = download.of = "events" /\ download.row > 0]
    /\ UNCHANGED <<clock, allocated, previous, writer, eventLog, replayLog, history>>

\* Bug: the start of the ring is not added.
SlotAt(log, offset) == log.ring[offset % Capacity]

\* event_at_ and sample_at_
RowAt(log, offset) == log.ring[IndexOf(log, offset)]

\* format_*: a row that has gone meanwhile is skipped.  Only a row that was read
\* between two updates is known to be whole.
FormatRow ==
    /\ download.at = "format"
    /\ LET log == LogOf(download.of)
           whole == writer.at = "rest"
       IN  download' = IF download.row >= RowCount(download.of)
                       THEN [download EXCEPT !.row = @ + 1, !.at = "loop"]
                       ELSE [download EXCEPT !.row = @ + 1, !.at = "loop", !.comma = FALSE,
                                !.last = IF whole THEN RowAt(log, download.row).sequence ELSE @]
    /\ UNCHANGED <<clock, allocated, previous, writer, eventLog, replayLog, history>>

\* The end of the log, or of the connection.
EndDownload ==
    /\ download.of # "none" /\ download.at = "loop"
    /\ download.row >= RowCount(download.of)
    /\ download' = NoDownload
    /\ UNCHANGED <<clock, allocated, previous, writer, eventLog, replayLog, history>>

TimeGoesOn ==
    /\ clock < MaxClock
    /\ clock' = clock + 1
    /\ UNCHANGED <<allocated, previous, writer, eventLog, replayLog, download, history>>

-----------------------------------------------------------------------------
LogInit ==
    /\ clock = 0 /\ previous = NoSnapshot /\ writer = RestingWriter
    /\ allocated \in [{"events", "replay"} -> BOOLEAN]
    /\ eventLog = EmptyLog /\ replayLog = EmptyLog
    /\ download = NoDownload /\ history = << >>

WriterRuns == Trim \/ Uncount \/ Claim \/ Fill \/ EndEvents \/ FillSample \/ CountSample \/ NoReplay

LogNext ==
    \/ \E s \in Snapshots : Sample(s)
    \/ WriterRuns
    \/ \E name \in {"events", "replay"} : StartDownload(name)
    \/ NextRow \/ FormatRow \/ EndDownload
    \/ TimeGoesOn

LogSpec == LogInit /\ [][LogNext]_logVars

-----------------------------------------------------------------------------
(* Properties.                                                               *)

LogTypeOK ==
    /\ eventLog.start \in RingSlots /\ eventLog.count \in 0..Capacity
    /\ replayLog.start \in RingSlots /\ replayLog.count \in 0..Capacity
    /\ writer.at \in {"rest", "trim", "uncount", "append", "fill", "replay", "count"}
    /\ download.of \in {"none", "events", "replay"}

HeldRows(log) == {RowAt(log, k).sequence : k \in 0..(log.count - 1)}
Consecutive(log) == \A k \in 1..(log.count - 1) :
                   RowAt(log, k).sequence = RowAt(log, k - 1).sequence + 1

\* Between two updates each log holds, in the order they were appended, exactly
\* the newest entries that fit: no event within the retention is lost to a ring
\* with room, none is kept twice, and "truncated" tells that one was dropped.
LogsHoldTheNewest ==
    writer.at = "rest" =>
        /\ Consecutive(eventLog) /\ Consecutive(replayLog)
        /\ HeldRows(replayLog) = {q \in 1..(replayLog.next - 1) : q + Capacity >= replayLog.next}
        /\ HeldRows(eventLog) \subseteq {q \in DOMAIN history : q + Capacity > Len(history)}
        /\ \A q \in DOMAIN history \ HeldRows(eventLog) :
              q + Capacity <= Len(history) \/ clock - history[q] > Retention
        /\ eventLog.truncated <=> DOMAIN history \ HeldRows(eventLog) # {}

\* The event log explains the state: whichever event of a pair comes last in it
\* is the one that agrees with the last sample.
Pairs == {<<"presence_on", "presence_off", "presence">>, <<"motion_on", "motion_off", "motion">>,
          <<"target_seen", "target_lost", "target">>, <<"exit_zone_seen", "exit_zone_clear", "exit">>,
          <<"still_hold_started", "still_hold_ended", "hold">>,
          <<"tracker_presence_on", "tracker_presence_off", "tracker">>}

LogExplainsState ==
    writer.at = "rest" =>
        \A pair \in Pairs, k \in 0..(eventLog.count - 1) :
            LET type == RowAt(eventLog, k).type
                laterTypes == {RowAt(eventLog, l).type : l \in (k + 1)..(eventLog.count - 1)}
            IN  type \in {pair[1], pair[2]} /\ laterTypes \intersect {pair[1], pair[2]} = {}
                    => (type = pair[1]) = previous[pair[3]]

\* A download that is overtaken by the writer skips rows, and never goes back:
\* the whole rows it sends have growing sequence numbers.
DownloadGoesForward ==
    [][download'.of = download.of /\ download'.row > download.row /\ download'.last # download.last
           => download'.last > download.last]_logVars

\* The list of events is well-formed JSON: every separator is followed by a row.
\* (The code does not keep it: see "Observed, without a run" in README.md.)
NoDanglingComma == download.at = "loop" => ~download.comma
=============================================================================

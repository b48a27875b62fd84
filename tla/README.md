# Presence sensor (XIAO ESP32-S3): TLA+ models and proofs

This directory holds TLA+ models of the firmware of the presence sensor, the TLC
configurations that check them on small instances, and proofs of their main
properties for every value of the constants. The firmware is an ESPHome
component in C++ (`components/radar_api_server`), the YAML packages that call
it (`packages/namo`) and a web dashboard (`dashboard`). Everything here is
translated from that source; `PROJECT.json` gives the lines of every definition.

## 1. The system

A PIR sensor, an LD2450 radar (moving targets with coordinates) and an LD2410C
static radar are read by the ESPHome main loop. A 500 ms interval
(`packages/namo/lambdas/interval-500ms.yaml`) runs the presence path, the
statistics, the control requests and the LED. A separate task runs the HTTP
server, which serves the dashboard and writes a raw flash partition; the main
loop writes that partition too. The Wi-Fi driver's event task and a task for
deferred calls take part in the setup. Nothing locks what these tasks share.

| component | state | operations | talks to | module |
|---|---|---|---|---|
| PresenceTracker (`presence_tracker.cpp`) | three track records, last drop reason and time, Kalman filter and direction of each | `update` per frame: match, confirm, open, age, forget | called by the loop; output to the fusion | `PresenceTracker`, `RoomCrossing`, `TrackFilter` |
| PresenceFusion (`presence_fusion.cpp`) | static assist session, exit veto, reentry window, retained coordinate, ring of static distances | `update` per frame | reads the tracker output and the debounced presence of the previous frame | `PresenceFusion`, `PresenceSession`, `StaticDistance` |
| presence path of the loop (yaml 405-550) | debounced presence and motion, time each was last raw | one run per 500 ms | calls both, publishes, feeds presence back | `PresencePipeline`, `PresenceSilence`, `PresenceHandover` |
| LegacyPresence (`legacy_presence.cpp`, yaml) | still confidence, anchor, the switch | `update`, `disable` | replaces the fusion's output when switched on | `LegacyPresence` |
| SoftwareZones (`software_zone_evidence.cpp`, `presence_tracker.cpp`) | none | point in polygon, distance to the room's boundary | tracker evidence, heatmap | `ZoneGeometry` |
| DeviceConfigCache (`device_config_cache.cpp`) | the configuration in use, member by member | install, clear, look up | written by the HTTP task, read by the loop | `ConfigCache` |
| RadarStorage (`radar_storage.cpp`) | header sector and four payload areas in NOR flash, one upload slot | start, chunk, commit, write, delete, read | called by both tasks | `RadarStorage` |
| upload, patch and delete handlers | none of their own | one storage call or a few per request | dashboards over HTTP | `StorageClients`, `HttpUploads`, `FloorplanPatch` |
| system management (`system_handler.cpp`) | reboot timer, boot guard | resets, reboot, status | storage, caches, Wi-Fi | `SystemReset` |
| StatsStore (`stats_store.cpp`) | today's counters, history, heatmap | `update_today`, `finish_day`, `reset_today`, `load`, restore, summary | persists through RadarStorage's upload protocol | `StatsDays`, `StatsText`, `StorageClients` |
| ControlState mailbox (`control_handler.cpp`, yaml) | one pending request per kind, tuning session with keepalive | set over HTTP, taken by the loop | both tasks | `ControlMailbox` |
| setup and Wi-Fi manager (`setup_handler.cpp`, `setup_wifi_manager.cpp`) | stage, candidate, scan cache, timers, deferred calls | scan, connect, hand-over, reboot | HTTP, loop, event task, radio | `SetupWifi`, `NetworkList` |
| state JSON, diagnostics, replay log | two rings in RAM | append per sample, download | loop writes, HTTP reads | `StateText`, `DiagnosticLogs`, `ReplayLine` |
| HTTP routing (`radar_api_server.cpp`) | none | `canHandle`, `handleRequest` | all handlers | `HttpRouting` |

What is hard about it:

- *The presence path is a loop through three components and several timers.*
  The fusion is given the debounced presence of the **previous** tick
  (yaml 448), which depends on the fusion's output before that. Evidence ages
  while it is used to choose limits. One variable reports the loss of three
  tracks. The dashboard may exchange half of the path for `LegacyPresence`
  while a session runs.
- *Two tasks share memory and flash without a lock*: requests are raised and
  taken flag by flag, a configuration is installed while it is read, a ring is
  downloaded while it turns, each storage call rewrites a header it read
  before; programming NOR flash only clears bits; the power may fail between
  any two effects.
- *Nothing is acknowledged in order*: dashboards give up in the middle, repeat
  what was answered, compete for one upload slot and one reboot timer; scans,
  driver events and timers of the setup overtake each other.
- *Documents are texts*: the firmware searches and cuts JSON with scanners that
  must not be misled by what users call their zones, rooms and networks, and
  prints it with commas placed by hand.
- *Days are counted in local time*, across time zones, months and restarts.

`PROJECT.json` lists every component (also those not modelled, with the reason)
and every hazard at its line.

What makes each component correct:

- tracker: a track lives exactly as long as its evidence allows, is never given
  to someone else, its loss is always reported, nothing is inherited; room-exit
  evidence means a crossing; a direction is earned by a movement;
- fusion: the static radar prolongs sessions and never starts one, exits veto
  it, it returns only inside its window, a held coordinate is unambiguous, a
  single wrong distance is ignored;
- loop: motion implies presence, silence ends everything on either path, a
  handover between persons does not interrupt presence;
- storage: what was acknowledged stays readable until somebody rewrites it, no
  reader takes a mixture for a document, an undisturbed client is never refused;
- documents: cache, patched floorplan, statistics and state are what was meant,
  whatever the names in them; what a reset removed stays removed;
- requests: an acknowledged setting is in force, the tuning session, a scan and
  the setup come to an end, a claimed route is served;
- observation: a log holds the newest rows in order and explains the state, a
  line is read as it was written, a day is counted once and kept.

## 2. Modules

| module | models | extends or instantiates |
|---|---|---|
| `PresenceTracker` | lifecycle of the tracks | |
| `RoomCrossing` | the tracker and a history of the walk of each target | PresenceTracker |
| `TrackFilter` | covariance and direction of one track | |
| `PresenceFusion` | `presence_fusion.cpp` | |
| `StaticDistance` | its ring of distances and their median | |
| `PresencePipeline` | one tick: tracker, fusion, debounce | PresenceTracker, PresenceFusion |
| `PresenceSession` | the pipeline and an observer of its inputs and outputs | PresencePipeline |
| `PresenceSilence` | the pipeline when all sensors fall silent; fairness | PresencePipeline |
| `PresenceHandover` | the pipeline under radar alone, one person replacing another | PresencePipeline |
| `LegacyPresence` | the other way of finding presence, and the switch | |
| `ZoneGeometry` | point in area, distance to the boundary | |
| `PayloadStore` | abstract specification: what readers of the storage may rely on | |
| `RadarStorage` | `radar_storage.cpp`: calls as plans of flash effects | |
| `StorageClients` | HTTP task, dashboards, statistics writer | RadarStorage; instance of PayloadStore |
| `HttpUploads` | the endpoints with every answer, repeated requests, downloads | RadarStorage |
| `JsonText` | texts as tokens, the code's scanners, a reference printer | |
| `ConfigCache`, `FloorplanPatch`, `NetworkList`, `StateText`, `StatsText` | what is parsed from, cut into or composed as text | JsonText |
| `SystemReset` | resets, reboot timer, status | |
| `ControlMailbox` | control requests of both tasks, tuning session | |
| `SetupWifi` | setup access point, scan, connection, hand-over | |
| `HttpRouting` | claims and branches of the nine handlers | |
| `DiagnosticLogs` | event log and replay log under a download | |
| `ReplayLine` | a line of the replay log and its two readers | |
| `StatsDays` | days, history, heatmap, calendar | |
| `PresencePipelineProofs` | theorems and lemmas, also of the tracker | PresencePipeline |
| `ObservationProofs` | theorems and lemmas | TrackFilter, StaticDistance, LegacyPresence, DiagnosticLogs, ReplayLine, ZoneGeometry |
| `RequestProofs` | theorems and lemmas | ControlMailbox, SystemReset, HttpRouting, ConfigCache, NetworkList |
| `WalkProofs` | theorems and lemmas | RoomCrossing, PresenceHandover, PresencePipelineProofs |
| `HttpUploadsProofs` | theorems and lemmas | HttpUploads, StorageClientsProofs |
| other `*Proofs` | theorems and lemmas | the modules they are named after |
| `MC*` | values for the constants; `MCRequests`, `MCDocuments`, `MCObservation` and `MCStorage` also choose what is observed | |

### The presence path

`PresenceTracker` has one action per kind of frame: `TrackFrame` (the filter
lets the frame pass) and `BlockedFrame`. `Update` follows `update()` statement
by statement: `Matched`, then `Newcomers`/`Opened`, then `AgeTrack` for every
record that was not updated, then `DropOf`. A track record keeps the members of
`Track` that decide something. The abstractions:

- Coordinates, gate and cost search are replaced by their outcome: any injective partial map from the active tracks to the reported
  targets (`Associations`). Which of them the search returns depends on
  distances only, so every such map is possible for some positions.
- Times are ages in ticks, counted from the stored time stamp. The signed
  distance of a target and the margin of its boundary are inputs of every single
  sample: the code computes the margin from the track's covariance at that
  sample, so any two samples may have different ones. The track record keeps
  both of the last room sample; the code keeps only the distance, and nothing in
  the model but `RoomCrossing` reads the kept margin. The `moving` flag is an input.
  The flags `candidate`, `crossed` and `outward` are one field because the
  code always changes them together. `moved_outward` follows from
  `crossed_outward`, since it asks for a move of one margin where the crossing
  is more than two.
- `now_ms == 0` as "no time stamp", and `has_recent_exit_evidence_` after a
  wrap of the millisecond counter (the evidence is taken for stale early), are
  not modelled. A loop that stalls is: `Elapses` may hold larger steps than one
  tick. The runs take one; the proofs any set.

`PresenceFusion` defines `Fuse`, one `update()`, from named parts in the order
of the code. The reason strings are left out; the distance median is in `StaticDistance`.
`PresencePipeline.Tick` is one run of the lambda: it runs to completion in the
main loop, so a tick is one action. `legacyPresenceFallback` is off here and in
`LegacyPresence` switched at any time, with any fused presence.

`PresenceSession` adds history variables that record what somebody who sees
only the sensors, the tracker's result and the published presence would write
down; `PresenceHandover` fixes PIR and static radar to silent and adds who was
reported. In both, no action of the code reads a history variable.

### The storage

A cell of flash is the *set* of documents written into it since its last erase,
so an area that was programmed twice holds neither. A chunk is one cell, a hash
is the content itself. Each call of `RadarStorage` is an operator that reads the
header and returns a plan: the answer and the sequence of effects (erase,
program, erase header, write header). `Call` starts a plan, `Advance` carries
out one effect, `GiveUp` is a failing flash operation and `PowerLoss` drops what
is left; RAM is lost, flash and header stay. A plan is decided when the header
is read, exactly as the code works on its local copy of the header: this is what
lets the other task come between. One exception is `commit_upload`, whose
hash is read in the same step as the header.

`StorageClients` adds a dashboard per browser tab (`uploadChunkedFormPayload`:
start, chunks in order, commit, give up at the first error, `Abandon` at any
time), patches (`write_payload`), deletions of one or more calls, and
`StatsStore::persist_` in the main loop under its constant session. `saved` and
`kept` are history variables: what a dashboard was told is stored, and the last
day that `persist_` reported stored.

Erasing or programming a range is one effect (a torn erase leaves cells that
the next start erases anyway). The handlers' own answers, downloads and status
queries are in `HttpUploads`. `delete_all` has no caller and is left out.

### The other documents and the requests

- `HttpUploads` is the storage as its endpoints show it: the flaws a handler
  finds before it asks the storage, the code of every answer, commits without
  memory for the buffer, a lost answer after which a client repeats its request,
  downloads in pieces, patches, deletion. One request at a time, effect by
  effect, each of which may fail.
- `JsonText` gives a text as a sequence of tokens: brackets, quotes, escapes and
  words. `Render` is what a JSON library writes; the scanners are the code's,
  token for byte. `ConfigCache` has the dashboard's document stored, read back
  and installed in the order of the stores of `update` and
  `refresh_zone_cache_`, while the loop looks up zones between any two of them;
  a zone text that is read while it is stored may be the old one, the new one or
  neither. `FloorplanPatch` edits a stored text in place, `NetworkList` and
  `StateText` compose one, `StatsText` reads one back.
- `SystemReset` keeps, per part of what a user stores, whether it is in flash
  and whether a copy is in RAM. `promised` and `claimed` are history variables:
  what an answered reset was to remove.
- `ControlMailbox` models both tasks store by store: the handler stores a value
  and then raises the flag, the lambda's sections clear a flag and then read the
  value. The loop's `now` is taken once per run, so it lags behind the time
  stamps the handler writes meanwhile. Time stamps and "never" wrap (`Wrap`).
- `SetupWifi` has the HTTP requests of the page, deferred calls and timers of
  the main loop, the driver's events, the radio, what ESPHome and the driver
  keep for the next start, and restarts.
- `HttpRouting` writes down what each handler claims in `canHandle` and what it
  serves, apart, as the code does.

### Observation

- `TrackFilter` keeps of the covariance which entries may differ from zero, and
  of the speeds what the thresholds compare. `StaticDistance` is the ring and
  its median. `ZoneGeometry` uses integer coordinates and squared fractions; an
  area is given with triangles it is made of, against which the ray test is
  judged.
- `LegacyPresence` has the confidence in the code's units, the anchor as same
  area, another one or none, and the switch between the paths.
- `DiagnosticLogs` has the writer store by store and the download row by row. A
  row read in the middle of an update counts as torn, and nothing is claimed of
  it.
- `ReplayLine` fills every one of the line's fields from a sample, with its
  clamps and the writer's tables of codes, and reads it by the order and the
  dictionaries of the readers. `Reported` has every reason that the code assigns
  on either path; on the default path the still fields hold the tracker's state
  and reason. A name for an unlisted code (`code_17`) is the one value `"code"`.
- `StatsDays` has the calendar with months and leap days, run-length coding of
  the heatmap, change of time zone, backup and restore, reset and restart. The
  six counters of a day are one number.

### Type invariants

Each module has one (`TypeOK`, `PipelineTypeOK`, `ControlTypeOK`, `SetupTypeOK`,
`LogTypeOK`, `StatsDayTypeOK`, `FilterTypeOK`, `LegacyTypeOK`) where it is used.
Those of the tracker, the pipeline, the filter, `LegacyPresence`, the controls and
the storage clients are proved; the others hold in the runs below, which list only what says more than they do.

## 3. Runs

A `MC` module of a combined run has one variable (`part` or `scenario`) that is
chosen at the start and says which component takes steps; the others rest in
their initial states. The state space is the sum of those of the components, not
their product: nothing of one component bears on another there. Fairness is
stated for each part.

| run | bounds | shows |
|---|---|---|
| `tracker` | 2 slots, 2 targets, window 4, 3 hits (2 with PIR), limits 1/1/2/3, evidence 2 ticks old | the lifecycle invariants and action properties under every frame sequence |
| `static_session` | 2 slots, 1 target, window 3, limits 1/0/1/1, arming 2 ticks, reentry 3, holds 2 and 1 | the static radar's session, veto, coordinate and window |
| `presence_path` | the same, targets moving or not | silence ends everything (liveness) |
| `handover` | the code's window 5, 3 hits, tentative limit 3; coasting limit 2, hold 4 | presence survives the change of person |
| `storage` | *dashboards*: 2 dashboards, 2 sessions, 2 targets, 2 cells per area and sector, patches, deletions of one and two calls; *faults*: 1 dashboard, 3 sessions, power loss and flash errors anywhere | acknowledged documents stay; `PayloadStore` is implemented |
| `stats_race` | 1 dashboard, 2 sessions, 2 days, statistics reset over HTTP, both tasks effect by effect, faults (1.1 million states) | no header forges a payload |
| `requests` | 2 settings, 2 values and one out of range, 2 gates, session time-out 3 with a clock of 16 values, 2 networks, 2 deferred calls, lists of 3 scan records, every route (450,000 states) | acknowledged settings are in force; tuning session, scan and setup end (liveness); the list of networks; routing |
| `documents` | 3 configurations whose zones and rooms have names that are keys or need escapes, and none, all sequences of 4 kinds of patches, 2 clients with 3 targets and faults, all resets (2.1 million states) | the cache and what the loop sees of it; patches; uploads are not refused; resets are kept |
| `observation` | 7 speeds at and around the thresholds, 5 distances, room samples inside and outside by more and by less than margins of 1 and 2, triangles on a 4x4 grid and 5 quadrangles seen from 6x6 points, rings of 2 rows, numbers within and beyond 16 bits, 3 days from dates at ends of months, histories of 2 (700,000 states) | filter, direction, median, crossing, geometry, legacy path, logs, replay line, state JSON, days and text of the statistics |
| `stats_race_saved` | 1 upload, 2 days, no fault | **violated**: an acknowledged document is lost |
| `room_exit` | the tracks of `observation`, margins 1 and 2 | **violated**: a target that was never confidently inside has room-exit evidence |
| `stats_history` | the days of `observation` | **violated**: a completed day is overwritten |

Why the bounds are enough. Two slots are what a newcomer, a reused slot and two
losses in one frame need; a third adds symmetric cases only. The limits keep the
order of the code's (exit < general < non-exit) and are at least one frame
apart where a run tells them apart; the evidence age is short enough to expire
while a track coasts. In `static_session` one target suffices: two tracks arise
when one coasts while another is confirmed. The arming time, window and holds
keep the order presence hold < arming + coasting, and the reentry window is
longer than the hold. In `handover` the hold must be longer than the gap: the
frame that drops the old track, then confirmation; the code's 3 s hold is 6
ticks, so a hold of 4 is stricter than the code.

In the storage, a document of one cell and two of two cells give partly and
wholly overwritten sectors; two dashboards and two sessions a take-over; two
days a resume. The scenario with faults has one dashboard, and neither patches
nor deletions, for a reason given in section 6 (erase before the header).
`saved` says nothing after the header sector was lost, because the code then
holds nothing.

In the mailbox, two settings suffice because each has its own flag; the
time-out and the longest run of the loop are below half of the clock's range, as
in the code, and the clock wraps. One pending driver event and two deferred
calls are the most that the setup's requests put in flight before they are
waited for. Rings of two rows turn, lose rows under a download, and trim. Three
days pass over the end of a month, of a year or a leap day, and a history of two
drops its oldest. On the last day nobody is seen
(`LastDayIsQuiet`), for size. `LegacyPresence` has the code's gains and decays and
shorter delays; its theorem covers all of them.

Deadlock is checked in the presence runs. The other runs say
`CHECK_DEADLOCK FALSE`: sessions, days, scans or log entries are bounded there,
so the model stops when they are used up, and the system is idle; single samples
of pure functions (geometry, text, replay line) end at once.

`mutants` in `PROJECT.json` names, for every property of a passing run, a
plausible bug (an operator named `Bug: ...` in the comment above it) that makes
TLC report that property.

**Fairness.**

- `PresenceSilence`: weak fairness of `SilentTick`. ESPHome calls the interval as
  long as the device runs, whatever the sensors do.
- `ControlMailbox`: weak fairness of the loop, of the clock and of a handler that
  has begun. Nothing is assumed of the dashboards: they may stop sending
  keepalives or go on for ever.
- `SetupWifi`: weak fairness of the scheduler's deferred calls, of the timers
  ESPHome holds, and of the event task. Nothing is assumed of the user, the radio
  or the page.

**Abstract specification.** `ImplementsPayloadStore` instantiates `PayloadStore`
with what a reader would find, per target, once the HTTP task has rewritten the
header: nothing, one document, or damage. Every step of the storage is a step
of it or a stutter. It is stated for the HTTP task alone, with faults; the main
loop breaks it (`stats_race_saved`). Pure algorithms have their reference beside
them: `Render` and the tree for the text edits, the triangles for the ray test,
the calendar for the summary, a grammar of JSON for the state.

## 4. Proofs

The proofs hold for every value of the constants that satisfies the named
assumptions of the modules: any number of slots and targets, any limits with
exit <= general <= non-exit, a window of at most 8 with 2 <= PIR hits <= hits,
any arming time, window and holds with motion hold <= presence hold, any
positive tick lengths; any speeds, settings and distances; any gains, decays and
delays of the legacy path with exit <= enter <= full; any settings, gates and
sensitivity levels, and any clock wider than the time-out and the longest run;
any targets, documents, sizes, sessions, dashboards, patches, deletions and days;
rings of any size and any retention; any dates, length of the history and number
of cells of the heatmap; areas of any number of corners; any access points.

- `PresencePipelineProofs`, of the tracker. Every frame treats a slot in one of four ways
  (matched, matched and opened never both, opened, aged: lemma `SlotUpdate`),
  so the properties reduce to lemmas about `UpdateTrack` and `AgeTrack` on one
  record. `TypeOK` and `CoastingWithinBudget` are inductive. The budget needs
  that evidence only ages between frames and that `Expires` is evaluated with
  the limit of the same frame. `FreshTrackWaits` needs a strengthening: an idle
  record *is* `IdleTrack`, so it carries no hits into the next track.
- `WalkProofs`, of the room exit. The invariant `CrossingInv` relates each record to the
  walk of its target: the walk has been as deep inside as the stored distance, and
  evidence stands only after a sample outside by more than its margin, with the
  walk deeper inside than that margin before and no sample confidently inside
  since. Frames that miss the target keep both sides. Margins are any naturals,
  sample by sample, so nothing is assumed of the covariance; that the target was
  inside by the margin of the *earlier* sample does not follow (`room_exit`).
- `WalkProofs`, of the handover. `Bridged`: while a person is followed, either a
  track is stable and the hold has just restarted, or none is and the hold has run
  for one tick more than the hits in a row of the track that follows the person.
  So the hold outlasts the gap: `ConfirmHits < PresenceHold` (3 frames against
  6 ticks) is the hypothesis, and it is the only relation of the two timers that
  is needed, whatever the slots, windows and limits are; that a track is opened
  at all needs a preferred slot (`SomeSlotIsPreferred`), a minimum of the scores.
  The other hypotheses say that the one-tick frame with one target and no room is
  among the inputs. TLC checked `Bridged` on the constants of `Handover.cfg`.
- `PresencePipelineProofs`, of the tick. Types through `SessionAfterStable`, `Vetoed`,
  `Armed`, `Debounce`, and facts about one tick.
- `PresenceSessionProofs`. The properties of section 3 are not inductive: the
  observer's variables say nothing about the fusion's flags. `SessionInv` adds
  the connection: the reentry window is at least as old as the observed
  absence, arming has lasted no longer than the observed overlap, an armed
  session is an established one, a veto lifted while nobody was seen means that
  only a coasting track can have armed again, a retained coordinate is that of
  the only track. `StaticReturnsInTime` and `MotionImpliesPresence` follow with
  the lemmas about a tick; the latter (theorem `MotionNeverOutlivesPresence`,
  which no run repeats) from the invariant that motion is at least as long
  unseen as presence.
- `ObservationProofs`, of the filter. Parity: an entry of the covariance that may differ from
  zero has row and column of the same axis. Prediction, gain, inverse and
  correction keep it, one lemma each; so the determinant is never degenerate and
  the filter of a followed track is not started anew. The direction needs a
  lemma that appends one step to the history.
- `ObservationProofs`, of the static distance. `RingInv` says which sample each place of the ring
  holds, the oldest where the next one goes; the median lies between any two.
- `ObservationProofs`, of the legacy path. `EmptyInv`: a confirmation is paid by confidence,
  every empty run since has cost at least `MissingDecay`, and what presence has
  outlived is counted by `sinceOn`. Hence the bound, across every switch.
- `ObservationProofs`, of the logs. `LogInv` describes the rings also in the
  middle of an update, where start or count are a store ahead (`EventsHeld`,
  `EventsGone`, `SamplesGone`): which entry each row holds, why the others have
  gone, what the events still to be appended and the last row of a pair say of
  the sample, and that what a download sent comes before its next row. A row
  stays where it is when another slot is written (`IndexDiffers`) and moves up
  by one when the start moves (`StartMoves`). `SnapshotAssumption`: the flags of
  a sample are Booleans.
- `ObservationProofs`, of the replay line. A clamped number is read as the number
  or the limit nearest to it (`ClampsAreNearest`). The writer's tables and those of
  `replay.py` agree (`TablesAgree`), and the reasons listed in `Unnamed` are just
  those in neither (`UnnamedHaveNoCode`), so a code is read by its name and they
  as "unknown" (`ReasonsAreNamed`); with these the readers' tables are gone through part by
  part (`RawIsRead`, `TargetIsRead`, `FieldsAreRead`). `NumbersAssumption`: a
  reading is an integer or `NaN`.
- `ObservationProofs`, of the geometry. For one edge: beyond either end of it the
  end is nearest, otherwise the foot of the perpendicular (`ToVectorIsNearest`,
  with Lagrange's identity for the squared lengths), and the distance is zero
  only on the edge (`ToVectorIsZero`). Of the finitely many fractions one is the
  least (`LeastFraction`: else there is a first number of edges without one).
- `StatsDaysProofs`. Three parts. The calendar: consecutive dates have
  consecutive numbers under the code's `day_serial_`, over the ends of months and
  leap Februaries, so different dates have different numbers and the days of a
  window are those that far back. The history: sorting is a permutation, so
  trimming keeps the newest, and adding a date that is there replaces it;
  `DaysInv` says of RAM, flash and the downloaded backup alike, since each may
  become the history again, that no date is there twice, the newest come first
  and each day has its heatmap. The heatmap: the runs of `Encode` cover the
  cells, and `Decode` reads the run that covers a cell. `StatsDayAssumption` asks
  that the dates start so many years after year 0 that no window reaches back to it.
- `RequestProofs`, of the resets. `ResetInv` adds to the property that what RAM claims is
  among the parts a boot copies, and that promises are about stored parts.
- `RequestProofs`, of the controls. What the property says of both tasks at rest,
  `MailInv` says in the middle of their work: an acknowledged value is the
  stored request unless the next one is being stored; it is in force once its
  flag is down and the loop does not hold it; a section has taken only requests
  of its own; and a value is what the dashboards are shown until the loop comes
  to its section. It needs that the value is stored before the flag is raised,
  and that the flag is cleared before the value is read. One lemma per action.
- `RequestProofs`, of the dispatch. `Home` numbers the handler of each URL; that
  each claim list stays at its number makes the nine disjoint (`ClaimsAtHome`),
  and each list is covered by the branches of its handler (`ClaimsHaveBranches`).
  The invariant: the handler that claims a request is still to be asked.
- `RequestProofs`, of the configuration. `CacheInv` says in the middle of an
  installation how far the stores have come (`StoredUpTo`): the members before
  the next store are those of the new document, so after the last one the cache
  is wholly the new one; and each zone text, also then, is one that was drawn in
  a configuration in use or in the one that replaces it. Hypothesis
  `AllReadBack`: cutting the members out of each document that the dashboard
  writes gives the members, a zone's text is found to be of its own type only, and
  the state JSON composed of the zones gives back their ids, names and types.
- `RequestProofs`, of the list of networks. `ListsFirst` is the invariant of the
  list over the records: each named network once, by a record that is at least as
  strong as every record so far. Sorting permutes it (`SortedIsListed`).
  Hypothesis `PagesReadBack`: the JSON of a page gives back the list it was
  made of.
- `StorageClientsProofs`. Types: whatever was begun, what is left of it has one
  of four shapes, at most two effects on payloads and then the header, so the
  header about to be written is known at every step.
  `UploadInv` follows an upload through a call: the cells a dashboard has sent
  are in flash exactly as far as the header counts them, or another request is at
  work on the target; the header that is to be written counts what its call
  programs. It gives `NothingForged`, with the main loop in between, since the
  loop writes back older headers but never cells of other targets.
  `SuccessionInv` relates each pending call to what a reader would find: the
  call only damages what it rewrites. With it every effect is a step of
  `PayloadStore` or a stutter. `AcknowledgedInv` says `SavedDocumentIntact` in
  the middle of a call: what is acknowledged is in the header that counts and in
  the one to be written, unless the call has begun to touch it.
  Three hypotheses. `InOrder`, for all three: a commit with a hole is accepted
  (section 6). While faults happen, one dashboard and no patches or deletions of
  its targets: a call that erases and then fails leaves a header that lies
  (section 6, "erases before it rewrites the header"). `Days = 0`, for
  `SavedDocumentIntact` and the refinement: the main loop breaks both
  (`stats_race_saved`). TLC checked the three invariants on instances with and
  without faults, patches and days before they were proved.

- `HttpUploadsProofs`. `ClientsInv` says of the one client that nothing has
  disturbed where the storage stands: between requests it is where the client has
  come to or, when the last answer was lost, one request further (`Waiting`), and
  the request that is due is granted from both (`DueIsGranted`); in a call, what
  its remaining effects will have done (`Starting`, `Chunking`, `Committing`).
  `UploadAssumption` asks that a patch makes a document of a document. The module
  takes its lemmas on headers and plans from `StorageClientsProofs`, hence also the
  constants of `StorageClients`; of their assumptions it needs that `NoHeader` is
  no header. TLC checked the invariant with clients on the same and on different
  targets.

`AllReadBack` and `PagesReadBack` are about texts and scanners only: they do not
mention a state. The proofs take them as hypotheses because a search through a
text of any length is an induction over it. They are not left open: TLC
evaluates them in every run of `MCDocuments` and `MCRequests`
(`ASSUME TheConfigsReadBack`, `ASSUME ThePagesReadBack`), with names that are
keys of the document, need escapes or hold brackets. What the theorems add is
every interleaving of the stores, every order of the records and any number of them.

Only model-checked:

- `PatchesKeepTheDocument`, `StatsAreReadBack`: what scanners find in a text of
  any length, and nothing else; no invariant of a state machine is in question.
- `StateIsJson`: the grammar it is judged by is recursive (`AfterValue` in
  `StateText`, the one module with `RECURSIVE`).
- `SidesAreRight`: that a ray crosses an area of any number of corners as often as
  its triangles say is an induction over the triangulation.
- The setup: its properties are the liveness properties `ScanEnds` and
  `SetupEnds`; with `EngineeringEnds` and the liveness of `PresenceSilence` they
  are out of the provers' reach, which have no liveness under fairness, no
  `ENABLED` and no induction over data with an operator parameter.

## 5. Findings

1. `stats_race_saved`: at the day rollover the main loop writes back a header it
   read before a dashboard's commit, and the committed document is gone. The
   comment in `interval-500ms.yaml:771-773` holds that a save once a day is safe.
2. `room_exit`: the earlier of two samples is judged by the margin of the later
   (`presence_tracker.cpp:475`), which is computed anew from a covariance that
   shrinks while the filter converges. With the code's initial covariance of 500
   and noise of 200 mm² the margin is about 26 mm at the first sample and 19 mm at
   the second: a target that opens 22 mm inside, in doubt by its own margin, and
   is next seen 25 mm outside has left the room.
   `docs/presence-exit-zone.md:38-41` asks for a confident crossing.
3. `stats_history`: after midnight, a change to a time zone further west makes
   the completed day the current one again, with counters at zero, and its second
   end overwrites it (`stats_store.cpp:442`); `docs/api-contract.md:336-337` says
   completed days are preserved.

## 6. Observed, without a run

Statements of the repository that the code does not keep, stated in the modules
beside the properties, each named here:

- `CommitNeedsEveryByte` (`StorageClients`): progress is the maximum of chunk
  ends (`radar_storage.cpp:487`), so a commit with a hole is accepted;
  `api-contract.md:374-375`. The dashboard sends every chunk in order.
- `PersistReportsTruth` (`StorageClients`): an interrupted statistics write is
  continued by another document of the same length and reported stored
  (`stats_store.cpp:782`).
- `MismatchIsConflict` (`HttpUploads`): configuration and statistics answer a
  session mismatch with 500 (`device_config_handler.cpp:184-196`,
  `stats_handler.cpp:117-129`), 409 in `api-contract.md:164`.
- `CrossingIsNoted` (`RoomCrossing`): two consecutive samples are compared, so a
  sample inside the margin hides a crossing (`presence_tracker.cpp:475`, `:481`;
  `docs/presence-exit-zone.md:38`).
- `RoomContextIsAvailable` (`ConfigCache`): the cache looks for the first
  `"floorplan"` in the text, so a zone that is called so and followed by another
  hides the room (`device_config_cache.cpp:202-212`;
  `docs/presence-exit-zone.md:37`). `CacheIsOneConfig` excepts that room, and one
  of the configurations of the run has it.
- `GuardBlocksReset` (`SystemReset`): no reset looks at the boot guard
  (`system_handler.cpp:205-256`; `api-contract.md:298`).
- `KeepaliveHolds` (`ControlMailbox`): a keepalive stored after the loop took its
  `now` has an age that wraps, and the session ends
  (`radar_api_server.h:190-191`; `api-contract.md:352-354`).
- `PersistedIsVerified` (`SetupWifi`): credentials are stored with an address
  that an earlier network gave (`setup_wifi_manager.cpp:233` against `:142`).
- `NoDanglingComma` (`DiagnosticLogs`): the separator is sent before a row that
  may be gone (`diagnostic_handler.cpp:55-59`).
- `LinesAreJson` (`ReplayLine`): before the first illuminance reading a line of
  the replay log holds `"lx":nan` (`presence_replay_log.cpp:30`, `:118`), and
  `replay.py:408` stops there; `docs/presence-replay.md:53`.
- `ReplayReconstructs` (`ReplayLine`): the native runner is not given all the
  inputs the tracker had (`presence_replay_log.cpp:49-55`,
  `tracker_runner.cpp:107-145`; `docs/presence-replay.md`, 2.2).

Behaviour worth knowing, outside the properties:

- A start, a patch or a deletion erases before it rewrites the header. If a flash
  operation or the power fails in between, the header still describes the old
  payload; an upload of that target that was open and complete in the old header
  is then committed, over erased flash. This is why the runs with faults have
  one dashboard, and delete nothing but the statistics.
- The reentry window starts with the first tick that *sees* presence off, one
  tick after it went off.
- When two tracks are lost in one update, the reason of the last slot stands.
- A power loss between the erase and the write of the header sector loses the
  metadata of all payloads; one during the statistics write loses the history,
  because the only copy is erased first. A header that is unreadable for once is
  rewritten from its default by the next call.
- An upload that is abandoned keeps the slot, and the statistics of the
  following days are then not persisted.
- A commit repeated after its target was deleted is still answered with 200.
  Every failed commit of configuration and statistics is answered with 409.
- A piece that cannot be read ends a download like the last one
  (`device_config_handler.cpp:107-111`, `floorplan_handler.cpp:433-437`).
- A reboot request within the 2.5 s after a Wi-Fi reset takes over its timeout,
  and the credentials are not erased (`setup_wifi_manager.cpp:594-597`, `:633-636`).
- A reset of the statistics alone leaves the loop's counters of the day
  (`system_handler.cpp:198-203`).
- Names of zones with quotes are escaped twice in the state JSON.
- The timezone is compared with a mirror that the loop may have set back to the
  old zone while a change is posted: asking for the old zone again is then
  answered as unchanged, and the posted change goes on
  (`control_handler.cpp:312`). `AcknowledgedIsApplied` counts the requests that
  were answered as a change.
- `max_hold_expired` and `still_confidence_expired` cannot be reached with the
  code's numbers: confidence runs out first.
- Reasons without a code are read from the replay log as "unknown" (`Unnamed` in
  `ReplayLine`): on the default path the still fields hold what the tracker says,
  and of that `tentative`, `coasting` and every reason but `none` have no code
  there (`interval-500ms.yaml:526-527`, `presence_replay_log.cpp:242-262`); the
  tracker's own two fields of the line have them all. Some reasons of the legacy
  path have none either, nor has `boot`, before the first change.
- `diagnostic_log.cpp:186` converts a float to `int` without a test for NaN.

## 7. Not modelled

- **TargetAssociation**: floating-point costs; the tracker ranges over every
  matching they can lead to.
- **RangeGate and filter modes** (sections 1 to 3 of the lambda): thresholds on
  measured values. The tracker takes every validity as an input, so the latches
  restrict what it is given and add nothing to it.
- **Direction state machine and LED** (sections 6 and 7): text and light, read by
  nothing. The direction of a track is in `TrackFilter`.
- **Dashboard** storage queue, save coordinator, backup and calibration: a tab
  serialises its own requests; the device is modelled against clients that do
  not. Views, image analysis and embedded assets have no protocol.
- **API key encryption, hex decoding, texts of the setup page, number
  formatting**: data.
- **Replay tools** beyond reading a line: evaluation of recorded data.
- `delete_all` of the storage has no caller. The wrap of the millisecond counter
  in `has_recent_exit_evidence_`, and `now_ms == 0` as "no time stamp", are left
  out of the tracker (they shorten evidence).

## 8. Plan

1. `RangeGate` in front of the tracker, and the LED with `UINT32_MAX` as "no end".
2. The dashboard's save coordinator as a client of `StorageClients`: partial
   failure of a save in several steps.

--------------------------- MODULE ControlMailbox ---------------------------
(* The control requests of the dashboards.  The HTTP task stores a request   *)
(* in ControlState and raises a flag; the 500 ms lambda of the main loop     *)
(* clears the flag, reads the request and applies it.  Nothing locks         *)
(* ControlState, so both tasks are modelled store by store.  The tuning      *)
(* session of the static radar is a request that must be repeated: the loop  *)
(* ends it when the time stamp of the last one is too old.                   *)
EXTENDS Integers, Sequences, FiniteSets

CONSTANTS
    Plain,        \* settings without further rules: LED, offsets, ...
    Timezone,     \* the setting that answers a repeated request itself
    Lowest, Highest,  \* the range a numeric request is clamped to
    Inputs,       \* values found in request bodies
    Malformed,    \* a body without the field, or with one of another kind
    Gates, Levels,    \* gates of the static radar, requested sensitivities
    MaxLevel,     \* the highest sensitivity, 100
    Timeout,      \* tuning_timeout_ms, in ticks of time
    LongestRun,   \* bound: how long one run of the lambda takes
    Wrap          \* 2^32: times are unsigned and differences wrap

ASSUME ControlAssumption ==
    /\ Lowest \in Int /\ Highest \in Int /\ Lowest <= Highest
    /\ MaxLevel \in Nat /\ Levels \subseteq 0..MaxLevel
    /\ Timeout \in Nat \ {0} /\ LongestRun \in Nat
    /\ Wrap \in Nat /\ Wrap > Timeout + LongestRun
    /\ Inputs \subseteq Int /\ "gate" \notin Plain \union {Timezone}

Settings == Plain \union {Timezone}
Values == Lowest..Highest

VARIABLES
    requested, pending, \* per setting, the request and its flag
    shown,       \* per setting, what GET /api/control/status reports
    device,      \* per setting, the value in force
    gateRequest, \* the stored gate and sensitivity, and their flag
    threshold,   \* per gate, the move and still thresholds in force
    session,     \* what the HTTP task wants of the tuning session
    keepAge,     \* time since the last keepalive
    engineering, \* the static radar is in engineering mode
    tuning,      \* the tuning state shown to the dashboards
    handler,     \* the request being stored by the HTTP task
    loop,        \* what the lambda does next, and how old its "now" is
    acknowledged \* (history variable) the last change that was accepted

mailVars == <<requested, pending, shown, device>>
gateVars == <<gateRequest, threshold>>
sessionVars == <<session, keepAge, engineering, tuning>>
controlVars == <<mailVars, gateVars, sessionVars, handler, loop, acknowledged>>

-----------------------------------------------------------------------------
(* The HTTP task.                                                            *)

Clamp(v) == IF v < Lowest THEN Lowest ELSE IF v > Highest THEN Highest ELSE v

Resting == [at |-> "idle"]
HandlerFree == handler = Resting

\* body_arg and the read_*_field helpers: a body gives a value or a 400, and a
\* timezone must be one of the catalog.
Readable(s, v) == v # Malformed /\ (s = Timezone => v \in Values)

\* The timezone in force is not requested again.
AlreadyShown(s, v) == s = Timezone /\ shown[s] = v

\* The stores of a handler: first the value, then the flag.
PostSetting(s, v) ==
    /\ HandlerFree
    /\ Readable(s, v)
    /\ ~AlreadyShown(s, Clamp(v))
    /\ requested' = [requested EXCEPT ![s] = Clamp(v)]
    /\ handler' = [at |-> "raise flag", setting |-> s]
    /\ UNCHANGED <<pending, shown, device, gateVars, sessionVars, loop, acknowledged>>

FinishSetting ==
    /\ handler.at = "raise flag"
    /\ LET s == handler.setting
       IN  /\ pending' = [pending EXCEPT ![s] = TRUE]
           /\ shown' = [shown EXCEPT ![s] = requested[s]]
           /\ acknowledged' = [acknowledged EXCEPT ![s] = <<requested[s]>>]
    /\ handler' = Resting
    /\ UNCHANGED <<requested, device, gateVars, sessionVars, loop>>

\* A gate is a number of its own before its sensitivity is stored.
PostGate(g, v) ==
    /\ HandlerFree
    /\ tuning.active
    /\ gateRequest' = [gateRequest EXCEPT !.gate = g]
    /\ handler' = [at |-> "store level", level |-> v]
    /\ UNCHANGED <<mailVars, threshold, sessionVars, loop, acknowledged>>

FinishGate ==
    /\ handler.at = "store level"
    /\ gateRequest' = [gateRequest EXCEPT !.level = handler.level, !.pending = TRUE]
    /\ handler' = Resting
    /\ acknowledged' = [acknowledged EXCEPT !["gate"] = <<gateRequest.gate, handler.level>>]
    /\ UNCHANGED <<mailVars, threshold, sessionVars, loop>>

\* The flag is raised only by a change, an active request is a keepalive.
PostSession(active) ==
    /\ HandlerFree
    /\ active => tuning.available
    /\ session' = [session EXCEPT !.active = active]
    /\ handler' = [at |-> "store keepalive", active |-> active,
                   changed |-> session.active # active]
    /\ UNCHANGED <<mailVars, gateVars, keepAge, engineering, tuning, loop, acknowledged>>

FinishSession ==
    /\ handler.at = "store keepalive"
    /\ keepAge' = IF handler.active THEN 0 ELSE keepAge
    /\ session' = [session EXCEPT !.pending = @ \/ handler.changed]
    /\ handler' = Resting
    /\ UNCHANGED <<mailVars, gateVars, engineering, tuning, loop, acknowledged>>

\* GET /api/control/status
StatusReport(s) == [value |-> shown[s], applyPending |-> pending[s]]

-----------------------------------------------------------------------------
(* The main loop: one run of the lambda, in the order of its sections.       *)

Sections == <<"timezone", "plain", "session", "gate", "publish">>
Section == Sections[loop.section]
SleepingLoop == [section |-> 0, lag |-> 0, taken |-> {}]
NextSection == [loop EXCEPT !.section = @ + 1, !.taken = {}]

\* "now" is read here and used until the end.
BeginRun ==
    /\ loop = SleepingLoop
    /\ loop' = [loop EXCEPT !.section = 1]
    /\ UNCHANGED <<mailVars, gateVars, sessionVars, handler, acknowledged>>

InSection(name) == loop.section # 0 /\ Section = name

SettingsOf(name) == IF name = "timezone" THEN {Timezone}
                    ELSE IF name = "plain" THEN Plain ELSE {}

\* take_*_request clears the flag, and then reads the request.
ClearFlag(s) ==
    /\ InSection("timezone") \/ InSection("plain")
    /\ s \in SettingsOf(Section) /\ s \notin loop.taken
    /\ pending[s]
    /\ pending' = [pending EXCEPT ![s] = FALSE]
    /\ loop' = [loop EXCEPT !.taken = @ \union {s}]
    /\ UNCHANGED <<requested, shown, device, gateVars, sessionVars, handler, acknowledged>>

\* Bug: the flags are cleared after the requests were read.
ApplyThenClear ==
    /\ InSection("timezone") \/ InSection("plain")
    /\ device' = [s \in Settings |-> IF s \in loop.taken THEN requested[s] ELSE device[s]]
    /\ pending' = [s \in Settings |-> s \notin SettingsOf(Section) /\ pending[s]]
    /\ loop' = NextSection
    /\ UNCHANGED <<requested, shown, gateVars, sessionVars, handler, acknowledged>>

ApplySettings ==
    /\ InSection("timezone") \/ InSection("plain")
    /\ \A s \in SettingsOf(Section) \ loop.taken : ~pending[s]
    /\ device' = [s \in Settings |-> IF s \in loop.taken THEN requested[s] ELSE device[s]]
    /\ loop' = NextSection
    /\ UNCHANGED <<requested, pending, shown, gateVars, sessionVars, handler, acknowledged>>

\* take_static_radar_tuning_session_request: the age of the keepalive is an
\* unsigned difference with "now", which is older than the present by lag.
Expired == session.active /\ (keepAge - loop.lag) % Wrap >= Timeout

\* Bug: a timeout does not raise the flag.
TakeOnlyRequests ==
    /\ InSection("session")
    /\ session' = [active |-> session.active /\ ~Expired, pending |-> FALSE]
    /\ engineering' = IF session.pending THEN session.active /\ ~Expired ELSE engineering
    /\ loop' = NextSection
    /\ UNCHANGED <<mailVars, gateVars, keepAge, tuning, handler, acknowledged>>

TakeSession ==
    /\ InSection("session")
    /\ LET active == session.active /\ ~Expired
           changed == session.pending \/ Expired
       IN  /\ session' = [active |-> active, pending |-> FALSE]
           /\ engineering' = IF changed THEN active ELSE engineering
    /\ loop' = NextSection
    /\ UNCHANGED <<mailVars, gateVars, keepAge, tuning, handler, acknowledged>>

\* A product sensitivity is both thresholds of the gate, counted from the top.
BothThresholds(level) == [move |-> MaxLevel - level, still |-> MaxLevel - level]

\* GET /api/control/static-radar-tuning: the lower threshold is the effective
\* one, and the result is kept within the scale.
ReportedLevel(t) ==
    LET level == MaxLevel - (IF t.move < t.still THEN t.move ELSE t.still)
    IN  IF level < 0 THEN 0 ELSE IF level > MaxLevel THEN MaxLevel ELSE level

ClearGateFlag ==
    /\ InSection("gate") /\ loop.taken = {}
    /\ gateRequest.pending
    /\ gateRequest' = [gateRequest EXCEPT !.pending = FALSE]
    /\ loop' = [loop EXCEPT !.taken = {"gate"}]
    /\ UNCHANGED <<mailVars, threshold, sessionVars, handler, acknowledged>>

ApplyGate ==
    /\ InSection("gate")
    /\ gateRequest.pending => loop.taken # {}
    /\ threshold' = IF loop.taken = {} THEN threshold
                    ELSE [threshold EXCEPT ![gateRequest.gate] =
                             BothThresholds(gateRequest.level)]
    /\ loop' = NextSection
    /\ UNCHANGED <<mailVars, gateRequest, sessionVars, handler, acknowledged>>

\* update_control_status
Mirror == device

\* update_static_radar_tuning_status.  The radar is
\* available from its first frame on.
Publish ==
    /\ InSection("publish")
    /\ \E available \in {a \in BOOLEAN : tuning.available => a} :
          tuning' = [available |-> available, active |-> available /\ engineering]
    /\ shown' = Mirror
    /\ loop' = SleepingLoop
    /\ UNCHANGED <<requested, pending, device, gateVars, session, keepAge, engineering,
                   handler, acknowledged>>

LoopRuns ==
    \/ BeginRun
    \/ \E s \in Settings : ClearFlag(s)
    \/ ApplySettings
    \/ TakeSession
    \/ ClearGateFlag
    \/ ApplyGate
    \/ Publish

\* Ages are counted up to a bound that every comparison tells from less.
OldestAge == Timeout + LongestRun
TimePasses ==
    /\ loop.section # 0 => loop.lag < LongestRun
    /\ keepAge' = IF keepAge < OldestAge THEN keepAge + 1 ELSE OldestAge
    /\ loop' = IF loop.section = 0 THEN loop ELSE [loop EXCEPT !.lag = @ + 1]
    /\ UNCHANGED <<mailVars, gateVars, session, engineering, tuning, handler, acknowledged>>

-----------------------------------------------------------------------------
ControlInit ==
    /\ requested = [s \in Settings |-> Lowest]
    /\ pending = [s \in Settings |-> FALSE]
    /\ \E v \in [Settings -> Values] : device = v /\ shown = v
    /\ \E g \in Gates, v \in Levels :
          /\ gateRequest = [gate |-> g, level |-> v, pending |-> FALSE]
          /\ threshold = [h \in Gates |-> BothThresholds(v)]
    /\ session = [active |-> FALSE, pending |-> FALSE]
    /\ keepAge = OldestAge
    /\ engineering = FALSE
    /\ tuning = [available |-> FALSE, active |-> FALSE]
    /\ handler = Resting
    /\ loop = SleepingLoop
    /\ acknowledged = [s \in Settings \union {"gate"} |-> << >>]

HandlerRuns == FinishSetting \/ FinishSession \/ FinishGate

ControlNext ==
    \/ \E s \in Settings, v \in Inputs \union {Malformed} : PostSetting(s, v)
    \/ \E g \in Gates, v \in Levels : PostGate(g, v)
    \/ \E active \in BOOLEAN : PostSession(active)
    \/ HandlerRuns
    \/ LoopRuns
    \/ TimePasses

\* The loop and the clock do not stop; nothing is assumed of the dashboards.
ControlFairness == /\ WF_controlVars(LoopRuns)
                   /\ WF_controlVars(TimePasses)
                   /\ WF_controlVars(HandlerRuns)

ControlSpec == ControlInit /\ [][ControlNext]_controlVars /\ ControlFairness

-----------------------------------------------------------------------------
(* Properties.                                                               *)

ControlTypeOK ==
    /\ requested \in [Settings -> Values] /\ device \in [Settings -> Values]
    /\ shown \in [Settings -> Values] /\ pending \in [Settings -> BOOLEAN]
    /\ gateRequest \in [gate : Gates, level : Levels, pending : BOOLEAN]
    /\ threshold \in [Gates -> [move : 0..MaxLevel, still : 0..MaxLevel]]
    /\ session \in [active : BOOLEAN, pending : BOOLEAN]
    /\ keepAge \in 0..OldestAge /\ engineering \in BOOLEAN
    /\ tuning \in [available : BOOLEAN, active : BOOLEAN]
    /\ loop \in [section : 0..Len(Sections), lag : 0..LongestRun,
                 taken : SUBSET (Settings \union {"gate"})]

\* However the stores of the two tasks interleave, no acknowledged change is
\* lost: once its flag is down and both tasks are between requests, the value
\* acknowledged last is the one in force, and the one the dashboard reads back.
AcknowledgedIsApplied ==
    HandlerFree /\ loop = SleepingLoop =>
        /\ \A s \in Settings :
              ~StatusReport(s).applyPending =>
                  /\ acknowledged[s] # << >> => acknowledged[s] = <<device[s]>>
                  /\ StatusReport(s).value = device[s]
        /\ LET last == acknowledged["gate"]
           IN  ~gateRequest.pending /\ last # << >> => ReportedLevel(threshold[last[1]]) = last[2]

\* A tuning session ends when the dashboards are gone: engineering mode does
\* not stay on unless keepalives go on arriving.
EngineeringEnds ==
    engineering /\ keepAge > 0 ~> ~engineering \/ keepAge = 0

\* api-contract.md: "An active request is also a keepalive", the firmware
\* leaves engineering mode "when no active keepalive arrives for 15 seconds".
\* (The code does not keep it: see "Observed, without a run" in README.md.)
KeepaliveHolds ==
    [][session.active /\ ~session'.active /\ loop' # loop => keepAge >= Timeout]_controlVars
=============================================================================

----------------------------- MODULE SetupWifi -----------------------------
(* Wi-Fi setup: the page that a user opens over the setup access point, the  *)
(* HTTP task that answers it, the main loop that runs deferred calls and     *)
(* timeouts, the event task that hears the radio, and restarts.              *)
EXTENDS Naturals, Sequences, FiniteSets

CONSTANTS
    Networks,    \* networks with the password that the user typed for them
    Works,       \* those on which an address is obtained
    NoNetwork,   \* no credentials
    MaxDeferred, \* bound: requests arrive while no more calls wait
    MaxEvents    \* bound: requests arrive while no more events wait

ASSUME SetupAssumption == Works \subseteq Networks /\ NoNetwork \notin Networks

VARIABLES
    setup,     \* the setup_wifi_* globals: stage, candidate, address, overdue
    scanning,  \* setup_network_scan_running
    deferred,  \* calls waiting for the main loop, oldest first
    timers,    \* the named timeouts that are set
    events,    \* radio events waiting for the event task, oldest first
    radio,     \* mode, network of the station, its link, who started it
    stored,    \* credentials in the ESPHome preference and in the IDF flash
    apiKey,    \* the key of the native API
    handedOff, \* ha_setup_handoff_started_
    arming,    \* the HTTP task is about to set the timer of a scan
    page,      \* where the user of the setup page is
    verified   \* (history variable) credentials that have had an address

radioVars == <<radio, events>>
setupVars == <<setup, scanning, deferred, timers, radioVars, stored, apiKey, handedOff,
               arming, page, verified>>

Stages == {"idle", "ready", "connecting", "connected", "failed"}
Timers == {"prepare", "finish scan", "finish scan and open", "ap close",
           "auto reboot", "handoff"}
Credentials == Networks \union {NoNetwork}
Calls == {<<"pause">>, <<"open">>, <<"close">>} \union ({"connect"} \X Networks)

-----------------------------------------------------------------------------
(* Shared steps of the handlers.                                             *)

IdleSetup == [stage |-> "idle", candidate |-> NoNetwork, address |-> FALSE,
              overdue |-> FALSE]
Erased == [esphome |-> NoNetwork, idf |-> NoNetwork]
ReadySetup == [IdleSetup EXCEPT !.stage = "ready"]

\* ESPHome knows only of connections that it started.
WifiConnected == radio.link = "up" /\ radio.owner = "esphome"
StationHasAddress == radio.link = "up"

Reachable == radio.mode = "apsta" \/ radio.link = "up"
RequestArrives == /\ Reachable /\ ~arming
                  /\ Len(deferred) + 2 <= MaxDeferred /\ Len(events) <= MaxEvents

\* Every page of the setup API opens the session that was not open yet.
BeginsSession == setup.stage = "idle"
Begun == IF BeginsSession THEN ReadySetup ELSE setup
DeferBegin == IF ~BeginsSession THEN deferred
              ELSE deferred \o (IF WifiConnected THEN << >> ELSE <<<<"pause">>>>) \o <<<<"open">>>>

\* A scan is not started during another one or during a connection attempt.
CanScan(stage) == ~scanning /\ stage # "connecting"

\* Bug: a scan that the driver refused still counts as running.
ForgetRefusal(accepted) == TRUE

ScanStarted(accepted) == accepted

\* Both copies are written, and either write may fail.
Persisted(esphome, idf) ==
    IF setup.candidate = NoNetwork THEN stored
    ELSE [esphome |-> IF esphome THEN setup.candidate ELSE stored.esphome,
          idf |-> IF idf THEN setup.candidate ELSE stored.idf]

-----------------------------------------------------------------------------
(* The setup page and the HTTP task.                                         *)

Keep == UNCHANGED <<radioVars, stored, handedOff, verified>>

\* GET /setup, GET /api/setup/networks
OpenPage ==
    /\ page = "closed" /\ RequestArrives
    /\ setup' = Begun /\ deferred' = DeferBegin
    /\ page' = "form"
    /\ Keep /\ UNCHANGED <<scanning, timers, apiKey, arming>>

\* POST /api/setup/prepare: a demo key is replaced, and the restart that makes
\* the new one effective is guarded by a timer.
Prepare ==
    /\ page = "form" /\ RequestArrives
    /\ apiKey' = "custom"
    /\ timers' = IF apiKey = "custom" THEN timers ELSE timers \union {"auto reboot"}
    /\ page' = "ready"
    /\ Keep /\ UNCHANGED <<setup, scanning, deferred, arming>>

\* POST /api/setup/apply-wifi
ApplyWifi(c) ==
    /\ page \in {"ready", "retry"} /\ RequestArrives
    /\ setup' = [IdleSetup EXCEPT !.stage = "connecting", !.candidate = c]
    /\ deferred' = Append(deferred, <<"connect", c>>)
    /\ page' = "waiting"
    /\ Keep /\ UNCHANGED <<scanning, timers, apiKey, arming>>

\* GET /api/setup/status: it also moves the stage, on the address that it has
\* or finds, or on the time that has passed.
PolledStage(s, address) ==
    IF WifiConnected /\ address THEN "connected"
    ELSE IF s.stage # "connecting" THEN s.stage
    ELSE IF s.address THEN "connected"
    ELSE IF s.overdue THEN "failed" ELSE "connecting"

PolledSetup ==
    LET address == Begun.address \/ StationHasAddress
    IN  [Begun EXCEPT !.address = @ \/ (WifiConnected /\ address),
                      !.stage = PolledStage(Begun, address)]

ReportsConnected(s) == (WifiConnected \/ s.stage = "connected")
                       /\ (s.address \/ StationHasAddress)

PollStatus ==
    /\ page \in {"form", "waiting"} /\ RequestArrives
    /\ setup' = PolledSetup /\ deferred' = DeferBegin
    /\ page' = IF ReportsConnected(PolledSetup)
               THEN IF page = "waiting" THEN "report" ELSE "complete"
               ELSE page
    /\ Keep /\ UNCHANGED <<scanning, timers, apiKey, arming>>

\* The page does not wait for ever.
PageTimeout ==
    /\ page = "waiting"
    /\ page' = "retry"
    /\ Keep /\ UNCHANGED <<setup, scanning, deferred, timers, apiKey, arming>>

\* POST /api/setup/connected; the access point stays for five minutes.
Connected ==
    /\ page = "report" /\ RequestArrives
    /\ setup' = [setup EXCEPT !.stage = "connected", !.address = @ \/ StationHasAddress]
    /\ timers' = (timers \ {"auto reboot"}) \union {"ap close"}
    /\ page' = "complete"
    /\ Keep /\ UNCHANGED <<scanning, deferred, apiKey, arming>>

\* POST /api/setup/finish
Finish ==
    /\ page = "complete" /\ RequestArrives
    /\ \E esphome, idf \in BOOLEAN : stored' = Persisted(esphome, idf)
    /\ setup' = IdleSetup
    /\ deferred' = Append(deferred, <<"close">>)
    /\ timers' = timers \ {"auto reboot", "ap close"}
    /\ page' = "closed"
    /\ UNCHANGED <<radioVars, handedOff, verified, scanning, apiKey, arming>>

ClosePage ==
    /\ page # "closed"
    /\ page' = "closed"
    /\ Keep /\ UNCHANGED <<setup, scanning, deferred, timers, apiKey, arming>>

\* POST /api/setup/scan: the scan starts before its timer is set.
StartScan ==
    /\ page = "form" /\ RequestArrives
    /\ setup' = Begun /\ deferred' = DeferBegin
    /\ CanScan(Begun.stage)
    /\ \E ok \in BOOLEAN : scanning' = ScanStarted(ok) /\ arming' = ok
    /\ Keep /\ UNCHANGED <<timers, apiKey, page>>

FinishScanAfter(name) == (timers \ {"finish scan", "finish scan and open"}) \union {name}

ArmScanTimer ==
    /\ arming
    /\ timers' = FinishScanAfter("finish scan")
    /\ arming' = FALSE
    /\ Keep /\ UNCHANGED <<setup, scanning, deferred, apiKey, page>>

\* POST /api/system/ha-setup-handoff of the dashboard, to which the setup page
\* leads in the end.
RequestHandOff ==
    /\ StationHasAddress /\ ~arming /\ page = "closed" /\ setup.stage = "idle"
    /\ ~handedOff
    /\ handedOff' = TRUE
    /\ timers' = timers \union {"handoff"}
    /\ UNCHANGED <<setup, scanning, deferred, radioVars, stored, apiKey, arming, page, verified>>

Requests ==
    \/ OpenPage \/ Prepare \/ PollStatus \/ PageTimeout \/ Connected \/ Finish
    \/ ClosePage \/ StartScan \/ RequestHandOff
    \/ \E c \in Networks : ApplyWifi(c)

-----------------------------------------------------------------------------
(* The main loop.                                                            *)

\* The driver tells the event task when its access point stops.
InMode(mode, r) == [r EXCEPT !.mode = mode]
Stops(mode) == IF radio.mode = "apsta" /\ mode = "sta" THEN Append(events, "ap stop") ELSE events
Disconnected(r) == [r EXCEPT !.link = "down"]

\* The driver may refuse the credentials; the old connection is gone then.
ConnectStation(c) ==
    /\ radio' \in {[mode |-> "apsta", target |-> c, link |-> "trying", owner |-> "idf"],
                   InMode("apsta", Disconnected(radio))}
    /\ UNCHANGED events

PauseStation == radio' = InMode("apsta", Disconnected(radio)) /\ UNCHANGED events

OpenAccessPoint == radio' = InMode("apsta", radio) /\ UNCHANGED events

CloseNow == radio' = InMode("sta", radio) /\ events' = Stops("sta")

RunDeferred ==
    /\ deferred # << >>
    /\ deferred' = Tail(deferred)
    /\ LET call == Head(deferred)
       IN  \/ call[1] = "connect" /\ ConnectStation(call[2])
           \/ call = <<"pause">> /\ PauseStation
           \/ call = <<"open">> /\ OpenAccessPoint
           \/ call = <<"close">> /\ CloseNow
    /\ UNCHANGED <<setup, scanning, timers, stored, apiKey, handedOff, arming, page, verified>>

\* pause_setup_sta_now_: only the station is left, for the scan.
PauseStationNow == radio' = InMode("sta", Disconnected(radio)) /\ events' = Stops("sta")

\* prepare_setup_access_point, 30 s after the start: without a connection the
\* networks are scanned, and then the access point opens.
PrepareAccessPoint ==
    /\ "prepare" \in timers
    /\ IF WifiConnected \/ setup.stage # "idle"
       THEN timers' = timers \ {"prepare"} /\ UNCHANGED <<setup, scanning, radioVars>>
       ELSE /\ setup' = ReadySetup
            /\ PauseStationNow
            /\ IF CanScan("ready") THEN \E ok \in BOOLEAN : scanning' = ScanStarted(ok)
                                   ELSE UNCHANGED scanning
            /\ timers' = FinishScanAfter("finish scan and open") \ {"prepare"}
    /\ UNCHANGED <<deferred, stored, apiKey, handedOff, arming, page, verified>>

FinishScan(name) ==
    /\ name \in timers \intersect {"finish scan", "finish scan and open"}
    /\ timers' = timers \ {name}
    /\ scanning' = FALSE
    /\ deferred' = IF name = "finish scan" THEN deferred ELSE Append(deferred, <<"open">>)
    /\ UNCHANGED <<setup, radioVars, stored, apiKey, handedOff, arming, page, verified>>

\* Bug: the stage is kept while the access point closes.
CloseBeforeReset ==
    /\ "ap close" \in timers /\ timers \intersect {"prepare", "finish scan and open"} = {}
    /\ \E esphome, idf \in BOOLEAN : stored' = Persisted(esphome, idf)
    /\ timers' = timers \ {"auto reboot", "ap close"}
    /\ deferred' = Append(deferred, <<"close">>)
    /\ UNCHANGED <<setup, scanning, radioVars, apiKey, handedOff, arming, page, verified>>

\* Its delay is ten times that of prepare_setup_access_point.
CloseAccessPoint ==
    /\ "ap close" \in timers /\ timers \intersect {"prepare", "finish scan and open"} = {}
    /\ \E esphome, idf \in BOOLEAN : stored' = Persisted(esphome, idf)
    /\ setup' = IdleSetup
    /\ timers' = timers \ {"auto reboot", "ap close"}
    /\ deferred' = Append(deferred, <<"close">>)
    /\ UNCHANGED <<scanning, radioVars, apiKey, handedOff, arming, page, verified>>

\* ESPHome takes over the credentials of the station, and saves them.
HandOff ==
    /\ "handoff" \in timers
    /\ timers' = timers \ {"handoff"}
    /\ IF radio.target = NoNetwork THEN UNCHANGED <<stored, radio>>
       ELSE /\ stored' = [stored EXCEPT !.esphome = radio.target]
            /\ radio' = [radio EXCEPT !.owner = "esphome"]
    /\ UNCHANGED <<setup, scanning, deferred, events, apiKey, handedOff, arming, page, verified>>

\* What a start finds: ESPHome connects with its own preference, or opens an
\* access point when it has none.
Booted(s) ==
    [mode |-> IF s.esphome = NoNetwork THEN "apsta" ELSE "sta",
     target |-> IF s.esphome = NoNetwork THEN s.idf ELSE s.esphome,
     link |-> IF s.esphome = NoNetwork THEN "down" ELSE "trying",
     owner |-> IF s.esphome = NoNetwork THEN "none" ELSE "esphome"]

\* A timeout or a request restarts the device, or its power fails.
Restart ==
    /\ radio' = Booted(stored)
    /\ setup' = IdleSetup /\ scanning' = FALSE /\ deferred' = << >> /\ events' = << >>
    /\ timers' = {"prepare"} /\ handedOff' = FALSE /\ arming' = FALSE /\ page' = "closed"
    /\ UNCHANGED <<stored, apiKey, verified>>

LoopTurns ==
    \/ RunDeferred \/ PrepareAccessPoint \/ CloseAccessPoint \/ HandOff
    \/ \E name \in Timers : FinishScan(name)

-----------------------------------------------------------------------------
(* The radio and the event task.                                             *)

Associate ==
    /\ radio.link = "trying" /\ radio.target \in Works /\ Len(events) < MaxEvents
    /\ radio' = [radio EXCEPT !.link = "up"]
    /\ events' = Append(events, "got ip")
    /\ verified' = verified \union {radio.target}
    /\ UNCHANGED <<setup, scanning, deferred, timers, stored, apiKey, handedOff, arming, page>>

\* Outside of setup the events are ESPHome's own.
SetupActive == setup.stage # "idle"

HearEvent ==
    /\ events # << >>
    /\ events' = Tail(events)
    /\ setup' = IF SetupActive /\ Head(events) = "got ip"
                THEN [setup EXCEPT !.stage = "connected", !.address = TRUE] ELSE setup
    /\ radio' = IF SetupActive /\ Head(events) = "ap stop"
                THEN InMode("apsta", radio) ELSE radio
    /\ UNCHANGED <<scanning, deferred, timers, stored, apiKey, handedOff, arming, page, verified>>

\* 90 s pass from the start of the attempt.
AttemptAges ==
    /\ setup.stage = "connecting" /\ ~setup.overdue
    /\ setup' = [setup EXCEPT !.overdue = TRUE]
    /\ UNCHANGED <<scanning, deferred, timers, radioVars, stored, apiKey, handedOff, arming, page, verified>>

-----------------------------------------------------------------------------
SetupInit ==
    /\ setup = IdleSetup /\ scanning = FALSE /\ deferred = << >> /\ events = << >>
    /\ timers = {"prepare"} /\ handedOff = FALSE /\ arming = FALSE /\ page = "closed"
    /\ stored = Erased /\ radio = Booted(Erased)
    /\ apiKey = "demo" /\ verified = {}

SetupNext ==
    \/ Requests \/ ArmScanTimer \/ LoopTurns \/ Restart
    \/ Associate \/ HearEvent \/ AttemptAges

\* The tasks of the device run; the user and the radio may do nothing.
SetupFairness ==
    /\ WF_setupVars(RunDeferred) /\ WF_setupVars(PrepareAccessPoint)
    /\ WF_setupVars(CloseAccessPoint) /\ WF_setupVars(HearEvent) /\ WF_setupVars(ArmScanTimer)
    /\ WF_setupVars(\E name \in Timers : FinishScan(name))

SetupSpec == SetupInit /\ [][SetupNext]_setupVars /\ SetupFairness

-----------------------------------------------------------------------------
(* Properties.                                                               *)

SetupTypeOK ==
    /\ setup \in [stage : Stages, candidate : Credentials, address : BOOLEAN,
                  overdue : BOOLEAN]
    /\ scanning \in BOOLEAN
    /\ \A i \in DOMAIN deferred : deferred[i] \in Calls
    /\ \A i \in DOMAIN events : events[i] \in {"got ip", "ap stop"}
    /\ timers \subseteq Timers
    /\ radio \in [mode : {"sta", "apsta"}, target : Credentials,
                  link : {"down", "trying", "up"}, owner : {"none", "idf", "esphome"}]
    /\ stored \in [esphome : Credentials, idf : Credentials]
    /\ apiKey \in {"demo", "custom"}

\* Every scan comes to an end, whichever timer was set for it, and whatever
\* the driver answers: scanning is not refused for good.
ScanEnds == scanning ~> ~scanning

\* Once the page has reported the connection and is closed, setup ends: the
\* access point goes down and the event of its stopping does not restore it.
SetupEnds ==
    "ap close" \in timers /\ page = "closed"
        ~> \/ setup.stage = "idle" /\ radio.mode = "sta" /\ events = << >>
           \/ page # "closed" \/ "prepare" \in timers

\* setup_wifi_manager.cpp: "persist verified WiFi".  What is kept for the next
\* start has had an address.
\* (The code does not keep it: see "Observed, without a run" in README.md.)
PersistedIsVerified ==
    {stored.esphome, stored.idf} \ {NoNetwork} \subseteq verified
=============================================================================

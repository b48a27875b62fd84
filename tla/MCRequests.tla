------------------------------ MODULE MCRequests ------------------------------
(* The exchanges between the HTTP task and the other tasks, one at a time:   *)
(* the mailbox of the controls (its settings, the tuning session, or the     *)
(* gates), the setup of the WiFi, the networks it lists, and the dispatch of *)
(* requests to handlers.                                                     *)
EXTENDS ControlMailbox, SetupWifi, NetworkList, HttpRouting

\* What the theorem about the list of networks takes of its page.
ASSUME ThePagesReadBack == PagesReadBack

VARIABLE part    \* the exchange that is observed

requestVars == <<part, controlVars, setupVars, networkVars, routingVars>>

TheStrangers == {<<"GET", "/update">>, <<"POST", "/dashboard">>, <<"DELETE", "/api/floorplan">>}

\* Access points with one name, some of them open, and names that need escapes.
TheScanRecords ==
    [ssid : {<<"a">>, <<Quote, "}">>}, rssi : {-70, -40}, locked : BOOLEAN]
    \union {[ssid |-> Hidden, rssi |-> -50, locked |-> TRUE],
            [ssid |-> <<"b">>, rssi |-> -50, locked |-> TRUE]}

\* The device starts with the lowest values.  What does not bear on the part of
\* the mailbox that is observed rests: only a session depends on the time, and
\* the gates can be set while there is a session.
MailboxInit ==
    /\ ControlInit
    /\ device = [s \in Settings |-> Lowest]
    /\ threshold = [g \in Gates |-> BothThresholds(CHOOSE l \in Levels : TRUE)]
    /\ gateRequest.gate = (CHOOSE g \in Gates : TRUE)

SessionRests == session'.active = FALSE
NoTimePasses == keepAge' \in {keepAge, 0} /\ loop'.lag = 0
SettingsRest == requested' = requested
GatesRest == gateRequest' = gateRequest

RequestInit ==
    /\ part \in {"settings", "session", "gates", "setup", "networks", "routing"}
    /\ MailboxInit /\ SetupInit /\ NetworkInit /\ RoutingInit

MailboxStep(action) ==
    /\ part \in {"settings", "session", "gates"} /\ action
    /\ part # "settings" => SettingsRest
    /\ part = "settings" => SessionRests
    /\ part # "session" => NoTimePasses
    /\ part # "gates" => GatesRest
    /\ UNCHANGED <<part, setupVars, networkVars, routingVars>>
SetupStep(action) ==
    part = "setup" /\ action /\ UNCHANGED <<part, controlVars, networkVars, routingVars>>
NetworkStep(action) ==
    part = "networks" /\ action /\ UNCHANGED <<part, controlVars, setupVars, routingVars>>
RoutingStep(action) ==
    part = "routing" /\ action /\ UNCHANGED <<part, controlVars, setupVars, networkVars>>

RequestNext ==
    \/ MailboxStep(ControlNext) \/ SetupStep(SetupNext)
    \/ NetworkStep(NetworkNext) \/ RoutingStep(RoutingNext)

\* ControlFairness and SetupFairness, each in its part.
RequestFairness ==
    /\ WF_requestVars(MailboxStep(LoopRuns))
    /\ WF_requestVars(MailboxStep(TimePasses))
    /\ WF_requestVars(MailboxStep(HandlerRuns))
    /\ WF_requestVars(SetupStep(RunDeferred))
    /\ WF_requestVars(SetupStep(PrepareAccessPoint))
    /\ WF_requestVars(SetupStep(CloseAccessPoint))
    /\ WF_requestVars(SetupStep(HearEvent))
    /\ WF_requestVars(SetupStep(ArmScanTimer))
    /\ WF_requestVars(SetupStep(\E name \in Timers : FinishScan(name)))

RequestSpec == RequestInit /\ [][RequestNext]_requestVars /\ RequestFairness
=============================================================================

---------------------------- MODULE HttpRouting ----------------------------
(* The way of a request through RadarApiServer: canHandle asks the nine      *)
(* handlers in turn whether the URL is theirs, and handleRequest offers the  *)
(* request to the same handlers in the same order until one takes it.  What  *)
(* a handler claims and what it does are written down apart in every one.    *)
EXTENDS Integers, Sequences

CONSTANT Strangers   \* <<method, url>> pairs that no handler knows

\* The handlers in the order in which they are asked.
Handlers == <<"setup", "dashboard", "floorplan", "device config", "stats",
              "system", "state", "diagnostic", "control">>

Get(urls) == {"GET"} \X urls
Post(urls) == {"POST"} \X urls

SetupPages == Get({"/", "/setup", "/api/setup/status", "/api/setup/networks",
                   "/api/setup/ping"})
SetupCalls == Post({"/api/setup/scan", "/api/setup/wifi", "/api/setup/prepare",
                    "/api/setup/finalize-security", "/api/setup/apply-wifi",
                    "/api/setup/connected", "/api/setup/finish"})
SetupClaims == SetupPages \union SetupCalls

DashboardClaims == Get({"/dashboard", "/dashboard/",
                        "/dashboard/assets/dashboard.js",
                        "/dashboard/assets/dashboard.css"})

FloorplanClaims ==
    Get({"/api/floorplan/status", "/api/floorplan", "/api/floorplan/image"})
    \union Post({"/api/floorplan/upload/start", "/api/floorplan/upload/chunk",
                 "/api/floorplan/upload/commit", "/api/floorplan/radar",
                 "/api/floorplan/room-name", "/api/floorplan/occlusion",
                 "/api/floorplan/objects", "/api/floorplan/delete"})

DeviceConfigClaims ==
    Get({"/api/config/status", "/api/config"})
    \union Post({"/api/config/upload/start", "/api/config/upload/chunk",
                 "/api/config/upload/commit"})

StatsClaims ==
    Get({"/api/stats"})
    \union Post({"/api/stats/upload/start", "/api/stats/upload/chunk",
                 "/api/stats/upload/commit"})

SystemClaims ==
    Get({"/api/system/status", "/api/system/api-key"})
    \union Post({"/api/system/ha-setup-handoff", "/api/system/reboot",
                 "/api/system/reset"})

StateClaims == Get({"/api/state"})

DiagnosticClaims == Get({"/api/diagnostics/events",
                         "/api/diagnostics/events.txt",
                         "/api/diagnostics/replay.ndjson"})

ControlClaims ==
    Get({"/api/control/status", "/api/control/static-radar-tuning"})
    \union Post({"/api/control/status-led", "/api/control/led-duration",
                 "/api/control/environment-correction",
                 "/api/control/temperature-offset",
                 "/api/control/humidity-offset", "/api/control/timezone",
                 "/api/control/static-radar-tuning/session",
                 "/api/control/static-radar-tuning/gate"})

CanHandle(h, r) ==
    r \in (CASE h = "setup"         -> SetupClaims
             [] h = "dashboard"     -> DashboardClaims
             [] h = "floorplan"     -> FloorplanClaims
             [] h = "device config" -> DeviceConfigClaims
             [] h = "stats"         -> StatsClaims
             [] h = "system"        -> SystemClaims
             [] h = "state"         -> StateClaims
             [] h = "diagnostic"    -> DiagnosticClaims
             [] h = "control"       -> ControlClaims)

-----------------------------------------------------------------------------
(* What each handler does with a request: its operations and their URLs.     *)

SetupBranches ==
    [root      |-> Get({"/"}),
     page      |-> Get({"/setup"}),
     status    |-> Get({"/api/setup/status"}),
     ping      |-> Get({"/api/setup/ping"}),
     networks  |-> Get({"/api/setup/networks"}),
     scan      |-> Post({"/api/setup/scan"}),
     applyWifi |-> Post({"/api/setup/wifi", "/api/setup/apply-wifi"}),
     prepare   |-> Post({"/api/setup/prepare", "/api/setup/finalize-security"}),
     connected |-> Post({"/api/setup/connected"}),
     finish    |-> Post({"/api/setup/finish"})]

DashboardBranches ==
    [script |-> Get({"/dashboard/assets/dashboard.js"}),
     style  |-> Get({"/dashboard/assets/dashboard.css"}),
     index  |-> Get({"/dashboard", "/dashboard/"})]

\* Bug: the deletion was forgotten when the handler grew.
FloorplanWithoutDelete ==
    [status |-> Get({"/api/floorplan/status"}),
     config |-> Get({"/api/floorplan"}),
     image  |-> Get({"/api/floorplan/image"}),
     start  |-> Post({"/api/floorplan/upload/start"}),
     chunk  |-> Post({"/api/floorplan/upload/chunk"}),
     commit |-> Post({"/api/floorplan/upload/commit"}),
     patch  |-> Post({"/api/floorplan/radar", "/api/floorplan/room-name",
                      "/api/floorplan/occlusion", "/api/floorplan/objects"})]

FloorplanBranches ==
    [status |-> Get({"/api/floorplan/status"}),
     config |-> Get({"/api/floorplan"}),
     image  |-> Get({"/api/floorplan/image"}),
     start  |-> Post({"/api/floorplan/upload/start"}),
     chunk  |-> Post({"/api/floorplan/upload/chunk"}),
     commit |-> Post({"/api/floorplan/upload/commit"}),
     radar  |-> Post({"/api/floorplan/radar"}),
     roomName  |-> Post({"/api/floorplan/room-name"}),
     occlusion |-> Post({"/api/floorplan/occlusion"}),
     objects   |-> Post({"/api/floorplan/objects"}),
     delete    |-> Post({"/api/floorplan/delete"})]

DeviceConfigBranches ==
    [status |-> Get({"/api/config/status"}),
     config |-> Get({"/api/config"}),
     start  |-> Post({"/api/config/upload/start"}),
     chunk  |-> Post({"/api/config/upload/chunk"}),
     commit |-> Post({"/api/config/upload/commit"})]

StatsBranches ==
    [stats  |-> Get({"/api/stats"}),
     start  |-> Post({"/api/stats/upload/start"}),
     chunk  |-> Post({"/api/stats/upload/chunk"}),
     commit |-> Post({"/api/stats/upload/commit"})]

SystemBranches ==
    [reset   |-> Post({"/api/system/reset"}),
     reboot  |-> Post({"/api/system/reboot"}),
     handoff |-> Post({"/api/system/ha-setup-handoff"}),
     apiKey  |-> Get({"/api/system/api-key"}),
     status  |-> Get({"/api/system/status"})]

DiagnosticBranches ==
    [replay |-> Get({"/api/diagnostics/replay.ndjson"}),
     text   |-> Get({"/api/diagnostics/events.txt"}),
     events |-> Get({"/api/diagnostics/events"})]

ControlBranches ==
    [status        |-> Get({"/api/control/status"}),
     tuning        |-> Get({"/api/control/static-radar-tuning"}),
     statusLed     |-> Post({"/api/control/status-led"}),
     ledDuration   |-> Post({"/api/control/led-duration"}),
     environment   |-> Post({"/api/control/environment-correction"}),
     temperature   |-> Post({"/api/control/temperature-offset"}),
     humidity      |-> Post({"/api/control/humidity-offset"}),
     timezone      |-> Post({"/api/control/timezone"}),
     tuningSession |-> Post({"/api/control/static-radar-tuning/session"}),
     tuningGate    |-> Post({"/api/control/static-radar-tuning/gate"})]

Branches(h) ==
    CASE h = "setup"         -> SetupBranches
      [] h = "dashboard"     -> DashboardBranches
      [] h = "floorplan"     -> FloorplanBranches
      [] h = "device config" -> DeviceConfigBranches
      [] h = "stats"         -> StatsBranches
      [] h = "system"        -> SystemBranches
      [] h = "state"         -> [state |-> StateClaims]
      [] h = "diagnostic"    -> DiagnosticBranches
      [] h = "control"       -> ControlBranches

NoOperation == "none"

\* The operation handler h performs for r; the setup handler answers 404 to
\* what it claims and does not know, the others leave it to the next handler.
Operation(h, r) ==
    LET b == Branches(h)
    IN  IF ~CanHandle(h, r) THEN NoOperation
        ELSE IF \E o \in DOMAIN b : r \in b[o]
             THEN CHOOSE o \in DOMAIN b : r \in b[o]
        ELSE IF h = "setup" THEN "not found"
        ELSE NoOperation

-----------------------------------------------------------------------------
VARIABLES
    asked,      \* the request, NoRequest between two of them
    turn,       \* the handler that is asked next
    done,       \* what was done for the request: a handler and an operation
    landing      \* where GET / leads: "/setup" while setup mode is active

routingVars == <<asked, turn, done, landing>>

NothingAsked == <<"none", "none">>
NothingDone == <<"none", NoOperation>>

Claimed(r) == \E i \in DOMAIN Handlers : CanHandle(Handlers[i], r)
Known == SetupClaims \union DashboardClaims \union FloorplanClaims
         \union DeviceConfigClaims \union StatsClaims \union SystemClaims
         \union StateClaims \union DiagnosticClaims \union ControlClaims

RoutingInit ==
    /\ asked = NothingAsked /\ turn = 0 /\ done = NothingDone /\ landing = "none"

\* canHandle: an unclaimed request goes to the other handlers of the server.
Arrive(r) ==
    /\ asked = NothingAsked
    /\ Claimed(r)
    /\ asked' = r
    /\ turn' = 1
    /\ UNCHANGED <<done, landing>>

\* What handleRequest gets from the next handler; after the last, 404.
Outcome ==
    IF turn \in DOMAIN Handlers
    THEN <<Handlers[turn], Operation(Handlers[turn], asked)>>
    ELSE <<"none", "not found">>

\* handleRequest asks the next handler.
Offer ==
    /\ asked # NothingAsked /\ done = NothingDone
    /\ IF Outcome[2] = NoOperation
       THEN /\ turn' = turn + 1
            /\ UNCHANGED <<done, landing>>
       ELSE /\ done' = Outcome
            /\ IF Outcome = <<"setup", "root">>
               THEN \E setupMode \in BOOLEAN :
                       landing' = IF setupMode THEN "/setup" ELSE "/dashboard"
               ELSE UNCHANGED landing
            /\ UNCHANGED turn
    /\ UNCHANGED asked

Answered ==
    /\ done # NothingDone
    /\ asked' = NothingAsked /\ turn' = 0 /\ done' = NothingDone
    /\ landing' = "none"

RoutingNext ==
    \/ \E r \in Known \union Strangers : Arrive(r)
    \/ Offer
    \/ Answered

RoutingSpec == RoutingInit /\ [][RoutingNext]_routingVars

\* What the server claims it also answers, with the operation of the handler
\* that knows the URL: claims and branches are written down apart, and a URL
\* that two handlers know or that a handler claims and does not serve would
\* be answered by the wrong one or by 404.
ClaimedIsServed ==
    done # NothingDone =>
        /\ done[2] # "not found"
        /\ \A i \in DOMAIN Handlers :
              CanHandle(Handlers[i], asked) =>
                  done = <<Handlers[i], Operation(Handlers[i], asked)>>
=============================================================================

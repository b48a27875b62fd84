---------------------------- MODULE SystemReset ----------------------------
(* System management (system_handler.cpp): the reset of settings, Wi-Fi and  *)
(* statistics, the reboot timer that the requests share, the hand-over of    *)
(* the Wi-Fi credentials to ESPHome, and what the status endpoints tell.     *)
(* A reset is a sequence of deletions, each of which may fail: what came     *)
(* before it stays deleted.                                                  *)
EXTENDS Integers, Sequences, FiniteSets

\* What a user has stored: the API key, the two floorplan payloads, the device
\* configuration, the history of finished days and the Wi-Fi credentials.  (The
\* counters of the current day are the main loop's and no reset touches them.)
Parts == {"key", "config", "image", "device", "history", "wifi"}

\* The deletions of reset_settings_, in their order.
SettingsSteps == <<"key", "config", "image", "device">>
SettingsParts == {SettingsSteps[i] : i \in DOMAIN SettingsSteps}
Selections == SUBSET {"settings", "wifi", "stats"}

VARIABLES
    kept,      \* the parts that still hold what the user stored
    claimed,     \* parts the running program holds a copy of in RAM
    timer,     \* the timeout "system_reset_reboot": what it will do
    handoff,   \* "none", "waiting" for its timeout, "done" until the reboot
    guard,     \* the first 60 seconds since the boot are not over
    reply,     \* the last answer: code and what it says is done
    promised   \* (history variable) parts an answered reset is to remove

resetVars == <<kept, claimed, timer, handoff, guard, reply, promised>>

Tell(code, done) == reply' = [code |-> code, done |-> done]
NothingTold == [code |-> 0, done |-> {}]

\* What a boot reads into RAM: setup() loads cache and statistics.
Copied == {"device", "history"}

ResetInit ==
    /\ kept = Parts /\ claimed = Copied
    /\ timer = "none" /\ handoff = "none" /\ guard = TRUE
    /\ reply = NothingTold /\ promised = {}

-----------------------------------------------------------------------------
(* POST /api/system/reset.                                                   *)

\* Bug: the statistics in RAM survive, and with them what is persisted next.
WithoutClear(selection) == IF "settings" \in selection THEN {"device"} ELSE {}

\* What is cleared in RAM: the cache and the statistics.
Cleared(selection) ==
    (IF "settings" \in selection THEN {"device"} ELSE {})
    \union (IF "stats" \in selection THEN {"history"} ELSE {})

\* The timeout a reset sets; one of the statistics alone needs no reboot.
TimerAfter(selection) ==
    IF "wifi" \in selection THEN "erase and reboot"
    ELSE IF "settings" \in selection THEN "reboot"
    ELSE timer

Removed(selection) ==
    (IF "settings" \in selection THEN SettingsParts ELSE {})
    \union (IF "stats" \in selection THEN {"history"} ELSE {})

Reset(selection) ==
    /\ selection # {}
    /\ kept' = kept \ Removed(selection)
    /\ claimed' = claimed \ Cleared(selection)
    /\ timer' = TimerAfter(selection)
    /\ promised' = Removed(selection)
                   \union (IF "wifi" \in selection THEN {"wifi"} ELSE {})
                   \union (IF timer' = "reboot" THEN promised \ {"wifi"}
                           ELSE promised)
    /\ Tell(200, Removed(selection))
    /\ UNCHANGED <<handoff, guard>>

NothingSelected ==
    /\ Tell(400, {})
    /\ UNCHANGED <<kept, claimed, timer, handoff, guard, promised>>

\* Step n of the settings fails; its payload may be gone although the header
\* could not be written.  Nothing in RAM is cleared, and nothing reboots.
SettingsFail(n) ==
    /\ \E gone \in SUBSET {SettingsSteps[n]} :
          kept' = kept \ ({SettingsSteps[i] : i \in 1..(n - 1)}
                          \union (gone \ {"key"}))
    /\ Tell(500, {})
    /\ UNCHANGED <<claimed, timer, handoff, guard, promised>>

\* The statistics fail, after the settings if they are selected too.
StatsFail(selection) ==
    /\ "stats" \in selection
    /\ \E gone \in SUBSET {"history"} :
          kept' = kept \ (Removed(selection \ {"stats"}) \union gone)
    /\ claimed' = claimed \ Cleared(selection \ {"stats"})
    /\ Tell(500, {})
    /\ UNCHANGED <<timer, handoff, guard, promised>>

-----------------------------------------------------------------------------
(* The other requests.                                                       *)

\* POST /api/system/reboot takes over the timeout of a reset.
RebootRequest ==
    /\ timer' = "reboot"
    /\ promised' = promised \ {"wifi"}
    /\ Tell(200, {})
    /\ UNCHANGED <<kept, claimed, handoff, guard>>

\* POST /api/system/ha-setup-handoff: only the first one since the boot
\* starts a timeout.
HandoffRequest ==
    /\ IF "wifi" \notin kept
       THEN Tell(409, {}) /\ UNCHANGED handoff
       ELSE /\ Tell(200, {})
            /\ handoff' = IF handoff = "none" THEN "waiting" ELSE handoff
    /\ UNCHANGED <<kept, claimed, timer, guard, promised>>

\* GET /api/system/status and api-key.
StatusRequest ==
    /\ Tell(200, IF guard THEN {"guard"} ELSE {})
    /\ UNCHANGED <<kept, claimed, timer, handoff, guard, promised>>
ApiKeyRequest ==
    /\ \/ Tell(200, {"key"} \intersect kept)
       \/ Tell(404, {})
       \/ Tell(503, {})
    /\ UNCHANGED <<kept, claimed, timer, handoff, guard, promised>>

\* The user stores something; what is stored in RAM first is in use at once.
UserStores(part) ==
    /\ kept' = kept \union {part}
    /\ claimed' = claimed \union ({part} \intersect Copied)
    /\ promised' = promised \ {part}
    /\ UNCHANGED <<timer, handoff, guard, reply>>

\* The end of a day: the history in RAM is written to the partition.
PersistHistory ==
    /\ "history" \in claimed
    /\ kept' = kept \union {"history"}
    /\ UNCHANGED <<claimed, timer, handoff, guard, reply, promised>>

-----------------------------------------------------------------------------
(* Time.                                                                     *)

HandoffFires ==
    /\ handoff = "waiting"
    /\ handoff' = "done"
    /\ UNCHANGED <<kept, claimed, timer, guard, reply, promised>>

GuardEnds ==
    /\ guard
    /\ guard' = FALSE
    /\ UNCHANGED <<kept, claimed, timer, handoff, reply, promised>>

Boot ==
    /\ claimed' = Copied \intersect kept'
    /\ timer' = "none" /\ handoff' = "none" /\ guard' = TRUE
    /\ reply' = NothingTold

\* The shared timeout fires.
RebootTimer ==
    /\ timer # "none"
    /\ kept' = IF timer = "erase and reboot" THEN kept \ {"wifi"} ELSE kept
    /\ Boot
    /\ UNCHANGED promised

\* The power is cut; a Wi-Fi reset that has not happened never will.
PowerCut ==
    /\ UNCHANGED kept
    /\ Boot
    /\ promised' = promised \ {"wifi"}

ResetNext ==
    \/ \E selection \in Selections : Reset(selection)
    \/ NothingSelected
    \/ \E n \in DOMAIN SettingsSteps : SettingsFail(n)
    \/ \E selection \in Selections : StatsFail(selection)
    \/ RebootRequest
    \/ HandoffRequest
    \/ StatusRequest
    \/ ApiKeyRequest
    \/ \E part \in Parts : UserStores(part)
    \/ PersistHistory
    \/ HandoffFires
    \/ GuardEnds
    \/ RebootTimer
    \/ PowerCut

ResetSpec == ResetInit /\ [][ResetNext]_resetVars

-----------------------------------------------------------------------------
(* Properties.                                                               *)

\* What an answered reset was to remove stays removed, in flash and in RAM and
\* across the reboot, until the user stores it anew; the Wi-Fi credentials are
\* gone or about to be erased by the timeout, unless the power is cut or
\* another request takes over that timeout.
ResetIsKept ==
    /\ promised \intersect claimed = {}
    /\ promised \intersect kept \subseteq
           (IF timer = "erase and reboot" THEN {"wifi"} ELSE {})

\* api-contract.md: boot_guard_active, 403, "Reset or OTA is blocked during
\* initial boot guard."
\* (The code does not keep it: see "Observed, without a run" in README.md.)
GuardBlocksReset ==
    [][guard /\ timer = "none" => timer' # "erase and reboot"]_resetVars
=============================================================================

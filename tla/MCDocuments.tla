----------------------------- MODULE MCDocuments -----------------------------
(* What is kept, one component at a time: the device configuration and the   *)
(* cache the main loop reads, the floorplan and its patches, the exchanges   *)
(* with clients that upload, and the resets.                                 *)
EXTENDS ConfigCache, FloorplanPatch, HttpUploads, SystemReset, TLC

VARIABLE part    \* the component that is observed

documentVars == <<part, configVars, planVars, uploadVars, resetVars>>

-----------------------------------------------------------------------------
(* ConfigCache: configurations whose zones and rooms have names that are     *)
(* also keys and ids of the document, or need escapes.                       *)

TheZoneIds == <<"zone_1", "zone_2">>
TheCalibrationIds == <<"calibration_1">>
Zone(type, name) == [type |-> type, name |-> name]
KeyRoom == [id |-> "r1", name |-> <<"boundary">>,
            boundary |-> <<<<"1", "2">>, <<"3", "1">>, <<"2", "2">>>>]
OddRoom == [id |-> "r2", name |-> <<"a", "quote", "}">>, boundary |-> << >>]
ConfigOf(legacy, zones, calibration, room) ==
    [legacy |-> legacy, zones |-> zones, calibrations |-> <<calibration>>, room |-> room]
TheConfigs ==
    {ConfigOf(TRUE, <<Zone("exit", <<"detection">>), NoZone>>, NoZone, KeyRoom),
     ConfigOf(FALSE, <<NoZone, Zone("detection", <<"floorplan">>)>>, Zone("filter", <<"id">>), KeyRoom),
     ConfigOf(FALSE, <<Zone("filter", <<"points">>), Zone("exit", <<"zone_1">>)>>, NoZone, OddRoom)}

\* All of them are read back as they were written, which is what the theorems
\* about the cache ask of the documents.
ASSUME TheConfigsReadBack == AllReadBack

(* FloorplanPatch: names and values with quotes, brackets and escapes.       *)
TheNames == {<<"a">>, <<"\\">>, <<"quote", "}">>, <<"\\", "quote", "]">>}
ThePlacements == {Word("1"), Array(<<Object(<< >>), Literal(<<"]", "quote">>)>>)}

(* HttpUploads: one client has a document of two chunks, the other one of    *)
(* one chunk for another target.                                             *)
CONSTANTS TheConfig, TheImage, TheDevice, small, large
CellsOf == (small :> 1) @@ (large :> 2)
TheClients == <<[target |-> TheConfig, document |-> large],
                [target |-> TheDevice, document |-> small]>>
ThePatched == (small :> large) @@ (large :> small)

-----------------------------------------------------------------------------
DocumentInit ==
    /\ part \in {"config", "plan", "uploads", "reset"}
    /\ ConfigInit
    /\ PlanInit /\ (part # "plan" => plan.rooms = << >> /\ plan.radar = Word("1"))
    /\ UploadInit /\ ResetInit

DocumentNext ==
    /\ \/ part = "config" /\ ConfigNext /\ UNCHANGED <<planVars, uploadVars, resetVars>>
       \/ part = "plan" /\ PlanNext /\ UNCHANGED <<configVars, uploadVars, resetVars>>
       \/ part = "uploads" /\ UploadNext /\ UNCHANGED <<configVars, planVars, resetVars>>
       \/ part = "reset" /\ ResetNext /\ UNCHANGED <<configVars, planVars, uploadVars>>
    /\ UNCHANGED part

DocumentSpec == DocumentInit /\ [][DocumentNext]_documentVars
=============================================================================

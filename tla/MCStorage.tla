------------------------------ MODULE MCStorage ------------------------------
(* The requests to the storage in two scenarios: uploads of two dashboards   *)
(* with patches and deletions, and uploads of one dashboard while flash      *)
(* operations and the power fail.  The main loop writes nothing.             *)
EXTENDS MCStorageClients

VARIABLE scenario

storageScenarioVars == <<scenario, vars>>

TheUploads == FloorplanUploads \union SameSizeUploads

DashboardStep ==
    /\ \/ \E b \in Dashboards, u \in FloorplanUploads : BeginUpload(b, u[1], u[2])
       \/ \E b \in Dashboards : Abandon(b) \/ ServeUpload(b)
       \/ \E d \in Patches : Patch(d)
       \/ \E calls \in Deletions : Delete(calls)
       \/ DeleteNext
       \/ HttpAdvance
    /\ used' \subseteq {1, 2}

OneDashboard == CHOOSE b \in Dashboards : TRUE
FaultStep ==
    \/ \E u \in SameSizeUploads : BeginUpload(OneDashboard, u[1], u[2])
    \/ Abandon(OneDashboard) \/ ServeUpload(OneDashboard)
    \/ HttpAdvance
    \/ HttpFails
    \/ Reboot

ScenarioInit == scenario \in {"dashboards", "faults"} /\ Init
ScenarioNext ==
    /\ \/ scenario = "dashboards" /\ DashboardStep
       \/ scenario = "faults" /\ FaultStep
    /\ UNCHANGED scenario

ScenarioSpec == ScenarioInit /\ [][ScenarioNext]_storageScenarioVars
=============================================================================

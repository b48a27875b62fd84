-------------------------- MODULE MCStorageClients --------------------------
(* StorageClients on one sector per payload: see README.md for the bounds.   *)
EXTENDS StorageClients, TLC

CONSTANTS config, image, stats,   \* payload targets
          small, large, other,    \* documents the dashboards write
          today, tomorrow         \* statistics documents

CellsOf == (small :> 1) @@ (large :> 2) @@ (other :> 2)
           @@ (today :> 2) @@ (tomorrow :> 2)

FloorplanUploads == {<<config, small>>, <<config, large>>, <<image, other>>}
SameSizeUploads == {<<config, large>>, <<config, other>>, <<image, small>>}
ConfigUploads == {<<config, large>>, <<config, other>>}
OneUpload == {<<config, large>>}

\* The statistics are reset over HTTP.
StatsDeletion == {<< <<stats>> >>}

FloorplanDeletions == {<< <<config, image>> >>, << <<config>>, <<image>> >>}

NoDays == << >>
TwoDays == <<today, tomorrow>>
=============================================================================

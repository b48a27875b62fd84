---------------------------- MODULE HttpUploads ----------------------------
(* The answers of the storage endpoints: floorplan_handler.cpp,              *)
(* device_config_handler.cpp and stats_handler.cpp on top of RadarStorage.   *)
(* One request is served at a time; its storage call is carried out effect   *)
(* by effect and may fail at each of them.  A client uploads its document    *)
(* request by request, and may lose the answer of each and send it again.    *)
EXTENDS RadarStorage

CONSTANTS
    Config, Image,   \* the targets of /api/floorplan
    Device,          \* the target of /api/config; any other is /api/stats's
    Upload,          \* Sessions -> the target and document of its client
    Patched          \* Documents -> what a floorplan patch makes of it

ASSUME UploadAssumption ==
    /\ {Config, Image, Device} \subseteq Targets
    /\ \A s \in Sessions : /\ Upload[s].target \in Targets
                           /\ Upload[s].document \in Documents
    /\ \A d \in Documents : Patched[d] \in Documents

VARIABLES
    handling,  \* the request whose storage call is under way, else NoRequest
    answer,   \* the last answer that was sent
    cached,   \* what DeviceConfigCache holds of the device configuration
    at,       \* per client, the request it is about to send
    alone     \* (history variable) the client nothing has disturbed

uploadVars == <<storageVars, handling, answer, cached, at, alone>>

Floorplan == {Config, Image}
Target(s) == Upload[s].target
Document(s) == Upload[s].document

-----------------------------------------------------------------------------
(* Requests.  A flaw is an argument that is missing or not what it should be.*)

Ask(op, session, cell, flaw) ==
    [op |-> op, session |-> session, cell |-> cell, flaw |-> flaw]
NoRequest == Ask("none", NoSession, 0, "none")

\* The request of client s at its position: start, one chunk per cell, commit.
Due(s) ==
    LET n == Cells[Document(s)]
    IN  IF at[s] = 0 THEN Ask("start", s, n, "none")
        ELSE IF at[s] <= n THEN Ask("chunk", s, at[s], "none")
        ELSE Ask("commit", s, 0, "none")
Finished(s) == Cells[Document(s)] + 2
Stopped == -1

Flaws(op) == {"session"} \union
    (CASE op = "start"  -> {"target", "size", "zero", "too large"}
       [] op = "chunk"  -> {"target", "data", "hex"}
       [] op = "commit" -> {"target"})

-----------------------------------------------------------------------------
(* What the storage says of a call it refuses (last_upload_result_).         *)

StartRefusal == "session_mismatch"

ChunkRefusal(t, s, empty) ==
    IF header = NoHeader THEN "read_failed"
    ELSE IF ~OpenUpload(header, t, s) THEN "session_mismatch"
    ELSE IF empty THEN "invalid_request"
    ELSE "offset_mismatch"

CommitRefusal(t, s) ==
    IF header = NoHeader THEN "read_failed"
    ELSE IF ~OpenUpload(header, t, s) THEN "session_mismatch"
    ELSE "incomplete"

Refusal(r) ==
    LET t == Target(r.session)
    IN  CASE r.op = "start"  -> StartRefusal
          [] r.op = "chunk"  -> ChunkRefusal(t, r.session, r.flaw = "empty")
          [] r.op = "commit" -> CommitRefusal(t, r.session)

\* Bug: a commit is accepted only once.
CommitOnce(r) ==
    LET t == Target(r.session)
        s == r.session
    IN  CASE r.op = "start"  -> StartUpload(t, r.cell, s)
          [] r.op = "chunk"  -> IF r.flaw = "empty" THEN Refused
                                ELSE WriteUploadChunk(t, r.cell, Document(s), s)
          [] r.op = "commit" -> IF OpenUpload(HeaderOrDefault, t, s)
                                THEN CommitUpload(t, s) ELSE Refused

\* The call of an upload request; an empty chunk is refused.
Plan(r) ==
    LET t == Target(r.session)
        s == r.session
    IN  CASE r.op = "start"  -> StartUpload(t, r.cell, s)
          [] r.op = "chunk"  -> IF r.flaw = "empty" THEN Refused
                                ELSE WriteUploadChunk(t, r.cell, Document(s), s)
          [] r.op = "commit" -> CommitUpload(t, s)

-----------------------------------------------------------------------------
(* Answers.  "result" is what the storage made of the call, of which the     *)
(* client sees no more than the code says.                                   *)

Reply(op, code, result, bytes) ==
    [op |-> op, code |-> code, result |-> result, bytes |-> bytes]
NoAnswer == Reply("none", 0, "none", 0)

\* upload_result_http_code
HttpCode(result) ==
    CASE result = "ok" -> 200
      [] result = "invalid_request" -> 400
      [] result \in {"session_mismatch", "offset_mismatch", "incomplete"} -> 409
      [] result \in {"storage_failed", "read_failed"} -> 500

\* The code for a call that ended: the floorplan uploads go by the result,
\* those of the device configuration and the statistics by the operation.
CodeOf(r, result) ==
    IF result = "ok" THEN 200
    ELSE IF r.op \in {"patch", "delete"} THEN 500
    ELSE IF Target(r.session) \in Floorplan THEN HttpCode(result)
    ELSE IF r.op = "commit" THEN 409
    ELSE 500

FlawedCode(flaw) == IF flaw \in {"zero", "too large"} THEN 413 ELSE 400

Send(r, code, result) == answer' = Reply(r.op, code, result, 0)

\* Client s, if r is what it sent, gets the answer, or loses it and will
\* send r again.
Deliver(r, code) ==
    \E lost \in BOOLEAN :
        at' = [s \in Sessions |->
            IF s # r.session \/ r.flaw # "none" \/ lost THEN at[s]
            ELSE IF at[s] \notin 0..(Finished(s) - 1) THEN at[s]
            ELSE IF r # Due(s) THEN at[s]
            ELSE IF code = 200 THEN at[s] + 1 ELSE Stopped]

\* The call of r has succeeded.  A committed device configuration is read
\* back for the cache, which may fail although it is saved.
Succeed(r) ==
    IF r.op = "commit" /\ Target(r.session) = Device
    THEN \E readable \in BOOLEAN :
            /\ cached' = IF readable THEN header'.meta[Device] ELSE cached
            /\ Send(r, IF readable THEN 200 ELSE 500, "ok")
            /\ Deliver(r, IF readable THEN 200 ELSE 500)
            /\ alone' = IF readable THEN alone ELSE NoSession
    ELSE /\ Send(r, 200, "ok")
         /\ Deliver(r, 200)
         /\ alone' = IF /\ r.op = "start"
                        /\ at[r.session] = 0
                        /\ handling = r
                     THEN r.session ELSE alone
         /\ UNCHANGED cached

\* The call of r has failed.
FailWith(r, result) ==
    /\ Send(r, CodeOf(r, result), result)
    /\ IF r.op \in {"patch", "delete"} THEN UNCHANGED at
       ELSE Deliver(r, CodeOf(r, result))
    /\ UNCHANGED cached

-----------------------------------------------------------------------------
(* Serving a request.                                                        *)

HttpIdle == handling = NoRequest /\ answer = NoAnswer
Busy == handling # NoRequest

\* The answer is on its way; the next request can be taken.
Close ==
    /\ answer # NoAnswer
    /\ answer' = NoAnswer
    /\ UNCHANGED <<storageVars, handling, cached, at, alone>>

\* A flaw is found before the storage is asked.
Reject(r) ==
    /\ HttpIdle
    /\ Send(r, FlawedCode(r.flaw), "flawed")
    /\ UNCHANGED <<storageVars, handling, cached, at, alone>>

\* The call of r is begun.  What others do to the storage disturbs a client.
Begin(r, plan, disturbs) ==
    /\ Call("httpd", plan)
    /\ handling' = r
    /\ alone' = IF disturbs THEN NoSession ELSE alone
    /\ UNCHANGED <<answer, cached, at>>

Receive(r) ==
    /\ HttpIdle
    /\ IF Plan(r).effects # << >>
       THEN Begin(r, Plan(r), alone # r.session \/ r # Due(r.session))
       ELSE /\ UNCHANGED <<storageVars, handling>>
            /\ IF Plan(r).ok THEN Succeed(r)
               ELSE FailWith(r, Refusal(r)) /\ UNCHANGED alone

\* There is no memory for the buffer in which a commit hashes the payload.
HashFails(r) ==
    /\ HttpIdle
    /\ r.op = "commit" /\ r.flaw = "none" /\ Plan(r).effects # << >>
    /\ FailWith(r, "read_failed")
    /\ alone' = NoSession
    /\ UNCHANGED <<storageVars, handling>>

\* A patch of the stored floorplan: radar, room name, occlusion or objects.
PatchFloorplan(kind) ==
    /\ HttpIdle
    /\ LET r == Ask("patch", NoSession, 0, "none")
           readable == {d \in Documents :
                           header # NoHeader /\ Holds(header, Config, d)}
       IN  \/ /\ Send(r, 400, "flawed")
              /\ UNCHANGED <<storageVars, handling, cached, at, alone>>
           \/ /\ readable = {}
              /\ Send(r, IF kind = "room name" THEN 404 ELSE 500, "flawed")
              /\ UNCHANGED <<storageVars, handling, cached, at, alone>>
           \/ \E d \in readable :
                 Begin(r, WritePayload(Config, Patched[d]), TRUE)

\* POST /api/floorplan/delete asks for a confirmation.
DeleteFloorplan(confirmed) ==
    /\ HttpIdle
    /\ LET r == Ask("delete", NoSession, 0, "none")
       IN  IF confirmed
           THEN Begin(r, DeletePayloads(<<Config, Image>>), TRUE)
           ELSE /\ Send(r, 400, "flawed")
                /\ UNCHANGED <<storageVars, handling, cached, at, alone>>

\* The next effect of the call; with the last one the request is answered.
Work ==
    /\ Busy
    /\ Advance("httpd")
    /\ IF Len(todo["httpd"]) > 1
       THEN UNCHANGED <<handling, answer, cached, at, alone>>
       ELSE /\ handling' = NoRequest
            /\ IF handling.op \in {"patch", "delete"}
               THEN /\ Send(handling, 200, "ok")
                    /\ UNCHANGED <<cached, at, alone>>
               ELSE Succeed(handling)

\* An effect fails, and with it the call.
EffectFails ==
    /\ Busy
    /\ GiveUp("httpd")
    /\ FailWith(handling, "storage_failed")
    /\ handling' = NoRequest
    /\ alone' = NoSession

-----------------------------------------------------------------------------
(* Reading.                                                                  *)

\* GET of a payload: its size comes from the header, its bytes are sent in
\* pieces, and a piece that cannot be read ends the answer like the last one.
Download(t) ==
    /\ HttpIdle
    /\ LET n == HeaderOrDefault.meta[t].size
       IN  \/ /\ n = 0
              /\ answer' = Reply("get", 404, "flawed", 0)
           \/ /\ n > 0
              /\ answer' = Reply("get", 500, "read_failed", 0)
           \/ \E sent \in 0..n :
                 /\ n > 0
                 /\ answer' = Reply("get", 200, "ok", sent)
    /\ UNCHANGED <<storageVars, handling, cached, at, alone>>

\* GET of a status: an invalid header counts as an empty one.
Status(t) ==
    /\ HttpIdle
    /\ answer' = Reply("status", 200, "ok",
                       HeaderOrDefault.meta[t].size)
    /\ UNCHANGED <<storageVars, handling, cached, at, alone>>

-----------------------------------------------------------------------------
UploadInit ==
    /\ StorageInit
    /\ handling = NoRequest /\ answer = NoAnswer
    /\ cached = NoPayload
    /\ at = [s \in Sessions |-> 0]
    /\ alone = NoSession

\* A client goes on with its upload.
ClientSends(s) ==
    /\ at[s] \in 0..(Finished(s) - 1)
    /\ Receive(Due(s)) \/ HashFails(Due(s))

\* Whatever else reaches the upload endpoints.
StraySends(s) ==
    \/ \E i \in 1..Capacity + 1 : Receive(Ask("chunk", s, i, "none"))
    \/ Receive(Ask("chunk", s, 1, "empty"))
    \/ Receive(Ask("commit", s, 0, "none"))

UploadNext ==
    \/ \E s \in Sessions : ClientSends(s)
    \/ \E s \in Sessions : StraySends(s)
    \/ \E op \in {"start", "chunk", "commit"} : \E flaw \in Flaws(op) :
          Reject(Ask(op, NoSession, 0, flaw))
    \/ Close
    \/ \E kind \in {"member", "room name"} : PatchFloorplan(kind)
    \/ \E confirmed \in BOOLEAN : DeleteFloorplan(confirmed)
    \/ Work
    \/ EffectFails
    \/ \E t \in Targets : Download(t)
    \/ \E t \in Targets : Status(t)

UploadSpec == UploadInit /\ [][UploadNext]_uploadVars

-----------------------------------------------------------------------------
(* Properties.                                                               *)

\* A client whose start was accepted and whom neither another request nor a
\* fault disturbs is never refused, however often it has to repeat a request
\* whose answer was lost, and once its commit is answered its document is what
\* the device stores (and, for the device configuration, uses).
UndisturbedUploadSucceeds ==
    alone # NoSession =>
        /\ at[alone] # Stopped
        /\ at[alone] = Finished(alone) =>
              /\ Holds(HeaderOrDefault, Target(alone), Document(alone))
              /\ Target(alone) = Device => cached = HeaderOrDefault.meta[Device]

\* api-contract.md, 7.3: upload_session_mismatch, "Chunk does not match the
\* active upload session", is answered with 409.
\* (The code does not keep it: see "Observed, without a run" in README.md.)
MismatchIsConflict ==
    answer.op = "chunk" /\ answer.result = "session_mismatch" => answer.code = 409
=============================================================================

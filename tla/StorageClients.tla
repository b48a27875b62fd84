--------------------------- MODULE StorageClients ---------------------------
(* The two tasks that use the storage.  The HTTP server task serves one      *)
(* request at a time: the chunked uploads of the dashboards, floorplan       *)
(* patches, and deletions.  The main loop writes the statistics document by  *)
(* the same upload protocol when a day ends, under a session number that is  *)
(* always the same.  A dashboard may stop at any point, a flash operation    *)
(* may fail, and the power may fail.                                         *)
EXTENDS RadarStorage

CONSTANTS
    Dashboards,     \* browser tabs, each with at most one upload at a time
    Uploads,        \* the <<target, document>> pairs they upload
    InOrder,        \* they send every chunk, in order, and then commit
    Patchable,      \* the target of the floorplan patches
    Patches,        \* the documents a patch produces
    Faults,         \* power losses and failing flash operations happen
    Deletions,      \* per delete request, its calls: sequences of targets
    Stats,          \* the target of the statistics document
    StatsSession,   \* STATS_INTERNAL_UPLOAD_SESSION
    StatsDocument,  \* the statistics document at the end of each day
    Nothing, Damage \* no payload; one that does not match its hash

Days == Len(StatsDocument)

\* What a header sector may hold.
AllSessions == Sessions \union {StatsSession, NoSession}
Hashes == UNION {[1..n -> SUBSET Documents] : n \in 0..Capacity}
Headers == [meta : [Targets -> [size : 0..Capacity, hash : Hashes]],
            upload : [target : Targets \union {NoTarget}, size : 0..Capacity,
                      written : 0..Capacity, session : AllSessions],
            last : [target : Targets \union {NoTarget}, session : AllSessions]]

\* The targets of a delete_payload, or of a delete_floorplan.
DeleteCalls == {<<t>> : t \in Targets} \union (Targets \X Targets)

ASSUME ClientsAssumption ==
    /\ Uploads \subseteq Targets \X Documents
    /\ Patches \subseteq Documents /\ (Patches # {} => Patchable \in Targets)
    /\ Deletions \subseteq Seq(DeleteCalls)
    /\ StatsDocument \in Seq(Documents) /\ (Days > 0 => Stats \in Targets)
    /\ InOrder \in BOOLEAN /\ Faults \in BOOLEAN
    /\ StatsSession # NoSession
    /\ NoHeader \notin Headers
    /\ Nothing \notin Documents /\ Damage \notin Documents /\ Nothing # Damage

VARIABLES
    up,        \* per dashboard, its upload
    used,      \* session numbers drawn; a dashboard draws a random one
    serving,   \* the request the HTTP task is working on, else NoSession
    jobs,      \* the calls of a delete request that are still to be made
    day,       \* days ended so far
    persist,   \* how far StatsStore::persist_ is
    saved,     \* (history variable) what a dashboard was told is stored
    kept       \* (history variable) the last day persist_ reported stored

httpVars == <<up, used, serving, jobs>>
statsVars == <<day, persist, kept>>
vars == <<storageVars, httpVars, statsVars, saved>>

-----------------------------------------------------------------------------
(* A dashboard and its upload.                                               *)

NotUploading == [session |-> NoSession, target |-> NoTarget,
                 document |-> Nothing, started |-> FALSE, received |-> {}]

Request(kind, cell) == [kind |-> kind, cell |-> cell]
Serving(s, r) == [session |-> s, request |-> r]
NotServing == Serving(NoSession, Request("none", 0))

\* uploadChunkedFormPayload; without InOrder any client of the documented API.
NextRequests(u) ==
    LET cells == 1..Cells[u.document]
        sent == Cardinality(u.received)
    IN  IF ~u.started THEN {Request("start", 0)}
        ELSE IF u.received = cells THEN {Request("commit", 0)}
        ELSE IF InOrder THEN {Request("chunk", sent + 1)}
        ELSE {Request("commit", 0)} \union
             {Request("chunk", i) : i \in cells \ u.received}

PlanFor(u, r) ==
    CASE r.kind = "start"  -> StartUpload(u.target, Cells[u.document], u.session)
      [] r.kind = "chunk"  -> WriteUploadChunk(u.target, r.cell, u.document, u.session)
      [] r.kind = "commit" -> CommitUpload(u.target, u.session)

\* What the dashboard makes of the answer; it gives up at the first error.
AfterAnswer(u, r, ok) ==
    IF ~ok \/ r.kind = "commit" THEN NotUploading
    ELSE IF r.kind = "start" THEN [u EXCEPT !.started = TRUE]
    ELSE [u EXCEPT !.received = @ \union {r.cell}]

\* The answer to request r of session s reaches the dashboard, if that upload
\* still exists.
Answer(s, r, ok) ==
    LET waiting == {b \in Dashboards : up[b].session = s /\ s # NoSession}
    IN  /\ up' = [b \in Dashboards |->
                     IF b \in waiting THEN AfterAnswer(up[b], r, ok) ELSE up[b]]
        /\ saved' = [t \in Targets |->
                     IF /\ ok /\ r.kind = "commit"
                        /\ \E b \in waiting : up[b].target = t
                     THEN up[CHOOSE b \in waiting : TRUE].document
                     ELSE saved[t]]

\* A call that erases a payload ends what was told about it.
Erased(plan) ==
    {plan.effects[i].target : i \in
        {j \in DOMAIN plan.effects : plan.effects[j].do = "erase"}}
Without(ts) == [t \in Targets |-> IF t \in ts THEN Nothing ELSE saved[t]]

\* An interrupted call leaves the header sector erased: all is lost.
AfterInterruption == IF header = NoHeader THEN Without(Targets) ELSE saved

BeginUpload(b, t, d) ==
    /\ up[b] = NotUploading
    /\ \E s \in Sessions \ (used \union {StatsSession}) :
          /\ up' = [up EXCEPT ![b] =
                       [session |-> s, target |-> t, document |-> d,
                        started |-> FALSE, received |-> {}]]
          /\ used' = used \union {s}
    /\ UNCHANGED <<storageVars, serving, jobs, statsVars, saved>>

\* The tab is closed or the network is lost, before or after a request.
Abandon(b) ==
    /\ up[b] # NotUploading
    /\ up' = [up EXCEPT ![b] = NotUploading]
    /\ UNCHANGED <<storageVars, used, serving, jobs, statsVars, saved>>

-----------------------------------------------------------------------------
(* The HTTP server task.                                                     *)

HttpFree == Idle("httpd") /\ jobs = << >>

ServeUpload(b) ==
    /\ HttpFree
    /\ up[b] # NotUploading
    /\ \E r \in NextRequests(up[b]) :
          LET s == up[b].session
              plan == PlanFor(up[b], r)
          IN  /\ Call("httpd", plan)
              /\ IF plan.effects = << >>
                 THEN /\ Answer(s, r, plan.ok)
                      /\ UNCHANGED serving
                 ELSE /\ serving' = Serving(s, r)
                      /\ saved' = Without(Erased(plan))
                      /\ UNCHANGED up
    /\ UNCHANGED <<used, jobs, statsVars>>

\* A patch reads the stored floorplan and writes it back changed; a damaged
\* one cannot be parsed.
Patch(d) ==
    /\ HttpFree
    /\ header # NoHeader
    /\ \E old \in Documents : Holds(header, Patchable, old)
    /\ LET plan == WritePayload(Patchable, d)
       IN  /\ Call("httpd", plan)
           /\ saved' = Without(Erased(plan))
    /\ UNCHANGED <<httpVars, statsVars>>

Delete(calls) ==
    /\ HttpFree
    /\ jobs' = calls
    /\ UNCHANGED <<storageVars, up, used, serving, statsVars, saved>>

DeleteNext ==
    /\ Idle("httpd")
    /\ jobs # << >>
    /\ jobs' = Tail(jobs)
    /\ LET plan == DeletePayloads(Head(jobs))
       IN  /\ Call("httpd", plan)
           /\ saved' = Without(Erased(plan))
    /\ UNCHANGED <<up, used, serving, statsVars>>

HttpAdvance ==
    /\ Advance("httpd")
    /\ IF Len(todo["httpd"]) = 1
       THEN /\ Answer(serving.session, serving.request, TRUE)
            /\ serving' = NotServing
       ELSE UNCHANGED <<up, serving, saved>>
    /\ UNCHANGED <<used, jobs, statsVars>>

HttpFails ==
    /\ Faults
    /\ GiveUp("httpd")
    /\ up' = [b \in Dashboards |->
                 IF up[b].session = serving.session THEN NotUploading ELSE up[b]]
    /\ serving' = NotServing
    /\ jobs' = << >>
    /\ saved' = AfterInterruption
    /\ UNCHANGED <<used, statsVars>>

-----------------------------------------------------------------------------
(* The main loop: StatsStore::finish_day and its persist_.                   *)

Resting == [step |-> "idle", sent |-> 0]
Today == StatsDocument[day]

EndDay ==
    /\ persist = Resting
    /\ day < Days
    /\ day' = day + 1
    /\ persist' = [Resting EXCEPT !.step = "start"]
    /\ UNCHANGED <<storageVars, httpVars, kept, saved>>

PersistPlan ==
    CASE persist.step = "start"  -> StartUpload(Stats, Cells[Today], StatsSession)
      [] persist.step = "chunk"  -> WriteUploadChunk(Stats, persist.sent + 1, Today, StatsSession)
      [] persist.step = "commit" -> CommitUpload(Stats, StatsSession)

\* persist_ returns false at the first call that fails.
PersistAnswer(ok) ==
    LET sent == IF persist.step = "chunk" THEN persist.sent + 1 ELSE 0
    IN  /\ persist' = IF ~ok \/ persist.step = "commit" THEN Resting
                      ELSE [sent |-> sent,
                            step |-> IF sent = Cells[Today] THEN "commit"
                                     ELSE "chunk"]
        /\ kept' = IF ok /\ persist.step = "commit" THEN day ELSE kept

PersistCall ==
    /\ persist # Resting
    /\ Idle("loop")
    /\ Call("loop", PersistPlan)
    /\ IF PersistPlan.effects = << >> THEN PersistAnswer(PersistPlan.ok)
       ELSE UNCHANGED <<persist, kept>>
    /\ saved' = Without(Erased(PersistPlan))
    /\ UNCHANGED <<httpVars, day>>

PersistAdvance ==
    /\ Advance("loop")
    /\ IF Len(todo["loop"]) = 1 THEN PersistAnswer(TRUE)
       ELSE UNCHANGED <<persist, kept>>
    /\ UNCHANGED <<httpVars, day, saved>>

PersistFails ==
    /\ Faults
    /\ GiveUp("loop")
    /\ PersistAnswer(FALSE)
    /\ saved' = AfterInterruption
    /\ UNCHANGED <<httpVars, day>>

Reboot ==
    /\ Faults
    /\ PowerLoss
    /\ up' = [b \in Dashboards |->
                 IF ~Idle("httpd") /\ up[b].session = serving.session
                 THEN NotUploading ELSE up[b]]
    /\ serving' = NotServing
    /\ jobs' = << >>
    /\ persist' = Resting
    /\ saved' = AfterInterruption
    /\ UNCHANGED <<used, day, kept>>

-----------------------------------------------------------------------------
Init ==
    /\ StorageInit
    /\ up = [b \in Dashboards |-> NotUploading]
    /\ used = {} /\ serving = NotServing /\ jobs = << >>
    /\ day = 0 /\ persist = Resting /\ kept = 0
    /\ saved = [t \in Targets |-> Nothing]

Next ==
    \/ \E b \in Dashboards, u \in Uploads : BeginUpload(b, u[1], u[2])
    \/ \E b \in Dashboards : Abandon(b)
    \/ \E b \in Dashboards : ServeUpload(b)
    \/ \E d \in Patches : Patch(d)
    \/ \E calls \in Deletions : Delete(calls)
    \/ DeleteNext
    \/ HttpAdvance
    \/ HttpFails
    \/ EndDay
    \/ PersistCall
    \/ PersistAdvance
    \/ PersistFails
    \/ Reboot

Spec == Init /\ [][Next]_vars

-----------------------------------------------------------------------------
(* Properties.                                                               *)

TypeOK ==
    /\ flash \in [Targets -> [1..Capacity -> SUBSET Documents]]
    /\ header # NoHeader => /\ header.upload.target \in Targets \union {NoTarget}
                            /\ header.upload.written \in 0..header.upload.size
    /\ \A b \in Dashboards : up[b].session \in used \union {NoSession}
    /\ saved \in [Targets -> Documents \union {Nothing}]
    /\ day \in 0..Days /\ kept \in 0..day

\* What the partition will hold once the HTTP task has rewritten the header.
StableHeader ==
    IF header # NoHeader THEN header
    ELSE IF /\ ~Idle("httpd")
            /\ Head(todo["httpd"]).do = "write header"
         THEN Head(todo["httpd"]).header
         ELSE DefaultHeader

\* A reader that checked the hash would find this.
Visible(h, t) ==
    LET p == h.meta[t]
    IN  IF p.size = 0 THEN Nothing
        ELSE IF p.hash # Content(t, p.size) THEN Damage
        ELSE IF \E d \in Documents : p.hash = Whole(d)
             THEN CHOOSE d \in Documents : p.hash = Whole(d)
        ELSE p.hash

Store == INSTANCE PayloadStore
             WITH visible <- [t \in Targets |-> Visible(StableHeader, t)]

\* Between statistics writes the HTTP task is alone with the partition, and
\* uploads, patches, deletions and power losses in any order amount to the
\* steps of PayloadStore: a committed payload is a whole document, and one is
\* never turned into another except through visible damage.
ImplementsPayloadStore == Store!Spec

\* After a dashboard was told that its upload is committed, that document is
\* what the target holds whenever the main loop is not just writing, until a
\* later request starts to rewrite it or the header sector is lost.
SavedDocumentIntact ==
    Idle("loop") =>
        \A t \in Targets :
            saved[t] # Nothing => Visible(StableHeader, t) = saved[t]

\* The header a commit writes carries a hash of what the flash holds: for a
\* target that only dashboards write that is always one document, whatever
\* the main loop writes in between.
NothingForged ==
    header # NoHeader =>
        \A t \in Targets \ {Stats} :
            Visible(header, t) \in Documents \union {Nothing, Damage}

\* api-contract.md: upload_incomplete is the answer when "Commit was requested
\* before all bytes were received".
\* (The code does not keep it: see "Observed, without a run" in README.md.)
CommitNeedsEveryByte ==
    [][\A b \in Dashboards :
          LET u == up[b]
          IN  /\ u # NotUploading
              /\ saved[u.target] # u.document
              /\ saved'[u.target] = u.document
              => u.received = 1..Cells[u.document]]_vars

\* interval-500ms.yaml: the counters in RAM and the stored current-day payload
\* "move together": when persist_ reports success the flash holds the document.
\* (The code does not keep it: see "Observed, without a run" in README.md.)
PersistReportsTruth ==
    [][kept' = day /\ kept # day =>
          [i \in 1..Cells[Today] |-> flash'[Stats][i]] = Whole(Today)]_vars
=============================================================================

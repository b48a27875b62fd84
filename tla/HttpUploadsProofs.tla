--------------------------- MODULE HttpUploadsProofs ---------------------------
(* Proofs about HttpUploads, for any targets, documents and clients: what    *)
(* becomes of an upload that nothing disturbs.                               *)
EXTENDS HttpUploads, StorageClientsProofs

-----------------------------------------------------------------------------
(* The invariant.                                                            *)

CellsOfUpload(s) == Cells[Document(s)]

\* In flash f are the first w chunks of client s, and the others are erased.
Sent(f, s, w) ==
    \A i \in 1..CellsOfUpload(s) :
        f[Target(s)][i] = IF i <= w THEN {Document(s)} ELSE {}

\* The header h has the upload of client s open, w chunks of it written.
OpenAt(h, s, w) ==
    h.upload = [target |-> Target(s), size |-> CellsOfUpload(s), written |-> w, session |-> s]

\* The header h has the upload of client s committed.
CommittedIn(h, s) ==
    /\ h.upload = NoUpload /\ h.last = [target |-> Target(s), session |-> s]
    /\ h.meta[Target(s)].size = CellsOfUpload(s)

\* The request r to open the upload of client s is being served; q is what is
\* left of its call.
Starting(f, q, r, s) ==
    /\ s \in Sessions /\ r = Ask("start", s, CellsOfUpload(s), "none")
    /\ OpenAt(Final(q), s, 0)
    /\ IF Len(q) = 3 THEN Head(q) = Erase(Target(s), CellsOfUpload(s))
       ELSE Len(q) \in {1, 2} /\ Sent(f, s, 0)

\* Between two requests the storage is where client s has come to, k requests
\* on, or one request further, whose answer was lost.
Waiting(h, f, c, k, s) ==
    /\ h # NoHeader
    /\ \/ /\ k \in 0..(CellsOfUpload(s) + 1)
          /\ \E w \in 0..CellsOfUpload(s) : w \in {k - 1, k} /\ OpenAt(h, s, w) /\ Sent(f, s, w)
       \/ /\ k \in {CellsOfUpload(s) + 1, CellsOfUpload(s) + 2}
          /\ CommittedIn(h, s) /\ Sent(f, s, CellsOfUpload(s))
          /\ Target(s) = Device => c = h.meta[Device]

\* A request of client s is being served: a chunk, or the commit.
Chunking(f, q, r, k, s) ==
    /\ k \in 1..CellsOfUpload(s) /\ r = Ask("chunk", s, k, "none")
    /\ OpenAt(Final(q), s, k)
    /\ IF Len(q) = 3
       THEN /\ Head(q) = Program(Target(s), {k}, Document(s))
            /\ \E w \in {k - 1, k} : Sent(f, s, w)
       ELSE Len(q) \in {1, 2} /\ Sent(f, s, k)
Committing(f, q, r, k, s) ==
    /\ k = CellsOfUpload(s) + 1 /\ r = Ask("commit", s, 0, "none")
    /\ Len(q) \in {1, 2} /\ CommittedIn(Final(q), s) /\ Sent(f, s, CellsOfUpload(s))

Undisturbed(h, f, q, r, c, k, s) ==
    IF r = NoRequest THEN Waiting(h, f, c, k, s)
    ELSE Chunking(f, q, r, k, s) \/ Committing(f, q, r, k, s)

Operations == {"none", "start", "chunk", "commit", "patch", "delete"}

HttpTypes ==
    /\ flash \in [Targets -> [1..Capacity -> SUBSET Documents]]
    /\ header \in GoodHeaders \union {NoHeader}
    /\ todo = [a \in Actors |-> todo[a]] /\ WellFormed(todo["httpd"])
    /\ alone \in Sessions \union {NoSession}
    /\ handling.op \in Operations
    /\ todo["httpd"] = << >> <=> handling = NoRequest

ClientsInv ==
    /\ handling.op = "start" => Starting(flash, todo["httpd"], handling, handling.session)
    /\ alone # NoSession =>
          Undisturbed(header, flash, todo["httpd"], handling, cached, at[alone], alone)

HttpInv == HttpTypes /\ ClientsInv

-----------------------------------------------------------------------------
(* Requests, plans and answers.                                              *)

LEMMA ClientTypes ==
  ASSUME NEW s \in Sessions
  PROVE  /\ Target(s) \in Targets /\ Document(s) \in Documents
         /\ CellsOfUpload(s) = Cells[Document(s)]
         /\ CellsOfUpload(s) \in 1..Capacity /\ CellsOfUpload(s) \in Nat
         /\ CellsOfUpload(s) > 0 /\ CellsOfUpload(s) \in 0..Capacity
         /\ \A i \in 1..CellsOfUpload(s) : i \in 1..Capacity
         /\ s \in AllSessions /\ s # NoSession /\ Target(s) # NoTarget
<1>1. Target(s) \in Targets /\ Document(s) \in Documents
  BY UploadAssumption DEF Target, Document
<1>2. CellsOfUpload(s) \in 1..Capacity
  BY <1>1, Sizes DEF CellsOfUpload
<1>3. /\ CellsOfUpload(s) \in Nat /\ CellsOfUpload(s) > 0 /\ CellsOfUpload(s) \in 0..Capacity
      /\ \A i \in 1..CellsOfUpload(s) : i \in 1..Capacity
  BY <1>2, Sizes
<1>4. s \in AllSessions /\ s # NoSession /\ Target(s) # NoTarget
  BY <1>1, Sizes DEF AllSessions
<1> QED BY <1>1, <1>2, <1>3, <1>4 DEF CellsOfUpload

LEMMA Asked ==
  ASSUME NEW op, NEW s, NEW i, NEW flaw
  PROVE  /\ Ask(op, s, i, flaw).op = op /\ Ask(op, s, i, flaw).session = s
         /\ Ask(op, s, i, flaw).cell = i /\ Ask(op, s, i, flaw).flaw = flaw
         /\ NoRequest.op = "none"
BY DEF Ask, NoRequest

\* The request that is due, by how far the client has come.
LEMMA DueForms ==
  ASSUME NEW s \in Sessions
  PROVE  /\ at[s] = 0 => Due(s) = Ask("start", s, CellsOfUpload(s), "none")
         /\ at[s] \in 1..CellsOfUpload(s) => Due(s) = Ask("chunk", s, at[s], "none")
         /\ at[s] \in {CellsOfUpload(s) + 1, CellsOfUpload(s) + 2} =>
               Due(s) = Ask("commit", s, 0, "none")
         /\ Finished(s) = CellsOfUpload(s) + 2
         /\ Due(s).session = s /\ Due(s).op \in {"start", "chunk", "commit"}
         /\ Due(s).flaw = "none"
<1> DEFINE n == CellsOfUpload(s)
<1>1. n \in Nat /\ n > 0 /\ Cells[Document(s)] = n
  BY ClientTypes
<1> HIDE DEF n
<1>2. Due(s) = IF at[s] = 0 THEN Ask("start", s, n, "none")
               ELSE IF at[s] <= n THEN Ask("chunk", s, at[s], "none")
               ELSE Ask("commit", s, 0, "none")
  BY <1>1 DEF Due
<1>3. at[s] = 0 => Due(s) = Ask("start", s, n, "none")
  BY <1>2
<1>4. at[s] \in 1..n => Due(s) = Ask("chunk", s, at[s], "none")
  BY <1>1, <1>2
<1>5. at[s] \in {n + 1, n + 2} => Due(s) = Ask("commit", s, 0, "none")
  BY <1>1, <1>2
<1>6. Due(s).session = s /\ Due(s).op \in {"start", "chunk", "commit"} /\ Due(s).flaw = "none"
  <2>1. \/ Due(s) = Ask("start", s, n, "none")
        \/ Due(s) = Ask("chunk", s, at[s], "none")
        \/ Due(s) = Ask("commit", s, 0, "none")
    BY <1>2
  <2> QED BY <2>1, Asked
<1>7. Finished(s) = n + 2
  BY <1>1 DEF Finished
<1> QED BY <1>3, <1>4, <1>5, <1>6, <1>7 DEF n

\* What reaches the upload endpoints.
UploadRequest(r) ==
    \E s \in Sessions :
        \/ r = Ask("start", s, CellsOfUpload(s), "none")
        \/ \E i \in Nat : r = Ask("chunk", s, i, "none") \/ r = Ask("chunk", s, i, "empty")
        \/ r = Ask("commit", s, 0, "none")

LEMMA DueIsARequest ==
  ASSUME NEW s \in Sessions, at[s] \in 0..(Finished(s) - 1)
  PROVE  UploadRequest(Due(s))
<1>1. CellsOfUpload(s) \in Nat /\ Finished(s) = CellsOfUpload(s) + 2
  BY ClientTypes, DueForms
<1>2. CASE at[s] = 0
  BY <1>2, DueForms DEF UploadRequest
<1>3. CASE at[s] \in 1..CellsOfUpload(s)
  BY <1>1, <1>3, DueForms DEF UploadRequest
<1>4. CASE at[s] = CellsOfUpload(s) + 1
  BY <1>4, DueForms DEF UploadRequest
<1> QED BY <1>1, <1>2, <1>3, <1>4

LEMMA PlanForms ==
  ASSUME NEW s \in Sessions, NEW i
  PROVE  /\ Plan(Ask("start", s, i, "none")) = StartUpload(Target(s), i, s)
         /\ Plan(Ask("chunk", s, i, "none")) = WriteUploadChunk(Target(s), i, Document(s), s)
         /\ Plan(Ask("chunk", s, i, "empty")) = Refused
         /\ Plan(Ask("commit", s, i, "none")) = CommitUpload(Target(s), s)
BY Asked DEF Plan

LEMMA PlanTypes ==
  ASSUME HttpTypes, NEW r, UploadRequest(r)
  PROVE  /\ WellFormed(Plan(r).effects) /\ r.session \in Sessions
         /\ r.op \in {"start", "chunk", "commit"}
<1>1. PICK s \in Sessions :
        \/ r = Ask("start", s, CellsOfUpload(s), "none")
        \/ \E i \in Nat : r = Ask("chunk", s, i, "none") \/ r = Ask("chunk", s, i, "empty")
        \/ r = Ask("commit", s, 0, "none")
  BY DEF UploadRequest
<1>2. /\ Target(s) \in Targets /\ Document(s) \in Documents /\ s \in AllSessions
      /\ CellsOfUpload(s) \in 0..Capacity
  BY ClientTypes
<1>3. /\ header \in GoodHeaders \union {NoHeader}
      /\ flash \in [Targets -> [1..Capacity -> SUBSET Documents]]
  BY DEF HttpTypes
<1>4. CASE r = Ask("start", s, CellsOfUpload(s), "none")
  <2>1. WellFormed(StartUpload(Target(s), CellsOfUpload(s), s).effects)
    BY <1>2, <1>3, StartPlan
  <2> QED BY <1>4, <2>1, Asked, PlanForms
<1>5. CASE \E i \in Nat : r = Ask("chunk", s, i, "none") \/ r = Ask("chunk", s, i, "empty")
  <2>1. PICK i \in Nat : r = Ask("chunk", s, i, "none") \/ r = Ask("chunk", s, i, "empty")
    BY <1>5
  <2>2. WellFormed(WriteUploadChunk(Target(s), i, Document(s), s).effects)
    BY <1>2, <1>3, ChunkPlan
  <2>3. WellFormed(Refused.effects)
    BY NoEffects DEF Refused
  <2> QED BY <2>1, <2>2, <2>3, Asked, PlanForms
<1>6. CASE r = Ask("commit", s, 0, "none")
  <2>1. WellFormed(CommitUpload(Target(s), s).effects)
    BY <1>2, <1>3, CommitPlan
  <2> QED BY <1>6, <2>1, Asked, PlanForms
<1> QED BY <1>1, <1>4, <1>5, <1>6

\* An answer moves the client whose due request it answers, and no other.
LEMMA Delivered ==
  ASSUME NEW r, NEW code, Deliver(r, code), NEW s \in Sessions
  PROVE  \/ at'[s] = at[s]
         \/ /\ s = r.session /\ r = Due(s) /\ at[s] \in 0..(Finished(s) - 1)
            /\ at'[s] = IF code = 200 THEN at[s] + 1 ELSE Stopped
<1>1. PICK lost \in BOOLEAN : at' = [x \in Sessions |->
            IF x # r.session \/ r.flaw # "none" \/ lost THEN at[x]
            ELSE IF at[x] \notin 0..(Finished(x) - 1) THEN at[x]
            ELSE IF r # Due(x) THEN at[x]
            ELSE IF code = 200 THEN at[x] + 1 ELSE Stopped]
  BY DEF Deliver
<1> QED BY <1>1

\* Success of a request: who is undisturbed afterwards, and what the cache holds.
LEMMA Succeeded ==
  ASSUME NEW r, Succeed(r)
  PROVE  /\ \/ alone' = alone
            \/ alone' = NoSession
            \/ r.op = "start" /\ at[r.session] = 0 /\ handling = r /\ alone' = r.session
         /\ cached' = cached \/ cached' = header'.meta[Device]
         /\ alone' # NoSession => Deliver(r, 200)
         /\ alone' # NoSession /\ r.op = "commit" /\ Target(r.session) = Device =>
               cached' = header'.meta[Device]
BY DEF Succeed

\* The client that nothing disturbs is not refused, and a request of its that
\* asks for no effect has been carried out before.
LEMMA DueIsGranted ==
  ASSUME HttpTypes, NEW s \in Sessions, Waiting(header, flash, cached, at[s], s)
  PROVE  LET q == Plan(Due(s)).effects
             n == CellsOfUpload(s)
         IN  /\ Plan(Due(s)).ok = TRUE
             /\ q = << >> => \/ at[s] = 0 /\ Due(s).op = "start"
                             \/ /\ at[s] \in {n + 1, n + 2} /\ Due(s).op = "commit"
                                /\ CommittedIn(header, s)
             /\ q # << >> => \/ Chunking(flash, q, Due(s), at[s], s)
                             \/ Committing(flash, q, Due(s), at[s], s)
<1> DEFINE n == CellsOfUpload(s)
           t == Target(s)
           d == Document(s)
           k == at[s]
<1>1. /\ t \in Targets /\ d \in Documents /\ n \in Nat /\ n > 0 /\ n \in 0..Capacity
      /\ s \in AllSessions /\ s # NoSession /\ t # NoTarget /\ n = Cells[d]
  BY ClientTypes
<1>2. /\ k = 0 => Due(s) = Ask("start", s, n, "none")
      /\ k \in 1..n => Due(s) = Ask("chunk", s, k, "none")
      /\ k \in {n + 1, n + 2} => Due(s) = Ask("commit", s, 0, "none")
  BY DueForms
<1>3. /\ header # NoHeader /\ header \in GoodHeaders /\ HeaderOrDefault = header
      /\ flash \in [Targets -> [1..Capacity -> SUBSET Documents]]
  BY CurrentIsGood DEF Waiting, HttpTypes
<1>4. \/ k \in 0..(n + 1) /\ \E w \in 0..n : w \in {k - 1, k} /\ OpenAt(header, s, w) /\ Sent(flash, s, w)
      \/ k \in {n + 1, n + 2} /\ CommittedIn(header, s)
  BY DEF Waiting
<1>5. CASE k \in {n + 1, n + 2} /\ CommittedIn(header, s)
  <2>1. Plan(Due(s)) = CommitUpload(t, s)
    BY <1>2, <1>5, PlanForms
  <2>2. header.upload.target = NoTarget /\ header.last = [target |-> t, session |-> s]
    BY <1>5 DEF CommittedIn, NoUpload
  <2>3. CommitUpload(t, s) = Granted(<< >>)
    BY <1>3, <2>2 DEF CommitUpload
  <2>4. Plan(Due(s)).ok = TRUE /\ Plan(Due(s)).effects = << >>
    BY <2>1, <2>3 DEF Granted
  <2>5. Due(s).op = "commit"
    BY <1>2, <1>5, Asked
  <2> QED BY <1>5, <2>4, <2>5
<1>6. CASE k \in 0..(n + 1) /\ \E w \in 0..n : w \in {k - 1, k} /\ OpenAt(header, s, w) /\ Sent(flash, s, w)
  <2>1. PICK w \in 0..n : w \in {k - 1, k} /\ OpenAt(header, s, w) /\ Sent(flash, s, w)
    BY <1>6
  <2>2. /\ header.upload.target = t /\ header.upload.session = s
        /\ header.upload.size = n /\ header.upload.written = w
    BY <2>1 DEF OpenAt
  <2>3. CASE k = 0
    <3>1. Plan(Due(s)) = StartUpload(t, n, s)
      BY <1>2, <2>3, PlanForms
    <3>2. StartUpload(t, n, s) = Granted(<< >>)
      BY <1>1, <1>3, <2>2 DEF StartUpload, OpenUpload
    <3>3. Plan(Due(s)).ok = TRUE /\ Plan(Due(s)).effects = << >>
      BY <3>1, <3>2 DEF Granted
    <3>4. Due(s).op = "start"
      BY <1>2, <2>3, Asked
    <3> QED BY <2>3, <3>3, <3>4
  <2>4. CASE k \in 1..n
    <3> DEFINE p == WriteUploadChunk(t, k, d, s)
               f == Final(p.effects)
    <3>1. Plan(Due(s)) = p
      BY <1>2, <2>4, PlanForms
    <3>2. p.effects # << >>
      <4> DEFINE g == [header EXCEPT !.upload.written = IF k > @ THEN k ELSE @]
      <4>0. header # NoHeader /\ OpenUpload(header, t, s) /\ ~(k > header.upload.size)
        BY <1>1, <1>3, <2>2, <2>4 DEF OpenUpload
      <4>1. p = Granted(<<Program(t, {k}, d)>> \o RewriteHeader(g))
        BY <4>0, Zenon DEF WriteUploadChunk
      <4> HIDE DEF g, p
      <4>2. p.effects = <<Program(t, {k}, d)>> \o <<HeaderErase, WriteHeader(g)>>
        BY <4>1 DEF Granted, RewriteHeader, HeaderErase, WriteHeader
      <4>3. p.effects = <<Program(t, {k}, d), HeaderErase, WriteHeader(g)>>
        BY <4>2, ThreeInARow
      <4> QED BY <4>3
    <3>3. /\ p.ok = TRUE /\ Len(p.effects) = 3 /\ Head(p.effects) = Program(t, {k}, d)
          /\ f.upload = [target |-> t, size |-> header.upload.size,
                         written |-> IF k > header.upload.written THEN k ELSE header.upload.written,
                         session |-> s]
      <4>1. k \in Nat /\ header \in GoodHeaders \union {NoHeader}
        BY <1>1, <1>3, <2>4
      <4> HIDE DEF t, d, k, n
      <4> QED BY <1>1, <3>2, <4>1, ChunkPlan
    <3> HIDE DEF p, f
    <3>4. (IF k > header.upload.written THEN k ELSE header.upload.written) = k
      BY <1>1, <2>1, <2>2, <2>4
    <3>5. OpenAt(f, s, k)
      BY <2>2, <3>3, <3>4 DEF OpenAt
    <3>6. Chunking(flash, p.effects, Due(s), k, s)
      BY <1>2, <2>1, <2>4, <3>3, <3>5 DEF Chunking, f
    <3> QED BY <3>1, <3>2, <3>3, <3>6
  <2>5. CASE k = n + 1
    <3> DEFINE p == CommitUpload(t, s)
               f == Final(p.effects)
    <3>0. w = n
      BY <1>1, <2>1, <2>5
    <3>1. Plan(Due(s)) = p
      BY <1>2, <2>5, PlanForms
    <3>2. p.effects # << >>
      <4> DEFINE g == [meta |-> [header.meta EXCEPT ![t] = [size |-> n, hash |-> Content(t, n)]],
                       upload |-> NoUpload, last |-> [target |-> t, session |-> s]]
      <4>1. p = Granted(RewriteHeader(g))
        BY <1>1, <1>3, <2>2, <3>0 DEF CommitUpload, OpenUpload
      <4> HIDE DEF g, p
      <4>2. p.effects = <<HeaderErase, WriteHeader(g)>>
        BY <4>1 DEF Granted, RewriteHeader, HeaderErase, WriteHeader
      <4> QED BY <4>2
    <3>3. /\ p.ok = TRUE /\ Len(p.effects) = 2 /\ f.upload = NoUpload
          /\ f.last = [target |-> t, session |-> s]
          /\ f.meta = [header.meta EXCEPT ![t] = [size |-> header.upload.size,
                                                  hash |-> Content(t, header.upload.size)]]
      BY <1>1, <1>3, <3>2, CommitPlan
    <3> HIDE DEF p, f
    <3>4. f.meta[t].size = n
      <4>1. header.meta \in [Targets -> [size : 0..Capacity, hash : Hashes]]
        BY <1>3, GoodParts
      <4> QED BY <1>1, <2>2, <3>3, <4>1
    <3>5. CommittedIn(f, s)
      BY <3>3, <3>4 DEF CommittedIn
    <3>6. Committing(flash, p.effects, Due(s), k, s)
      BY <1>2, <2>1, <2>5, <3>0, <3>3, <3>5 DEF Committing, f
    <3> QED BY <3>1, <3>2, <3>3, <3>6
  <2>6. k = 0 \/ k \in 1..n \/ k = n + 1
    BY <1>1, <1>6
  <2> QED BY <2>3, <2>4, <2>5, <2>6
<1> QED BY <1>4, <1>5, <1>6

-----------------------------------------------------------------------------
(* The steps.                                                                *)

LEMMA InitHttp == UploadInit => HttpInv
<1> SUFFICES ASSUME UploadInit PROVE HttpInv
  OBVIOUS
<1>1. /\ flash = [t \in Targets |-> [i \in 1..Capacity |-> {}]] /\ header = NoHeader
      /\ todo = [a \in Actors |-> << >>] /\ handling = NoRequest /\ alone = NoSession
  BY DEF UploadInit, StorageInit
<1>2. todo["httpd"] = << >> /\ todo = [a \in Actors |-> todo[a]]
  BY <1>1 DEF Actors
<1>3. handling.op = "none"
  BY <1>1, Asked
<1>4. HttpTypes
  BY <1>1, <1>2, <1>3, NoEffects DEF HttpTypes, Operations
<1> QED BY <1>1, <1>3, <1>4 DEF HttpInv, ClientsInv

\* Steps that concern neither the storage nor a client.
LEMMA OnlyAnswers ==
  ASSUME HttpInv, flash' = flash, header' = header, todo' = todo, handling' = handling,
         cached' = cached, alone' = alone, at' = at
  PROVE  HttpInv'
<1>1. HttpTypes'
  BY DEF HttpInv, HttpTypes
<1>2. ClientsInv'
  <2>1. handling'.op = "start" => Starting(flash', todo'["httpd"], handling', handling'.session)
    BY DEF HttpInv, ClientsInv
  <2>2. alone' # NoSession =>
          Undisturbed(header', flash', todo'["httpd"], handling', cached', at'[alone'], alone')
    BY DEF HttpInv, ClientsInv
  <2> QED BY <2>1, <2>2 DEF ClientsInv
<1> QED BY <1>1, <1>2 DEF HttpInv

\* A call is begun.
LEMMA BeginsCall ==
  ASSUME HttpInv, NEW r, NEW plan, NEW disturbs \in BOOLEAN, Begin(r, plan, disturbs),
         handling = NoRequest, WellFormed(plan.effects), plan.effects # << >>,
         r.op \in Operations \ {"none"},
         r.op = "start" => Starting(flash, plan.effects, r, r.session),
         ~disturbs /\ alone # NoSession =>
            \/ Chunking(flash, plan.effects, r, at[alone], alone)
            \/ Committing(flash, plan.effects, r, at[alone], alone)
  PROVE  HttpInv'
<1>1. /\ flash' = flash /\ header' = header /\ handling' = r /\ cached' = cached /\ at' = at
      /\ alone' = IF disturbs THEN NoSession ELSE alone
      /\ todo' = [todo EXCEPT !["httpd"] = plan.effects]
  BY DEF Begin, Call
<1>2. todo = [a \in Actors |-> todo[a]] /\ alone \in Sessions \union {NoSession}
  BY DEF HttpInv, HttpTypes
<1>3. todo'["httpd"] = plan.effects /\ todo' = [a \in Actors |-> todo'[a]]
  BY <1>1, <1>2 DEF Actors
<1>4. r # NoRequest
  BY Asked
<1>5. HttpTypes'
  <2>1. alone' \in Sessions \union {NoSession}
    BY <1>1, <1>2
  <2>2. /\ flash' \in [Targets -> [1..Capacity -> SUBSET Documents]]
        /\ header' \in GoodHeaders \union {NoHeader}
    BY <1>1 DEF HttpInv, HttpTypes
  <2> QED BY <1>1, <1>3, <1>4, <2>1, <2>2 DEF HttpTypes
<1>6. ClientsInv'
  <2>1. handling'.op = "start" => Starting(flash', todo'["httpd"], handling', handling'.session)
    BY <1>1, <1>3
  <2>2. ASSUME alone' # NoSession
        PROVE  Undisturbed(header', flash', todo'["httpd"], handling', cached', at'[alone'], alone')
    <3>1. ~disturbs /\ alone' = alone
      BY <1>1, <2>2
    <3>2. \/ Chunking(flash, plan.effects, r, at[alone], alone)
          \/ Committing(flash, plan.effects, r, at[alone], alone)
      BY <2>2, <3>1
    <3> QED BY <1>1, <1>3, <1>4, <3>1, <3>2 DEF Undisturbed
  <2> QED BY <2>1, <2>2 DEF ClientsInv
<1> QED BY <1>5, <1>6 DEF HttpInv

LEMMA StartBegins ==
  ASSUME HttpTypes, NEW r, UploadRequest(r), r.op = "start", Plan(r).effects # << >>
  PROVE  Starting(flash, Plan(r).effects, r, r.session)
<1>1. PICK s \in Sessions :
        \/ r = Ask("start", s, CellsOfUpload(s), "none")
        \/ \E i \in Nat : r = Ask("chunk", s, i, "none") \/ r = Ask("chunk", s, i, "empty")
        \/ r = Ask("commit", s, 0, "none")
  BY DEF UploadRequest
<1>2. r = Ask("start", s, CellsOfUpload(s), "none") /\ r.session = s
  <2>1. \A i : /\ Ask("chunk", s, i, "none").op = "chunk" /\ Ask("chunk", s, i, "empty").op = "chunk"
               /\ Ask("commit", s, i, "none").op = "commit"
    BY Asked
  <2>2. r = Ask("start", s, CellsOfUpload(s), "none")
    BY <1>1, <2>1
  <2> QED BY <2>2, Asked
<1> DEFINE t == Target(s)
           n == CellsOfUpload(s)
           p == StartUpload(t, n, s)
<1>3. t \in Targets /\ n \in 0..Capacity /\ s \in AllSessions
  BY ClientTypes
<1>4. Plan(r) = p
  BY <1>2, PlanForms
<1>5. header \in GoodHeaders \union {NoHeader}
  BY DEF HttpTypes
<1>6. p.effects # << >>
  BY <1>4
<1>7. /\ Len(p.effects) = 3 /\ Head(p.effects) = Erase(t, n)
      /\ Final(p.effects).upload = [target |-> t, size |-> n, written |-> 0, session |-> s]
  <2> HIDE DEF t, n
  <2> QED BY <1>3, <1>5, <1>6, StartedHeader
<1> HIDE DEF p
<1> QED BY <1>2, <1>4, <1>7 DEF Starting, OpenAt

\* A request that is answered without an effect.
LEMMA AnswersAtOnce ==
  ASSUME HttpInv, NEW r, UploadRequest(r), handling = NoRequest, Plan(r).effects = << >>,
         flash' = flash, header' = header, todo' = todo, handling' = handling,
         IF Plan(r).ok THEN Succeed(r) ELSE FailWith(r, Refusal(r)) /\ UNCHANGED alone
  PROVE  HttpInv'
<1>0. HttpTypes /\ ClientsInv
  BY DEF HttpInv
<1>1. alone' \in {alone, NoSession}
  <2>1. r # handling
    <3>1. r.op # "none" /\ handling.op = "none"
      BY <1>0, PlanTypes, Asked
    <3> QED BY <3>1
  <2>2. CASE Plan(r).ok
    <3>1. Succeed(r)
      BY <2>2
    <3> QED BY <2>1, <3>1, Succeeded
  <2>3. CASE ~Plan(r).ok
    BY <2>3
  <2> QED BY <2>2, <2>3
<1>2. HttpTypes'
  BY <1>0, <1>1 DEF HttpTypes
<1>3. ClientsInv'
  <2>0. handling'.op = "none"
    BY Asked
  <2> SUFFICES ASSUME alone' # NoSession
               PROVE  Waiting(header', flash', cached', at'[alone'], alone')
    BY <2>0 DEF ClientsInv, Undisturbed
  <2> DEFINE s == alone
             n == CellsOfUpload(s)
             k == at[s]
  <2>1. alone' = s /\ s \in Sessions /\ s # NoSession
    BY <1>0, <1>1 DEF HttpTypes
  <2>2. n \in Nat /\ n > 0 /\ Finished(s) = n + 2
    BY <2>1, ClientTypes, DueForms
  <2>3. Waiting(header, flash, cached, k, s)
    BY <1>0, <2>1 DEF ClientsInv, Undisturbed
  <2>4. cached' = cached \/ cached' = header.meta[Device]
    <3>1. CASE Plan(r).ok
      BY <3>1, Succeeded
    <3>2. CASE ~Plan(r).ok
      BY <3>2 DEF FailWith
    <3> QED BY <3>1, <3>2
  <2>5. CASE at'[s] = k
    BY <2>1, <2>3, <2>4, <2>5 DEF Waiting
  <2>6. CASE at'[s] # k
    <3>2. PICK code : Deliver(r, code) /\ (Plan(r).ok => code = 200)
      <4>1. CASE Plan(r).ok
        <5>1. Deliver(r, 200)
          BY <4>1, Succeeded
        <5> QED BY <5>1
      <4>2. CASE ~Plan(r).ok
        <5>1. r.op \notin {"patch", "delete"}
          BY <1>0, PlanTypes
        <5>2. Deliver(r, CodeOf(r, Refusal(r)))
          BY <4>2, <5>1 DEF FailWith
        <5> QED BY <4>2, <5>2
      <4> QED BY <4>1, <4>2
    <3>3. /\ r = Due(s) /\ k \in 0..(Finished(s) - 1)
          /\ at'[s] = IF code = 200 THEN k + 1 ELSE Stopped
      BY <2>1, <2>6, <3>2, Delivered
    <3>4. /\ Plan(r).ok = TRUE
          /\ \/ k = 0
             \/ k \in {n + 1, n + 2} /\ CommittedIn(header, s)
      BY <1>0, <2>1, <2>3, <3>3, DueIsGranted
    <3>5. at'[s] = k + 1
      BY <3>2, <3>3, <3>4
    <3>6. CASE k = 0
      <4>1. PICK w \in 0..n : w \in {0 - 1, 0} /\ OpenAt(header, s, w) /\ Sent(flash, s, w)
        BY <2>2, <2>3, <3>6 DEF Waiting
      <4>2. w = 0 /\ at'[s] = 1 /\ 1 \in 0..(n + 1) /\ 0 \in 0..n /\ 0 \in {1 - 1, 1}
        BY <2>2, <3>5, <3>6, <4>1
      <4>3. OpenAt(header', s, 0) /\ Sent(flash', s, 0) /\ header' # NoHeader
        BY <2>3, <4>1, <4>2 DEF Waiting
      <4> QED BY <2>1, <4>2, <4>3 DEF Waiting
    <3>7. CASE k \in {n + 1, n + 2} /\ CommittedIn(header, s)
      <4>1. k = n + 1 /\ at'[s] = n + 2
        BY <2>2, <3>3, <3>5, <3>7
      <4>2. /\ header' # NoHeader /\ CommittedIn(header', s)
            /\ Sent(flash', s, n) /\ (Target(s) = Device => cached' = header'.meta[Device])
        <5>1. CASE CommittedIn(header, s) /\ Sent(flash, s, n)
                   /\ (Target(s) = Device => cached = header.meta[Device])
          BY <2>3, <2>4, <5>1 DEF Waiting
        <5>2. CASE \E w \in 0..n : OpenAt(header, s, w)
          <6>1. header.upload.target = Target(s) /\ header.upload.target = NoTarget
            BY <3>7, <5>2 DEF OpenAt, CommittedIn, NoUpload
          <6> QED BY <2>1, <6>1, ClientTypes
        <5> QED BY <2>3, <5>1, <5>2 DEF Waiting
      <4> QED BY <2>1, <4>1, <4>2 DEF Waiting
    <3> QED BY <3>4, <3>6, <3>7
  <2> QED BY <2>5, <2>6
<1> QED BY <1>2, <1>3 DEF HttpInv

LEMMA ReceiveKeeps ==
  ASSUME HttpInv, NEW r, UploadRequest(r), Receive(r)
  PROVE  HttpInv'
<1>0. HttpTypes /\ ClientsInv /\ handling = NoRequest
  BY DEF HttpInv, Receive, HttpIdle
<1>1. /\ WellFormed(Plan(r).effects) /\ r.session \in Sessions
      /\ r.op \in {"start", "chunk", "commit"}
  BY <1>0, PlanTypes
<1>2. CASE Plan(r).effects = << >>
  <2>1. /\ flash' = flash /\ header' = header /\ todo' = todo /\ handling' = handling
        /\ IF Plan(r).ok THEN Succeed(r) ELSE FailWith(r, Refusal(r)) /\ UNCHANGED alone
    BY <1>2 DEF Receive, storageVars
  <2> QED BY <1>0, <1>2, <2>1, AnswersAtOnce
<1>3. CASE Plan(r).effects # << >>
  <2> DEFINE disturbs == alone # r.session \/ r # Due(r.session)
  <2>1. Begin(r, Plan(r), disturbs) /\ disturbs \in BOOLEAN
    BY <1>3 DEF Receive
  <2>2. r.op = "start" => Starting(flash, Plan(r).effects, r, r.session)
    BY <1>0, <1>3, StartBegins
  <2>3. ASSUME ~disturbs, alone # NoSession
        PROVE  \/ Chunking(flash, Plan(r).effects, r, at[alone], alone)
               \/ Committing(flash, Plan(r).effects, r, at[alone], alone)
    <3>1. alone \in Sessions /\ r = Due(alone)
      BY <1>1, <2>3
    <3>2. Waiting(header, flash, cached, at[alone], alone)
      BY <1>0, <2>3 DEF ClientsInv, Undisturbed
    <3> QED BY <1>0, <1>3, <3>1, <3>2, DueIsGranted
  <2>4. r.op \in Operations \ {"none"}
    BY <1>1 DEF Operations
  <2> HIDE DEF disturbs
  <2> QED BY <1>0, <1>1, <1>3, <2>1, <2>2, <2>3, <2>4, BeginsCall
<1> QED BY <1>2, <1>3

\* Whatever ends without a client that is undisturbed.
LEMMA NobodyLeft ==
  ASSUME HttpTypes', handling' = NoRequest, alone' = NoSession
  PROVE  HttpInv'
BY Asked DEF HttpInv, ClientsInv

LEMMA HashFailsKeeps ==
  ASSUME HttpInv, NEW r, HashFails(r)
  PROVE  HttpInv'
<1>1. /\ flash' = flash /\ header' = header /\ todo' = todo /\ handling' = handling
      /\ alone' = NoSession /\ handling = NoRequest
  BY DEF HashFails, HttpIdle, storageVars
<1>2. HttpTypes'
  BY <1>1 DEF HttpInv, HttpTypes
<1> QED BY <1>1, <1>2, NobodyLeft

LEMMA PatchKeeps ==
  ASSUME HttpInv, NEW kind, PatchFloorplan(kind)
  PROVE  HttpInv'
<1> DEFINE r == Ask("patch", NoSession, 0, "none")
<1>0. HttpTypes /\ handling = NoRequest /\ Config \in Targets
  BY UploadAssumption DEF HttpInv, PatchFloorplan, HttpIdle
<1>1. \/ /\ flash' = flash /\ header' = header /\ todo' = todo /\ handling' = handling
         /\ cached' = cached /\ alone' = alone /\ at' = at
      \/ \E d \in Documents : Begin(r, WritePayload(Config, Patched[d]), TRUE)
  BY DEF PatchFloorplan, storageVars
<1>2. CASE /\ flash' = flash /\ header' = header /\ todo' = todo /\ handling' = handling
           /\ cached' = cached /\ alone' = alone /\ at' = at
  BY <1>2, OnlyAnswers
<1>3. CASE \E d \in Documents : Begin(r, WritePayload(Config, Patched[d]), TRUE)
  <2>1. PICK d \in Documents : Begin(r, WritePayload(Config, Patched[d]), TRUE)
    BY <1>3
  <2> DEFINE plan == WritePayload(Config, Patched[d])
  <2>2. WellFormed(plan.effects) /\ plan.effects # << >>
    <3>1. Patched[d] \in Documents /\ header \in GoodHeaders \union {NoHeader}
      BY <1>0, UploadAssumption DEF HttpTypes
    <3> QED BY <1>0, <3>1, WritePlan
  <2>3. r.op = "patch"
    BY Asked
  <2>4. Begin(r, plan, TRUE)
    BY <2>1
  <2>5. r.op # "start" /\ r.op \in Operations \ {"none"}
    BY <2>3 DEF Operations
  <2> HIDE DEF plan, r
  <2> QED BY <1>0, <2>2, <2>4, <2>5, BeginsCall
<1> QED BY <1>1, <1>2, <1>3

LEMMA DeleteKeeps ==
  ASSUME HttpInv, NEW confirmed \in BOOLEAN, DeleteFloorplan(confirmed)
  PROVE  HttpInv'
<1> DEFINE r == Ask("delete", NoSession, 0, "none")
           plan == DeletePayloads(<<Config, Image>>)
<1>0. HttpTypes /\ handling = NoRequest
  BY DEF HttpInv, DeleteFloorplan, HttpIdle
<1>1. \/ /\ flash' = flash /\ header' = header /\ todo' = todo /\ handling' = handling
         /\ cached' = cached /\ alone' = alone /\ at' = at
      \/ Begin(r, plan, TRUE)
  BY DEF DeleteFloorplan, storageVars
<1>2. CASE /\ flash' = flash /\ header' = header /\ todo' = todo /\ handling' = handling
           /\ cached' = cached /\ alone' = alone /\ at' = at
  BY <1>2, OnlyAnswers
<1>3. CASE Begin(r, plan, TRUE)
  <2>1. WellFormed(plan.effects) /\ plan.effects # << >>
    <3>1. <<Config, Image>> \in DeleteCalls
      BY UploadAssumption DEF DeleteCalls
    <3>2. header \in GoodHeaders \union {NoHeader}
      BY <1>0 DEF HttpTypes
    <3> QED BY <3>1, <3>2, DeletePlan
  <2>2. r.op = "delete"
    BY Asked
  <2>3. r.op # "start" /\ r.op \in Operations \ {"none"}
    BY <2>2 DEF Operations
  <2> HIDE DEF plan, r
  <2> QED BY <1>0, <1>3, <2>1, <2>3, BeginsCall
<1> QED BY <1>1, <1>2, <1>3

\* An effect of the call under way.
LEMMA Advanced ==
  ASSUME HttpTypes, Advance("httpd")
  PROVE  LET q == todo["httpd"]
         IN  /\ WellFormed(q) /\ q # << >> /\ Len(q) \in {1, 2, 3, 4}
             /\ todo'["httpd"] = Tail(q) /\ todo' = [a \in Actors |-> todo'[a]]
             /\ WellFormed(Tail(q)) /\ (Tail(q) = << >> <=> Len(q) = 1)
             /\ Tail(q) # << >> => Final(Tail(q)) = Final(q)
             /\ Len(q) = 2 => Len(Tail(q)) = 1
             /\ Len(q) = 3 => Len(Tail(q)) = 2
             /\ Len(q) = 4 => Len(Tail(q)) = 3
             /\ flash' \in [Targets -> [1..Capacity -> SUBSET Documents]]
             /\ header' \in GoodHeaders \union {NoHeader}
             /\ Len(q) = 1 => flash' = flash /\ header' = Final(q) /\ header' # NoHeader
             /\ Len(q) = 2 => flash' = flash
             /\ Len(q) \in {3, 4} =>
                   \A i \in 1..Capacity : flash'[Head(q).target][i] =
                      IF i \notin Head(q).cells THEN flash[Head(q).target][i]
                      ELSE IF Head(q).do = "erase" THEN {}
                      ELSE flash[Head(q).target][i] \union {Head(q).document}
<1> DEFINE q == todo["httpd"]
<1>1. /\ WellFormed(q) /\ q # << >> /\ Apply(Head(q))
      /\ todo' = [todo EXCEPT !["httpd"] = Tail(@)] /\ todo = [a \in Actors |-> todo[a]]
      /\ flash \in [Targets -> [1..Capacity -> SUBSET Documents]]
      /\ header \in GoodHeaders \union {NoHeader}
  BY DEF HttpTypes, Advance, Idle
<1>2. todo'["httpd"] = Tail(q) /\ todo' = [a \in Actors |-> todo'[a]]
  BY <1>1 DEF Actors
<1> HIDE DEF q
<1>3. /\ Len(q) \in {1, 2, 3, 4} /\ WellFormed(Tail(q)) /\ (Tail(q) = << >> <=> Len(q) = 1)
      /\ Tail(q) # << >> => Final(Tail(q)) = Final(q)
  BY <1>1, NextEffect
<1>4. /\ Len(q) = 2 => Len(Tail(q)) = 1
      /\ Len(q) = 3 => Len(Tail(q)) = 2
      /\ Len(q) = 4 => Len(Tail(q)) = 3
  BY <1>1, NextEffect
<1>5. /\ Final(q) \in GoodHeaders
      /\ Len(q) = 1 => Head(q) = WriteHeader(Final(q))
      /\ Len(q) = 2 => Head(q) = HeaderErase
      /\ Len(q) \in {3, 4} => Head(q) \in PayloadEffects
  BY <1>1, NextEffect
<1>6. Len(q) = 1 => flash' = flash /\ header' = Final(q) /\ header' # NoHeader
  <2>1. Final(q) # NoHeader
    BY <1>5, GoodParts
  <2>2. Len(q) = 1 => flash' = flash /\ header' = Final(q)
    BY <1>1, <1>5, HeaderEffects DEF Apply
  <2> QED BY <2>1, <2>2
<1>7. Len(q) = 2 => flash' = flash /\ header' = NoHeader
  BY <1>1, <1>5, HeaderEffects DEF Apply
<1>8. Len(q) \in {3, 4} =>
        /\ header' = header
        /\ flash' \in [Targets -> [1..Capacity -> SUBSET Documents]]
        /\ \A i \in 1..Capacity : flash'[Head(q).target][i] =
              IF i \notin Head(q).cells THEN flash[Head(q).target][i]
              ELSE IF Head(q).do = "erase" THEN {}
              ELSE flash[Head(q).target][i] \union {Head(q).document}
  BY <1>1, <1>5, ApplyPayload
<1>9. flash' \in [Targets -> [1..Capacity -> SUBSET Documents]]
  <2>1. Len(q) \in {1, 2} => flash' = flash
    BY <1>6, <1>7
  <2> QED BY <1>1, <1>3, <1>8, <2>1
<1>10. header' \in GoodHeaders \union {NoHeader}
  BY <1>1, <1>3, <1>5, <1>6, <1>7, <1>8
<1>11. q # << >> /\ WellFormed(q)
  BY <1>1
<1>12. Len(q) \in {3, 4} =>
          \A i \in 1..Capacity : flash'[Head(q).target][i] =
             IF i \notin Head(q).cells THEN flash[Head(q).target][i]
             ELSE IF Head(q).do = "erase" THEN {}
             ELSE flash[Head(q).target][i] \union {Head(q).document}
  BY <1>8
<1>13. (Len(q) = 1 => flash' = flash /\ header' = Final(q) /\ header' # NoHeader)
       /\ (Len(q) = 2 => flash' = flash)
  BY <1>6, <1>7
<1> QED BY <1>2, <1>3, <1>4, <1>9, <1>10, <1>11, <1>12, <1>13 DEF q

\* The payload effects of an upload do what its client has to say of the flash.
LEMMA ErasedForStart ==
  ASSUME HttpTypes, Advance("httpd"), NEW s \in Sessions, Len(todo["httpd"]) = 3,
         Head(todo["httpd"]) = Erase(Target(s), CellsOfUpload(s))
  PROVE  Sent(flash', s, 0)
<1> DEFINE e == Head(todo["httpd"])
<1>1. /\ Target(s) \in Targets /\ CellsOfUpload(s) \in Nat
      /\ \A i \in 1..CellsOfUpload(s) : i \in 1..Capacity
  BY ClientTypes
<1>2. e.target = Target(s) /\ e.do = "erase" /\ e.cells = 1..RoundUpSector(CellsOfUpload(s))
  BY <1>1, EraseIsAnEffect
<1>3. \A i \in 1..CellsOfUpload(s) : i \in e.cells
  BY <1>1, <1>2, RoundedUp
<1>4. \A i \in 1..Capacity : flash'[e.target][i] =
         IF i \notin e.cells THEN flash[e.target][i]
         ELSE IF e.do = "erase" THEN {} ELSE flash[e.target][i] \union {e.document}
  BY Advanced
<1> HIDE DEF e
<1>5. \A i \in 1..CellsOfUpload(s) : flash'[Target(s)][i] = {} /\ ~(i <= 0)
  BY <1>1, <1>2, <1>3, <1>4
<1> QED BY <1>5 DEF Sent

LEMMA ProgrammedChunk ==
  ASSUME HttpTypes, Advance("httpd"), NEW s \in Sessions, NEW k \in 1..CellsOfUpload(s),
         NEW w \in {k - 1, k}, Sent(flash, s, w), Len(todo["httpd"]) = 3,
         Head(todo["httpd"]) = Program(Target(s), {k}, Document(s))
  PROVE  Sent(flash', s, k)
<1> DEFINE e == Head(todo["httpd"])
<1>1. /\ Target(s) \in Targets /\ CellsOfUpload(s) \in Nat
      /\ \A i \in 1..CellsOfUpload(s) : i \in 1..Capacity
  BY ClientTypes
<1>2. e.target = Target(s) /\ e.do = "program" /\ e.cells = {k} /\ e.document = Document(s)
  BY DEF Program
<1>3. \A i \in 1..Capacity : flash'[e.target][i] =
         IF i \notin e.cells THEN flash[e.target][i]
         ELSE IF e.do = "erase" THEN {} ELSE flash[e.target][i] \union {e.document}
  BY Advanced
<1> HIDE DEF e
<1> SUFFICES ASSUME NEW i \in 1..CellsOfUpload(s)
             PROVE  flash'[Target(s)][i] = IF i <= k THEN {Document(s)} ELSE {}
  BY DEF Sent
<1>4. flash[Target(s)][i] = IF i <= w THEN {Document(s)} ELSE {}
  BY DEF Sent
<1>5. flash'[Target(s)][i] = IF i = k THEN flash[Target(s)][i] \union {Document(s)}
                             ELSE flash[Target(s)][i]
  BY <1>1, <1>2, <1>3
<1>6. i # k => (i <= w <=> i <= k)
  BY <1>1
<1> QED BY <1>1, <1>4, <1>5, <1>6

\* An effect but the last takes a request of an upload from stage to stage.
LEMMA StartingGoesOn ==
  ASSUME NEW f, NEW g, NEW q, NEW p, NEW r, NEW s,
         Starting(f, q, r, s), Final(p) = Final(q), Len(q) \in {2, 3, 4},
         Len(q) = 3 => Len(p) = 2 /\ Sent(g, s, 0),
         Len(q) = 2 => Len(p) = 1 /\ g = f
  PROVE  Starting(g, p, r, s)
<1>1. Len(q) \in {2, 3} /\ (Len(q) = 2 => Sent(f, s, 0))
  BY DEF Starting
<1>2. Len(p) \in {1, 2} /\ Sent(g, s, 0)
  BY <1>1
<1>3. Len(p) # 3
  BY <1>2
<1> QED BY <1>2, <1>3 DEF Starting

LEMMA ChunkingGoesOn ==
  ASSUME NEW f, NEW g, NEW q, NEW p, NEW r, NEW k, NEW s,
         Chunking(f, q, r, k, s), Final(p) = Final(q), Len(q) \in {2, 3, 4},
         Len(q) = 3 => Len(p) = 2 /\ Sent(g, s, k),
         Len(q) = 2 => Len(p) = 1 /\ g = f
  PROVE  Chunking(g, p, r, k, s)
<1>1. Len(q) \in {2, 3} /\ (Len(q) = 2 => Sent(f, s, k))
  BY DEF Chunking
<1>2. Len(p) \in {1, 2} /\ Sent(g, s, k)
  BY <1>1
<1>3. Len(p) # 3
  BY <1>2
<1> QED BY <1>2, <1>3 DEF Chunking

LEMMA CommittingGoesOn ==
  ASSUME NEW f, NEW g, NEW q, NEW p, NEW r, NEW k, NEW s,
         Committing(f, q, r, k, s), Final(p) = Final(q), Len(q) \in {2, 3, 4},
         Len(q) = 2 => Len(p) = 1 /\ g = f
  PROVE  Committing(g, p, r, k, s)
<1>1. Len(q) = 2 /\ Sent(f, s, CellsOfUpload(s))
  BY DEF Committing
<1>2. Len(p) = 1 /\ g = f
  BY <1>1
<1> QED BY <1>1, <1>2 DEF Committing

LEMMA WorkGoesOn ==
  ASSUME HttpInv, Advance("httpd"), Len(todo["httpd"]) > 1, handling # NoRequest,
         handling' = handling, cached' = cached, at' = at, alone' = alone
  PROVE  HttpInv'
<1> DEFINE q == todo["httpd"]
<1>0. HttpTypes /\ ClientsInv
  BY DEF HttpInv
<1>1. /\ Len(q) \in {2, 3, 4} /\ Tail(q) # << >> /\ Final(Tail(q)) = Final(q)
      /\ todo'["httpd"] = Tail(q)
      /\ Len(q) = 2 => Len(Tail(q)) = 1 /\ flash' = flash
      /\ Len(q) = 3 => Len(Tail(q)) = 2
      /\ Len(q) = 4 => Len(Tail(q)) = 3
  <2>1. /\ Len(q) \in {1, 2, 3, 4} /\ (Tail(q) = << >> <=> Len(q) = 1)
        /\ Tail(q) # << >> => Final(Tail(q)) = Final(q)
        /\ todo'["httpd"] = Tail(q)
        /\ Len(q) = 2 => Len(Tail(q)) = 1
        /\ Len(q) = 3 => Len(Tail(q)) = 2
        /\ Len(q) = 4 => Len(Tail(q)) = 3
        /\ Len(q) = 2 => flash' = flash
    BY <1>0, Advanced
  <2>2. Len(q) > 1
    OBVIOUS
  <2> HIDE DEF q
  <2> QED BY <2>1, <2>2
<1>2. HttpTypes'
  <2>1. /\ todo' = [a \in Actors |-> todo'[a]] /\ WellFormed(todo'["httpd"])
        /\ flash' \in [Targets -> [1..Capacity -> SUBSET Documents]]
        /\ header' \in GoodHeaders \union {NoHeader}
    BY <1>0, Advanced
  <2> QED BY <1>0, <1>1, <2>1 DEF HttpTypes
<1>3. ASSUME handling.op = "start"
      PROVE  Starting(flash', Tail(q), handling, handling.session)
  <2> DEFINE s == handling.session
  <2>1. Starting(flash, q, handling, s)
    BY <1>0, <1>3 DEF ClientsInv
  <2>2. ASSUME Len(q) = 3
        PROVE  Sent(flash', s, 0)
    BY <1>0, <2>1, <2>2, ErasedForStart DEF Starting
  <2> HIDE DEF q, s
  <2>3. Starting(flash', Tail(q), handling, s)
    BY <1>1, <2>1, <2>2, StartingGoesOn
  <2> QED BY <2>3 DEF s
<1>4. ASSUME NEW s, s \in Sessions, NEW k, Chunking(flash, q, handling, k, s)
      PROVE  Chunking(flash', Tail(q), handling, k, s)
  <2>1. ASSUME Len(q) = 3
        PROVE  Sent(flash', s, k)
    <3>1. PICK w \in {k - 1, k} : Sent(flash, s, w)
      BY <1>4, <2>1 DEF Chunking
    <3>2. /\ k \in 1..CellsOfUpload(s) /\ Len(todo["httpd"]) = 3
          /\ Head(todo["httpd"]) = Program(Target(s), {k}, Document(s))
      BY <1>4, <2>1 DEF Chunking
    <3> HIDE DEF q
    <3> QED BY <1>0, <1>4, <3>1, <3>2, ProgrammedChunk
  <2> HIDE DEF q
  <2> QED BY <1>1, <1>4, <2>1, ChunkingGoesOn
<1>5. ASSUME NEW s, NEW k, Committing(flash, q, handling, k, s)
      PROVE  Committing(flash', Tail(q), handling, k, s)
  <2> HIDE DEF q
  <2> QED BY <1>1, <1>5, CommittingGoesOn
<1>6. ASSUME alone # NoSession
      PROVE  Undisturbed(header', flash', Tail(q), handling, cached, at[alone], alone)
  <2>1. alone \in Sessions
    BY <1>0, <1>6 DEF HttpTypes
  <2>2. \/ Chunking(flash, q, handling, at[alone], alone)
        \/ Committing(flash, q, handling, at[alone], alone)
    BY <1>0, <1>6 DEF ClientsInv, Undisturbed
  <2> QED BY <1>4, <1>5, <2>1, <2>2 DEF Undisturbed
<1> QED BY <1>1, <1>2, <1>3, <1>6 DEF HttpInv, ClientsInv

\* The last effect of an upload request: its client has come one request further,
\* or has to send it again.
LEMMA WorkSucceeds ==
  ASSUME HttpInv, Advance("httpd"), Len(todo["httpd"]) = 1, handling # NoRequest,
         handling' = NoRequest, Succeed(handling)
  PROVE  HttpInv'
<1> DEFINE q == todo["httpd"]
<1>0. HttpTypes /\ ClientsInv
  BY DEF HttpInv
<1>1. /\ todo'["httpd"] = << >> /\ flash' = flash /\ header' = Final(q) /\ header' # NoHeader
  BY <1>0, Advanced
<1>2. \/ alone' = alone
      \/ alone' = NoSession
      \/ handling.op = "start" /\ at[handling.session] = 0 /\ alone' = handling.session
  BY Succeeded
<1>3. handling.op = "start" => Starting(flash, q, handling, handling.session)
  BY <1>0 DEF ClientsInv
<1>4. HttpTypes'
  <2>1. alone' \in Sessions \union {NoSession}
    BY <1>0, <1>2, <1>3 DEF HttpTypes, Starting
  <2>2. /\ todo' = [a \in Actors |-> todo'[a]] /\ WellFormed(todo'["httpd"])
        /\ flash' \in [Targets -> [1..Capacity -> SUBSET Documents]]
        /\ header' \in GoodHeaders \union {NoHeader}
    BY <1>0, <1>1, Advanced, NoEffects
  <2>3. handling'.op \in Operations
    BY Asked DEF Operations
  <2> QED BY <1>1, <2>1, <2>2, <2>3 DEF HttpTypes
<1>5. ASSUME alone' # NoSession
      PROVE  Waiting(header', flash', cached', at'[alone'], alone')
  <2> DEFINE s == alone'
             n == CellsOfUpload(s)
  <2>1. s \in Sessions /\ n \in Nat /\ n > 0 /\ Finished(s) = n + 2
    BY <1>4, <1>5, ClientTypes, DueForms DEF HttpTypes
  <2>2. at'[s] = at[s] \/ (at'[s] = at[s] + 1 /\ at[s] \in 0..(Finished(s) - 1))
    <3>1. Deliver(handling, 200)
      BY <1>5, Succeeded
    <3> QED BY <2>1, <3>1, Delivered
  <2>3. CASE handling.op = "start" /\ at[handling.session] = 0 /\ s = handling.session
    <3>1. OpenAt(header', s, 0) /\ Sent(flash', s, 0)
      BY <1>1, <1>3, <2>3 DEF Starting
    <3>2. at'[s] \in {0, 1} /\ at'[s] \in 0..(n + 1) /\ 0 \in 0..n /\ 0 \in {at'[s] - 1, at'[s]}
      BY <2>1, <2>2, <2>3
    <3> QED BY <1>1, <3>1, <3>2 DEF Waiting
  <2>4. CASE s = alone
    <3>1. Chunking(flash, q, handling, at[s], s) \/ Committing(flash, q, handling, at[s], s)
      BY <1>0, <1>5, <2>4 DEF ClientsInv, Undisturbed
    <3>2. CASE Chunking(flash, q, handling, at[s], s)
      <4> DEFINE k == at[s]
      <4>1. k \in 1..n /\ OpenAt(header', s, k) /\ Sent(flash', s, k)
        BY <1>1, <3>2 DEF Chunking
      <4>2. k \in 0..n /\ k \in {at'[s] - 1, at'[s]} /\ at'[s] \in 0..(n + 1)
        BY <2>1, <2>2, <4>1
      <4> QED BY <1>1, <4>1, <4>2 DEF Waiting
    <3>3. CASE Committing(flash, q, handling, at[s], s)
      <4>1. /\ at[s] = n + 1 /\ handling = Ask("commit", s, 0, "none")
            /\ CommittedIn(header', s) /\ Sent(flash', s, n)
        BY <1>1, <3>3 DEF Committing
      <4>2. at'[s] \in {n + 1, n + 2}
        BY <2>1, <2>2, <4>1
      <4>3. Target(s) = Device => cached' = header'.meta[Device]
        <5>1. handling.op = "commit" /\ handling.session = s
          BY <4>1, Asked
        <5> QED BY <1>5, <5>1, Succeeded
      <4> QED BY <1>1, <4>1, <4>2, <4>3 DEF Waiting
    <3> QED BY <3>1, <3>2, <3>3
  <2> QED BY <1>2, <1>5, <2>3, <2>4
<1>6. ClientsInv'
  <2>1. handling'.op = "none"
    BY Asked
  <2> QED BY <1>5, <2>1 DEF ClientsInv, Undisturbed
<1> QED BY <1>4, <1>6 DEF HttpInv

LEMMA WorkKeeps == HttpInv /\ Work => HttpInv'
<1> SUFFICES ASSUME HttpInv, Work PROVE HttpInv'
  OBVIOUS
<1> DEFINE q == todo["httpd"]
<1>0. HttpTypes /\ ClientsInv
  BY DEF HttpInv
<1>1. Advance("httpd") /\ handling # NoRequest
  BY DEF Work, Busy
<1>2. Len(q) \in {1, 2, 3, 4}
  BY <1>0, <1>1, Advanced
<1>3. CASE Len(q) > 1
  <2>1. handling' = handling /\ cached' = cached /\ at' = at /\ alone' = alone
    BY <1>3 DEF Work
  <2> QED BY <1>1, <1>3, <2>1, WorkGoesOn
<1>4. CASE Len(q) = 1 /\ handling.op \in {"patch", "delete"}
  <2>1. handling' = NoRequest /\ alone' = alone
    BY <1>4 DEF Work
  <2>2. alone = NoSession
    <3>1. ASSUME NEW s, NEW k
          PROVE  /\ ~Chunking(flash, q, handling, k, s)
                 /\ ~Committing(flash, q, handling, k, s)
      BY <1>4, Asked DEF Chunking, Committing
    <3> QED BY <1>0, <1>1, <3>1 DEF ClientsInv, Undisturbed
  <2>3. /\ todo'["httpd"] = << >> /\ todo' = [a \in Actors |-> todo'[a]]
        /\ flash' \in [Targets -> [1..Capacity -> SUBSET Documents]]
        /\ header' \in GoodHeaders \union {NoHeader}
    BY <1>0, <1>1, <1>4, Advanced
  <2>4. HttpTypes'
    <3>1. handling'.op \in Operations
      BY <2>1, Asked DEF Operations
    <3> QED BY <2>1, <2>2, <2>3, <3>1, NoEffects DEF HttpTypes
  <2> QED BY <2>1, <2>2, <2>4, NobodyLeft
<1>5. CASE Len(q) = 1 /\ handling.op \notin {"patch", "delete"}
  <2>1. handling' = NoRequest /\ Succeed(handling)
    BY <1>5 DEF Work
  <2> QED BY <1>1, <1>5, <2>1, WorkSucceeds
<1> QED BY <1>2, <1>3, <1>4, <1>5

LEMMA EffectFailsKeeps == HttpInv /\ EffectFails => HttpInv'
<1> SUFFICES ASSUME HttpInv, EffectFails PROVE HttpInv'
  OBVIOUS
<1>1. /\ flash' = flash /\ header' = header /\ handling' = NoRequest /\ alone' = NoSession
      /\ todo' = [todo EXCEPT !["httpd"] = << >>]
  BY DEF EffectFails, GiveUp
<1>2. todo'["httpd"] = << >> /\ todo' = [a \in Actors |-> todo'[a]]
  BY <1>1 DEF HttpInv, HttpTypes, Actors
<1>3. handling'.op \in Operations
  BY <1>1, Asked DEF Operations
<1>4. HttpTypes'
  BY <1>1, <1>2, <1>3, NoEffects DEF HttpInv, HttpTypes
<1> QED BY <1>1, <1>4, NobodyLeft

LEMMA StraysAreRequests ==
  ASSUME NEW s \in Sessions
  PROVE  /\ \A i \in 1..Capacity + 1 : UploadRequest(Ask("chunk", s, i, "none"))
         /\ UploadRequest(Ask("chunk", s, 1, "empty"))
         /\ UploadRequest(Ask("commit", s, 0, "none"))
<1>1. \A i \in 1..Capacity + 1 : i \in Nat
  BY Sizes
<1> QED BY <1>1 DEF UploadRequest

LEMMA HttpStep == HttpInv /\ [UploadNext]_uploadVars => HttpInv'
<1> SUFFICES ASSUME HttpInv, [UploadNext]_uploadVars PROVE HttpInv'
  OBVIOUS
<1>1. ASSUME NEW s \in Sessions, ClientSends(s) PROVE HttpInv'
  <2>1. UploadRequest(Due(s))
    BY <1>1, DueIsARequest DEF ClientSends
  <2>2. Receive(Due(s)) \/ HashFails(Due(s))
    BY <1>1 DEF ClientSends
  <2> QED BY <2>1, <2>2, ReceiveKeeps, HashFailsKeeps
<1>2. ASSUME NEW s \in Sessions, StraySends(s) PROVE HttpInv'
  <2>1. CASE \E i \in 1..Capacity + 1 : Receive(Ask("chunk", s, i, "none"))
    BY <2>1, StraysAreRequests, ReceiveKeeps
  <2>2. CASE Receive(Ask("chunk", s, 1, "empty"))
    BY <2>2, StraysAreRequests, ReceiveKeeps
  <2>3. CASE Receive(Ask("commit", s, 0, "none"))
    BY <2>3, StraysAreRequests, ReceiveKeeps
  <2> QED BY <1>2, <2>1, <2>2, <2>3 DEF StraySends
<1>3. ASSUME NEW r, Reject(r) PROVE HttpInv'
  BY <1>3, OnlyAnswers DEF Reject, storageVars
<1>4. ASSUME Close PROVE HttpInv'
  BY <1>4, OnlyAnswers DEF Close, storageVars
<1>5. ASSUME NEW t, Download(t) \/ Status(t) PROVE HttpInv'
  BY <1>5, OnlyAnswers DEF Download, Status, storageVars
<1>6. ASSUME UNCHANGED uploadVars PROVE HttpInv'
  BY <1>6, OnlyAnswers DEF uploadVars, storageVars
<1> QED BY <1>1, <1>2, <1>3, <1>4, <1>5, <1>6, PatchKeeps, DeleteKeeps, WorkKeeps,
           EffectFailsKeeps DEF UploadNext

\* A client whose start was accepted and whom no other request and no fault
\* disturbs is never refused, however often answers are lost and requests sent
\* again, and what it was told is committed is what the device stores and, for
\* the device configuration, uses.
THEOREM UndisturbedSucceeds == UploadSpec => []UndisturbedUploadSucceeds
<1>1. HttpInv => UndisturbedUploadSucceeds
  <2> SUFFICES ASSUME HttpTypes, ClientsInv, alone # NoSession
               PROVE  /\ at[alone] # Stopped
                      /\ at[alone] = Finished(alone) =>
                            /\ Holds(HeaderOrDefault, Target(alone), Document(alone))
                            /\ Target(alone) = Device => cached = HeaderOrDefault.meta[Device]
    BY DEF HttpInv, UndisturbedUploadSucceeds
  <2> DEFINE s == alone
             n == CellsOfUpload(s)
             k == at[s]
  <2>1. s \in Sessions /\ n \in Nat /\ n > 0 /\ Finished(s) = n + 2 /\ n = Cells[Document(s)]
    BY ClientTypes, DueForms DEF HttpTypes
  <2>2. CASE handling # NoRequest
    <3>1. k \in 1..n \/ k = n + 1
      BY <2>2 DEF ClientsInv, Undisturbed, Chunking, Committing
    <3> QED BY <2>1, <3>1 DEF Stopped
  <2>3. CASE handling = NoRequest
    <3>1. Waiting(header, flash, cached, k, s)
      BY <2>3 DEF ClientsInv, Undisturbed
    <3>2. k \in 0..(n + 1) \/ k \in {n + 1, n + 2}
      BY <3>1 DEF Waiting
    <3>3. k # Stopped
      BY <2>1, <3>2 DEF Stopped
    <3>4. ASSUME k = Finished(s)
          PROVE  /\ Holds(HeaderOrDefault, Target(s), Document(s))
                 /\ Target(s) = Device => cached = HeaderOrDefault.meta[Device]
      <4>1. ~(k \in 0..(n + 1))
        BY <2>1, <3>4
      <4>2. /\ HeaderOrDefault = header /\ CommittedIn(header, s) /\ Sent(flash, s, n)
            /\ Target(s) = Device => cached = header.meta[Device]
        BY <3>1, <4>1 DEF Waiting, HeaderOrDefault
      <4>3. \A i \in 1..n : flash[Target(s)][i] = {Document(s)}
        BY <2>1, <4>2 DEF Sent
      <4>4. Content(Target(s), n) = Whole(Document(s))
        BY <2>1, <4>3 DEF Content, Whole
      <4> QED BY <2>1, <4>2, <4>4 DEF Holds, CommittedIn
    <3> QED BY <3>3, <3>4
  <2> QED BY <2>2, <2>3
<1> QED BY <1>1, InitHttp, HttpStep, PTL DEF UploadSpec
====

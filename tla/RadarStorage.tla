---------------------------- MODULE RadarStorage ----------------------------
(* The raw flash partition of the device (radar_storage.cpp): one payload    *)
(* area per target and one header sector that says what the areas hold and   *)
(* which chunked upload is open.                                             *)
(*                                                                           *)
(* The partition is NOR flash: programming only clears bits, so a cell that  *)
(* is programmed twice without an erase holds both documents on top of each  *)
(* other.  A cell is therefore the SET of the documents written into it      *)
(* since its last erase: {} is erased, {d} is d's own data, and {d, e} is    *)
(* neither.  A cell stands for one upload chunk.                             *)
(*                                                                           *)
(* Every call first reads the header and decides; what it then does to the   *)
(* flash is a sequence of EFFECTS that are carried out one by one, because   *)
(* the power can fail, a flash operation can fail, and the other task can    *)
(* run between any two of them: nothing in the code locks the partition.     *)
EXTENDS Integers, Sequences, FiniteSets

CONSTANTS
    Targets,        \* the payloads: config, image, device config, stats
    Documents,      \* what is ever written into a payload
    Cells,          \* Documents -> the number of cells a document takes
    Capacity,       \* cells of one payload area
    SectorCells,    \* cells that are erased together
    Sessions,       \* upload session numbers
    NoTarget, NoSession, NoHeader

ASSUME StorageAssumption ==
    /\ Capacity \in Nat \ {0}
    /\ SectorCells \in Nat \ {0}
    /\ Capacity % SectorCells = 0
    /\ \A d \in Documents : Cells[d] \in 1..Capacity
    /\ NoTarget \notin Targets
    /\ NoSession \notin Sessions

\* The tasks that call the storage: nothing orders their calls.
Actors == {"httpd", "loop"}

VARIABLES
    flash,   \* [Targets -> [1..Capacity -> SUBSET Documents]]
    header,  \* the header sector, NoHeader while it is erased
    todo     \* per task, the effects its current call has still to carry out

storageVars == <<flash, header, todo>>

-----------------------------------------------------------------------------
(* Contents and header.  The FNV-1a hash of a payload is the payload itself. *)

Content(t, n) == [i \in 1..n |-> flash[t][i]]
Whole(d) == [i \in 1..Cells[d] |-> {d}]
NoPayload == [size |-> 0, hash |-> << >>]

NoUpload == [target |-> NoTarget, size |-> 0, written |-> 0,
             session |-> NoSession]
DefaultHeader == [meta |-> [t \in Targets |-> NoPayload],
                  upload |-> NoUpload,
                  last |-> [target |-> NoTarget, session |-> NoSession]]

\* What a caller works with that does not mind an invalid header.
HeaderOrDefault == IF header = NoHeader THEN DefaultHeader ELSE header

\* The whole document a reader of target t finds, if there is one; a reader
\* is told the size by the header and never compares the hash.
Holds(h, t, d) == /\ h.meta[t].size = Cells[d]
                  /\ Content(t, Cells[d]) = Whole(d)

\* Bug: the last sector is forgotten unless it is full.
RoundDownSector(n) == (n \div SectorCells) * SectorCells

RoundUpSector(n) ==
    ((n + SectorCells - 1) \div SectorCells) * SectorCells

-----------------------------------------------------------------------------
(* Effects.                                                                  *)

Erase(t, n) == [do |-> "erase", target |-> t, cells |-> 1..RoundUpSector(n)]
Program(t, cells, d) ==
    [do |-> "program", target |-> t, cells |-> cells, document |-> d]
RewriteHeader(h) ==
    <<[do |-> "erase header"], [do |-> "write header", header |-> h]>>

Apply(e) ==
    \/ /\ e.do = "erase"
       /\ flash' = [flash EXCEPT ![e.target] =
              [i \in 1..Capacity |-> IF i \in e.cells THEN {} ELSE @[i]]]
       /\ UNCHANGED header
    \/ /\ e.do = "program"
       /\ flash' = [flash EXCEPT ![e.target] =
              [i \in 1..Capacity |->
                  IF i \in e.cells THEN @[i] \union {e.document} ELSE @[i]]]
       /\ UNCHANGED header
    \/ /\ e.do = "erase header"
       /\ header' = NoHeader
       /\ UNCHANGED flash
    \/ /\ e.do = "write header"
       /\ header' = e.header
       /\ UNCHANGED flash

-----------------------------------------------------------------------------
(* Calls.  A plan says whether the call will report success and what it does *)
(* to the flash before it does.                                              *)

Refused == [ok |-> FALSE, effects |-> << >>]
Granted(effects) == [ok |-> TRUE, effects |-> effects]

OpenUpload(h, t, s) == h.upload.target = t /\ h.upload.session = s

\* Bug: any upload of the same size is continued, by whoever asks.
LooseReuse(t, n, s) ==
    LET h == HeaderOrDefault
    IN  IF h.upload.target \notin {NoTarget, t} THEN Refused
        ELSE IF h.upload.target = t /\ h.upload.size = n
             THEN Granted(RewriteHeader([h EXCEPT !.upload.session = s]))
        ELSE Granted(<<Erase(t, n)>> \o
                     RewriteHeader([h EXCEPT !.upload =
                         [target |-> t, size |-> n, written |-> 0,
                          session |-> s]]))

\* start_upload: an upload of another target keeps the slot; the same session
\* with the same size goes on where it was, without an erase.
StartUpload(t, n, s) ==
    LET h == HeaderOrDefault
    IN  IF h.upload.target \notin {NoTarget, t} THEN Refused
        ELSE IF OpenUpload(h, t, s) /\ h.upload.size = n THEN Granted(<< >>)
        ELSE Granted(<<Erase(t, n)>> \o
                     RewriteHeader([h EXCEPT !.upload =
                         [target |-> t, size |-> n, written |-> 0,
                          session |-> s]]))

\* Bug: the chunk of any session is taken.
AnySessionChunk(t, i, d, s) ==
    IF header = NoHeader THEN Refused
    ELSE IF header.upload.target # t \/ i > header.upload.size THEN Refused
    ELSE Granted(<<Program(t, {i}, d)>> \o
                 RewriteHeader([header EXCEPT !.upload.written =
                     IF i > @ THEN i ELSE @]))

\* write_upload_chunk: any cell of the open upload, in any order.
WriteUploadChunk(t, i, d, s) ==
    IF header = NoHeader THEN Refused
    ELSE IF ~OpenUpload(header, t, s) \/ i > header.upload.size THEN Refused
    ELSE Granted(<<Program(t, {i}, d)>> \o
                 RewriteHeader([header EXCEPT !.upload.written =
                     IF i > @ THEN i ELSE @]))

\* commit_upload: hashes what the flash holds; a repeated commit is accepted.
CommitUpload(t, s) ==
    IF header = NoHeader THEN Refused
    ELSE IF /\ header.upload.target = NoTarget
            /\ header.last = [target |-> t, session |-> s]
         THEN Granted(<< >>)
    ELSE IF \/ ~OpenUpload(header, t, s)
            \/ header.upload.written < header.upload.size
         THEN Refused
    ELSE LET n == header.upload.size
         IN  Granted(RewriteHeader(
                 [meta |-> [header.meta EXCEPT ![t] = [size |-> n, hash |-> Content(t, n)]],
                  upload |-> NoUpload,
                  last |-> [target |-> t, session |-> s]]))

\* The erase of a payload that is there.
EraseHeld(h, t) == IF h.meta[t].size > 0 THEN <<Erase(t, h.meta[t].size)>> ELSE << >>

\* delete_payload for one target, delete_floorplan for both floorplan targets.
DeletePayloads(ts) ==
    LET h == HeaderOrDefault
        gone == {ts[i] : i \in DOMAIN ts}
        erases == IF Len(ts) = 1 THEN EraseHeld(h, ts[1])
                  ELSE EraseHeld(h, ts[1]) \o EraseHeld(h, ts[2])
    IN  Granted(erases \o RewriteHeader(
            [meta |-> [t \in Targets |->
                         IF t \in gone THEN NoPayload ELSE h.meta[t]],
             upload |-> IF h.upload.target \in gone THEN NoUpload ELSE h.upload,
             last |-> h.last]))

\* write_payload: the whole document at once; it closes whatever upload is
\* open, of any target.
WritePayload(t, d) ==
    Granted(<<Erase(t, Cells[d]), Program(t, 1..Cells[d], d)>> \o
            RewriteHeader(
                [meta |-> [HeaderOrDefault.meta EXCEPT
                              ![t] = [size |-> Cells[d], hash |-> Whole(d)]],
                 upload |-> NoUpload,
                 last |-> [target |-> NoTarget, session |-> NoSession]]))

-----------------------------------------------------------------------------
(* The steps of a task.                                                      *)

StorageInit ==
    /\ flash = [t \in Targets |-> [i \in 1..Capacity |-> {}]]
    /\ header = NoHeader
    /\ todo = [a \in Actors |-> << >>]

Idle(a) == todo[a] = << >>

\* Task a makes a call: the header is read and the call decided.
Call(a, plan) ==
    /\ Idle(a)
    /\ todo' = [todo EXCEPT ![a] = plan.effects]
    /\ UNCHANGED <<flash, header>>

\* Task a carries out the next effect of its call.
Advance(a) ==
    /\ ~Idle(a)
    /\ Apply(Head(todo[a]))
    /\ todo' = [todo EXCEPT ![a] = Tail(@)]

\* A flash operation reports an error: the call ends there and fails.
GiveUp(a) ==
    /\ ~Idle(a)
    /\ todo' = [todo EXCEPT ![a] = << >>]
    /\ UNCHANGED <<flash, header>>

\* The power fails: what was not carried out never will be.
PowerLoss ==
    /\ todo' = [a \in Actors |-> << >>]
    /\ UNCHANGED <<flash, header>>
=============================================================================

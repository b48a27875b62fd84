------------------------ MODULE StorageClientsProofs ------------------------
(* Proofs about StorageClients, for any targets, documents, sessions,        *)
(* dashboards and requests: its types; that no header ever carries the hash  *)
(* of a mixture; and, for the HTTP task alone, that acknowledged documents   *)
(* stay and that PayloadStore is implemented.                                *)
EXTENDS StorageClients, SequenceTheorems, FiniteSetTheorems, TLAPS

\* The targets that only the HTTP task writes.
Own == IF Days = 0 THEN Targets ELSE Targets \ {Stats}

\* The conditions of the theorems on uploads.  The dashboards send every chunk,
\* in order.  While flash operations or the power may fail, there is one
\* dashboard, and no other request rewrites what it uploads: a payload erased
\* by a call that fails would be taken for what the old header says of it.
Careful ==
    /\ InOrder
    /\ Faults => /\ \A b, c \in Dashboards : b = c
                 /\ Patches # {} => Patchable \notin Own
                 /\ \A calls \in Deletions : \A i \in DOMAIN calls :
                       \A j \in DOMAIN calls[i] : calls[i][j] \notin Own

-----------------------------------------------------------------------------
(* Types.                                                                    *)

GoodHeaders == {h \in Headers : h.upload.written <= h.upload.size}

PayloadEffects ==
    [do : {"erase"}, target : Targets, cells : SUBSET Nat]
    \union [do : {"program"}, target : Targets, cells : SUBSET Nat, document : Documents]
HeaderErase == [do |-> "erase header"]
WriteHeader(h) == [do |-> "write header", header |-> h]

\* What is left of a call: effects on payloads, then the header is rewritten.
WellFormed(q) ==
    \/ q = << >>
    \/ \E h \in GoodHeaders :
          \/ q = <<WriteHeader(h)>>
          \/ q = <<HeaderErase, WriteHeader(h)>>
          \/ \E e \in PayloadEffects : q = <<e, HeaderErase, WriteHeader(h)>>
          \/ \E e, f \in PayloadEffects : q = <<e, f, HeaderErase, WriteHeader(h)>>

\* The header it writes, and the payloads it changes.
Final(q) == q[Len(q)].header
Touches(q, t) ==
    \/ Len(q) \in {3, 4} /\ Head(q).target = t
    \/ Len(q) = 4 /\ Head(Tail(q)).target = t

Pending(a) == Final(todo[a])
Touched(t) == Touches(todo["httpd"], t)

UploadType(u, drawn) ==
    /\ u \in [session : Sessions \union {NoSession}, target : Targets \union {NoTarget},
              document : Documents \union {Nothing}, started : BOOLEAN,
              received : SUBSET Nat]
    /\ IsFiniteSet(u.received)
    /\ u # NotUploading =>
          u.session \in drawn /\ u.target \in Targets /\ u.document \in Documents

Requests == [kind : {"none", "start", "chunk", "commit"}, cell : Nat]

TypeInv ==
    /\ flash \in [Targets -> [1..Capacity -> SUBSET Documents]]
    /\ header \in GoodHeaders \union {NoHeader}
    /\ todo = [a \in Actors |-> todo[a]] /\ \A a \in Actors : WellFormed(todo[a])
    /\ up = [b \in Dashboards |-> up[b]] /\ \A b \in Dashboards : UploadType(up[b], used)
    /\ used \subseteq Sessions \ {StatsSession}
    /\ serving \in [session : Sessions \union {NoSession}, request : Requests]
    /\ jobs \in Seq(DeleteCalls)
    /\ day \in 0..Days /\ kept \in 0..day
    /\ persist \in [step : {"idle", "start", "chunk", "commit"}, sent : Nat]
    /\ persist # Resting => persist.step # "idle" /\ day > 0
    /\ todo["loop"] # << >> => persist # Resting
    /\ saved \in [Targets -> Documents \union {Nothing}]

-----------------------------------------------------------------------------
(* Uploads.                                                                  *)

Stored(d) == [size |-> Cells[d], hash |-> Whole(d)]

\* What a header says of the targets of the HTTP task is nothing or a document.
Truthful(h) ==
    \A t \in Own : h.meta[t] = NoPayload \/ \E d \in Documents : h.meta[t] = Stored(d)

\* In flash f, exactly these cells of an upload are programmed.
Filled(f, u, cells) ==
    \A i \in 1..Cells[u.document] :
        f[u.target][i] = IF i \in cells THEN {u.document} ELSE {}

\* Header h has the upload u open, under its session and with its size.
Carries(h, u) ==
    /\ h # NoHeader /\ u # NotUploading /\ u.target \in Own
    /\ h.upload.session = u.session
Agrees(h, u) == h.upload.target = u.target /\ h.upload.size = Cells[u.document]

\* An upload that the header h has open is in flash as far as it was received;
\* only another request that is being served, and cannot fail, may disturb it.
\* (Here q is what the HTTP task has left to do for the session s.)
OpenIsFilled(h, f, q, s, u) ==
    Carries(h, u) =>
        /\ Agrees(h, u)
        /\ (q = << >> \/ Faults) /\ s # u.session =>
              Filled(f, u, u.received) /\ ~Touches(q, u.target)

\* The same of the header to be written, as far as its request has come.
PendingIsFilled(f, q, sv, u) ==
    q # << >> /\ Carries(Final(q), u) =>
        /\ Agrees(Final(q), u)
        /\ sv.session # u.session => Filled(f, u, u.received) /\ ~Touches(q, u.target)
        /\ sv.session = u.session /\ sv.request.kind = "start" =>
              IF Len(q) \in {1, 2} THEN Filled(f, u, {})
              ELSE Len(q) = 3 /\ Head(q) = Erase(u.target, Cells[u.document])
        /\ sv.session = u.session /\ sv.request.kind = "chunk" =>
              IF Len(q) \in {1, 2} THEN Filled(f, u, u.received \union {sv.request.cell})
              ELSE /\ Len(q) = 3 /\ Filled(f, u, u.received)
                   /\ Head(q) = Program(u.target, {sv.request.cell}, u.document)

\* A request that is served belongs to the step its upload has come to.
ServedInOrder(q, sv, u) ==
    u # NotUploading =>
        /\ \E k \in 0..Cells[u.document] : u.received = 1..k
        /\ ~u.started => u.received = {}
        /\ sv.session = u.session =>
              /\ q # << >> /\ sv.request.kind \in {"start", "chunk", "commit"}
              /\ sv.request.kind = "start" <=> ~u.started
              /\ sv.request.kind = "chunk" => \E k \in 0..(Cells[u.document] - 1) :
                    u.received = 1..k /\ sv.request.cell = k + 1

Coherent(h, f, q, sv, u) ==
    /\ OpenIsFilled(h, f, q, sv.session, u)
    /\ PendingIsFilled(f, q, sv, u)
    /\ ServedInOrder(q, sv, u)

\* Sessions tell uploads apart.
SessionsAreFresh ==
    /\ \A b, c \in Dashboards : up[b] # NotUploading /\ up[b].session = up[c].session => b = c
    /\ header # NoHeader => header.upload.session \in used \union {StatsSession, NoSession}
    /\ \A a \in Actors : todo[a] # << >> =>
          Pending(a).upload.session \in used \union {StatsSession, NoSession}
    /\ serving.session \in used \union {NoSession}
    /\ Idle("httpd") => serving = NotServing

\* What the main loop does concerns the statistics alone.
LoopStaysApart ==
    /\ Days = 0 => todo["loop"] = << >>
    /\ todo["loop"] # << >> => Pending("loop").upload.session \in {StatsSession, NoSession}
    /\ \A t \in Targets : Touches(todo["loop"], t) => t = Stats

\* Where faults happen, requests that are no uploads spare the uploads.
OthersSpareUploads ==
    Faults =>
        /\ \A i \in DOMAIN jobs : \A j \in DOMAIN jobs[i] : jobs[i][j] \notin Own
        /\ serving.session = NoSession => \A t \in Own : ~Touched(t)

UploadInv ==
    /\ TypeInv
    /\ header # NoHeader => Truthful(header)
    /\ \A a \in Actors : todo[a] # << >> => Truthful(Pending(a))
    /\ \A b \in Dashboards : Coherent(header, flash, todo["httpd"], serving, up[b])
    /\ SessionsAreFresh /\ LoopStaysApart /\ OthersSpareUploads

-----------------------------------------------------------------------------
(* What was acknowledged, for the HTTP task alone.                           *)

InFlash(f, t, d) == \A i \in 1..Cells[d] : f[t][i] = {d}

\* A session that is still uploading has not committed.
Uncommitted(h, f, q, sv, u) ==
    u # NotUploading =>
        /\ h # NoHeader => h.last.session # u.session
        /\ q # << >> /\ Final(q).last.session = u.session =>
              sv.session = u.session /\ sv.request.kind = "commit"
        /\ sv.session = u.session /\ sv.request.kind = "commit" =>
              /\ Len(q) \in {1, 2} /\ Final(q).upload = NoUpload
              /\ Final(q).meta[u.target] = Stored(u.document)
              /\ InFlash(f, u.target, u.document)

\* The document d stays in target t: both headers say so, no upload is open
\* for it, no effect concerns it, and the header is away only for a rewrite.
Stays(h, f, q, t, d) ==
    /\ h # NoHeader => h.meta[t] = Stored(d) /\ h.upload.target # t
    /\ q # << >> => Final(q).meta[t] = Stored(d) /\ Final(q).upload.target # t
    /\ h = NoHeader => Len(q) = 1
    /\ InFlash(f, t, d)
    /\ ~Touches(q, t)

AcknowledgedInv ==
    /\ header # NoHeader => header.last.session \in used \union {StatsSession, NoSession}
    /\ todo["httpd"] # << >> =>
          Final(todo["httpd"]).last.session \in used \union {StatsSession, NoSession}
    /\ \A b \in Dashboards : Uncommitted(header, flash, todo["httpd"], serving, up[b])
    /\ \A t \in Targets : saved[t] # Nothing => Stays(header, flash, todo["httpd"], t, saved[t])

-----------------------------------------------------------------------------
(* What a header is replaced by, for the HTTP task alone.                    *)

Deletes(m, n) == \A t \in Targets : n[t] \in {m[t], NoPayload}

\* A document that the new header has more is in flash by then.
Completes(m, n, f, q, t, d) ==
    /\ n = [m EXCEPT ![t] = Stored(d)]
    /\ Len(q) = 2 => InFlash(f, t, d)
    /\ Len(q) = 3 => /\ \A i \in 1..Cells[d] : f[t][i] = {}
                     /\ Head(q) = Program(t, 1..Cells[d], d)
    /\ Len(q) = 4 => /\ Head(q) = Erase(t, Cells[d])
                     /\ Head(Tail(q)) = Program(t, 1..Cells[d], d)

\* The header in force has the payloads m.
Succeeds(m, f, q) ==
    Len(q) \in {2, 3, 4} =>
        \/ Deletes(m, Final(q).meta)
        \/ \E t \in Targets, d \in Documents : Completes(m, Final(q).meta, f, q, t, d)

SuccessionInv ==
    /\ Len(todo["httpd"]) = 1 => header = NoHeader
    /\ Succeeds(HeaderOrDefault.meta, flash, todo["httpd"])

-----------------------------------------------------------------------------
(* Plans.                                                                    *)

LEMMA Sizes ==
  /\ Capacity \in Nat \ {0}
  /\ \A d \in Documents : Cells[d] \in 1..Capacity /\ Cells[d] \in Nat /\ Cells[d] > 0
  /\ NoTarget \notin Targets /\ NoSession \notin Sessions
BY StorageAssumption

LEMMA RoundedUp ==
  ASSUME NEW n \in Nat
  PROVE  RoundUpSector(n) \in Nat /\ n <= RoundUpSector(n)
BY StorageAssumption DEF RoundUpSector

LEMMA HeaderEffects ==
  /\ HeaderErase.do = "erase header"
  /\ \A h : WriteHeader(h).header = h /\ WriteHeader(h).do = "write header"
BY DEF HeaderErase, WriteHeader

LEMMA PayloadEffectTypes ==
  ASSUME NEW e \in PayloadEffects
  PROVE  /\ e.do \in {"erase", "program"}
         /\ e.target \in Targets /\ e.cells \in SUBSET Nat
         /\ e.do = "program" => e.document \in Documents
<1>1. e.do \in {"erase", "program"}
  BY DEF PayloadEffects
<1>2. e.target \in Targets /\ e.cells \in SUBSET Nat
  BY DEF PayloadEffects
<1>3. e.do = "program" => e.document \in Documents
  BY DEF PayloadEffects
<1> QED BY <1>1, <1>2, <1>3

LEMMA Tails ==
  ASSUME NEW a, NEW b, NEW c, NEW d
  PROVE  /\ Tail(<<a>>) = << >> /\ Tail(<<a, b>>) = <<b>>
         /\ Tail(<<a, b, c>>) = <<b, c>> /\ Tail(<<a, b, c, d>>) = <<b, c, d>>
<1> DEFINE S == {a, b, c, d}
<1>0. /\ <<b>> \in Seq(S) /\ <<a, b>> \in Seq(S) /\ <<b, c>> \in Seq(S)
      /\ <<a, b, c>> \in Seq(S) /\ <<b, c, d>> \in Seq(S) /\ <<a, b, c, d>> \in Seq(S)
  OBVIOUS
<1> HIDE DEF S
<1>1. Tail(<<a>>) = << >>
  OBVIOUS
<1>2. Tail(<<a, b>>) = <<b>>
  BY <1>0, HeadTailProperties, SeqEqual
<1>3. Tail(<<a, b, c>>) = <<b, c>>
  <2>1. Tail(<<a, b, c>>) \in Seq(S) /\ Len(Tail(<<a, b, c>>)) = 2
    BY <1>0, HeadTailProperties
  <2>2. Tail(<<a, b, c>>)[1] = b /\ Tail(<<a, b, c>>)[2] = c
    BY <1>0, HeadTailProperties
  <2> QED BY <2>1, <2>2, <1>0, SeqEqual
<1>4. Tail(<<a, b, c, d>>) = <<b, c, d>>
  <2>1. Tail(<<a, b, c, d>>) \in Seq(S) /\ Len(Tail(<<a, b, c, d>>)) = 3
    BY <1>0, HeadTailProperties
  <2>2. /\ Tail(<<a, b, c, d>>)[1] = b /\ Tail(<<a, b, c, d>>)[2] = c
        /\ Tail(<<a, b, c, d>>)[3] = d
    BY <1>0, HeadTailProperties
  <2> QED BY <2>1, <2>2, <1>0, SeqEqual
<1> QED BY <1>1, <1>2, <1>3, <1>4

LEMMA ThreeInARow == ASSUME NEW a, NEW b, NEW c PROVE <<a>> \o <<b, c>> = <<a, b, c>>
<1> DEFINE S == {a, b, c}
           q == <<a>> \o <<b, c>>
<1>0. <<a>> \in Seq(S) /\ <<b, c>> \in Seq(S) /\ <<a, b, c>> \in Seq(S)
  OBVIOUS
<1> HIDE DEF S
<1>1. q \in Seq(S) /\ Len(q) = 3
  BY <1>0, ConcatProperties
<1>2. q[1] = a /\ q[2] = b /\ q[3] = c
  BY <1>0, ConcatProperties
<1> HIDE DEF q
<1>3. q = <<a, b, c>>
  BY <1>0, <1>1, <1>2, SeqEqual
<1> QED BY <1>3 DEF q

LEMMA FourInARow == ASSUME NEW a, NEW b, NEW c, NEW d PROVE <<a, b>> \o <<c, d>> = <<a, b, c, d>>
<1> DEFINE S == {a, b, c, d}
           q == <<a, b>> \o <<c, d>>
<1>0. <<a, b>> \in Seq(S) /\ <<c, d>> \in Seq(S) /\ <<a, b, c, d>> \in Seq(S)
  OBVIOUS
<1> HIDE DEF S
<1>1. q \in Seq(S) /\ Len(q) = 4
  BY <1>0, ConcatProperties
<1>2. q[1] = a /\ q[2] = b /\ q[3] = c /\ q[4] = d
  BY <1>0, ConcatProperties
<1> HIDE DEF q
<1>3. q = <<a, b, c, d>>
  BY <1>0, <1>1, <1>2, SeqEqual
<1> QED BY <1>3 DEF q

LEMMA ShortRows ==
  ASSUME NEW a, NEW b
  PROVE  /\ << >> \o << >> = << >> /\ << >> \o <<a>> = <<a>> /\ <<a>> \o << >> = <<a>>
         /\ <<a>> \o <<b>> = <<a, b>> /\ << >> \o <<a, b>> = <<a, b>>
<1> DEFINE S == {a, b}
           q == <<a>> \o <<b>>
<1>0. /\ << >> \in Seq(S) /\ <<a>> \in Seq(S) /\ <<b>> \in Seq(S) /\ <<a, b>> \in Seq(S)
  OBVIOUS
<1> HIDE DEF S
<1>1. q \in Seq(S) /\ Len(q) = 2
  BY <1>0, ConcatProperties
<1>2. q[1] = a /\ q[2] = b
  BY <1>0, ConcatProperties
<1> HIDE DEF q
<1>3. q = <<a, b>>
  BY <1>0, <1>1, <1>2, SeqEqual
<1>4. << >> \o << >> = << >> /\ << >> \o <<a>> = <<a>> /\ <<a>> \o << >> = <<a>>
  BY <1>0, ConcatEmptySeq
<1>5. << >> \o <<a, b>> = <<a, b>>
  BY <1>0, ConcatEmptySeq
<1> QED BY <1>3, <1>4, <1>5 DEF q

LEMMA TwoEffects ==
  ASSUME NEW h \in GoodHeaders
  PROVE  LET q == RewriteHeader(h)
         IN  /\ WellFormed(q) /\ q # << >> /\ Len(q) = 2 /\ Final(q) = h
             /\ \A t : ~Touches(q, t)
<1> DEFINE q == <<HeaderErase, WriteHeader(h)>>
<1>1. RewriteHeader(h) = q
  BY DEF RewriteHeader, HeaderErase, WriteHeader
<1>2. WellFormed(q)
  BY DEF WellFormed
<1>3. Len(q) = 2 /\ q[1] = HeaderErase /\ q[2] = WriteHeader(h)
  OBVIOUS
<1>4. q # << >>
  OBVIOUS
<1> HIDE DEF q
<1>5. Final(q) = h
  BY <1>3, HeaderEffects DEF Final
<1>6. \A t : ~Touches(q, t)
  BY <1>3 DEF Touches
<1> QED BY <1>1, <1>2, <1>3, <1>4, <1>5, <1>6

LEMMA ThreeEffects ==
  ASSUME NEW h \in GoodHeaders, NEW e \in PayloadEffects
  PROVE  LET q == <<e>> \o RewriteHeader(h)
         IN  /\ WellFormed(q) /\ q # << >> /\ Len(q) = 3 /\ Final(q) = h
             /\ Head(q) = e /\ \A t : Touches(q, t) <=> e.target = t
<1> DEFINE q == <<e, HeaderErase, WriteHeader(h)>>
<1>0. RewriteHeader(h) = <<HeaderErase, WriteHeader(h)>>
  BY DEF RewriteHeader, HeaderErase, WriteHeader
<1>1. <<e>> \o RewriteHeader(h) = q
  <2>1. <<e>> \o <<HeaderErase, WriteHeader(h)>> = <<e, HeaderErase, WriteHeader(h)>>
    BY ThreeInARow, Zenon
  <2> QED BY <1>0, <2>1
<1>2. WellFormed(q)
  BY DEF WellFormed
<1>3. Len(q) = 3 /\ q[1] = e /\ q[2] = HeaderErase /\ q[3] = WriteHeader(h) /\ Head(q) = e
  OBVIOUS
<1>4. q # << >>
  OBVIOUS
<1> HIDE DEF q
<1>5. Final(q) = h
  BY <1>3, HeaderEffects DEF Final
<1>6. \A t : Touches(q, t) <=> e.target = t
  BY <1>3 DEF Touches
<1> QED BY <1>1, <1>2, <1>3, <1>4, <1>5, <1>6

LEMMA FourEffects ==
  ASSUME NEW h \in GoodHeaders, NEW e \in PayloadEffects, NEW f \in PayloadEffects
  PROVE  LET q == <<e, f>> \o RewriteHeader(h)
         IN  /\ WellFormed(q) /\ q # << >> /\ Len(q) = 4 /\ Final(q) = h
             /\ Head(q) = e /\ Head(Tail(q)) = f
             /\ \A t : Touches(q, t) <=> e.target = t \/ f.target = t
<1> DEFINE q == <<e, f, HeaderErase, WriteHeader(h)>>
<1>0. RewriteHeader(h) = <<HeaderErase, WriteHeader(h)>>
  BY DEF RewriteHeader, HeaderErase, WriteHeader
<1>1. <<e, f>> \o RewriteHeader(h) = q
  <2>1. <<e, f>> \o <<HeaderErase, WriteHeader(h)>> = <<e, f, HeaderErase, WriteHeader(h)>>
    BY FourInARow, Zenon
  <2> QED BY <1>0, <2>1
<1>2. WellFormed(q)
  BY DEF WellFormed
<1>3. /\ Len(q) = 4 /\ q[1] = e /\ q[2] = f /\ q[3] = HeaderErase /\ q[4] = WriteHeader(h)
      /\ Head(q) = e /\ Head(Tail(q)) = f
  BY Tails
<1>4. q # << >>
  OBVIOUS
<1> HIDE DEF q
<1>5. Final(q) = h
  BY <1>3, HeaderEffects DEF Final
<1>6. \A t : Touches(q, t) <=> e.target = t \/ f.target = t
  BY <1>3 DEF Touches
<1> QED BY <1>1, <1>2, <1>3, <1>4, <1>5, <1>6

LEMMA NoEffects == WellFormed(<< >>) /\ \A t : ~Touches(<< >>, t)
BY DEF WellFormed, Touches

\* The first effect of a call, and what is left after it.
LEMMA NextEffect ==
  ASSUME NEW q, WellFormed(q), q # << >>
  PROVE  /\ Len(q) \in {1, 2, 3, 4}
         /\ WellFormed(Tail(q))
         /\ Len(q) = 2 => Len(Tail(q)) = 1
         /\ Len(q) = 3 => Len(Tail(q)) = 2
         /\ Len(q) = 4 => Len(Tail(q)) = 3
         /\ Tail(q) = << >> <=> Len(q) = 1
         /\ Tail(q) # << >> => Final(Tail(q)) = Final(q)
         /\ Final(q) \in GoodHeaders
         /\ Len(q) = 1 => Head(q) = WriteHeader(Final(q))
         /\ Len(q) = 2 => Head(q) = HeaderErase
         /\ Len(q) \in {3, 4} => Head(q) \in PayloadEffects
         /\ \A t : Touches(q, t) <=> Len(q) \in {3, 4} /\ (Head(q).target = t \/ Touches(Tail(q), t))
<1>0. PICK h \in GoodHeaders :
          \/ q = <<WriteHeader(h)>>
          \/ q = <<HeaderErase, WriteHeader(h)>>
          \/ \E e \in PayloadEffects : q = <<e, HeaderErase, WriteHeader(h)>>
          \/ \E e, f \in PayloadEffects : q = <<e, f, HeaderErase, WriteHeader(h)>>
  BY DEF WellFormed
<1> DEFINE one == <<WriteHeader(h)>>
<1> DEFINE two == <<HeaderErase, WriteHeader(h)>>
<1>o. /\ one # << >> /\ Len(one) = 1 /\ Head(one) = WriteHeader(h) /\ one[1] = WriteHeader(h)
      /\ Tail(one) = << >> /\ WellFormed(one)
  BY Tails DEF WellFormed
<1>t. /\ two # << >> /\ Len(two) = 2 /\ Head(two) = HeaderErase /\ two[1] = HeaderErase
      /\ two[2] = WriteHeader(h) /\ Tail(two) = one /\ WellFormed(two)
  BY Tails DEF WellFormed
<1> HIDE DEF one, two
<1>o1. Final(one) = h
  BY <1>o, HeaderEffects DEF Final
<1>o2. \A t : ~Touches(one, t)
  BY <1>o DEF Touches
<1>t1. Final(two) = h
  BY <1>t, HeaderEffects DEF Final
<1>t2. \A t : ~Touches(two, t)
  BY <1>t DEF Touches
<1>1. CASE q = <<WriteHeader(h)>>
  <2>1. q = one
    BY <1>1 DEF one
  <2>a. /\ Len(q) \in {1, 2, 3, 4}
        /\ Len(q) = 2 => Len(Tail(q)) = 1
        /\ Len(q) = 3 => Len(Tail(q)) = 2
        /\ Len(q) = 4 => Len(Tail(q)) = 3
        /\ Tail(q) = << >> <=> Len(q) = 1
    BY <2>1, <1>o, <1>o1, <1>o2, NoEffects
  <2>b. WellFormed(Tail(q))
    BY <2>1, <1>o, <1>o1, <1>o2, NoEffects
  <2>c. Final(Tail(q)) = Final(q) \/ Tail(q) = << >>
    BY <2>1, <1>o, <1>o1, <1>o2, NoEffects
  <2>d. Final(q) \in GoodHeaders
    BY <2>1, <1>o, <1>o1, <1>o2, NoEffects
  <2>e. /\ Len(q) = 1 => Head(q) = WriteHeader(Final(q))
        /\ Len(q) = 2 => Head(q) = HeaderErase
        /\ Len(q) \in {3, 4} => Head(q) \in PayloadEffects
    BY <2>1, <1>o, <1>o1, <1>o2, NoEffects
  <2>f. ASSUME NEW t
        PROVE  Touches(q, t) <=> Len(q) \in {3, 4} /\ (Head(q).target = t \/ Touches(Tail(q), t))
    BY <2>1, <1>o, <1>o1, <1>o2, NoEffects DEF Touches
  <2> QED BY <2>a, <2>b, <2>c, <2>d, <2>e, <2>f
<1>2. CASE q = <<HeaderErase, WriteHeader(h)>>
  <2>1. q = two
    BY <1>2 DEF two
  <2>a. /\ Len(q) \in {1, 2, 3, 4}
        /\ Len(q) = 2 => Len(Tail(q)) = 1
        /\ Len(q) = 3 => Len(Tail(q)) = 2
        /\ Len(q) = 4 => Len(Tail(q)) = 3
        /\ Tail(q) = << >> <=> Len(q) = 1
    BY <2>1, <1>o, <1>o1, <1>o2, <1>t, <1>t1, <1>t2
  <2>b. WellFormed(Tail(q))
    BY <2>1, <1>o, <1>o1, <1>o2, <1>t, <1>t1, <1>t2
  <2>c. Final(Tail(q)) = Final(q) \/ Tail(q) = << >>
    BY <2>1, <1>o, <1>o1, <1>o2, <1>t, <1>t1, <1>t2
  <2>d. Final(q) \in GoodHeaders
    BY <2>1, <1>o, <1>o1, <1>o2, <1>t, <1>t1, <1>t2
  <2>e. /\ Len(q) = 1 => Head(q) = WriteHeader(Final(q))
        /\ Len(q) = 2 => Head(q) = HeaderErase
        /\ Len(q) \in {3, 4} => Head(q) \in PayloadEffects
    BY <2>1, <1>o, <1>o1, <1>o2, <1>t, <1>t1, <1>t2
  <2>f. ASSUME NEW t
        PROVE  Touches(q, t) <=> Len(q) \in {3, 4} /\ (Head(q).target = t \/ Touches(Tail(q), t))
    BY <2>1, <1>o, <1>o1, <1>o2, <1>t, <1>t1, <1>t2 DEF Touches
  <2> QED BY <2>a, <2>b, <2>c, <2>d, <2>e, <2>f
<1>3. CASE \E e \in PayloadEffects : q = <<e, HeaderErase, WriteHeader(h)>>
  <2>0. PICK e \in PayloadEffects : q = <<e, HeaderErase, WriteHeader(h)>>
    BY <1>3
  <2>1. Len(q) = 3 /\ Head(q) = e /\ q[1] = e /\ q[2] = HeaderErase /\ q[3] = WriteHeader(h)
    BY <2>0
  <2>2. Tail(q) = two
    BY <2>0, Tails DEF two
  <2>3. Final(q) = h
    BY <2>1, HeaderEffects DEF Final
  <2>4. \A t : Touches(q, t) <=> e.target = t
    BY <2>1 DEF Touches
  <2>a. /\ Len(q) \in {1, 2, 3, 4}
        /\ Len(q) = 2 => Len(Tail(q)) = 1
        /\ Len(q) = 3 => Len(Tail(q)) = 2
        /\ Len(q) = 4 => Len(Tail(q)) = 3
        /\ Tail(q) = << >> <=> Len(q) = 1
    BY <2>1, <2>2, <2>3, <2>4, <1>t, <1>t1, <1>t2
  <2>b. WellFormed(Tail(q))
    BY <2>1, <2>2, <2>3, <2>4, <1>t, <1>t1, <1>t2
  <2>c. Final(Tail(q)) = Final(q) \/ Tail(q) = << >>
    BY <2>1, <2>2, <2>3, <2>4, <1>t, <1>t1, <1>t2
  <2>d. Final(q) \in GoodHeaders
    BY <2>1, <2>2, <2>3, <2>4, <1>t, <1>t1, <1>t2
  <2>e. /\ Len(q) = 1 => Head(q) = WriteHeader(Final(q))
        /\ Len(q) = 2 => Head(q) = HeaderErase
        /\ Len(q) \in {3, 4} => Head(q) \in PayloadEffects
    BY <2>1, <2>2, <2>3, <2>4, <1>t, <1>t1, <1>t2
  <2>f. ASSUME NEW t
        PROVE  Touches(q, t) <=> Len(q) \in {3, 4} /\ (Head(q).target = t \/ Touches(Tail(q), t))
    BY <2>1, <2>2, <2>3, <2>4, <1>t, <1>t1, <1>t2 DEF Touches
  <2> QED BY <2>a, <2>b, <2>c, <2>d, <2>e, <2>f
<1>4. CASE \E e, f \in PayloadEffects : q = <<e, f, HeaderErase, WriteHeader(h)>>
  <2>0. PICK e \in PayloadEffects, f \in PayloadEffects : q = <<e, f, HeaderErase, WriteHeader(h)>>
    BY <1>4
  <2> DEFINE three == <<f, HeaderErase, WriteHeader(h)>>
  <2>1. /\ Len(q) = 4 /\ Head(q) = e /\ q[1] = e /\ q[2] = f /\ q[3] = HeaderErase
        /\ q[4] = WriteHeader(h)
    BY <2>0
  <2>2. Tail(q) = three
    BY <2>0, Tails
  <2>5. /\ Len(three) = 3 /\ three[1] = f /\ three[2] = HeaderErase /\ three[3] = WriteHeader(h)
        /\ three # << >>
    OBVIOUS
  <2>6. WellFormed(three)
    BY DEF WellFormed
  <2> HIDE DEF three
  <2>3. Final(q) = h /\ Final(three) = h
    BY <2>1, <2>5, HeaderEffects DEF Final
  <2>4. \A t : Touches(q, t) <=> e.target = t \/ f.target = t
    BY <2>1 DEF Touches
  <2>7. \A t : Touches(three, t) <=> f.target = t
    BY <2>5 DEF Touches
  <2>a. /\ Len(q) \in {1, 2, 3, 4}
        /\ Len(q) = 2 => Len(Tail(q)) = 1
        /\ Len(q) = 3 => Len(Tail(q)) = 2
        /\ Len(q) = 4 => Len(Tail(q)) = 3
        /\ Tail(q) = << >> <=> Len(q) = 1
    BY <2>1, <2>2, <2>3, <2>4, <2>5, <2>6, <2>7
  <2>b. WellFormed(Tail(q))
    BY <2>1, <2>2, <2>3, <2>4, <2>5, <2>6, <2>7
  <2>c. Final(Tail(q)) = Final(q) \/ Tail(q) = << >>
    BY <2>1, <2>2, <2>3, <2>4, <2>5, <2>6, <2>7
  <2>d. Final(q) \in GoodHeaders
    BY <2>1, <2>2, <2>3, <2>4, <2>5, <2>6, <2>7
  <2>e. /\ Len(q) = 1 => Head(q) = WriteHeader(Final(q))
        /\ Len(q) = 2 => Head(q) = HeaderErase
        /\ Len(q) \in {3, 4} => Head(q) \in PayloadEffects
    BY <2>1, <2>2, <2>3, <2>4, <2>5, <2>6, <2>7
  <2>f. ASSUME NEW t
        PROVE  Touches(q, t) <=> Len(q) \in {3, 4} /\ (Head(q).target = t \/ Touches(Tail(q), t))
    BY <2>1, <2>2, <2>3, <2>4, <2>5, <2>6, <2>7 DEF Touches
  <2> QED BY <2>a, <2>b, <2>c, <2>d, <2>e, <2>f
<1> QED BY <1>0, <1>1, <1>2, <1>3, <1>4

LEMMA HashesAreThere ==
  ASSUME NEW n \in 0..Capacity, NEW f \in [1..n -> SUBSET Documents]
  PROVE  f \in Hashes
BY DEF Hashes

LEMMA ContentIsAHash ==
  ASSUME NEW t \in Targets, NEW n \in 0..Capacity,
         flash \in [Targets -> [1..Capacity -> SUBSET Documents]]
  PROVE  Content(t, n) \in [1..n -> SUBSET Documents] /\ Content(t, n) \in Hashes
<1>1. \A i \in 1..n : flash[t][i] \in SUBSET Documents
  BY Sizes
<1>2. Content(t, n) \in [1..n -> SUBSET Documents]
  BY <1>1 DEF Content
<1> QED BY <1>2, HashesAreThere

LEMMA WholeIsAHash ==
  ASSUME NEW d \in Documents
  PROVE  Whole(d) \in [1..Cells[d] -> SUBSET Documents] /\ Whole(d) \in Hashes
<1>1. Whole(d) \in [1..Cells[d] -> SUBSET Documents]
  BY DEF Whole
<1> QED BY <1>1, HashesAreThere, Sizes

LEMMA DefaultIsGood == DefaultHeader \in GoodHeaders
<1>1. << >> \in Hashes
  <2>1. << >> \in [1..0 -> SUBSET Documents]
    BY EmptySeq, LenProperties
  <2>2. 0 \in 0..Capacity
    BY Sizes
  <2> QED BY <2>1, <2>2, HashesAreThere, Zenon
<1>2. NoPayload \in [size : 0..Capacity, hash : Hashes]
  BY <1>1, Sizes DEF NoPayload
<1>3. DefaultHeader \in Headers
  BY <1>2, Sizes DEF DefaultHeader, Headers, NoUpload, AllSessions
<1>4. DefaultHeader.upload.written <= DefaultHeader.upload.size
  BY DEF DefaultHeader, NoUpload
<1> QED BY <1>3, <1>4 DEF GoodHeaders

LEMMA CurrentIsGood ==
  ASSUME header \in GoodHeaders \union {NoHeader}
  PROVE  /\ HeaderOrDefault \in GoodHeaders
         /\ header # NoHeader => HeaderOrDefault = header /\ header \in GoodHeaders
         /\ header = NoHeader => HeaderOrDefault = DefaultHeader
BY DefaultIsGood DEF HeaderOrDefault

\* What is known of the parts of a header.
LEMMA GoodParts ==
  ASSUME NEW h \in GoodHeaders
  PROVE  /\ h = [meta |-> h.meta, upload |-> h.upload, last |-> h.last]
         /\ h.meta \in [Targets -> [size : 0..Capacity, hash : Hashes]]
         /\ h.upload \in [target : Targets \union {NoTarget}, size : 0..Capacity,
                          written : 0..Capacity, session : AllSessions]
         /\ h.upload.target \in Targets \union {NoTarget} /\ h.upload.size \in 0..Capacity
         /\ h.upload.written \in 0..Capacity /\ h.upload.session \in AllSessions
         /\ h.upload.written <= h.upload.size
         /\ h.last \in [target : Targets \union {NoTarget}, session : AllSessions]
         /\ h # NoHeader
BY ClientsAssumption DEF GoodHeaders, Headers

LEMMA MadeOfGoodParts ==
  ASSUME NEW m \in [Targets -> [size : 0..Capacity, hash : Hashes]],
         NEW u \in [target : Targets \union {NoTarget}, size : 0..Capacity,
                    written : 0..Capacity, session : AllSessions],
         u.written <= u.size,
         NEW l \in [target : Targets \union {NoTarget}, session : AllSessions]
  PROVE  [meta |-> m, upload |-> u, last |-> l] \in GoodHeaders
BY DEF GoodHeaders, Headers

LEMMA NoUploadIsGood ==
  NoUpload \in [target : Targets \union {NoTarget}, size : 0..Capacity,
                written : 0..Capacity, session : AllSessions]
  /\ NoUpload.written <= NoUpload.size
BY Sizes DEF NoUpload, AllSessions

LEMMA EraseIsAnEffect ==
  ASSUME NEW t \in Targets, NEW n \in Nat
  PROVE  /\ Erase(t, n) \in PayloadEffects /\ Erase(t, n).target = t /\ Erase(t, n).do = "erase"
         /\ Erase(t, n).cells = 1..RoundUpSector(n)
<1>1. RoundUpSector(n) \in Nat
  BY RoundedUp
<1>2. 1..RoundUpSector(n) \in SUBSET Nat
  BY <1>1
<1> QED BY <1>2 DEF Erase, PayloadEffects

LEMMA ProgramIsAnEffect ==
  ASSUME NEW t \in Targets, NEW c \in SUBSET Nat, NEW d \in Documents
  PROVE  /\ Program(t, c, d) \in PayloadEffects /\ Program(t, c, d).target = t
         /\ Program(t, c, d).do = "program" /\ Program(t, c, d).cells = c
         /\ Program(t, c, d).document = d
BY DEF Program, PayloadEffects

LEMMA WithUpload ==
  ASSUME NEW h \in GoodHeaders,
         NEW u \in [target : Targets \union {NoTarget}, size : 0..Capacity,
                    written : 0..Capacity, session : AllSessions],
         u.written <= u.size
  PROVE  LET g == [h EXCEPT !.upload = u]
         IN  g \in GoodHeaders /\ g.meta = h.meta /\ g.upload = u /\ g.last = h.last
<1> DEFINE g == [meta |-> h.meta, upload |-> u, last |-> h.last]
<1>1. [h EXCEPT !.upload = u] = g
  BY GoodParts
<1>2. g \in GoodHeaders
  BY GoodParts, MadeOfGoodParts
<1>3. g.meta = h.meta /\ g.upload = u /\ g.last = h.last
  OBVIOUS
<1> QED BY <1>1, <1>2, <1>3

LEMMA StartPlan ==
  ASSUME NEW t \in Targets, NEW n \in 0..Capacity, NEW s \in AllSessions,
         header \in GoodHeaders \union {NoHeader}
  PROVE  LET p == StartUpload(t, n, s)
             q == p.effects
             f == Final(q)
             h == HeaderOrDefault
         IN  /\ WellFormed(q)
             /\ q = << >> => \/ p.ok = FALSE
                             \/ p.ok = TRUE /\ OpenUpload(h, t, s) /\ h.upload.size = n
             /\ q # << >> => /\ p.ok = TRUE /\ Len(q) = 3 /\ Head(q) = Erase(t, n)
                             /\ \A x : Touches(q, x) <=> t = x
                             /\ h.upload.target \in {NoTarget, t}
                             /\ f.meta = h.meta /\ f.last = h.last
                             /\ f.upload = [target |-> t, size |-> n, written |-> 0, session |-> s]
<1> DEFINE p == StartUpload(t, n, s)
           h == HeaderOrDefault
           u == [target |-> t, size |-> n, written |-> 0, session |-> s]
           g == [h EXCEPT !.upload = u]
           e == <<Erase(t, n)>> \o RewriteHeader(g)
<1>0. h \in GoodHeaders
  BY CurrentIsGood
<1>1. /\ u \in [target : Targets \union {NoTarget}, size : 0..Capacity,
                written : 0..Capacity, session : AllSessions]
      /\ u.written <= u.size
  BY Sizes
<1>2. g \in GoodHeaders /\ g.meta = h.meta /\ g.upload = u /\ g.last = h.last
  BY <1>0, <1>1, WithUpload
<1>3. Erase(t, n) \in PayloadEffects /\ Erase(t, n).target = t
  BY EraseIsAnEffect, Sizes
<1>4. /\ WellFormed(e) /\ e # << >> /\ Len(e) = 3 /\ Final(e) = g /\ Head(e) = Erase(t, n)
      /\ \A x : Touches(e, x) <=> t = x
  BY <1>2, <1>3, ThreeEffects
<1>5. \/ p.ok = FALSE /\ p.effects = << >>
      \/ p.ok = TRUE /\ p.effects = << >> /\ OpenUpload(h, t, s) /\ h.upload.size = n
      \/ p.ok = TRUE /\ p.effects = e /\ h.upload.target \in {NoTarget, t}
  BY DEF StartUpload, Refused, Granted
<1> HIDE DEF p, h, u, g, e
<1>6. CASE p.effects = << >> /\ p.ok = FALSE
  BY <1>6, <1>4, NoEffects DEF p, h
<1>7. CASE p.ok = TRUE /\ p.effects = << >> /\ OpenUpload(h, t, s) /\ h.upload.size = n
  BY <1>7, <1>4, NoEffects DEF p, h
<1>8. CASE p.ok = TRUE /\ p.effects = e /\ h.upload.target \in {NoTarget, t}
  BY <1>8, <1>4, <1>2 DEF p, h, u
<1> QED BY <1>5, <1>6, <1>7, <1>8

LEMMA StartedHeader ==
  ASSUME NEW t \in Targets, NEW n \in 0..Capacity, NEW s \in AllSessions,
         header \in GoodHeaders \union {NoHeader}, StartUpload(t, n, s).effects # << >>
  PROVE  /\ Len(StartUpload(t, n, s).effects) = 3 /\ Head(StartUpload(t, n, s).effects) = Erase(t, n)
         /\ Final(StartUpload(t, n, s).effects).meta = HeaderOrDefault.meta
         /\ Final(StartUpload(t, n, s).effects).upload =
               [target |-> t, size |-> n, written |-> 0, session |-> s]
         /\ Final(StartUpload(t, n, s).effects).last = HeaderOrDefault.last
         /\ \A x : Touches(StartUpload(t, n, s).effects, x) => x = t
<1> DEFINE h == HeaderOrDefault
           u == [target |-> t, size |-> n, written |-> 0, session |-> s]
           g == [h EXCEPT !.upload = u]
           q == StartUpload(t, n, s).effects
<1>0. h \in GoodHeaders
  BY CurrentIsGood
<1>1. /\ u \in [target : Targets \union {NoTarget}, size : 0..Capacity,
                written : 0..Capacity, session : AllSessions]
      /\ u.written <= u.size
  BY Sizes
<1>2. g \in GoodHeaders /\ g.meta = h.meta /\ g.upload = u /\ g.last = h.last
  BY <1>0, <1>1, WithUpload
<1>3. q = <<Erase(t, n)>> \o RewriteHeader(g)
  BY DEF StartUpload, Refused, Granted
<1>4. Erase(t, n) \in PayloadEffects /\ Erase(t, n).target = t
  BY EraseIsAnEffect, Sizes
<1> HIDE DEF h, u, g, q
<1>5. /\ Final(q) = g /\ Len(q) = 3 /\ Head(q) = Erase(t, n)
      /\ \A x : Touches(q, x) => x = t
  BY <1>2, <1>3, <1>4, ThreeEffects
<1> QED BY <1>2, <1>5 DEF h, u, q

LEMMA ChunkPlan ==
  ASSUME NEW t \in Targets, NEW i \in Nat, NEW d \in Documents, NEW s \in AllSessions,
         header \in GoodHeaders \union {NoHeader}
  PROVE  LET p == WriteUploadChunk(t, i, d, s)
             q == p.effects
             f == Final(q)
         IN  /\ WellFormed(q)
             /\ q = << >> => p.ok = FALSE
             /\ q # << >> => /\ p.ok = TRUE /\ Len(q) = 3 /\ Head(q) = Program(t, {i}, d)
                             /\ \A x : Touches(q, x) <=> t = x
                             /\ header # NoHeader
                             /\ OpenUpload(header, t, s) /\ i <= header.upload.size
                             /\ f.meta = header.meta /\ f.last = header.last
                             /\ OpenUpload(f, t, s) /\ f.upload.size = header.upload.size
                             /\ f.upload = [target |-> t, size |-> header.upload.size,
                                            written |-> IF i > header.upload.written THEN i
                                                        ELSE header.upload.written,
                                            session |-> s]
<1> DEFINE p == WriteUploadChunk(t, i, d, s)
           u == [header.upload EXCEPT !.written = IF i > @ THEN i ELSE @]
           g == [header EXCEPT !.upload = u]
           e == <<Program(t, {i}, d)>> \o RewriteHeader(g)
<1>1. \/ p.ok = FALSE /\ p.effects = << >>
      \/ /\ p.ok = TRUE /\ p.effects = e /\ header # NoHeader
         /\ OpenUpload(header, t, s) /\ i <= header.upload.size
  BY GoodParts DEF WriteUploadChunk, Refused, Granted
<1>2. CASE p.ok = FALSE /\ p.effects = << >>
  <2> HIDE DEF p
  <2> QED BY <1>2, NoEffects DEF p
<1>3. CASE /\ p.ok = TRUE /\ p.effects = e /\ header # NoHeader
           /\ OpenUpload(header, t, s) /\ i <= header.upload.size
  <2>1. header \in GoodHeaders
    BY <1>3
  <2>2. /\ u \in [target : Targets \union {NoTarget}, size : 0..Capacity,
                  written : 0..Capacity, session : AllSessions]
        /\ u.written <= u.size
        /\ u.target = header.upload.target /\ u.session = header.upload.session
        /\ u.size = header.upload.size
    BY <1>3, <2>1, GoodParts, Sizes
  <2>a. u = [target |-> t, size |-> header.upload.size,
             written |-> IF i > header.upload.written THEN i ELSE header.upload.written,
             session |-> s]
    BY <1>3, <2>1, GoodParts DEF OpenUpload
  <2>3. g \in GoodHeaders /\ g.meta = header.meta /\ g.upload = u /\ g.last = header.last
    BY <2>1, <2>2, WithUpload
  <2>4. Program(t, {i}, d) \in PayloadEffects /\ Program(t, {i}, d).target = t
    BY ProgramIsAnEffect
  <2>5. /\ WellFormed(e) /\ e # << >> /\ Len(e) = 3 /\ Final(e) = g /\ Head(e) = Program(t, {i}, d)
        /\ \A x : Touches(e, x) <=> t = x
    BY <2>3, <2>4, ThreeEffects
  <2> HIDE DEF p, u, g, e
  <2> QED BY <1>3, <2>2, <2>a, <2>3, <2>5 DEF p, OpenUpload
<1> QED BY <1>1, <1>2, <1>3

LEMMA CommitPlan ==
  ASSUME NEW t \in Targets, NEW s \in AllSessions,
         header \in GoodHeaders \union {NoHeader},
         flash \in [Targets -> [1..Capacity -> SUBSET Documents]]
  PROVE  LET p == CommitUpload(t, s)
             q == p.effects
             f == Final(q)
             n == header.upload.size
         IN  /\ WellFormed(q)
             /\ q = << >> => \/ p.ok = FALSE
                             \/ /\ p.ok = TRUE /\ header # NoHeader
                                /\ header.last = [target |-> t, session |-> s]
             /\ q # << >> => /\ p.ok = TRUE /\ Len(q) = 2 /\ header # NoHeader
                             /\ \A x : ~Touches(q, x)
                             /\ OpenUpload(header, t, s) /\ header.upload.written >= n
                             /\ f.meta = [header.meta EXCEPT ![t] = [size |-> n, hash |-> Content(t, n)]]
                             /\ f.upload = NoUpload /\ f.last = [target |-> t, session |-> s]
<1> DEFINE p == CommitUpload(t, s)
           n == header.upload.size
           m == [header.meta EXCEPT ![t] = [size |-> n, hash |-> Content(t, n)]]
           l == [target |-> t, session |-> s]
           g == [meta |-> m, upload |-> NoUpload, last |-> l]
           e == RewriteHeader(g)
<1>1. \/ p.ok = FALSE /\ p.effects = << >>
      \/ p.ok = TRUE /\ p.effects = << >> /\ header # NoHeader /\ header.last = l
      \/ /\ p.ok = TRUE /\ p.effects = e /\ header # NoHeader
         /\ OpenUpload(header, t, s) /\ ~(header.upload.written < n)
  BY DEF CommitUpload, Refused, Granted
<1>2. CASE p.ok = FALSE /\ p.effects = << >>
  <2> HIDE DEF p
  <2> QED BY <1>2, NoEffects DEF p
<1>3. CASE p.ok = TRUE /\ p.effects = << >> /\ header # NoHeader /\ header.last = l
  <2> HIDE DEF p
  <2> QED BY <1>3, NoEffects DEF p
<1>4. CASE /\ p.ok = TRUE /\ p.effects = e /\ header # NoHeader
           /\ OpenUpload(header, t, s) /\ ~(header.upload.written < n)
  <2>1. header \in GoodHeaders /\ n \in 0..Capacity /\ header.upload.written >= n
    BY <1>4, GoodParts, Sizes
  <2>2. m \in [Targets -> [size : 0..Capacity, hash : Hashes]]
    BY <2>1, GoodParts, ContentIsAHash
  <2>3. l \in [target : Targets \union {NoTarget}, session : AllSessions]
    OBVIOUS
  <2> HIDE DEF m, l
  <2>5. g \in GoodHeaders
    BY <2>2, <2>3, NoUploadIsGood, MadeOfGoodParts
  <2>6. g.meta = m /\ g.upload = NoUpload /\ g.last = l
    OBVIOUS
  <2>7. WellFormed(e) /\ e # << >> /\ Len(e) = 2 /\ Final(e) = g /\ \A x : ~Touches(e, x)
    BY <2>5, TwoEffects
  <2> HIDE DEF p, g, e
  <2> QED BY <1>4, <2>1, <2>6, <2>7 DEF p, m, l
<1> QED BY <1>1, <1>2, <1>3, <1>4

LEMMA WritePlan ==
  ASSUME NEW t \in Targets, NEW d \in Documents,
         header \in GoodHeaders \union {NoHeader}
  PROVE  LET p == WritePayload(t, d)
             q == p.effects
             f == Final(q)
             h == HeaderOrDefault
         IN  /\ WellFormed(q) /\ q # << >> /\ p.ok = TRUE /\ Len(q) = 4
             /\ Head(q) = Erase(t, Cells[d]) /\ Head(Tail(q)) = Program(t, 1..Cells[d], d)
             /\ \A x : Touches(q, x) <=> t = x
             /\ f.meta = [h.meta EXCEPT ![t] = Stored(d)]
             /\ f.upload = NoUpload /\ f.last = [target |-> NoTarget, session |-> NoSession]
<1> DEFINE p == WritePayload(t, d)
           h == HeaderOrDefault
           m == [h.meta EXCEPT ![t] = Stored(d)]
           l == [target |-> NoTarget, session |-> NoSession]
           g == [meta |-> m, upload |-> NoUpload, last |-> l]
           x == Erase(t, Cells[d])
           y == Program(t, 1..Cells[d], d)
           e == <<x, y>> \o RewriteHeader(g)
<1>1. p.ok = TRUE /\ p.effects = e
  BY DEF WritePayload, Granted, Stored
<1>2. h \in GoodHeaders
  BY CurrentIsGood
<1>3. Stored(d) \in [size : 0..Capacity, hash : Hashes]
  BY WholeIsAHash, Sizes DEF Stored
<1>4. m \in [Targets -> [size : 0..Capacity, hash : Hashes]]
  BY <1>2, <1>3, GoodParts
<1>5. l \in [target : Targets \union {NoTarget}, session : AllSessions]
  BY DEF AllSessions
<1> HIDE DEF l, m
<1>7. g \in GoodHeaders
  BY <1>4, <1>5, NoUploadIsGood, MadeOfGoodParts
<1>8. g.meta = m /\ g.upload = NoUpload /\ g.last = l
  OBVIOUS
<1>9. /\ x \in PayloadEffects /\ x.target = t
      /\ y \in PayloadEffects /\ y.target = t
  BY EraseIsAnEffect, ProgramIsAnEffect, Sizes
<1> HIDE DEF x, y, g, m, l
<1>10. /\ WellFormed(e) /\ e # << >> /\ Len(e) = 4 /\ Final(e) = g /\ Head(e) = x
       /\ Head(Tail(e)) = y /\ \A z : Touches(e, z) <=> t = z
  BY <1>7, <1>9, FourEffects
<1> HIDE DEF p, e
<1> QED BY <1>1, <1>8, <1>10 DEF p, x, y, m, l

\* The targets of a delete call.
Gone(ts) == {ts[i] : i \in DOMAIN ts}

LEMMA DeletePlan ==
  ASSUME NEW ts \in DeleteCalls, header \in GoodHeaders \union {NoHeader}
  PROVE  LET p == DeletePayloads(ts)
             q == p.effects
             f == Final(q)
             h == HeaderOrDefault
         IN  /\ WellFormed(q) /\ q # << >> /\ p.ok = TRUE /\ Len(q) \in {2, 3, 4}
             /\ Len(q) \in {3, 4} => Head(q).do = "erase"
             /\ Len(q) = 4 => Head(Tail(q)).do = "erase"
             /\ \A x : Touches(q, x) => x \in Gone(ts)
             /\ f.meta = [t \in Targets |-> IF t \in Gone(ts) THEN NoPayload ELSE h.meta[t]]
             /\ f.upload = IF h.upload.target \in Gone(ts) THEN NoUpload ELSE h.upload
             /\ f.last = h.last
<1> DEFINE p == DeletePayloads(ts)
           h == HeaderOrDefault
           m == [t \in Targets |-> IF t \in Gone(ts) THEN NoPayload ELSE h.meta[t]]
           u == IF h.upload.target \in Gone(ts) THEN NoUpload ELSE h.upload
           g == [meta |-> m, upload |-> u, last |-> h.last]
<1>1. h \in GoodHeaders
  BY CurrentIsGood
<1>2. \A t \in Targets : NoPayload \in [size : 0..Capacity, hash : Hashes]
  <2>1. \A t \in Targets : NoPayload = DefaultHeader.meta[t]
    BY DEF DefaultHeader
  <2> QED BY <2>1, DefaultIsGood, GoodParts
<1>3. m \in [Targets -> [size : 0..Capacity, hash : Hashes]]
  BY <1>1, <1>2, GoodParts
<1>4. /\ u \in [target : Targets \union {NoTarget}, size : 0..Capacity,
                written : 0..Capacity, session : AllSessions]
      /\ u.written <= u.size
  BY <1>1, GoodParts, NoUploadIsGood
<1> HIDE DEF m, u
<1>6. g \in GoodHeaders
  BY <1>1, <1>3, <1>4, GoodParts, MadeOfGoodParts
<1>7. g.meta = m /\ g.upload = u /\ g.last = h.last
  OBVIOUS
<1>8. \A t \in Targets : EraseHeld(h, t) = << >> \/ EraseHeld(h, t) = <<Erase(t, h.meta[t].size)>>
  BY DEF EraseHeld
<1>9. \A t \in Targets : /\ Erase(t, h.meta[t].size) \in PayloadEffects
                         /\ Erase(t, h.meta[t].size).target = t
                         /\ Erase(t, h.meta[t].size).do = "erase"
  BY <1>1, GoodParts, EraseIsAnEffect, Sizes
<1> HIDE DEF h, g
<1>10. /\ p.ok = TRUE
       /\ p.effects = (IF Len(ts) = 1 THEN EraseHeld(h, ts[1])
                       ELSE EraseHeld(h, ts[1]) \o EraseHeld(h, ts[2])) \o RewriteHeader(g)
  BY DEF DeletePayloads, Granted, h, g, m, u, Gone
<1> DEFINE e(x) == Erase(x, h.meta[x].size)
           r == IF Len(ts) = 1 THEN EraseHeld(h, ts[1])
                ELSE EraseHeld(h, ts[1]) \o EraseHeld(h, ts[2])
<1>11. \/ r = << >>
       \/ \E x \in Gone(ts) \cap Targets : r = <<e(x)>>
       \/ \E x, y \in Gone(ts) \cap Targets : r = <<e(x), e(y)>>
  <2>1. CASE ts \in {<<t>> : t \in Targets}
    <3>1. PICK t \in Targets : ts = <<t>>
      BY <2>1
    <3>2. Len(ts) = 1 /\ ts[1] = t /\ t \in Gone(ts)
      BY <3>1 DEF Gone
    <3> QED BY <3>2, <1>8
  <2>2. CASE ts \in Targets \X Targets
    <3>1. PICK t \in Targets, v \in Targets : ts = <<t, v>>
      BY <2>2
    <3>2. Len(ts) = 2 /\ ts[1] = t /\ ts[2] = v /\ t \in Gone(ts) /\ v \in Gone(ts)
      BY <3>1 DEF Gone
    <3>3. r = EraseHeld(h, t) \o EraseHeld(h, v)
      BY <3>2
    <3> HIDE DEF r, e
    <3>4. \A x \in Targets : EraseHeld(h, x) = << >> \/ EraseHeld(h, x) = <<e(x)>>
      BY <1>8 DEF e
    <3>5. /\ << >> \o << >> = << >> /\ << >> \o <<e(v)>> = <<e(v)>>
          /\ <<e(t)>> \o << >> = <<e(t)>> /\ <<e(t)>> \o <<e(v)>> = <<e(t), e(v)>>
      BY ShortRows, Zenon
    <3>6. r \in {<< >>, <<e(t)>>, <<e(v)>>, <<e(t), e(v)>>}
      BY <3>3, <3>4, <3>5, Zenon
    <3> QED BY <3>2, <3>6
  <2> QED BY <2>1, <2>2 DEF DeleteCalls
<1>12. p.effects = r \o RewriteHeader(g)
  BY <1>10
<1>13. CASE r = << >>
  <2>1. RewriteHeader(g) = << >> \o RewriteHeader(g)
    <3>1. RewriteHeader(g) = <<HeaderErase, WriteHeader(g)>>
      BY DEF RewriteHeader, HeaderErase, WriteHeader
    <3> QED BY <3>1, ShortRows, Zenon
  <2>2. p.effects = RewriteHeader(g)
    BY <1>12, <1>13, <2>1
  <2> HIDE DEF p, r
  <2>3. /\ WellFormed(p.effects) /\ p.effects # << >> /\ Len(p.effects) = 2
        /\ Final(p.effects) = g /\ \A t : ~Touches(p.effects, t)
    BY <2>2, <1>6, TwoEffects
  <2> QED BY <1>10, <1>7, <2>3 DEF p, h, m, u
<1>14. CASE \E x \in Gone(ts) \cap Targets : r = <<e(x)>>
  <2>1. PICK x \in Gone(ts) \cap Targets : r = <<e(x)>>
    BY <1>14
  <2>2. e(x) \in PayloadEffects /\ e(x).target = x /\ e(x).do = "erase"
    BY <1>9
  <2>3. p.effects = <<e(x)>> \o RewriteHeader(g)
    BY <1>12, <2>1
  <2> HIDE DEF p, r, e
  <2>4. /\ WellFormed(p.effects) /\ p.effects # << >> /\ Len(p.effects) = 3
        /\ Final(p.effects) = g /\ Head(p.effects) = e(x)
        /\ \A t : Touches(p.effects, t) <=> x = t
    BY <2>2, <2>3, <1>6, ThreeEffects
  <2> QED BY <1>10, <1>7, <2>2, <2>4 DEF p, h, m, u
<1>15. CASE \E x, y \in Gone(ts) \cap Targets : r = <<e(x), e(y)>>
  <2>1. PICK x \in Gone(ts) \cap Targets, y \in Gone(ts) \cap Targets : r = <<e(x), e(y)>>
    BY <1>15
  <2>2. /\ e(x) \in PayloadEffects /\ e(x).target = x /\ e(x).do = "erase"
        /\ e(y) \in PayloadEffects /\ e(y).target = y /\ e(y).do = "erase"
    BY <1>9
  <2>3. p.effects = <<e(x), e(y)>> \o RewriteHeader(g)
    BY <1>12, <2>1
  <2> HIDE DEF p, r, e
  <2>4. /\ WellFormed(p.effects) /\ p.effects # << >> /\ Len(p.effects) = 4
        /\ Final(p.effects) = g /\ Head(p.effects) = e(x) /\ Head(Tail(p.effects)) = e(y)
        /\ \A t : Touches(p.effects, t) <=> x = t \/ y = t
    BY <2>2, <2>3, <1>6, FourEffects
  <2> QED BY <1>10, <1>7, <2>2, <2>4 DEF p, h, m, u
<1> QED BY <1>11, <1>13, <1>14, <1>15

-----------------------------------------------------------------------------
(* Types.                                                                    *)

LEMMA Types ==
  ASSUME TypeInv
  PROVE  /\ flash \in [Targets -> [1..Capacity -> SUBSET Documents]]
         /\ header \in GoodHeaders \union {NoHeader}
         /\ \A b \in Dashboards : UploadType(up[b], used)
         /\ used \subseteq Sessions \ {StatsSession}
         /\ WellFormed(todo["httpd"]) /\ WellFormed(todo["loop"])
BY DEF TypeInv, Actors

LEMMA Uploading ==
  ASSUME TypeInv, NEW b \in Dashboards
  PROVE  /\ UploadType(up[b], used)
         /\ up[b] # NotUploading <=> up[b].session # NoSession
         /\ up[b] # NotUploading =>
               /\ up[b].session \in used /\ up[b].session \in Sessions
               /\ up[b].session # StatsSession /\ up[b].session \in AllSessions
               /\ up[b].target \in Targets /\ up[b].document \in Documents
         /\ NotUploading.session = NoSession
<1>1. UploadType(up[b], used) /\ used \subseteq Sessions \ {StatsSession}
  BY Types
<1>2. NotUploading.session = NoSession
  BY DEF NotUploading
<1> QED BY <1>1, <1>2, Sizes DEF UploadType, AllSessions

LEMMA RequestTypes ==
  ASSUME TypeInv, NEW b \in Dashboards, up[b] # NotUploading, NEW r \in NextRequests(up[b])
  PROVE  /\ r \in Requests /\ r.kind \in {"start", "chunk", "commit"}
         /\ r.kind = "start" <=> ~up[b].started
         /\ r.kind = "commit" /\ InOrder => up[b].received = 1..Cells[up[b].document]
         /\ r.kind = "chunk" => /\ up[b].received # 1..Cells[up[b].document]
                                /\ InOrder => r.cell = Cardinality(up[b].received) + 1
<1> DEFINE u == up[b]
           n == Cells[u.document]
           c == Cardinality(u.received)
<1>1. c \in Nat /\ u.started \in BOOLEAN
  BY Uploading, FS_CardinalityType DEF UploadType
<1>2. n \in Nat
  BY Uploading, Sizes
<1>3. \/ ~u.started /\ r = Request("start", 0)
      \/ u.started /\ u.received = 1..n /\ r = Request("commit", 0)
      \/ u.started /\ u.received # 1..n /\ InOrder /\ r = Request("chunk", c + 1)
      \/ u.started /\ u.received # 1..n /\ ~InOrder /\ r = Request("commit", 0)
      \/ u.started /\ u.received # 1..n /\ ~InOrder /\ \E i \in 1..n : r = Request("chunk", i)
  BY DEF NextRequests
<1>4. \A k \in {"start", "chunk", "commit"}, i \in Nat :
         Request(k, i) \in Requests /\ Request(k, i).kind = k /\ Request(k, i).cell = i
  BY DEF Request, Requests
<1> HIDE DEF u, n, c
<1>5. \/ ~u.started /\ r \in Requests /\ r.kind = "start"
      \/ u.started /\ u.received = 1..n /\ r \in Requests /\ r.kind = "commit"
      \/ /\ u.started /\ u.received # 1..n /\ r \in Requests /\ r.kind = "chunk"
         /\ InOrder => r.cell = c + 1
      \/ u.started /\ u.received # 1..n /\ ~InOrder /\ r \in Requests /\ r.kind = "commit"
  BY <1>1, <1>2, <1>3, <1>4
<1> QED BY <1>5 DEF u, n, c

LEMMA PlanKinds ==
  ASSUME NEW u, NEW r
  PROVE  /\ r.kind = "start" => PlanFor(u, r) = StartUpload(u.target, Cells[u.document], u.session)
         /\ r.kind = "chunk" =>
               PlanFor(u, r) = WriteUploadChunk(u.target, r.cell, u.document, u.session)
         /\ r.kind = "commit" => PlanFor(u, r) = CommitUpload(u.target, u.session)
BY DEF PlanFor

LEMMA UploadPlanTypes ==
  ASSUME TypeInv, NEW b \in Dashboards, up[b] # NotUploading, NEW r \in NextRequests(up[b])
  PROVE  WellFormed(PlanFor(up[b], r).effects) /\ PlanFor(up[b], r).ok \in BOOLEAN
<1>1. /\ up[b].target \in Targets /\ up[b].document \in Documents
      /\ up[b].session \in AllSessions /\ Cells[up[b].document] \in 0..Capacity
  BY Uploading, Sizes
<1>2. r.kind \in {"start", "chunk", "commit"} /\ r.cell \in Nat
  BY RequestTypes DEF Requests
<1> DEFINE t == up[b].target
           d == up[b].document
           s == up[b].session
<1>3. CASE r.kind = "start"
  <2>1. PlanFor(up[b], r) = StartUpload(t, Cells[d], s)
    BY <1>3, PlanKinds
  <2> DEFINE p == StartUpload(t, Cells[d], s)
  <2>2. Cells[d] \in 0..Capacity /\ t \in Targets /\ s \in AllSessions
    BY <1>1
  <2> HIDE DEF t, d, s
  <2>3. WellFormed(p.effects) /\ p.ok \in BOOLEAN
    BY <2>2, Types, StartPlan
  <2> QED BY <2>1, <2>3
<1>4. CASE r.kind = "chunk"
  <2>1. PlanFor(up[b], r) = WriteUploadChunk(t, r.cell, d, s)
    BY <1>4, PlanKinds
  <2>2. /\ WellFormed(WriteUploadChunk(t, r.cell, d, s).effects)
        /\ WriteUploadChunk(t, r.cell, d, s).ok \in BOOLEAN
    BY <1>1, <1>2, Types, ChunkPlan
  <2> QED BY <2>1, <2>2
<1>5. CASE r.kind = "commit"
  <2>1. PlanFor(up[b], r) = CommitUpload(t, s)
    BY <1>5, PlanKinds
  <2>2. WellFormed(CommitUpload(t, s).effects) /\ CommitUpload(t, s).ok \in BOOLEAN
    BY <1>1, Types, CommitPlan
  <2> QED BY <2>1, <2>2
<1> QED BY <1>2, <1>3, <1>4, <1>5

LEMMA CallStep ==
  ASSUME TypeInv, NEW a \in Actors, NEW plan, WellFormed(plan.effects), Call(a, plan)
  PROVE  /\ flash' = flash /\ header' = header /\ todo[a] = << >>
         /\ todo' = [x \in Actors |-> todo'[x]] /\ todo'[a] = plan.effects
         /\ \A x \in Actors : x # a => todo'[x] = todo[x]
         /\ \A x \in Actors : WellFormed(todo'[x])
BY DEF TypeInv, Call, Idle

LEMMA ApplyPayload ==
  ASSUME NEW e \in PayloadEffects, Apply(e),
         flash \in [Targets -> [1..Capacity -> SUBSET Documents]]
  PROVE  /\ header' = header
         /\ flash' \in [Targets -> [1..Capacity -> SUBSET Documents]]
         /\ \A t \in Targets : t # e.target => flash'[t] = flash[t]
         /\ \A i \in 1..Capacity : flash'[e.target][i] =
               IF i \notin e.cells THEN flash[e.target][i]
               ELSE IF e.do = "erase" THEN {} ELSE flash[e.target][i] \union {e.document}
<1>1. /\ e.do \in {"erase", "program"} /\ e.target \in Targets
      /\ e.do = "program" => e.document \in Documents
  BY PayloadEffectTypes
<1>2. CASE e.do = "erase"
  <2> DEFINE f == [i \in 1..Capacity |-> IF i \in e.cells THEN {} ELSE flash[e.target][i]]
  <2>1. header' = header /\ flash' = [flash EXCEPT ![e.target] = f]
    BY <1>2 DEF Apply
  <2>2. f \in [1..Capacity -> SUBSET Documents]
    BY <1>1
  <2> QED BY <1>1, <1>2, <2>1, <2>2
<1>3. CASE e.do = "program"
  <2> DEFINE f == [i \in 1..Capacity |-> IF i \in e.cells THEN flash[e.target][i] \union {e.document}
                                         ELSE flash[e.target][i]]
  <2>1. header' = header /\ flash' = [flash EXCEPT ![e.target] = f]
    BY <1>3 DEF Apply
  <2>2. f \in [1..Capacity -> SUBSET Documents]
    BY <1>1, <1>3
  <2> QED BY <1>1, <1>3, <2>1, <2>2
<1> QED BY <1>1, <1>2, <1>3

LEMMA AdvanceTodo ==
  ASSUME TypeInv, NEW a \in Actors, Advance(a)
  PROVE  /\ WellFormed(todo[a]) /\ todo[a] # << >> /\ Apply(Head(todo[a]))
         /\ todo' = [x \in Actors |-> todo'[x]] /\ todo'[a] = Tail(todo[a])
         /\ \A x \in Actors : x # a => todo'[x] = todo[x]
         /\ \A x \in Actors : WellFormed(todo'[x])
<1>1. WellFormed(todo[a]) /\ todo[a] # << >>
  BY DEF TypeInv, Advance, Idle
<1>2. Apply(Head(todo[a])) /\ todo' = [todo EXCEPT ![a] = Tail(@)]
  BY DEF Advance
<1>3. WellFormed(Tail(todo[a]))
  BY <1>1, NextEffect
<1>4. /\ todo' = [x \in Actors |-> todo'[x]] /\ todo'[a] = Tail(todo[a])
      /\ \A x \in Actors : x # a => todo'[x] = todo[x]
      /\ \A x \in Actors : WellFormed(todo'[x])
  BY <1>2, <1>3 DEF TypeInv
<1> QED BY <1>1, <1>2, <1>4

LEMMA AdvanceWrites ==
  ASSUME TypeInv, NEW a \in Actors, Advance(a), Len(todo[a]) = 1
  PROVE  flash' = flash /\ header' = Final(todo[a]) /\ header' \in GoodHeaders /\ header' # NoHeader
<1>1. Head(todo[a]) = WriteHeader(Final(todo[a])) /\ Final(todo[a]) \in GoodHeaders
  BY AdvanceTodo, NextEffect
<1>2. Apply(Head(todo[a]))
  BY AdvanceTodo
<1>3. flash' = flash /\ header' = Final(todo[a])
  BY <1>1, <1>2, HeaderEffects DEF Apply
<1> QED BY <1>1, <1>3, GoodParts

LEMMA AdvanceErases ==
  ASSUME TypeInv, NEW a \in Actors, Advance(a), Len(todo[a]) = 2
  PROVE  flash' = flash /\ header' = NoHeader
<1>1. Head(todo[a]) = HeaderErase
  BY AdvanceTodo, NextEffect
<1>2. Apply(Head(todo[a]))
  BY AdvanceTodo
<1> QED BY <1>1, <1>2, HeaderEffects DEF Apply

LEMMA AdvancePayload ==
  ASSUME TypeInv, NEW a \in Actors, Advance(a), Len(todo[a]) \in {3, 4}, NEW e, e = Head(todo[a])
  PROVE  /\ e \in PayloadEffects /\ header' = header
         /\ flash' \in [Targets -> [1..Capacity -> SUBSET Documents]]
         /\ \A t \in Targets : t # e.target => flash'[t] = flash[t]
         /\ \A i \in 1..Capacity : flash'[e.target][i] =
               IF i \notin e.cells THEN flash[e.target][i]
               ELSE IF e.do = "erase" THEN {} ELSE flash[e.target][i] \union {e.document}
<1>1. e \in PayloadEffects
  BY AdvanceTodo, NextEffect
<1>2. Apply(e)
  BY AdvanceTodo
<1> QED BY <1>1, <1>2, ApplyPayload, Types

LEMMA AdvanceStep ==
  ASSUME TypeInv, NEW a \in Actors, Advance(a)
  PROVE  /\ Len(todo[a]) \in {1, 2, 3, 4}
         /\ flash' \in [Targets -> [1..Capacity -> SUBSET Documents]]
         /\ header' \in GoodHeaders \union {NoHeader}
<1>1. Len(todo[a]) \in {1, 2, 3, 4}
  BY AdvanceTodo, NextEffect
<1>2. CASE Len(todo[a]) = 1
  BY <1>1, <1>2, AdvanceWrites, Types
<1>3. CASE Len(todo[a]) = 2
  BY <1>1, <1>3, AdvanceErases, Types
<1>4. CASE Len(todo[a]) \in {3, 4}
  BY <1>1, <1>4, AdvancePayload, Types
<1> QED BY <1>1, <1>2, <1>3, <1>4

LEMMA GiveUpStep ==
  ASSUME TypeInv, NEW a \in Actors, GiveUp(a)
  PROVE  /\ flash' = flash /\ header' = header /\ todo[a] # << >> /\ todo'[a] = << >>
         /\ todo' = [x \in Actors |-> todo'[x]]
         /\ \A x \in Actors : x # a => todo'[x] = todo[x]
         /\ \A x \in Actors : WellFormed(todo'[x])
BY NoEffects DEF TypeInv, GiveUp, Idle

\* What the HTTP task's answer does to uploads and to what was acknowledged.
LEMMA AnswerTypes ==
  ASSUME TypeInv, NEW s \in Sessions \union {NoSession}, NEW r \in Requests,
         NEW ok \in BOOLEAN, Answer(s, r, ok)
  PROVE  /\ up' = [b \in Dashboards |-> up'[b]]
         /\ \A b \in Dashboards : UploadType(up'[b], used)
         /\ saved' \in [Targets -> Documents \union {Nothing}]
<1> DEFINE waiting == {b \in Dashboards : up[b].session = s /\ s # NoSession}
<1>1. up' = [b \in Dashboards |-> IF b \in waiting THEN AfterAnswer(up[b], r, ok) ELSE up[b]]
  BY DEF Answer
<1>2. saved' = [t \in Targets |->
                  IF ok /\ r.kind = "commit" /\ \E b \in waiting : up[b].target = t
                  THEN up[CHOOSE b \in waiting : TRUE].document ELSE saved[t]]
  BY DEF Answer
<1>3. UploadType(NotUploading, used)
  BY Sizes, FS_EmptySet DEF UploadType, NotUploading
<1>4. ASSUME NEW b \in waiting PROVE UploadType(AfterAnswer(up[b], r, ok), used)
  <2>1. up[b] # NotUploading /\ UploadType(up[b], used)
    BY Uploading, <1>4
  <2>2. r.cell \in Nat
    BY DEF Requests
  <2>3. IsFiniteSet(up[b].received \union {r.cell})
    BY <2>1, FS_AddElement DEF UploadType
  <2>4. UploadType([up[b] EXCEPT !.started = TRUE], used)
    BY <2>1 DEF UploadType
  <2>5. UploadType([up[b] EXCEPT !.received = @ \union {r.cell}], used)
    BY <2>1, <2>2, <2>3 DEF UploadType
  <2> QED BY <1>3, <2>4, <2>5 DEF AfterAnswer
<1>5. \A b \in Dashboards : UploadType(up'[b], used)
  BY <1>1, <1>4, Types
<1>6. \A b \in waiting : up[b].document \in Documents
  BY Uploading
<1>7. (\E b \in waiting : TRUE) => up[CHOOSE b \in waiting : TRUE].document \in Documents
  BY <1>6
<1>8. saved' \in [Targets -> Documents \union {Nothing}]
  BY <1>2, <1>7 DEF TypeInv
<1> QED BY <1>1, <1>5, <1>8

LEMMA PersistTypes ==
  ASSUME TypeInv, NEW ok \in BOOLEAN, PersistAnswer(ok), persist # Resting
  PROVE  /\ persist' \in [step : {"idle", "start", "chunk", "commit"}, sent : Nat]
         /\ persist' # Resting => persist'.step # "idle"
         /\ kept' \in 0..day
<1>1. persist.sent + 1 \in Nat
  BY DEF TypeInv
<1>2. kept' \in 0..day
  BY DEF TypeInv, PersistAnswer
<1> QED BY <1>1, <1>2 DEF PersistAnswer, Resting

LEMMA PersistPlanTypes ==
  ASSUME TypeInv, persist # Resting
  PROVE  /\ WellFormed(PersistPlan.effects) /\ PersistPlan.ok \in BOOLEAN
         /\ Stats \in Targets /\ Today \in Documents /\ StatsSession \in AllSessions
<1>1. day > 0 /\ day \in 0..Days /\ persist.step \in {"start", "chunk", "commit"} /\ persist.sent + 1 \in Nat
  BY DEF TypeInv
<1>2. Stats \in Targets /\ Today \in Documents /\ StatsSession \in AllSessions
  BY <1>1, ClientsAssumption DEF Today, Days, AllSessions
<1>3. Cells[Today] \in 0..Capacity
  BY <1>2, Sizes
<1> DEFINE d == Today
<1> HIDE DEF d
<1>4. CASE persist.step = "start"
  <2> DEFINE p == StartUpload(Stats, Cells[d], StatsSession)
  <2>1. PersistPlan = p
    BY <1>4 DEF PersistPlan, d
  <2>2. WellFormed(p.effects) /\ p.ok \in BOOLEAN
    BY <1>2, <1>3, Types, StartPlan DEF d
  <2> QED BY <1>2, <2>1, <2>2
<1>5. CASE persist.step = "chunk"
  <2> DEFINE p == WriteUploadChunk(Stats, persist.sent + 1, Today, StatsSession)
  <2>1. PersistPlan = p
    BY <1>5 DEF PersistPlan
  <2>2. WellFormed(p.effects) /\ p.ok \in BOOLEAN
    BY <1>1, <1>2, Types, ChunkPlan
  <2> QED BY <1>2, <2>1, <2>2
<1>6. CASE persist.step = "commit"
  <2> DEFINE p == CommitUpload(Stats, StatsSession)
  <2>1. PersistPlan = p
    BY <1>6 DEF PersistPlan
  <2>2. WellFormed(p.effects) /\ p.ok \in BOOLEAN
    BY <1>2, Types, CommitPlan
  <2> QED BY <1>2, <2>1, <2>2
<1> QED BY <1>1, <1>4, <1>5, <1>6

LEMMA InitTypes == Init => TypeInv
<1> SUFFICES ASSUME Init PROVE TypeInv
  OBVIOUS
<1>1. UploadType(NotUploading, {})
  BY Sizes, FS_EmptySet DEF UploadType, NotUploading
<1>2. NotServing \in [session : Sessions \union {NoSession}, request : Requests]
  BY DEF NotServing, Serving, Request, Requests
<1>3. Days \in Nat
  BY ClientsAssumption, LenProperties DEF Days
<1>4. /\ flash \in [Targets -> [1..Capacity -> SUBSET Documents]]
      /\ header \in GoodHeaders \union {NoHeader}
      /\ todo = [a \in Actors |-> todo[a]] /\ \A a \in Actors : WellFormed(todo[a])
      /\ todo["loop"] = << >>
  BY NoEffects DEF Init, StorageInit, Actors
<1>5. jobs \in Seq(DeleteCalls)
  BY DEF Init
<1>6. persist = Resting /\ persist \in [step : {"idle", "start", "chunk", "commit"}, sent : Nat]
  BY DEF Init, Resting
<1> QED BY <1>1, <1>2, <1>3, <1>4, <1>5, <1>6 DEF Init, TypeInv

LEMMA TypeStep == TypeInv /\ [Next]_vars => TypeInv'
<1> SUFFICES ASSUME TypeInv, [Next]_vars PROVE TypeInv'
  OBVIOUS
<1>st. TypeInv <=>
         /\ flash \in [Targets -> [1..Capacity -> SUBSET Documents]]
         /\ header \in GoodHeaders \union {NoHeader}
         /\ todo = [a \in Actors |-> todo[a]] /\ \A a \in Actors : WellFormed(todo[a])
         /\ up = [b \in Dashboards |-> up[b]] /\ \A b \in Dashboards : UploadType(up[b], used)
         /\ used \subseteq Sessions \ {StatsSession}
         /\ serving \in [session : Sessions \union {NoSession}, request : Requests]
         /\ jobs \in Seq(DeleteCalls)
         /\ day \in 0..Days /\ kept \in 0..day
         /\ persist \in [step : {"idle", "start", "chunk", "commit"}, sent : Nat]
         /\ persist # Resting => persist.step # "idle" /\ day > 0
         /\ todo["loop"] # << >> => persist # Resting
         /\ saved \in [Targets -> Documents \union {Nothing}]
  BY DEF TypeInv
<1>a. "httpd" \in Actors /\ "loop" \in Actors /\ \A a \in Actors : a = "httpd" \/ a = "loop"
  BY DEF Actors
<1>w. \A ts : Without(ts) \in [Targets -> Documents \union {Nothing}]
  BY <1>st DEF Without
<1>i. AfterInterruption \in [Targets -> Documents \union {Nothing}]
  BY <1>st, <1>w DEF AfterInterruption
<1>n. NotServing \in [session : Sessions \union {NoSession}, request : Requests]
  BY DEF NotServing, Serving, Request, Requests
<1>u. UploadType(NotUploading, used)
  BY Sizes, FS_EmptySet DEF UploadType, NotUploading
<1>1. ASSUME NEW b \in Dashboards, NEW u \in Uploads, BeginUpload(b, u[1], u[2]) PROVE TypeInv'
  <2>1. u[1] \in Targets /\ u[2] \in Documents
    BY ClientsAssumption
  <2>2. PICK s \in Sessions \ (used \union {StatsSession}) :
          /\ up' = [up EXCEPT ![b] = [session |-> s, target |-> u[1], document |-> u[2],
                                      started |-> FALSE, received |-> {}]]
          /\ used' = used \union {s}
    BY <1>1 DEF BeginUpload
  <2>3. UNCHANGED <<storageVars, serving, jobs, statsVars, saved>>
    BY <1>1 DEF BeginUpload
  <2>4. UploadType([session |-> s, target |-> u[1], document |-> u[2],
                    started |-> FALSE, received |-> {}], used')
    BY <2>1, <2>2, FS_EmptySet DEF UploadType
  <2>5. \A c \in Dashboards : UploadType(up[c], used')
    BY <1>st, <2>2 DEF UploadType
  <2>6. up' = [c \in Dashboards |-> up'[c]] /\ \A c \in Dashboards : UploadType(up'[c], used')
    BY <1>st, <2>2, <2>4, <2>5
  <2>7. used' \subseteq Sessions \ {StatsSession}
    BY <1>st, <2>2
  <2> QED BY <1>st, <2>3, <2>6, <2>7 DEF TypeInv, storageVars, statsVars
<1>2. ASSUME NEW b \in Dashboards, Abandon(b) PROVE TypeInv'
  BY <1>st, <1>2, <1>u DEF TypeInv, Abandon, storageVars, statsVars
<1>3. ASSUME NEW b \in Dashboards, ServeUpload(b) PROVE TypeInv'
  <2> DEFINE s == up[b].session
  <2>1. PICK r \in NextRequests(up[b]) :
          LET plan == PlanFor(up[b], r)
          IN  /\ Call("httpd", plan)
              /\ IF plan.effects = << >> THEN Answer(s, r, plan.ok) /\ UNCHANGED serving
                 ELSE serving' = Serving(s, r) /\ saved' = Without(Erased(plan)) /\ UNCHANGED up
    BY <1>3 DEF ServeUpload
  <2>2. up[b] # NotUploading /\ UNCHANGED <<used, jobs, statsVars>>
    BY <1>3 DEF ServeUpload
  <2> DEFINE plan == PlanFor(up[b], r)
  <2>3. WellFormed(plan.effects) /\ plan.ok \in BOOLEAN /\ r \in Requests /\ s \in Sessions
    BY <2>2, UploadPlanTypes, RequestTypes, Uploading
  <2>4. Call("httpd", plan)
    BY <2>1
  <2>5. /\ flash' = flash /\ header' = header /\ todo' = [x \in Actors |-> todo'[x]]
        /\ \A x \in Actors : WellFormed(todo'[x])
        /\ todo'["loop"] = todo["loop"]
    BY <2>3, <2>4, <1>a, CallStep
  <2>6. CASE plan.effects = << >>
    <3>1. Answer(s, r, plan.ok) /\ serving' = serving
      BY <2>1, <2>6
    <3>2. /\ up' = [c \in Dashboards |-> up'[c]] /\ \A c \in Dashboards : UploadType(up'[c], used)
          /\ saved' \in [Targets -> Documents \union {Nothing}]
      BY <2>3, <3>1, AnswerTypes
    <3> QED BY <1>st, <2>2, <2>5, <3>1, <3>2 DEF TypeInv, statsVars
  <2>7. CASE plan.effects # << >>
    <3>1. serving' = Serving(s, r) /\ saved' = Without(Erased(plan)) /\ up' = up
      BY <2>1, <2>7
    <3>2. serving' \in [session : Sessions \union {NoSession}, request : Requests]
      BY <2>3, <3>1 DEF Serving
    <3> QED BY <1>st, <1>w, <2>2, <2>5, <3>1, <3>2 DEF TypeInv, statsVars
  <2> QED BY <2>6, <2>7
<1>4. ASSUME NEW d \in Patches, Patch(d) PROVE TypeInv'
  <2> DEFINE plan == WritePayload(Patchable, d)
  <2>1. Patchable \in Targets /\ d \in Documents
    BY ClientsAssumption
  <2>2. WellFormed(plan.effects)
    BY <2>1, WritePlan, Types
  <2>3. Call("httpd", plan) /\ saved' = Without(Erased(plan)) /\ UNCHANGED <<httpVars, statsVars>>
    BY <1>4 DEF Patch
  <2>5. /\ flash' = flash /\ header' = header /\ todo' = [x \in Actors |-> todo'[x]]
        /\ \A x \in Actors : WellFormed(todo'[x])
        /\ todo'["loop"] = todo["loop"]
    BY <2>2, <2>3, <1>a, CallStep
  <2> QED BY <1>st, <1>w, <2>3, <2>5 DEF TypeInv, statsVars, httpVars
<1>5. ASSUME NEW calls \in Deletions, Delete(calls) PROVE TypeInv'
  <2>1. calls \in Seq(DeleteCalls)
    BY ClientsAssumption
  <2> QED BY <1>st, <1>5, <2>1 DEF TypeInv, Delete, statsVars, storageVars
<1>6. ASSUME DeleteNext PROVE TypeInv'
  <2> DEFINE plan == DeletePayloads(Head(jobs))
  <2>1. jobs # << >> /\ jobs' = Tail(jobs)
    BY <1>6 DEF DeleteNext
  <2>2. Head(jobs) \in DeleteCalls /\ Tail(jobs) \in Seq(DeleteCalls)
    BY <1>st, <2>1, HeadTailProperties
  <2>3. WellFormed(plan.effects)
    BY <2>2, DeletePlan, Types
  <2>4. Call("httpd", plan) /\ saved' = Without(Erased(plan)) /\ UNCHANGED <<up, used, serving, statsVars>>
    BY <1>6 DEF DeleteNext
  <2>5. /\ flash' = flash /\ header' = header /\ todo' = [x \in Actors |-> todo'[x]]
        /\ \A x \in Actors : WellFormed(todo'[x])
        /\ todo'["loop"] = todo["loop"]
    BY <2>3, <2>4, <1>a, CallStep
  <2> QED BY <1>st, <1>w, <2>1, <2>2, <2>4, <2>5 DEF TypeInv, statsVars
<1>7. ASSUME HttpAdvance PROVE TypeInv'
  <2>1. Advance("httpd") /\ UNCHANGED <<used, jobs, statsVars>>
    BY <1>7 DEF HttpAdvance
  <2>2. /\ todo' = [x \in Actors |-> todo'[x]] /\ todo'["loop"] = todo["loop"]
        /\ \A x \in Actors : WellFormed(todo'[x])
        /\ flash' \in [Targets -> [1..Capacity -> SUBSET Documents]]
        /\ header' \in GoodHeaders \union {NoHeader}
    BY <2>1, <1>a, AdvanceTodo, AdvanceStep
  <2>3. CASE Len(todo["httpd"]) = 1
    <3>1. Answer(serving.session, serving.request, TRUE) /\ serving' = NotServing
      BY <1>7, <2>3 DEF HttpAdvance
    <3>2. /\ up' = [c \in Dashboards |-> up'[c]] /\ \A c \in Dashboards : UploadType(up'[c], used)
          /\ saved' \in [Targets -> Documents \union {Nothing}]
      BY <1>st, <3>1, AnswerTypes
    <3> QED BY <1>st, <1>n, <2>1, <2>2, <3>1, <3>2 DEF TypeInv, statsVars
  <2>4. CASE Len(todo["httpd"]) # 1
    <3>1. UNCHANGED <<up, serving, saved>>
      BY <1>7, <2>4 DEF HttpAdvance
    <3> QED BY <1>st, <2>1, <2>2, <3>1 DEF TypeInv, statsVars
  <2> QED BY <2>3, <2>4
<1>8. ASSUME HttpFails PROVE TypeInv'
  <2>1. /\ GiveUp("httpd") /\ serving' = NotServing /\ jobs' = << >> /\ saved' = AfterInterruption
        /\ UNCHANGED <<used, statsVars>>
        /\ up' = [b \in Dashboards |-> IF up[b].session = serving.session THEN NotUploading ELSE up[b]]
    BY <1>8 DEF HttpFails
  <2>2. /\ flash' = flash /\ header' = header /\ todo' = [x \in Actors |-> todo'[x]]
        /\ \A x \in Actors : WellFormed(todo'[x])
        /\ todo'["loop"] = todo["loop"]
    BY <2>1, <1>a, GiveUpStep
  <2>3. up' = [b \in Dashboards |-> up'[b]] /\ \A b \in Dashboards : UploadType(up'[b], used)
    BY <1>st, <1>u, <2>1
  <2>4. << >> \in Seq(DeleteCalls)
    BY EmptySeq
  <2> QED BY <1>st, <1>i, <1>n, <2>1, <2>2, <2>3, <2>4 DEF TypeInv, statsVars
<1>9. ASSUME EndDay PROVE TypeInv'
  <2>1. persist' \in [step : {"idle", "start", "chunk", "commit"}, sent : Nat] /\ persist'.step # "idle"
    BY <1>9 DEF EndDay, Resting
  <2>2. day' \in 0..Days /\ day' > 0 /\ kept \in 0..day'
    BY <1>9, <1>st, ClientsAssumption, LenProperties DEF EndDay, Days
  <2> QED BY <1>9, <1>st, <2>1, <2>2 DEF TypeInv, EndDay, storageVars, httpVars
<1>10. ASSUME PersistCall PROVE TypeInv'
  <2>1. /\ persist # Resting /\ Call("loop", PersistPlan) /\ UNCHANGED <<httpVars, day>>
        /\ IF PersistPlan.effects = << >> THEN PersistAnswer(PersistPlan.ok)
           ELSE UNCHANGED <<persist, kept>>
        /\ saved' = Without(Erased(PersistPlan))
    BY <1>10 DEF PersistCall
  <2>2. WellFormed(PersistPlan.effects) /\ PersistPlan.ok \in BOOLEAN
    BY <2>1, PersistPlanTypes
  <2>3. /\ flash' = flash /\ header' = header /\ todo' = [x \in Actors |-> todo'[x]]
        /\ \A x \in Actors : WellFormed(todo'[x])
        /\ todo'["loop"] = PersistPlan.effects
    BY <2>1, <2>2, <1>a, CallStep
  <2>4. CASE PersistPlan.effects = << >>
    <3>1. /\ persist' \in [step : {"idle", "start", "chunk", "commit"}, sent : Nat]
          /\ persist' # Resting => persist'.step # "idle"
          /\ kept' \in 0..day
      BY <2>1, <2>2, <2>4, PersistTypes
    <3> QED BY <1>st, <1>w, <2>1, <2>3, <2>4, <3>1 DEF TypeInv, httpVars
  <2>5. CASE PersistPlan.effects # << >>
    <3>1. persist' = persist /\ kept' = kept
      BY <2>1, <2>5
    <3> QED BY <1>st, <1>w, <2>1, <2>3, <2>5, <3>1 DEF TypeInv, httpVars
  <2> QED BY <2>4, <2>5
<1>11. ASSUME PersistAdvance PROVE TypeInv'
  <2>1. Advance("loop") /\ UNCHANGED <<httpVars, day, saved>>
    BY <1>11 DEF PersistAdvance
  <2>2. /\ todo' = [x \in Actors |-> todo'[x]] /\ todo'["loop"] = Tail(todo["loop"])
        /\ \A x \in Actors : WellFormed(todo'[x])
        /\ flash' \in [Targets -> [1..Capacity -> SUBSET Documents]]
        /\ header' \in GoodHeaders \union {NoHeader} /\ todo["loop"] # << >> /\ WellFormed(todo["loop"])
    BY <2>1, <1>a, AdvanceTodo, AdvanceStep
  <2>3. CASE Len(todo["loop"]) = 1
    <3>1. PersistAnswer(TRUE)
      BY <1>11, <2>3 DEF PersistAdvance
    <3>2. /\ persist' \in [step : {"idle", "start", "chunk", "commit"}, sent : Nat]
          /\ persist' # Resting => persist'.step # "idle"
          /\ kept' \in 0..day
      BY <1>st, <2>2, <3>1, PersistTypes
    <3>3. todo'["loop"] = << >>
      BY <2>2, <2>3, NextEffect
    <3> QED BY <1>st, <2>1, <2>2, <3>2, <3>3 DEF TypeInv, httpVars
  <2>4. CASE Len(todo["loop"]) # 1
    <3>1. persist' = persist /\ kept' = kept
      BY <1>11, <2>4 DEF PersistAdvance
    <3> QED BY <1>st, <2>1, <2>2, <3>1 DEF TypeInv, httpVars
  <2> QED BY <2>3, <2>4
<1>12. ASSUME PersistFails PROVE TypeInv'
  <2>1. /\ GiveUp("loop") /\ PersistAnswer(FALSE) /\ saved' = AfterInterruption
        /\ UNCHANGED <<httpVars, day>>
    BY <1>12 DEF PersistFails
  <2>2. /\ flash' = flash /\ header' = header /\ todo' = [x \in Actors |-> todo'[x]]
        /\ \A x \in Actors : WellFormed(todo'[x])
        /\ todo'["loop"] = << >> /\ todo["loop"] # << >>
    BY <2>1, <1>a, GiveUpStep
  <2>3. /\ persist' \in [step : {"idle", "start", "chunk", "commit"}, sent : Nat]
        /\ persist' # Resting => persist'.step # "idle"
        /\ kept' \in 0..day
    BY <1>st, <2>1, <2>2, PersistTypes
  <2> QED BY <1>st, <1>i, <2>1, <2>2, <2>3 DEF TypeInv, httpVars
<1>13. ASSUME Reboot PROVE TypeInv'
  <2>1. /\ PowerLoss /\ serving' = NotServing /\ jobs' = << >> /\ persist' = Resting
        /\ saved' = AfterInterruption /\ UNCHANGED <<used, day, kept>>
        /\ up' = [b \in Dashboards |->
                 IF ~Idle("httpd") /\ up[b].session = serving.session
                 THEN NotUploading ELSE up[b]]
    BY <1>13 DEF Reboot
  <2>2. /\ flash' = flash /\ header' = header /\ todo' = [x \in Actors |-> todo'[x]]
        /\ todo'["loop"] = << >> /\ \A x \in Actors : WellFormed(todo'[x])
    BY <2>1, <1>a, NoEffects DEF PowerLoss
  <2>3. up' = [b \in Dashboards |-> up'[b]] /\ \A b \in Dashboards : UploadType(up'[b], used)
    BY <1>st, <1>u, <2>1
  <2>4. << >> \in Seq(DeleteCalls)
    BY EmptySeq
  <2>5. Resting \in [step : {"idle", "start", "chunk", "commit"}, sent : Nat]
    BY DEF Resting
  <2>6. /\ serving' = NotServing /\ jobs' = << >> /\ persist' = Resting
        /\ saved' = AfterInterruption /\ used' = used /\ day' = day /\ kept' = kept
    BY <2>1
  <2> QED BY <1>st, <1>i, <1>n, <2>2, <2>3, <2>4, <2>5, <2>6 DEF TypeInv
<1>14. CASE UNCHANGED vars
  BY <1>st, <1>14 DEF TypeInv, vars, storageVars, httpVars, statsVars
<1> QED BY <1>1, <1>2, <1>3, <1>4, <1>5, <1>6, <1>7, <1>8, <1>9, <1>10, <1>11, <1>12, <1>13, <1>14
        DEF Next

\* Whatever requests, failures and power losses there are, the partition holds
\* written documents, a readable header has counted no more than the size of
\* its upload, and uploads run under drawn session numbers.
THEOREM StorageTypes == Spec => []TypeOK
<1>1. TypeInv => TypeOK
  <2> SUFFICES ASSUME TypeInv PROVE TypeOK
    OBVIOUS
  <2>1. header # NoHeader => /\ header.upload.target \in Targets \union {NoTarget}
                             /\ header.upload.written \in 0..header.upload.size
    BY Types, GoodParts, Sizes
  <2>2. \A b \in Dashboards : up[b].session \in used \union {NoSession}
    BY Uploading
  <2> QED BY <2>1, <2>2 DEF TypeInv, TypeOK
<1> QED BY <1>1, InitTypes, TypeStep, PTL DEF Spec

-----------------------------------------------------------------------------
(* Uploads.                                                                  *)

LEMMA Targeted ==
  ASSUME NEW t \in Own
  PROVE  t \in Targets /\ (Days # 0 => t # Stats)
BY DEF Own

LEMMA DefaultIsTruthful == Truthful(DefaultHeader) /\ DefaultHeader.upload = NoUpload
BY Targeted DEF Truthful, DefaultHeader

LEMMA NoSessionIsOpen ==
  /\ NoUpload.session = NoSession /\ NotServing.session = NoSession
  /\ NoUpload.target = NoTarget
BY DEF NoUpload, NotServing, Serving

\* A dashboard that uploads nothing disturbs nothing; nor does a new upload.
LEMMA NothingUploaded ==
  ASSUME NEW h, NEW f, NEW q, NEW sv
  PROVE  Coherent(h, f, q, sv, NotUploading)
BY DEF Coherent, OpenIsFilled, PendingIsFilled, ServedInOrder, Carries

LEMMA NewUpload ==
  ASSUME NEW h, NEW f, NEW q, NEW sv, NEW u, u.received = {}, ~u.started,
         u.document \in Documents,
         h # NoHeader => h.upload.session # u.session,
         q # << >> => Final(q).upload.session # u.session,
         sv.session # u.session
  PROVE  Coherent(h, f, q, sv, u)
<1>1. 0 \in 0..Cells[u.document] /\ u.received = 1..0
  BY Sizes
<1>2. ServedInOrder(q, sv, u)
  BY <1>1 DEF ServedInOrder
<1>3. OpenIsFilled(h, f, q, sv.session, u) /\ PendingIsFilled(f, q, sv, u)
  BY DEF OpenIsFilled, PendingIsFilled, Carries
<1> QED BY <1>2, <1>3 DEF Coherent

\* A call begins for the request of another upload, or for none.
LEMMA OtherCall ==
  ASSUME NEW h, NEW f, NEW sv, NEW u, Coherent(h, f, << >>, NotServing, u),
         NEW q, q # << >>, sv.session # u.session, u.session # NoSession \/ u = NotUploading,
         Carries(h, u) /\ Faults => ~Touches(q, u.target),
         Carries(Final(q), u) => Carries(h, u) /\ Agrees(Final(q), u) /\ ~Touches(q, u.target)
  PROVE  Coherent(h, f, q, sv, u)
<1>1. CASE u = NotUploading
  BY <1>1, NothingUploaded
<1>2. CASE u # NotUploading
  <2>1. Carries(h, u) => Agrees(h, u) /\ Filled(f, u, u.received)
    BY <1>2, NoSessionIsOpen DEF Coherent, OpenIsFilled
  <2>2. OpenIsFilled(h, f, q, sv.session, u)
    BY <2>1 DEF OpenIsFilled
  <2>3. PendingIsFilled(f, q, sv, u)
    BY <2>1 DEF PendingIsFilled
  <2>4. ServedInOrder(q, sv, u)
    BY DEF ServedInOrder, Coherent
  <2> QED BY <2>2, <2>3, <2>4 DEF Coherent
<1> QED BY <1>1, <1>2

\* The call of a dashboard's own request begins.
LEMMA OwnCall ==
  ASSUME NEW h, NEW f, NEW u, Coherent(h, f, << >>, NotServing, u), u # NotUploading,
         u.session # NoSession, u.document \in Documents,
         NEW q, q # << >>, NEW r, NEW sv, sv.session = u.session, sv.request = r,
         r.kind \in {"start", "chunk", "commit"}, r.kind = "start" <=> ~u.started,
         r.kind = "chunk" => /\ u.received # 1..Cells[u.document]
                             /\ r.cell = Cardinality(u.received) + 1,
         Carries(Final(q), u) =>
            \/ /\ r.kind = "start" /\ Agrees(Final(q), u)
               /\ Len(q) = 3 /\ Head(q) = Erase(u.target, Cells[u.document])
            \/ /\ r.kind = "chunk" /\ Carries(h, u) /\ Final(q).upload.size = h.upload.size
               /\ Final(q).upload.target = u.target
               /\ Len(q) = 3 /\ Head(q) = Program(u.target, {r.cell}, u.document)
  PROVE  Coherent(h, f, q, sv, u)
<1>1. OpenIsFilled(h, f, q, sv.session, u)
  BY DEF OpenIsFilled, Coherent
<1>2. PendingIsFilled(f, q, sv, u)
  <2>1. SUFFICES ASSUME Carries(Final(q), u) PROVE PendingIsFilled(f, q, sv, u)
    BY DEF PendingIsFilled
  <2>2. CASE r.kind = "start"
    <3>1. /\ Agrees(Final(q), u) /\ Len(q) = 3 /\ Head(q) = Erase(u.target, Cells[u.document])
          /\ r.kind # "chunk"
      BY <2>1, <2>2
    <3>2. ~(Len(q) \in {1, 2})
      BY <3>1
    <3> QED BY <3>1, <3>2 DEF PendingIsFilled
  <2>3. CASE r.kind = "chunk"
    <3>1. Carries(h, u) /\ Final(q).upload.size = h.upload.size /\ Final(q).upload.target = u.target
          /\ Len(q) = 3 /\ Head(q) = Program(u.target, {r.cell}, u.document)
      BY <2>1, <2>3
    <3>2. Agrees(h, u) /\ Filled(f, u, u.received)
      BY <3>1, NoSessionIsOpen DEF Coherent, OpenIsFilled
    <3>3. Agrees(Final(q), u)
      BY <3>1, <3>2 DEF Agrees
    <3> QED BY <3>1, <3>2, <3>3, <2>3 DEF PendingIsFilled
  <2> QED BY <2>1, <2>2, <2>3
<1>3. PICK k \in 0..Cells[u.document] : u.received = 1..k
  BY DEF Coherent, ServedInOrder
<1>4. Cells[u.document] \in Nat
  BY Sizes
<1>5. Cardinality(u.received) = k
  BY <1>3, <1>4, FS_Interval
<1>6. r.kind = "chunk" => k \in 0..(Cells[u.document] - 1) /\ r.cell = k + 1
  BY <1>3, <1>4, <1>5
<1>7. ~u.started => u.received = {}
  BY DEF Coherent, ServedInOrder
<1>8. ServedInOrder(q, sv, u)
  BY <1>3, <1>6, <1>7 DEF ServedInOrder
<1> QED BY <1>1, <1>2, <1>8 DEF Coherent

LEMMA TouchesNothing ==
  ASSUME NEW q, NEW t, Len(q) \in {1, 2}
  PROVE  ~Touches(q, t)
BY DEF Touches

\* A call ends with the header it writes, and its answer arrives.
LEMMA CallEnds ==
  ASSUME NEW h, NEW f, NEW q, NEW sv, NEW u, Coherent(h, f, q, sv, u),
         q # << >>, Len(q) = 1, u = NotUploading \/ u.session # NoSession,
         u.document \in Documents \/ u = NotUploading,
         u = [session |-> u.session, target |-> u.target, document |-> u.document,
              started |-> u.started, received |-> u.received],
         NEW v, v = IF u.session = sv.session /\ sv.session # NoSession
                    THEN AfterAnswer(u, sv.request, TRUE) ELSE u
  PROVE  Coherent(Final(q), f, << >>, NotServing, v)
<1>1. CASE v = NotUploading
  BY <1>1, NothingUploaded
<1>2. CASE v # NotUploading
  <2>0. u # NotUploading
    <3>1. NotUploading.session = NoSession
      BY DEF NotUploading
    <3> QED BY <1>2, <3>1
  <2>1. PICK k \in 0..Cells[u.document] : u.received = 1..k
    BY <2>0 DEF Coherent, ServedInOrder
  <2>2. ~u.started => u.received = {}
    BY <2>0 DEF Coherent, ServedInOrder
  <2>3. Carries(Final(q), u) =>
          /\ Agrees(Final(q), u)
          /\ sv.session # u.session => Filled(f, u, u.received)
          /\ sv.session = u.session /\ sv.request.kind = "start" => Filled(f, u, {})
          /\ sv.session = u.session /\ sv.request.kind = "chunk" =>
                Filled(f, u, u.received \union {sv.request.cell})
    BY DEF Coherent, PendingIsFilled
  <2>4. CASE sv.session # u.session
    <3>1. v = u
      BY <2>4
    <3>2. OpenIsFilled(Final(q), f, << >>, NotServing.session, u)
      BY <2>3, <2>4, NoEffects DEF OpenIsFilled
    <3>3. PendingIsFilled(f, << >>, NotServing, u)
      BY DEF PendingIsFilled
    <3>4. ServedInOrder(<< >>, NotServing, u)
      BY <2>0, <2>1, <2>2, NoSessionIsOpen DEF ServedInOrder
    <3> QED BY <3>1, <3>2, <3>3, <3>4 DEF Coherent
  <2>5. CASE sv.session = u.session
    <3>1. sv.session # NoSession /\ v = AfterAnswer(u, sv.request, TRUE)
      BY <2>0, <2>5
    <3>2. /\ sv.request.kind \in {"start", "chunk", "commit"}
          /\ sv.request.kind = "start" <=> ~u.started
          /\ sv.request.kind = "chunk" => \E n \in 0..(Cells[u.document] - 1) :
                u.received = 1..n /\ sv.request.cell = n + 1
      BY <2>0, <2>5 DEF Coherent, ServedInOrder
    <3>3. sv.request.kind # "commit"
      BY <1>2, <3>1 DEF AfterAnswer
    <3>4. PICK cells : /\ v.session = u.session /\ v.target = u.target
                       /\ v.document = u.document /\ v.started = TRUE /\ v.received = cells
                       /\ Carries(Final(q), u) => Filled(f, u, cells)
                       /\ \E n \in 0..Cells[u.document] : cells = 1..n
      <4>1. CASE sv.request.kind = "start"
        <5>1. v = [u EXCEPT !.started = TRUE] /\ u.received = {}
          BY <3>1, <3>2, <4>1, <2>2 DEF AfterAnswer
        <5> QED BY <5>1, <4>1, <2>1, <2>3, <2>5
      <4>2. CASE sv.request.kind = "chunk"
        <5>1. v = [u EXCEPT !.received = @ \union {sv.request.cell}] /\ u.started = TRUE
          BY <3>1, <3>2, <4>2 DEF AfterAnswer
        <5>2. PICK n \in 0..(Cells[u.document] - 1) : u.received = 1..n /\ sv.request.cell = n + 1
          BY <3>2, <4>2
        <5>3. Cells[u.document] \in Nat
          BY <2>0, Sizes
        <5>4. u.received \union {sv.request.cell} = 1..(n + 1) /\ n + 1 \in 0..Cells[u.document]
          BY <5>2, <5>3
        <5> QED BY <5>1, <5>4, <4>2, <2>3, <2>5
      <4> QED BY <3>2, <3>3, <4>1, <4>2
    <3>5. Carries(Final(q), v) => Carries(Final(q), u)
      BY <2>0, <3>4 DEF Carries
    <3>6. /\ Agrees(Final(q), u) => Agrees(Final(q), v)
          /\ Filled(f, u, cells) => Filled(f, v, v.received)
      BY <3>4 DEF Agrees, Filled
    <3>7. OpenIsFilled(Final(q), f, << >>, NotServing.session, v)
      BY <3>4, <3>5, <3>6, <2>3, NoEffects DEF OpenIsFilled
    <3>8. PendingIsFilled(f, << >>, NotServing, v)
      BY DEF PendingIsFilled
    <3>9. ServedInOrder(<< >>, NotServing, v)
      BY <3>1, <3>4, NoSessionIsOpen, <2>5 DEF ServedInOrder
    <3> QED BY <3>7, <3>8, <3>9 DEF Coherent
  <2> QED BY <2>4, <2>5
<1> QED BY <1>1, <1>2

\* The old header is erased.
LEMMA CallErases ==
  ASSUME NEW h, NEW f, NEW q, NEW sv, NEW u, Coherent(h, f, q, sv, u),
         WellFormed(q), q # << >>, Len(q) = 2
  PROVE  Coherent(NoHeader, f, Tail(q), sv, u)
<1>1. Tail(q) # << >> /\ Len(Tail(q)) = 1 /\ Final(Tail(q)) = Final(q)
  BY NextEffect
<1>2. ~Touches(Tail(q), u.target)
  <2> DEFINE p == Tail(q)
  <2>1. Len(p) \in {1, 2}
    BY <1>1
  <2> HIDE DEF p
  <2>2. ~Touches(p, u.target)
    BY <2>1, TouchesNothing
  <2> QED BY <2>2 DEF p
<1>3. OpenIsFilled(NoHeader, f, Tail(q), sv.session, u)
  BY DEF OpenIsFilled, Carries
<1>4. PendingIsFilled(f, Tail(q), sv, u)
  BY <1>1, <1>2 DEF Coherent, PendingIsFilled
<1>5. ServedInOrder(Tail(q), sv, u)
  BY <1>1 DEF Coherent, ServedInOrder
<1> QED BY <1>3, <1>4, <1>5 DEF Coherent

\* An effect on a payload is carried out.
Flashed(f, g, e) ==
    /\ \A t \in Targets : t # e.target => g[t] = f[t]
    /\ \A i \in 1..Capacity : g[e.target][i] =
          IF i \notin e.cells THEN f[e.target][i]
          ELSE IF e.do = "erase" THEN {} ELSE f[e.target][i] \union {e.document}

LEMMA CallFlashes ==
  ASSUME NEW h, NEW f, NEW q, NEW sv, NEW u, Coherent(h, f, q, sv, u),
         WellFormed(q), q # << >>, Len(q) \in {3, 4},
         u # NotUploading => u.target \in Targets /\ u.document \in Documents,
         NEW e, e = Head(q), NEW g,
         Flashed(f, g, e)
  PROVE  Coherent(h, g, Tail(q), sv, u)
<1>0. CASE u = NotUploading
  BY <1>0, NothingUploaded
<1>1. CASE u # NotUploading
  <2> DEFINE n == Cells[u.document]
  <2>1. n \in Nat /\ u.target \in Targets /\ \A i \in 1..n : i \in 1..Capacity
    BY <1>1, Sizes
  <2>2. /\ Tail(q) # << >> /\ Final(Tail(q)) = Final(q)
        /\ Len(q) = 3 => Len(Tail(q)) = 2
        /\ Len(q) = 4 => Len(Tail(q)) = 3
        /\ e.target = u.target \/ Touches(Tail(q), u.target) => Touches(q, u.target)
    <3>1. e.target = u.target \/ Touches(Tail(q), u.target) => Touches(q, u.target)
      BY NextEffect
    <3>2. /\ Tail(q) # << >> /\ Final(Tail(q)) = Final(q)
          /\ Len(q) = 3 => Len(Tail(q)) = 2
          /\ Len(q) = 4 => Len(Tail(q)) = 3
      BY NextEffect
    <3> QED BY <3>1, <3>2
  <2>3. ASSUME NEW cells, Filled(f, u, cells), e.target # u.target PROVE Filled(g, u, cells)
    BY <2>1, <2>3 DEF Filled, Flashed
  <2>4. OpenIsFilled(h, g, Tail(q), sv.session, u)
    BY <2>2, <2>3 DEF Coherent, OpenIsFilled
  <2>5. PendingIsFilled(g, Tail(q), sv, u)
    <3>1. SUFFICES ASSUME Carries(Final(q), u) PROVE PendingIsFilled(g, Tail(q), sv, u)
      BY <2>2 DEF PendingIsFilled
    <3>2. Agrees(Final(q), u)
      BY <3>1 DEF Coherent, PendingIsFilled
    <3>3. CASE sv.session # u.session
      <4>1. Filled(f, u, u.received) /\ ~Touches(q, u.target)
        BY <3>1, <3>3 DEF Coherent, PendingIsFilled
      <4> QED BY <4>1, <3>2, <3>3, <2>2, <2>3 DEF PendingIsFilled
    <3>4. CASE sv.session = u.session /\ sv.request.kind = "start"
      <4>1. Len(q) = 3 /\ e = Erase(u.target, n)
        <5>1. ~(Len(q) \in {1, 2})
          OBVIOUS
        <5> QED BY <5>1, <3>1, <3>4 DEF Coherent, PendingIsFilled
      <4>2. e.target = u.target /\ e.do = "erase" /\ e.cells = 1..RoundUpSector(n)
        BY <4>1, <2>1, EraseIsAnEffect
      <4>3. \A i \in 1..n : i \in e.cells
        BY <4>2, <2>1, RoundedUp
      <4>4. Filled(g, u, {})
        BY <4>2, <4>3, <2>1 DEF Filled, Flashed
      <4>5. Len(Tail(q)) \in {1, 2} /\ sv.request.kind # "chunk"
        BY <4>1, <2>2, <3>4
      <4> QED BY <4>4, <4>5, <3>2, <3>4, <2>2 DEF PendingIsFilled
    <3>5. CASE sv.session = u.session /\ sv.request.kind = "chunk"
      <4>1. /\ Len(q) = 3 /\ e = Program(u.target, {sv.request.cell}, u.document)
            /\ Filled(f, u, u.received)
        BY <3>1, <3>5 DEF Coherent, PendingIsFilled
      <4>2. /\ e.target = u.target /\ e.do = "program" /\ e.cells = {sv.request.cell}
            /\ e.document = u.document
        BY <4>1 DEF Program
      <4>3. ASSUME NEW i \in 1..n
            PROVE  g[u.target][i] =
                      IF i \in u.received \union {sv.request.cell} THEN {u.document} ELSE {}
        <5>1. f[u.target][i] = IF i \in u.received THEN {u.document} ELSE {}
          BY <4>1 DEF Filled
        <5>2. g[u.target][i] = IF i = sv.request.cell THEN f[u.target][i] \union {u.document}
                               ELSE f[u.target][i]
          BY <4>2, <2>1 DEF Flashed
        <5> QED BY <5>1, <5>2
      <4>4. Filled(g, u, u.received \union {sv.request.cell})
        BY <4>3 DEF Filled
      <4>5. Len(Tail(q)) \in {1, 2} /\ sv.request.kind # "start"
        BY <4>1, <2>2, <3>5
      <4> QED BY <4>4, <4>5, <3>2, <3>5, <2>2 DEF PendingIsFilled
    <3>6. CASE sv.session = u.session /\ sv.request.kind \notin {"start", "chunk"}
      BY <3>2, <3>6, <2>2 DEF PendingIsFilled
    <3> QED BY <3>3, <3>4, <3>5, <3>6
  <2>6. ServedInOrder(Tail(q), sv, u)
    BY <2>2 DEF Coherent, ServedInOrder
  <2> QED BY <2>4, <2>5, <2>6 DEF Coherent
<1> QED BY <1>0, <1>1

\* A call ends in the middle: the request, if it was one, is given up.
LEMMA CallBreaks ==
  ASSUME NEW h, NEW f, NEW q, NEW sv, NEW u, Coherent(h, f, q, sv, u), Faults,
         u = NotUploading \/ u.session # sv.session, u = NotUploading \/ u.session # NoSession
  PROVE  Coherent(h, f, << >>, NotServing, u)
<1>1. CASE u = NotUploading
  BY <1>1, NothingUploaded
<1>2. CASE u # NotUploading
  <2>1. OpenIsFilled(h, f, << >>, NotServing.session, u)
    BY <1>2, NoEffects DEF Coherent, OpenIsFilled
  <2>2. PendingIsFilled(f, << >>, NotServing, u)
    BY DEF PendingIsFilled
  <2>3. ServedInOrder(<< >>, NotServing, u)
    BY <1>2, NoSessionIsOpen DEF Coherent, ServedInOrder
  <2> QED BY <2>1, <2>2, <2>3 DEF Coherent
<1> QED BY <1>1, <1>2

\* The main loop writes elsewhere, under a session of its own.
LEMMA LoopWrites ==
  ASSUME NEW h, NEW f, NEW q, NEW sv, NEW u, Coherent(h, f, q, sv, u),
         u = NotUploading \/ u.target \in Targets, NEW g, NEW i,
         \A t \in Own : g[t] = f[t],
         i # NoHeader /\ i # h => i.upload.session # u.session
  PROVE  Coherent(i, g, q, sv, u)
<1>1. CASE u = NotUploading
  BY <1>1, NothingUploaded
<1>2. CASE u # NotUploading
  <2>1. ASSUME NEW cells, u.target \in Own PROVE Filled(f, u, cells) => Filled(g, u, cells)
    BY <2>1 DEF Filled
  <2>2. u.target \notin Own => ~Carries(i, u) /\ ~Carries(Final(q), u)
    BY DEF Carries
  <2>3. Carries(i, u) => i = h
    BY DEF Carries
  <2>4. OpenIsFilled(i, g, q, sv.session, u)
    BY <2>1, <2>2, <2>3 DEF Coherent, OpenIsFilled
  <2>5. PendingIsFilled(g, q, sv, u)
    BY <2>1, <2>2 DEF Coherent, PendingIsFilled
  <2>6. ServedInOrder(q, sv, u)
    BY DEF Coherent
  <2> QED BY <2>4, <2>5, <2>6 DEF Coherent
<1> QED BY <1>1, <1>2

\* The invariant in the form in which the steps use it, and in which they
\* establish it again.
LEMMA UploadParts ==
  ASSUME UploadInv
  PROVE  /\ TypeInv
         /\ header # NoHeader => Truthful(header)
         /\ todo["httpd"] # << >> => Truthful(Final(todo["httpd"]))
         /\ todo["loop"] # << >> => Truthful(Final(todo["loop"]))
         /\ \A b \in Dashboards : Coherent(header, flash, todo["httpd"], serving, up[b])
         /\ \A b, c \in Dashboards :
               up[b] # NotUploading /\ up[b].session = up[c].session => b = c
         /\ header # NoHeader => header.upload.session \in used \union {StatsSession, NoSession}
         /\ todo["httpd"] # << >> =>
               Final(todo["httpd"]).upload.session \in used \union {StatsSession, NoSession}
         /\ todo["loop"] # << >> =>
               Final(todo["loop"]).upload.session \in {StatsSession, NoSession}
         /\ serving.session \in used \union {NoSession}
         /\ todo["httpd"] = << >> => serving = NotServing
         /\ Days = 0 => todo["loop"] = << >>
         /\ \A t \in Targets : Touches(todo["loop"], t) => t = Stats
         /\ Faults => \A i \in DOMAIN jobs : \A j \in DOMAIN jobs[i] : jobs[i][j] \notin Own
         /\ Faults /\ serving.session = NoSession => \A t \in Own : ~Touches(todo["httpd"], t)
BY DEF UploadInv, Pending, SessionsAreFresh, LoopStaysApart, OthersSpareUploads, Actors, Idle, Touched

LEMMA UploadPartsNext ==
  ASSUME TypeInv',
         header' # NoHeader => Truthful(header'),
         todo'["httpd"] # << >> => Truthful(Final(todo'["httpd"])),
         todo'["loop"] # << >> => Truthful(Final(todo'["loop"])),
         \A b \in Dashboards : Coherent(header', flash', todo'["httpd"], serving', up'[b]),
         \A b, c \in Dashboards :
               up'[b] # NotUploading /\ up'[b].session = up'[c].session => b = c,
         header' # NoHeader => header'.upload.session \in used' \union {StatsSession, NoSession},
         todo'["httpd"] # << >> =>
               Final(todo'["httpd"]).upload.session \in used' \union {StatsSession, NoSession},
         todo'["loop"] # << >> =>
               Final(todo'["loop"]).upload.session \in {StatsSession, NoSession},
         serving'.session \in used' \union {NoSession},
         todo'["httpd"] = << >> => serving' = NotServing,
         Days = 0 => todo'["loop"] = << >>,
         \A t \in Targets : Touches(todo'["loop"], t) => t = Stats,
         Faults => \A i \in DOMAIN jobs' : \A j \in DOMAIN jobs'[i] : jobs'[i][j] \notin Own,
         Faults /\ serving'.session = NoSession => \A t \in Own : ~Touches(todo'["httpd"], t)
  PROVE  UploadInv'
<1>a. \A a \in Actors : a = "httpd" \/ a = "loop"
  BY DEF Actors
<1>1. \A a \in Actors : todo'[a] # << >> => Truthful(Final(todo'[a]))
  BY <1>a
<1>2. \A a \in Actors : todo'[a] # << >> =>
         Final(todo'[a]).upload.session \in used' \union {StatsSession, NoSession}
  BY <1>a
<1>3. SessionsAreFresh'
  BY <1>2 DEF SessionsAreFresh, Pending, Idle
<1>4. LoopStaysApart'
  BY DEF LoopStaysApart, Pending
<1>5. OthersSpareUploads'
  BY DEF OthersSpareUploads, Touched
<1> QED BY <1>1, <1>3, <1>4, <1>5 DEF UploadInv, Pending

LEMMA CurrentIsTruthful ==
  ASSUME UploadInv
  PROVE  /\ Truthful(HeaderOrDefault)
         /\ HeaderOrDefault.upload.session \in used \union {StatsSession, NoSession}
         /\ \A u : HeaderOrDefault.upload.session = u.session /\ u.session # NoSession =>
               header # NoHeader
         /\ header # NoHeader => HeaderOrDefault = header
BY UploadParts, DefaultIsTruthful, NoSessionIsOpen DEF HeaderOrDefault

LEMMA TruthfulParts ==
  ASSUME NEW h, Truthful(h), NEW f
  PROVE  /\ f.meta = h.meta => Truthful(f)
         /\ \A S : f.meta = [t \in Targets |-> IF t \in S THEN NoPayload ELSE h.meta[t]] => Truthful(f)
         /\ \A t \in Targets, d \in Documents :
               h.meta = [x \in Targets |-> h.meta[x]] /\ f.meta = [h.meta EXCEPT ![t] = Stored(d)] =>
                  Truthful(f)
         /\ \A t \in Targets \ Own : \A m :
               h.meta = [x \in Targets |-> h.meta[x]] /\ f.meta = [h.meta EXCEPT ![t] = m] =>
                  Truthful(f)
<1>1. \A t \in Own : t \in Targets
  BY Targeted
<1>2. f.meta = h.meta => Truthful(f)
  BY DEF Truthful
<1>3. ASSUME NEW S, f.meta = [t \in Targets |-> IF t \in S THEN NoPayload ELSE h.meta[t]]
      PROVE  Truthful(f)
  BY <1>1, <1>3 DEF Truthful
<1>4. ASSUME NEW t \in Targets, NEW d \in Documents, h.meta = [x \in Targets |-> h.meta[x]],
             f.meta = [h.meta EXCEPT ![t] = Stored(d)]
      PROVE  Truthful(f)
  BY <1>1, <1>4 DEF Truthful
<1>5. ASSUME NEW t \in Targets \ Own, NEW m, h.meta = [x \in Targets |-> h.meta[x]],
             f.meta = [h.meta EXCEPT ![t] = m]
      PROVE  Truthful(f)
  BY <1>1, <1>5 DEF Truthful
<1> QED BY <1>2, <1>3, <1>4, <1>5

\* What the header will say after a request of a dashboard is still the truth.
LEMMA RequestIsTruthful ==
  ASSUME UploadInv, Careful, NEW b \in Dashboards, up[b] # NotUploading, Idle("httpd"),
         NEW r \in NextRequests(up[b]), PlanFor(up[b], r).effects # << >>
  PROVE  LET f == Final(PlanFor(up[b], r).effects)
         IN  /\ Truthful(f)
             /\ f.upload.session \in {up[b].session, NoSession}
<1> DEFINE u == up[b]
           t == up[b].target
           d == up[b].document
           s == up[b].session
           p == PlanFor(up[b], r)
           f == Final(p.effects)
<1>1. /\ t \in Targets /\ d \in Documents /\ s \in AllSessions /\ s # NoSession
      /\ Cells[d] \in 0..Capacity /\ Cells[d] \in Nat
  BY UploadParts, Uploading, Sizes, StorageAssumption
<1>2. /\ r.kind \in {"start", "chunk", "commit"} /\ r.cell \in Nat
      /\ r.kind = "commit" => u.received = 1..Cells[d]
  BY UploadParts, RequestTypes DEF Requests, Careful
<1>3. header \in GoodHeaders \union {NoHeader} /\ flash \in [Targets -> [1..Capacity -> SUBSET Documents]]
  BY UploadParts, Types
<1>4. p.effects # << >>
  OBVIOUS
<1>5. CASE r.kind = "start"
  <2> DEFINE n == Cells[d]
  <2>1. p = StartUpload(t, n, s)
    BY <1>5, PlanKinds
  <2>n. n \in 0..Capacity
    BY <1>1
  <2> HIDE DEF p, t, d, s, u, n
  <2> DEFINE g == Final(StartUpload(t, n, s).effects)
  <2>a. t \in Targets /\ s \in AllSessions /\ StartUpload(t, n, s).effects # << >>
    BY <2>1, <1>1, <1>4
  <2>b. g.meta = HeaderOrDefault.meta /\ g.upload = [target |-> t, size |-> n, written |-> 0, session |-> s]
    BY <2>a, <2>n, <1>3, StartedHeader
  <2>2. f.meta = HeaderOrDefault.meta /\ f.upload.session = s
    BY <2>1, <2>b
  <2>3. Truthful(f)
    BY <2>2, CurrentIsTruthful, TruthfulParts
  <2> QED BY <2>2, <2>3 DEF p, s
<1>6. CASE r.kind = "chunk"
  <2>1. p = WriteUploadChunk(t, r.cell, d, s)
    BY <1>6, PlanKinds
  <2> HIDE DEF p, t, d, s, u
  <2>2. f.meta = header.meta /\ f.upload.session = s /\ header # NoHeader
    BY <2>1, <1>1, <1>2, <1>3, <1>4, ChunkPlan DEF OpenUpload
  <2>3. Truthful(f)
    BY <2>2, UploadParts, TruthfulParts
  <2> QED BY <2>2, <2>3 DEF p, s
<1>7. CASE r.kind = "commit"
  <2>1. p = CommitUpload(t, s)
    BY <1>7, PlanKinds
  <2> DEFINE n == header.upload.size
  <2> HIDE DEF p
  <2>2. /\ header # NoHeader /\ OpenUpload(header, t, s)
        /\ f.meta = [header.meta EXCEPT ![t] = [size |-> n, hash |-> Content(t, n)]]
        /\ f.upload = NoUpload
    BY <2>1, <1>1, <1>3, <1>4, CommitPlan
  <2>3. header.meta = [x \in Targets |-> header.meta[x]] /\ Truthful(header)
    BY <2>2, <1>3, GoodParts, UploadParts
  <2>4. CASE t \in Own
    <3>1. Carries(header, u)
      BY <2>2, <2>4 DEF Carries, OpenUpload
    <3>2. todo["httpd"] = << >> /\ serving = NotServing
      BY UploadParts DEF Idle
    <3>3. Coherent(header, flash, << >>, NotServing, u)
      BY <3>2, UploadParts
    <3>4. Agrees(header, u) /\ Filled(flash, u, u.received)
      BY <3>1, <3>3, <1>1, NoSessionIsOpen DEF Coherent, OpenIsFilled
    <3>5. n = Cells[d] /\ \A i \in 1..Cells[d] : flash[t][i] = {d}
      BY <3>4, <1>2, <1>7 DEF Agrees, Filled
    <3>6. [size |-> n, hash |-> Content(t, n)] = Stored(d)
      BY <3>5 DEF Stored, Whole, Content
    <3> QED BY <2>2, <2>3, <3>6, <1>1, NoSessionIsOpen, TruthfulParts DEF p
  <2>5. CASE t \notin Own
    <3>1. \A m : f.meta = [header.meta EXCEPT ![t] = m] => Truthful(f)
      <4> HIDE DEF f, t
      <4>1. t \in Targets \ Own
        BY <2>5, <1>1
      <4> QED BY <2>3, <4>1, TruthfulParts
    <3> QED BY <2>2, <3>1, NoSessionIsOpen DEF p
  <2> QED BY <2>4, <2>5
<1> QED BY <1>2, <1>5, <1>6, <1>7

LEMMA BeginKeepsUploads ==
  ASSUME UploadInv, TypeInv', NEW b \in Dashboards, NEW x \in Uploads, BeginUpload(b, x[1], x[2])
  PROVE  UploadInv'
<1>1. PICK s \in Sessions \ (used \union {StatsSession}) :
        /\ up' = [up EXCEPT ![b] = [session |-> s, target |-> x[1], document |-> x[2],
                                    started |-> FALSE, received |-> {}]]
        /\ used' = used \union {s}
  BY DEF BeginUpload
<1>2. /\ flash' = flash /\ header' = header /\ todo' = todo /\ serving' = serving /\ jobs' = jobs
      /\ up[b] = NotUploading
  BY DEF BeginUpload, storageVars
<1>3. x[2] \in Documents /\ s # NoSession /\ s # StatsSession /\ s \notin used
  BY <1>1, ClientsAssumption, Sizes
<1> DEFINE v == [session |-> s, target |-> x[1], document |-> x[2],
                 started |-> FALSE, received |-> {}]
<1>4. /\ v.session = s /\ v.document = x[2] /\ ~v.started /\ v.received = {}
  OBVIOUS
<1>5. up'[b] = v /\ \A c \in Dashboards : c # b => up'[c] = up[c]
  BY <1>1, UploadParts DEF TypeInv
<1> HIDE DEF v
<1>6. Coherent(header, flash, todo["httpd"], serving, v)
  BY <1>3, <1>4, UploadParts, NewUpload
<1>7. \A c \in Dashboards : Coherent(header', flash', todo'["httpd"], serving', up'[c])
  BY <1>2, <1>5, <1>6, UploadParts
<1>8. \A c \in Dashboards : up[c] # NotUploading => up[c].session # s
  BY <1>3, UploadParts, Uploading
<1>9. \A c, d \in Dashboards : up'[c] # NotUploading /\ up'[c].session = up'[d].session => c = d
  <2>1. \A d \in Dashboards : up[d].session # s
    BY <1>8, <1>3, Uploading, UploadParts
  <2> QED BY <2>1, <1>4, <1>5, UploadParts
<1> QED BY <1>1, <1>2, <1>7, <1>9, UploadParts, UploadPartsNext

LEMMA AbandonKeepsUploads ==
  ASSUME UploadInv, TypeInv', NEW b \in Dashboards, Abandon(b)
  PROVE  UploadInv'
<1>1. /\ flash' = flash /\ header' = header /\ todo' = todo /\ serving' = serving /\ jobs' = jobs
      /\ used' = used
  BY DEF Abandon, storageVars
<1>2. up'[b] = NotUploading /\ \A c \in Dashboards : c # b => up'[c] = up[c]
  BY UploadParts DEF Abandon, TypeInv
<1>3. \A c \in Dashboards : Coherent(header', flash', todo'["httpd"], serving', up'[c])
  BY <1>1, <1>2, UploadParts, NothingUploaded
<1>4. \A c, d \in Dashboards : up'[c] # NotUploading /\ up'[c].session = up'[d].session => c = d
  BY <1>2, UploadParts, Uploading
<1> QED BY <1>1, <1>3, <1>4, UploadParts, UploadPartsNext

LEMMA DeleteKeepsUploads ==
  ASSUME UploadInv, Careful, TypeInv', NEW calls \in Deletions, Delete(calls)
  PROVE  UploadInv'
<1>1. /\ flash' = flash /\ header' = header /\ todo' = todo /\ serving' = serving /\ jobs' = calls
      /\ used' = used /\ up' = up
  BY DEF Delete, storageVars
<1>2. Faults => \A i \in DOMAIN calls : \A j \in DOMAIN calls[i] : calls[i][j] \notin Own
  BY DEF Careful
<1> QED BY <1>1, <1>2, UploadParts, UploadPartsNext

LEMMA EndDayKeepsUploads ==
  ASSUME UploadInv, TypeInv', UNCHANGED <<flash, header, todo, serving, jobs, used, up>>
  PROVE  UploadInv'
BY UploadParts, UploadPartsNext

\* The HTTP task begins a call that is no upload.
LEMMA OtherCallKeepsUploads ==
  ASSUME UploadInv, TypeInv', todo["httpd"] = << >>, todo'["loop"] = todo["loop"],
         UNCHANGED <<flash, header, up, used, serving>>,
         NEW q, todo'["httpd"] = q, q # << >>, Truthful(Final(q)),
         Final(q).upload.session \in used \union {StatsSession, NoSession},
         Faults => \A t \in Own : ~Touches(q, t),
         Faults => \A i \in DOMAIN jobs' : \A j \in DOMAIN jobs'[i] : jobs'[i][j] \notin Own,
         \A c \in Dashboards : Carries(Final(q), up[c]) =>
            /\ Carries(header, up[c]) /\ Final(q).upload = header.upload
            /\ ~Touches(q, up[c].target)
  PROVE  UploadInv'
<1>1. ASSUME NEW c \in Dashboards PROVE Coherent(header, flash, q, serving, up[c])
  <2>1. Coherent(header, flash, << >>, NotServing, up[c]) /\ serving = NotServing
    BY UploadParts
  <2>2. up[c].session # NoSession \/ up[c] = NotUploading
    BY UploadParts, Uploading
  <2>3. CASE up[c] = NotUploading
    BY <2>3, NothingUploaded
  <2>4. CASE up[c] # NotUploading
    <3>1. serving.session # up[c].session
      BY <2>1, <2>2, <2>4, NoSessionIsOpen
    <3>2. Carries(header, up[c]) => Agrees(header, up[c])
      BY <2>1 DEF Coherent, OpenIsFilled
    <3>3. Carries(Final(q), up[c]) => Agrees(Final(q), up[c])
      BY <3>2 DEF Agrees
    <3>4. Carries(header, up[c]) => up[c].target \in Own
      BY DEF Carries
    <3>5. Carries(header, up[c]) /\ Faults => ~Touches(q, up[c].target)
      BY <3>4
    <3> QED BY <2>1, <2>2, <3>1, <3>3, <3>5, OtherCall
  <2> QED BY <2>3, <2>4
<1> QED BY <1>1, UploadParts, UploadPartsNext

LEMMA PatchKeepsUploads ==
  ASSUME UploadInv, Careful, TypeInv', NEW d \in Patches, Patch(d)
  PROVE  UploadInv'
<1> DEFINE p == WritePayload(Patchable, d)
           q == p.effects
<1>1. Patchable \in Targets /\ d \in Documents
  BY ClientsAssumption
<1>2. Call("httpd", p) /\ UNCHANGED httpVars
  BY DEF Patch
<1>h. header \in GoodHeaders \union {NoHeader}
  BY UploadParts, Types
<1>3. /\ WellFormed(q) /\ q # << >> /\ \A x : Touches(q, x) <=> Patchable = x
      /\ Final(q).meta = [HeaderOrDefault.meta EXCEPT ![Patchable] = Stored(d)]
      /\ Final(q).upload = NoUpload
  <2>1. WellFormed(q) /\ q # << >> /\ \A x : Touches(q, x) <=> Patchable = x
    BY <1>1, <1>h, WritePlan
  <2>2. Final(q).meta = [HeaderOrDefault.meta EXCEPT ![Patchable] = Stored(d)]
    BY <1>1, <1>h, WritePlan
  <2>3. Final(q).upload = NoUpload
    BY <1>1, <1>h, WritePlan
  <2> QED BY <2>1, <2>2, <2>3
<1>4. /\ flash' = flash /\ header' = header /\ todo["httpd"] = << >> /\ todo'["httpd"] = q
      /\ todo'["loop"] = todo["loop"] /\ up' = up /\ used' = used /\ serving' = serving /\ jobs' = jobs
  <2>1. "httpd" \in Actors /\ "loop" \in Actors
    BY DEF Actors
  <2> HIDE DEF p
  <2> QED BY <1>2, <1>3, <2>1, UploadParts, CallStep DEF httpVars
<1> HIDE DEF q, p
<1>5. HeaderOrDefault.meta = [x \in Targets |-> HeaderOrDefault.meta[x]]
  BY UploadParts, Types, CurrentIsGood, GoodParts
<1>6. Truthful(Final(q))
  BY <1>1, <1>3, <1>5, CurrentIsTruthful, TruthfulParts
<1>7. \A c \in Dashboards : ~Carries(Final(q), up[c])
  BY <1>3, NoSessionIsOpen, UploadParts, Uploading DEF Carries
<1>8. Faults => \A t \in Own : ~Touches(q, t)
  BY <1>3 DEF Careful
<1> QED BY <1>3, <1>4, <1>6, <1>7, <1>8, NoSessionIsOpen, UploadParts, OtherCallKeepsUploads

LEMMA DeleteNextKeepsUploads ==
  ASSUME UploadInv, TypeInv', DeleteNext
  PROVE  UploadInv'
<1> DEFINE ts == Head(jobs)
           p == DeletePayloads(ts)
           q == p.effects
           h == HeaderOrDefault
<1>1. jobs \in Seq(DeleteCalls) /\ jobs # << >> /\ jobs' = Tail(jobs)
  BY UploadParts DEF DeleteNext, TypeInv
<1>2. ts \in DeleteCalls /\ ts = jobs[1] /\ 1 \in DOMAIN jobs
  BY <1>1, HeadTailProperties, EmptySeq, LenProperties
<1>3. Call("httpd", p) /\ UNCHANGED <<up, used, serving>>
  BY DEF DeleteNext
<1> HIDE DEF ts
<1>4. /\ WellFormed(q) /\ q # << >> /\ \A x : Touches(q, x) => x \in Gone(ts)
      /\ Final(q).meta = [t \in Targets |-> IF t \in Gone(ts) THEN NoPayload ELSE h.meta[t]]
      /\ Final(q).upload = IF h.upload.target \in Gone(ts) THEN NoUpload ELSE h.upload
  BY <1>2, UploadParts, Types, DeletePlan
<1>5. /\ flash' = flash /\ header' = header /\ todo["httpd"] = << >> /\ todo'["httpd"] = q
      /\ todo'["loop"] = todo["loop"] /\ up' = up /\ used' = used /\ serving' = serving
  <2>1. "httpd" \in Actors /\ "loop" \in Actors
    BY DEF Actors
  <2> HIDE DEF p
  <2> QED BY <1>3, <1>4, <2>1, UploadParts, CallStep
<1> HIDE DEF q, p
<1>6. Truthful(Final(q))
  BY <1>4, CurrentIsTruthful, TruthfulParts
<1>7. Final(q).upload.session \in used \union {StatsSession, NoSession}
  BY <1>4, CurrentIsTruthful, NoSessionIsOpen
<1>8. ASSUME NEW c \in Dashboards, Carries(Final(q), up[c])
      PROVE  /\ Carries(header, up[c]) /\ Final(q).upload = header.upload
             /\ ~Touches(q, up[c].target)
  <2>1. up[c] # NotUploading /\ up[c].session # NoSession /\ Final(q).upload.session = up[c].session
    BY <1>8, UploadParts, Uploading DEF Carries
  <2>2. Final(q).upload = h.upload /\ h.upload.target \notin Gone(ts)
    BY <2>1, <1>4, NoSessionIsOpen
  <2>3. header # NoHeader /\ h = header
    BY <2>1, <2>2, CurrentIsTruthful
  <2>4. Carries(header, up[c])
    BY <1>8, <2>2, <2>3 DEF Carries
  <2>5. Coherent(header, flash, todo["httpd"], serving, up[c])
    BY UploadParts
  <2>6. Agrees(header, up[c])
    BY <2>4, <2>5 DEF Coherent, OpenIsFilled
  <2>7. up[c].target \notin Gone(ts)
    BY <2>2, <2>3, <2>6 DEF Agrees
  <2> QED BY <2>2, <2>3, <2>4, <2>7, <1>4
<1>9. Faults => \A t \in Own : t \notin Gone(ts)
  BY <1>2, UploadParts DEF Gone
<1>10. Faults => \A t \in Own : ~Touches(q, t)
  BY <1>9, <1>4
<1>11. Faults => \A i \in DOMAIN jobs' : \A j \in DOMAIN jobs'[i] : jobs'[i][j] \notin Own
  <2>1. ASSUME NEW i \in DOMAIN Tail(jobs) PROVE i + 1 \in DOMAIN jobs /\ Tail(jobs)[i] = jobs[i + 1]
    BY <1>1, HeadTailProperties, LenProperties
  <2>2. Faults => \A i \in DOMAIN jobs : \A j \in DOMAIN jobs[i] : jobs[i][j] \notin Own
    BY UploadParts
  <2> QED BY <2>1, <2>2, <1>1
<1> QED BY <1>4, <1>5, <1>6, <1>7, <1>8, <1>10, <1>11, OtherCallKeepsUploads

\* A request that needs no effect is answered at once.
LEMMA AnsweredAtOnce ==
  ASSUME UploadInv, NEW b \in Dashboards, up[b] # NotUploading, NEW r \in NextRequests(up[b]),
         PlanFor(up[b], r).effects = << >>,
         NEW v, v = AfterAnswer(up[b], r, PlanFor(up[b], r).ok),
         NEW h, NEW f, Coherent(h, f, << >>, NotServing, up[b])
  PROVE  /\ v.session \in {up[b].session, NoSession}
         /\ v # NotUploading => v.session = up[b].session
         /\ Coherent(h, f, << >>, NotServing, v)
<1> DEFINE u == up[b]
           p == PlanFor(u, r)
<1>1. u \in [session : Sessions \union {NoSession}, target : Targets \union {NoTarget},
              document : Documents \union {Nothing}, started : BOOLEAN, received : SUBSET Nat]
  BY UploadParts, Uploading DEF UploadType
<1>2. r.kind \in {"start", "chunk", "commit"} /\ r.cell \in Nat /\ (r.kind = "start" <=> ~u.started)
  BY UploadParts, RequestTypes DEF Requests
<1>3. r.kind = "chunk" => p.ok = FALSE
  <2>1. u.target \in Targets /\ u.document \in Documents /\ u.session \in AllSessions
    BY UploadParts, Uploading
  <2>2. header \in GoodHeaders \union {NoHeader}
    BY UploadParts, Types
  <2>3. r.kind = "chunk" => p = WriteUploadChunk(u.target, r.cell, u.document, u.session)
    BY PlanKinds
  <2> DEFINE c == WriteUploadChunk(u.target, r.cell, u.document, u.session)
  <2>4. c.effects = << >> => c.ok = FALSE
    <3> HIDE DEF u
    <3> QED BY <2>1, <2>2, <1>2, ChunkPlan
  <2> QED BY <2>3, <2>4
<1>4. NotUploading.session = NoSession
  BY UploadParts, Uploading
<1>5. CASE v = NotUploading
  BY <1>4, <1>5, NothingUploaded
<1>6. CASE v # NotUploading
  <2>1. r.kind = "start" /\ v = [u EXCEPT !.started = TRUE]
    BY <1>2, <1>3, <1>6 DEF AfterAnswer
  <2>2. /\ v.session = u.session /\ v.target = u.target /\ v.document = u.document
        /\ v.received = u.received /\ v.started
    BY <1>1, <2>1
  <2>3. u # NotUploading
    OBVIOUS
  <2> HIDE DEF u
  <2>4. /\ Carries(h, v) <=> Carries(h, u)
        /\ Agrees(h, v) <=> Agrees(h, u)
        /\ Filled(f, v, v.received) <=> Filled(f, u, u.received)
    BY <2>2, <2>3, <1>6 DEF Carries, Agrees, Filled
  <2>5. Coherent(h, f, << >>, NotServing, u)
    BY DEF u
  <2>6. OpenIsFilled(h, f, << >>, NotServing.session, v)
    BY <2>2, <2>4, <2>5 DEF Coherent, OpenIsFilled
  <2>7. PendingIsFilled(f, << >>, NotServing, v)
    BY DEF PendingIsFilled
  <2>8. ServedInOrder(<< >>, NotServing, v)
    BY <2>2, <2>3, <2>5 DEF Coherent, ServedInOrder
  <2> QED BY <2>2, <2>6, <2>7, <2>8 DEF Coherent, u
<1> QED BY <1>5, <1>6

\* The call of a request begins with what the invariant says of it.
LEMMA RequestIsCoherent ==
  ASSUME UploadInv, Careful, NEW b \in Dashboards, up[b] # NotUploading, Idle("httpd"),
         NEW r \in NextRequests(up[b]), NEW q, q = PlanFor(up[b], r).effects, q # << >>
  PROVE  Coherent(header, flash, q, Serving(up[b].session, r), up[b])
<1> DEFINE u == up[b]
           t == up[b].target
           d == up[b].document
           s == up[b].session
           n == Cells[d]
<1>1. /\ u # NotUploading /\ t \in Targets /\ d \in Documents /\ s \in AllSessions /\ s # NoSession
      /\ n \in 0..Capacity
  BY UploadParts, Uploading, Sizes, StorageAssumption
<1>2. /\ r.kind \in {"start", "chunk", "commit"} /\ r.cell \in Nat
      /\ r.kind = "start" <=> ~u.started
      /\ r.kind = "chunk" => u.received # 1..n /\ r.cell = Cardinality(u.received) + 1
  BY UploadParts, RequestTypes DEF Requests, Careful
<1>3. header \in GoodHeaders \union {NoHeader} /\ flash \in [Targets -> [1..Capacity -> SUBSET Documents]]
  BY UploadParts, Types
<1>4. Coherent(header, flash, << >>, NotServing, u)
  BY UploadParts DEF Idle
<1>5. Serving(s, r).session = s /\ Serving(s, r).request = r
  BY DEF Serving
<1>6. PlanFor(u, r).effects = q
  OBVIOUS
<1> DEFINE Begins ==
     Carries(Final(q), u) =>
            \/ /\ r.kind = "start" /\ Agrees(Final(q), u)
               /\ Len(q) = 3 /\ Head(q) = Erase(u.target, Cells[u.document])
            \/ /\ r.kind = "chunk" /\ Carries(header, u) /\ Final(q).upload.size = header.upload.size
               /\ Final(q).upload.target = u.target
               /\ Len(q) = 3 /\ Head(q) = Program(u.target, {r.cell}, u.document)
<1>7. ASSUME r.kind = "start" PROVE Begins
  <2>1. q = StartUpload(t, n, s).effects
    BY <1>7, <1>6, PlanKinds
  <2> HIDE DEF t, d, s, u, n
  <2>2. Final(q).upload = [target |-> t, size |-> n, written |-> 0, session |-> s]
    BY <2>1, <1>1, <1>3, StartedHeader
  <2>a. t \in Targets /\ s \in AllSessions /\ n \in 0..Capacity /\ StartUpload(t, n, s).effects # << >>
    BY <2>1, <1>1
  <2>b. Len(StartUpload(t, n, s).effects) = 3 /\ Head(StartUpload(t, n, s).effects) = Erase(t, n)
    BY <2>a, <1>3, StartedHeader
  <2>3. Len(q) = 3 /\ Head(q) = Erase(t, n)
    BY <2>1, <2>b
  <2>4. Agrees(Final(q), u)
    BY <2>2 DEF Agrees, t, n, d, u
  <2> QED BY <1>7, <2>3, <2>4 DEF t, n, d, u
<1>8. ASSUME r.kind = "chunk" PROVE Begins
  <2>1. q = WriteUploadChunk(t, r.cell, d, s).effects
    BY <1>8, <1>6, PlanKinds
  <2> HIDE DEF t, d, s, u, n
  <2>2. /\ Len(q) = 3 /\ Head(q) = Program(t, {r.cell}, d) /\ header # NoHeader
        /\ OpenUpload(header, t, s) /\ OpenUpload(Final(q), t, s)
        /\ Final(q).upload.size = header.upload.size
    BY <2>1, <1>1, <1>2, <1>3, ChunkPlan
  <2>3. Carries(Final(q), u) => Carries(header, u)
    BY <2>2 DEF Carries, OpenUpload
  <2> QED BY <1>8, <2>2, <2>3 DEF t, d, u, OpenUpload
<1>9. ASSUME r.kind = "commit" PROVE Begins
  <2>1. q = CommitUpload(t, s).effects
    BY <1>9, <1>6, PlanKinds
  <2> HIDE DEF t, d, s, u, n
  <2>a. t \in Targets /\ s \in AllSessions /\ CommitUpload(t, s).effects # << >>
    BY <2>1, <1>1
  <2>b. Final(CommitUpload(t, s).effects).upload = NoUpload
    BY <2>a, <1>3, CommitPlan
  <2>2. Final(q).upload = NoUpload
    BY <2>1, <2>b
  <2>3. ~Carries(Final(q), u)
    BY <2>2, <1>1, NoSessionIsOpen DEF Carries, s, u
  <2> QED BY <2>3
<1>10. Begins
  BY <1>2, <1>7, <1>8, <1>9
<1> DEFINE sv == Serving(s, r)
<1>11. sv.session = u.session /\ sv.request = r /\ u.session # NoSession /\ u.document \in Documents
  BY <1>1, <1>5
<1>12. r.kind = "chunk" => u.received # 1..Cells[u.document] /\ r.cell = Cardinality(u.received) + 1
  BY <1>2
<1> HIDE DEF u, sv, t, d, s, n
<1>13. Coherent(header, flash, q, sv, u)
  BY <1>1, <1>2, <1>4, <1>10, <1>11, <1>12, OwnCall
<1> QED BY <1>13 DEF u, sv, s

LEMMA ServeKeepsUploads ==
  ASSUME UploadInv, Careful, TypeInv', NEW b \in Dashboards, ServeUpload(b)
  PROVE  UploadInv'
<1> DEFINE s == up[b].session
<1>1. PICK r \in NextRequests(up[b]) :
        LET plan == PlanFor(up[b], r)
        IN  /\ Call("httpd", plan)
            /\ IF plan.effects = << >> THEN Answer(s, r, plan.ok) /\ UNCHANGED serving
               ELSE serving' = Serving(s, r) /\ saved' = Without(Erased(plan)) /\ UNCHANGED up
  BY DEF ServeUpload
<1> DEFINE p == PlanFor(up[b], r)
           q == p.effects
<1>2. up[b] # NotUploading /\ UNCHANGED <<used, jobs>> /\ Idle("httpd")
  BY DEF ServeUpload, HttpFree
<1>3. /\ flash' = flash /\ header' = header /\ todo["httpd"] = << >> /\ todo'["httpd"] = q
      /\ todo'["loop"] = todo["loop"]
  <2>1. "httpd" \in Actors /\ "loop" \in Actors /\ WellFormed(q) /\ Call("httpd", p)
    BY <1>1, <1>2, UploadPlanTypes, UploadParts DEF Actors
  <2> HIDE DEF p
  <2> QED BY <2>1, UploadParts, CallStep
<1>4. s \in used /\ s # NoSession /\ serving = NotServing
  BY <1>2, <1>3, UploadParts, Uploading
<1>5. \A c \in Dashboards : c # b /\ up[c] # NotUploading => up[c].session # s
  BY <1>2, UploadParts
<1>6. \A c \in Dashboards : up[c] = NotUploading \/ up[c].session # NoSession
  BY UploadParts, Uploading
<1>7. CASE q = << >>
  <2> DEFINE v == AfterAnswer(up[b], r, p.ok)
  <2>1. Answer(s, r, p.ok) /\ serving' = serving
    BY <1>1, <1>7
  <2>2. up' = [c \in Dashboards |-> IF up[c].session = s THEN AfterAnswer(up[c], r, p.ok) ELSE up[c]]
    BY <2>1, <1>4 DEF Answer
  <2>3. up'[b] = v /\ \A c \in Dashboards : c # b => up'[c] = up[c]
    <3>1. \A c \in Dashboards : c # b => up[c].session # s
      BY <1>4, <1>5, Uploading, UploadParts
    <3> HIDE DEF p
    <3> QED BY <2>2, <3>1
  <2>4. Coherent(header, flash, << >>, NotServing, up[b])
    BY <1>3, <1>4, UploadParts
  <2>5. /\ v.session \in {s, NoSession}
        /\ v # NotUploading => v.session = s
        /\ Coherent(header, flash, << >>, NotServing, v)
    BY <1>2, <1>7, <2>4, AnsweredAtOnce
  <2> HIDE DEF v, p, s, q
  <2>6. \A c \in Dashboards : Coherent(header', flash', todo'["httpd"], serving', up'[c])
    BY <1>3, <1>4, <1>7, <2>1, <2>3, <2>5, UploadParts
  <2>7. \A c, d \in Dashboards : up'[c] # NotUploading /\ up'[c].session = up'[d].session => c = d
    BY <1>4, <1>5, <1>6, <2>3, <2>5, Uploading, UploadParts
  <2> QED BY <1>2, <1>3, <1>7, <2>1, <2>6, <2>7, UploadParts, UploadPartsNext
<1>8. CASE q # << >>
  <2> DEFINE sv == Serving(s, r)
  <2>1. serving' = sv /\ up' = up
    BY <1>1, <1>8
  <2>2. sv.session = s
    BY DEF Serving
  <2>3. Truthful(Final(q)) /\ Final(q).upload.session \in {s, NoSession}
    BY <1>2, <1>8, RequestIsTruthful
  <2>4. Coherent(header, flash, q, sv, up[b])
    BY <1>2, <1>8, RequestIsCoherent
  <2> HIDE DEF sv, p, s, q
  <2>5. ASSUME NEW c \in Dashboards, c # b PROVE Coherent(header, flash, q, sv, up[c])
    <3>1. CASE up[c] = NotUploading
      BY <3>1, NothingUploaded
    <3>2. CASE up[c] # NotUploading
      <4>1. up[c].session # s /\ up[c].session # NoSession
        BY <1>5, <1>6, <2>5, <3>2
      <4>2. ~Faults
        BY <2>5 DEF Careful
      <4>3. ~Carries(Final(q), up[c])
        BY <4>1, <2>3 DEF Carries
      <4>4. Coherent(header, flash, << >>, NotServing, up[c])
        BY <1>3, <1>4, UploadParts
      <4> QED BY <1>8, <2>2, <4>1, <4>2, <4>3, <4>4, OtherCall
    <3> QED BY <3>1, <3>2
  <2>6. \A c \in Dashboards : Coherent(header', flash', todo'["httpd"], serving', up'[c])
    BY <1>3, <2>1, <2>4, <2>5
  <2> QED BY <1>2, <1>3, <1>4, <1>8, <2>1, <2>2, <2>3, <2>6, UploadParts, UploadPartsNext
<1> QED BY <1>7, <1>8

LEMMA AdvanceKeepsUploads ==
  ASSUME UploadInv, TypeInv', HttpAdvance
  PROVE  UploadInv'
<1> DEFINE q == todo["httpd"]
<1>1. Advance("httpd") /\ UNCHANGED <<used, jobs>>
  BY DEF HttpAdvance
<1>2. /\ todo'["loop"] = todo["loop"] /\ todo'["httpd"] = Tail(q) /\ WellFormed(q) /\ q # << >>
      /\ Len(q) \in {1, 2, 3, 4}
  <2>1. "httpd" \in Actors /\ "loop" \in Actors
    BY DEF Actors
  <2> QED BY <1>1, <2>1, UploadParts, AdvanceTodo, AdvanceStep
<1>3. /\ Tail(q) # << >> => Final(Tail(q)) = Final(q)
      /\ Tail(q) = << >> <=> Len(q) = 1
      /\ \A t : Touches(Tail(q), t) => Touches(q, t)
  <2>1. /\ Tail(q) # << >> => Final(Tail(q)) = Final(q)
        /\ Tail(q) = << >> <=> Len(q) = 1
    BY <1>2, NextEffect
  <2>2. ASSUME NEW t, Touches(Tail(q), t) PROVE Touches(q, t)
    <3>1. CASE Len(q) \in {3, 4}
      BY <1>2, <2>2, <3>1, NextEffect
    <3>2. CASE Len(q) = 1
      BY <2>1, <3>2, <2>2, NoEffects
    <3>3. CASE Len(q) = 2
      <4> DEFINE p == Tail(q)
      <4>1. Len(p) \in {1, 2}
        BY <1>2, <3>3, NextEffect
      <4> HIDE DEF p
      <4>2. ~Touches(p, t)
        BY <4>1, TouchesNothing
      <4> QED BY <4>2, <2>2 DEF p
    <3> QED BY <1>2, <3>1, <3>2, <3>3
  <2> QED BY <2>1, <2>2
<1>4. /\ Truthful(Final(q))
      /\ Final(q).upload.session \in used \union {StatsSession, NoSession}
  BY <1>2, UploadParts
<1>5. ASSUME NEW c \in Dashboards
      PROVE  /\ up[c] # NotUploading => /\ up[c].target \in Targets /\ up[c].document \in Documents
                                        /\ up[c].session # NoSession
             /\ Coherent(header, flash, q, serving, up[c])
  BY UploadParts, Uploading
<1>6. CASE Len(q) = 1
  <2>1. flash' = flash /\ header' = Final(q)
    <3>1. "httpd" \in Actors
      BY DEF Actors
    <3> QED BY <1>1, <1>6, <3>1, UploadParts, AdvanceWrites
  <2>2. Answer(serving.session, serving.request, TRUE) /\ serving' = NotServing
    BY <1>6 DEF HttpAdvance
  <2>3. \A c \in Dashboards :
           up'[c] = IF up[c].session = serving.session /\ serving.session # NoSession
                    THEN AfterAnswer(up[c], serving.request, TRUE) ELSE up[c]
    BY <2>2 DEF Answer
  <2>4. Tail(q) = << >>
    BY <1>3, <1>6
  <2>5. ASSUME NEW c \in Dashboards
        PROVE  Coherent(header', flash', todo'["httpd"], serving', up'[c])
    <3>1. up[c] = [session |-> up[c].session, target |-> up[c].target, document |-> up[c].document,
                   started |-> up[c].started, received |-> up[c].received]
      BY UploadParts, Uploading DEF UploadType
    <3> DEFINE u == up[c]
               v == up'[c]
    <3>2. /\ u = NotUploading \/ u.session # NoSession
          /\ u.document \in Documents \/ u = NotUploading
          /\ Coherent(header, flash, q, serving, u)
          /\ v = IF u.session = serving.session /\ serving.session # NoSession
                 THEN AfterAnswer(u, serving.request, TRUE) ELSE u
          /\ u = [session |-> u.session, target |-> u.target, document |-> u.document,
                  started |-> u.started, received |-> u.received]
      BY <1>5, <2>3, <3>1
    <3> HIDE DEF u, v, q
    <3>3. Coherent(Final(q), flash, << >>, NotServing, v)
      BY <1>2, <1>6, <3>2, CallEnds
    <3> QED BY <1>2, <2>1, <2>2, <2>4, <3>3 DEF v
  <2>6. \A c, d \in Dashboards : up'[c] # NotUploading /\ up'[c].session = up'[d].session => c = d
    <3>1. ASSUME NEW c \in Dashboards
          PROVE  up'[c] = NotUploading \/ up'[c].session = up[c].session
      <4>1. up[c] \in [session : Sessions \union {NoSession}, target : Targets \union {NoTarget},
                       document : Documents \union {Nothing}, started : BOOLEAN, received : SUBSET Nat]
        BY UploadParts, Uploading DEF UploadType
      <4> QED BY <2>3, <4>1 DEF AfterAnswer
    <3>2. \A c \in Dashboards : up[c].session = NoSession => up[c] = NotUploading
      BY UploadParts, Uploading
    <3>3. NotUploading.session = NoSession
      BY DEF NotUploading
    <3>4. ASSUME NEW c \in Dashboards, up'[c] # NotUploading
          PROVE  up[c] # NotUploading /\ up'[c].session = up[c].session /\ up[c].session # NoSession
      <4>1. up'[c].session = up[c].session
        BY <3>1, <3>4
      <4>2. CASE up[c] = NotUploading
        BY <2>3, <3>3, <3>4, <4>2
      <4> QED BY <3>2, <4>1, <4>2
    <3>5. ASSUME NEW c \in Dashboards, NEW d \in Dashboards, up'[c] # NotUploading,
                 up'[c].session = up'[d].session
          PROVE  c = d
      <4>1. up'[d] # NotUploading
        BY <3>3, <3>4, <3>5
      <4> QED BY <3>4, <3>5, <4>1, UploadParts
    <3> QED BY <3>5
  <2> HIDE DEF q
  <2> QED BY <1>1, <1>2, <1>4, <2>1, <2>2, <2>4, <2>5, <2>6, NoEffects, NoSessionIsOpen, UploadParts,
             UploadPartsNext
<1>7. ASSUME Len(q) # 1, \A c \in Dashboards : Coherent(header', flash', Tail(q), serving, up[c]),
             header' \in {header, NoHeader}
      PROVE  UploadInv'
  <2>1. UNCHANGED <<up, serving>>
    BY <1>7 DEF HttpAdvance
  <2>2. Tail(q) # << >> /\ Final(Tail(q)) = Final(q)
    BY <1>3, <1>7
  <2>3. Faults /\ serving.session = NoSession => \A t \in Own : ~Touches(Tail(q), t)
    BY <1>3, UploadParts
  <2> HIDE DEF q
  <2> QED BY <1>1, <1>2, <1>4, <1>7, <2>1, <2>2, <2>3, UploadParts, UploadPartsNext
<1>8. CASE Len(q) = 2
  <2>1. flash' = flash /\ header' = NoHeader
    <3>1. "httpd" \in Actors
      BY DEF Actors
    <3> QED BY <1>1, <1>8, <3>1, UploadParts, AdvanceErases
  <2>2. \A c \in Dashboards : Coherent(header', flash', Tail(q), serving, up[c])
    <3> HIDE DEF q
    <3> QED BY <1>2, <1>5, <1>8, <2>1, CallErases
  <2> QED BY <1>7, <1>8, <2>1, <2>2
<1>9. CASE Len(q) \in {3, 4}
  <2> DEFINE e == Head(q)
  <2>1. /\ header' = header
        /\ \A t \in Targets : t # e.target => flash'[t] = flash[t]
        /\ \A i \in 1..Capacity : flash'[e.target][i] =
               IF i \notin e.cells THEN flash[e.target][i]
               ELSE IF e.do = "erase" THEN {} ELSE flash[e.target][i] \union {e.document}
    <3>1. "httpd" \in Actors
      BY DEF Actors
    <3> QED BY <1>1, <1>9, <3>1, UploadParts, AdvancePayload
  <2>2. ASSUME NEW c \in Dashboards PROVE Coherent(header', flash', Tail(q), serving, up[c])
    <3>1. e = Head(q)
      OBVIOUS
    <3> DEFINE u == up[c]
               g == flash'
    <3>2. /\ u # NotUploading => u.target \in Targets /\ u.document \in Documents
          /\ Coherent(header, flash, q, serving, u)
      BY <1>5
    <3>3. Flashed(flash, g, e)
      BY <2>1 DEF Flashed
    <3> HIDE DEF q, e, u, g
    <3>4. Coherent(header, g, Tail(q), serving, u)
      BY <1>2, <1>9, <3>1, <3>2, <3>3, CallFlashes
    <3> QED BY <2>1, <3>4 DEF u, g
  <2> QED BY <1>7, <1>9, <2>1, <2>2
<1> QED BY <1>2, <1>6, <1>8, <1>9

\* The HTTP task's call is broken off, with the upload it belongs to.
LEMMA BreakKeepsUploads ==
  ASSUME UploadInv, Faults, TypeInv', UNCHANGED <<flash, header, used>>,
         todo'["httpd"] = << >>, todo'["loop"] = todo["loop"] \/ todo'["loop"] = << >>,
         serving' = NotServing, jobs' = << >>,
         \A c \in Dashboards : \/ up'[c] = NotUploading
                               \/ up'[c] = up[c] /\ up[c].session # serving.session
                               \/ up'[c] = up[c] /\ todo["httpd"] = << >>
  PROVE  UploadInv'
<1>1. ASSUME NEW c \in Dashboards PROVE Coherent(header, flash, << >>, NotServing, up'[c])
  <2>0. /\ Coherent(header, flash, todo["httpd"], serving, up[c])
        /\ up[c] = NotUploading \/ up[c].session # NoSession
        /\ todo["httpd"] = << >> => serving = NotServing
    BY UploadParts, Uploading
  <2>1. CASE up'[c] = NotUploading
    BY <2>1, NothingUploaded
  <2>2. CASE up'[c] = up[c] /\ up[c].session # serving.session
    BY <2>0, <2>2, CallBreaks
  <2>3. CASE up'[c] = up[c] /\ todo["httpd"] = << >>
    BY <2>0, <2>3
  <2> QED BY <2>1, <2>2, <2>3
<1>2. \A c, d \in Dashboards : up'[c] # NotUploading /\ up'[c].session = up'[d].session => c = d
  <2>1. \A c \in Dashboards : up'[c] # NotUploading => up'[c] = up[c] /\ up[c].session # NoSession
    BY UploadParts, Uploading
  <2>2. NotUploading.session = NoSession
    BY DEF NotUploading
  <2> QED BY <2>1, <2>2, UploadParts
<1>3. \A i \in DOMAIN jobs' : FALSE
  BY EmptySeq, LenProperties
<1> QED BY <1>1, <1>2, <1>3, NoEffects, NoSessionIsOpen, UploadParts, UploadPartsNext

LEMMA HttpFailsKeepsUploads ==
  ASSUME UploadInv, TypeInv', HttpFails
  PROVE  UploadInv'
<1>1. /\ Faults /\ GiveUp("httpd") /\ used' = used /\ serving' = NotServing /\ jobs' = << >>
      /\ up' = [b \in Dashboards |-> IF up[b].session = serving.session THEN NotUploading ELSE up[b]]
  BY DEF HttpFails
<1>2. /\ flash' = flash /\ header' = header /\ todo'["httpd"] = << >> /\ todo'["loop"] = todo["loop"]
  <2>1. "httpd" \in Actors /\ "loop" \in Actors
    BY DEF Actors
  <2> QED BY <1>1, <2>1, UploadParts, GiveUpStep
<1>3. \A c \in Dashboards : \/ up'[c] = NotUploading
                            \/ up'[c] = up[c] /\ up[c].session # serving.session
  BY <1>1
<1> QED BY <1>1, <1>2, <1>3, BreakKeepsUploads

LEMMA RebootKeepsUploads ==
  ASSUME UploadInv, TypeInv', Reboot
  PROVE  UploadInv'
<1>1. /\ Faults /\ PowerLoss /\ used' = used /\ serving' = NotServing /\ jobs' = << >>
      /\ up' = [b \in Dashboards |-> IF ~Idle("httpd") /\ up[b].session = serving.session
                                     THEN NotUploading ELSE up[b]]
  BY DEF Reboot
<1>2. flash' = flash /\ header' = header /\ todo'["httpd"] = << >> /\ todo'["loop"] = << >>
  BY <1>1 DEF PowerLoss, Actors
<1>3. \A c \in Dashboards : \/ up'[c] = NotUploading
                            \/ up'[c] = up[c] /\ up[c].session # serving.session
                            \/ up'[c] = up[c] /\ todo["httpd"] = << >>
  BY <1>1 DEF Idle
<1> QED BY <1>1, <1>2, <1>3, BreakKeepsUploads

\* What the main loop will write says nothing new of the other targets.
LEMMA LoopPlan ==
  ASSUME UploadInv, persist # Resting, PersistPlan.effects # << >>
  PROVE  /\ Truthful(Final(PersistPlan.effects))
         /\ Final(PersistPlan.effects).upload.session \in {StatsSession, NoSession}
         /\ \A t : Touches(PersistPlan.effects, t) => t = Stats
<1> DEFINE d == Today
           n == Cells[d]
           f == Final(PersistPlan.effects)
<1>1. /\ Stats \in Targets /\ d \in Documents /\ StatsSession \in AllSessions
      /\ n \in 0..Capacity /\ persist.sent + 1 \in Nat /\ Stats \notin Own
      /\ persist.step \in {"start", "chunk", "commit"}
  <2>1. day > 0 /\ day \in 0..Days /\ persist.step \in {"start", "chunk", "commit"}
        /\ persist.sent + 1 \in Nat
    BY UploadParts DEF TypeInv
  <2>2. Days # 0
    BY <2>1, ClientsAssumption, LenProperties DEF Days
  <2> QED BY <2>1, <2>2, UploadParts, PersistPlanTypes, Sizes, StorageAssumption DEF Own
<1>2. header \in GoodHeaders \union {NoHeader} /\ flash \in [Targets -> [1..Capacity -> SUBSET Documents]]
  BY UploadParts, Types
<1>3. CASE persist.step = "start"
  <2> DEFINE p == StartUpload(Stats, n, StatsSession)
  <2>1. PersistPlan = p
    BY <1>3 DEF PersistPlan
  <2> HIDE DEF d, n
  <2>2. p.effects # << >>
    BY <2>1
  <2>3. /\ Final(p.effects).meta = HeaderOrDefault.meta
        /\ Final(p.effects).upload.session = StatsSession
        /\ \A t : Touches(p.effects, t) => t = Stats
    <3> DEFINE x == Stats
               z == StatsSession
    <3>1. x \in Targets /\ n \in 0..Capacity /\ z \in AllSessions
      BY <1>1
    <3>2. StartUpload(x, n, z).effects # << >>
      BY <2>2
    <3> HIDE DEF x, z
    <3>3. Final(StartUpload(x, n, z).effects).meta = HeaderOrDefault.meta
      BY <3>1, <3>2, <1>2, StartedHeader
    <3>4. Final(StartUpload(x, n, z).effects).upload =
             [target |-> x, size |-> n, written |-> 0, session |-> z]
      BY <3>1, <3>2, <1>2, StartedHeader
    <3>5. \A t : Touches(StartUpload(x, n, z).effects, t) => t = x
      BY <3>1, <3>2, <1>2, StartedHeader
    <3> QED BY <3>3, <3>4, <3>5 DEF x, z
  <2>4. Truthful(Final(p.effects))
    <3> HIDE DEF p
    <3> QED BY <2>3, CurrentIsTruthful, TruthfulParts
  <2> HIDE DEF p
  <2> QED BY <2>1, <2>3, <2>4
<1>4. CASE persist.step = "chunk"
  <2> DEFINE i == persist.sent + 1
             p == WriteUploadChunk(Stats, i, d, StatsSession)
  <2>1. PersistPlan = p
    BY <1>4 DEF PersistPlan
  <2> HIDE DEF d, n
  <2>2. p.effects # << >> /\ i \in Nat
    BY <2>1, <1>1
  <2> HIDE DEF i
  <2>3. /\ header # NoHeader /\ Final(p.effects).meta = header.meta
        /\ OpenUpload(Final(p.effects), Stats, StatsSession)
        /\ \A t : Touches(p.effects, t) => t = Stats
    BY <1>1, <1>2, <2>2, ChunkPlan
  <2>4. Truthful(Final(p.effects))
    <3> HIDE DEF p
    <3> QED BY <2>3, UploadParts, TruthfulParts
  <2> HIDE DEF p
  <2> QED BY <2>1, <2>3, <2>4 DEF OpenUpload
<1>5. CASE persist.step = "commit"
  <2> DEFINE p == CommitUpload(Stats, StatsSession)
             m == [size |-> header.upload.size, hash |-> Content(Stats, header.upload.size)]
  <2>1. PersistPlan = p
    BY <1>5 DEF PersistPlan
  <2>2. p.effects # << >>
    BY <2>1
  <2>3. /\ header # NoHeader /\ Final(p.effects).meta = [header.meta EXCEPT ![Stats] = m]
        /\ Final(p.effects).upload = NoUpload
        /\ \A t : ~Touches(p.effects, t)
    BY <1>1, <1>2, <2>2, CommitPlan
  <2>4. Truthful(Final(p.effects))
    <3> HIDE DEF p, m
    <3>1. header.meta = [x \in Targets |-> header.meta[x]] /\ Truthful(header)
      BY <1>2, <2>3, GoodParts, UploadParts
    <3>2. Stats \in Targets \ Own
      BY <1>1
    <3> QED BY <2>3, <3>1, <3>2, TruthfulParts
  <2> HIDE DEF p
  <2> QED BY <2>1, <2>3, <2>4, NoSessionIsOpen
<1> QED BY <1>1, <1>3, <1>4, <1>5

LEMMA PersistCallKeepsUploads ==
  ASSUME UploadInv, TypeInv', PersistCall
  PROVE  UploadInv'
<1> DEFINE q == PersistPlan.effects
<1>1. persist # Resting /\ Call("loop", PersistPlan) /\ UNCHANGED httpVars
  BY DEF PersistCall
<1>2. /\ flash' = flash /\ header' = header /\ todo["loop"] = << >> /\ todo'["loop"] = q
      /\ todo'["httpd"] = todo["httpd"] /\ up' = up /\ used' = used /\ serving' = serving /\ jobs' = jobs
  <2>1. "httpd" \in Actors /\ "loop" \in Actors /\ WellFormed(q)
    BY <1>1, PersistPlanTypes, UploadParts DEF Actors
  <2> QED BY <1>1, <2>1, UploadParts, CallStep DEF httpVars
<1>3. Days # 0
  <2>1. day > 0 /\ day \in 0..Days
    BY <1>1, UploadParts DEF TypeInv
  <2> QED BY <2>1, ClientsAssumption, LenProperties DEF Days
<1>4. q # << >> => /\ Truthful(Final(q))
                   /\ Final(q).upload.session \in {StatsSession, NoSession}
                   /\ \A t : Touches(q, t) => t = Stats
  BY <1>1, LoopPlan
<1> HIDE DEF q
<1>5. \A t \in Targets : Touches(q, t) => t = Stats
  BY <1>4, NoEffects
<1> QED BY <1>2, <1>3, <1>4, <1>5, UploadParts, UploadPartsNext

LEMMA PersistAdvanceKeepsUploads ==
  ASSUME UploadInv, TypeInv', PersistAdvance
  PROVE  UploadInv'
<1> DEFINE q == todo["loop"]
<1>1. Advance("loop") /\ UNCHANGED httpVars
  BY DEF PersistAdvance
<1>a. "httpd" \in Actors /\ "loop" \in Actors
  BY DEF Actors
<1>2. /\ todo'["httpd"] = todo["httpd"] /\ todo'["loop"] = Tail(q) /\ WellFormed(q) /\ q # << >>
      /\ Len(q) \in {1, 2, 3, 4}
  BY <1>1, <1>a, UploadParts, AdvanceTodo, AdvanceStep
<1>3. up' = up /\ used' = used /\ serving' = serving /\ jobs' = jobs
  BY <1>1 DEF httpVars
<1>4. /\ Truthful(Final(q)) /\ Final(q).upload.session \in {StatsSession, NoSession}
      /\ Days # 0 /\ \A t \in Targets : Touches(q, t) => t = Stats
  BY <1>2, UploadParts
<1>5. /\ header' \in {header, NoHeader, Final(q)}
      /\ \A t \in Own : flash'[t] = flash[t]
  <2>1. CASE Len(q) = 1
    BY <1>1, <1>a, <2>1, UploadParts, AdvanceWrites
  <2>2. CASE Len(q) = 2
    BY <1>1, <1>a, <2>2, UploadParts, AdvanceErases
  <2>3. CASE Len(q) \in {3, 4}
    <3> DEFINE e == Head(q)
    <3>1. e = Head(q)
      OBVIOUS
    <3>2. Touches(q, e.target)
      BY <1>2, <2>3, NextEffect
    <3> HIDE DEF e
    <3>3. /\ e \in PayloadEffects /\ header' = header
          /\ \A t \in Targets : t # e.target => flash'[t] = flash[t]
      BY <1>1, <1>a, <2>3, <3>1, UploadParts, AdvancePayload
    <3>4. e.target = Stats
      BY <3>2, <3>3, <1>4, PayloadEffectTypes
    <3> QED BY <3>3, <3>4, <1>4, Targeted
  <2> QED BY <1>2, <2>1, <2>2, <2>3
<1>6. ASSUME NEW t \in Targets, Touches(Tail(q), t) PROVE t = Stats
  <2>1. CASE Len(q) \in {3, 4}
    <3>1. Touches(q, t)
      BY <1>2, <1>6, <2>1, NextEffect
    <3> QED BY <3>1, <1>4
  <2>2. CASE Len(q) = 1
    <3>1. Tail(q) = << >>
      BY <1>2, <2>2, NextEffect
    <3> QED BY <3>1, <1>6, NoEffects
  <2>3. CASE Len(q) = 2
    <3> DEFINE p == Tail(q)
    <3>1. Len(p) \in {1, 2}
      BY <1>2, <2>3, NextEffect
    <3> HIDE DEF p
    <3>2. ~Touches(p, t)
      BY <3>1, TouchesNothing
    <3> QED BY <3>2, <1>6 DEF p
  <2> QED BY <1>2, <2>1, <2>2, <2>3
<1>7. Tail(q) # << >> => Final(Tail(q)) = Final(q)
  BY <1>2, NextEffect
<1>8. ASSUME NEW c \in Dashboards
      PROVE  Coherent(header', flash', todo'["httpd"], serving', up'[c])
  <2> DEFINE u == up[c]
             i == header'
             g == flash'
             r == todo["httpd"]
  <2>1. Coherent(header, flash, r, serving, u)
    BY UploadParts
  <2>2. u = NotUploading \/ (u.target \in Targets /\ u.session # NoSession /\ u.session # StatsSession)
    BY UploadParts, Uploading, Sizes
  <2>3. CASE u = NotUploading
    <3> HIDE DEF u
    <3>1. Coherent(i, g, r, serving, NotUploading)
      BY NothingUploaded
    <3> QED BY <1>2, <1>3, <2>3, <3>1 DEF u
  <2>4. CASE u # NotUploading
    <3>1. i # NoHeader /\ i # header => i.upload.session # u.session
      BY <1>4, <1>5, <2>2, <2>4
    <3>2. \A t \in Own : g[t] = flash[t]
      BY <1>5
    <3> HIDE DEF u, i, g, r
    <3>3. Coherent(i, g, r, serving, u)
      BY <2>1, <2>2, <3>1, <3>2, LoopWrites
    <3> QED BY <1>2, <1>3, <3>3 DEF u, i, g, r
  <2> QED BY <2>3, <2>4
<1>9. /\ header' # NoHeader => Truthful(header')
      /\ header' # NoHeader => header'.upload.session \in used \union {StatsSession, NoSession}
  BY <1>4, <1>5, UploadParts
<1> HIDE DEF q
<1> QED BY <1>2, <1>3, <1>4, <1>6, <1>7, <1>8, <1>9, UploadParts, UploadPartsNext

LEMMA PersistFailsKeepsUploads ==
  ASSUME UploadInv, TypeInv', PersistFails
  PROVE  UploadInv'
<1>1. GiveUp("loop") /\ UNCHANGED httpVars
  BY DEF PersistFails
<1>2. /\ flash' = flash /\ header' = header /\ todo'["loop"] = << >> /\ todo'["httpd"] = todo["httpd"]
  <2>1. "httpd" \in Actors /\ "loop" \in Actors
    BY DEF Actors
  <2> QED BY <1>1, <2>1, UploadParts, GiveUpStep
<1>3. up' = up /\ used' = used /\ serving' = serving /\ jobs' = jobs
  BY <1>1 DEF httpVars
<1> QED BY <1>2, <1>3, NoEffects, UploadParts, UploadPartsNext

LEMMA UploadStep ==
  ASSUME Careful, UploadInv, [Next]_vars
  PROVE  UploadInv'
<1>0. TypeInv'
  BY UploadParts, TypeStep
<1>1. ASSUME NEW b \in Dashboards, NEW u \in Uploads, BeginUpload(b, u[1], u[2]) PROVE UploadInv'
  BY <1>0, <1>1, BeginKeepsUploads
<1>2. ASSUME NEW b \in Dashboards, Abandon(b) PROVE UploadInv'
  BY <1>0, <1>2, AbandonKeepsUploads
<1>3. ASSUME NEW b \in Dashboards, ServeUpload(b) PROVE UploadInv'
  BY <1>0, <1>3, ServeKeepsUploads
<1>4. ASSUME NEW d \in Patches, Patch(d) PROVE UploadInv'
  BY <1>0, <1>4, PatchKeepsUploads
<1>5. ASSUME NEW calls \in Deletions, Delete(calls) PROVE UploadInv'
  BY <1>0, <1>5, DeleteKeepsUploads
<1>6. CASE DeleteNext
  BY <1>0, <1>6, DeleteNextKeepsUploads
<1>7. CASE HttpAdvance
  BY <1>0, <1>7, AdvanceKeepsUploads
<1>8. CASE HttpFails
  BY <1>0, <1>8, HttpFailsKeepsUploads
<1>9. CASE EndDay
  BY <1>0, <1>9, EndDayKeepsUploads DEF EndDay, storageVars, httpVars
<1>10. CASE PersistCall
  BY <1>0, <1>10, PersistCallKeepsUploads
<1>11. CASE PersistAdvance
  BY <1>0, <1>11, PersistAdvanceKeepsUploads
<1>12. CASE PersistFails
  BY <1>0, <1>12, PersistFailsKeepsUploads
<1>13. CASE Reboot
  BY <1>0, <1>13, RebootKeepsUploads
<1>14. CASE UNCHANGED vars
  BY <1>0, <1>14, EndDayKeepsUploads DEF vars, storageVars, httpVars
<1> QED BY <1>1, <1>2, <1>3, <1>4, <1>5, <1>6, <1>7, <1>8, <1>9, <1>10, <1>11, <1>12, <1>13, <1>14
        DEF Next

LEMMA InitUploads == Init => UploadInv
<1> SUFFICES ASSUME Init PROVE UploadInv
  OBVIOUS
<1>1. /\ TypeInv /\ header = NoHeader /\ serving = NotServing /\ jobs = << >>
      /\ \A a \in Actors : todo[a] = << >>
      /\ \A b \in Dashboards : up[b] = NotUploading
  BY InitTypes DEF Init, StorageInit
<1>2. \A b \in Dashboards : Coherent(header, flash, todo["httpd"], serving, up[b])
  BY <1>1, NothingUploaded
<1>3. SessionsAreFresh
  BY <1>1, NoSessionIsOpen DEF SessionsAreFresh
<1>4. LoopStaysApart
  BY <1>1, NoEffects DEF LoopStaysApart, Actors
<1>5. OthersSpareUploads
  <2>1. \A i \in DOMAIN jobs : FALSE
    BY <1>1, EmptySeq, LenProperties
  <2> QED BY <1>1, <2>1, NoEffects DEF OthersSpareUploads, Touched, Actors
<1> QED BY <1>1, <1>2, <1>3, <1>4, <1>5 DEF UploadInv

\* Under the conditions of Careful, whatever the dashboards upload, patch and
\* delete, whatever the main loop writes in between, wherever calls fail and
\* the power is lost: what a readable header says of a target that only the
\* HTTP task writes is nothing, or the hash of one of the documents.  So a
\* reader that compares hashes finds a whole document, nothing, or damage.
THEOREM CommitsAreNotForged ==
  ASSUME Careful
  PROVE  Spec => []NothingForged
<1>1. UploadInv => NothingForged
  <2> SUFFICES ASSUME UploadInv, header # NoHeader, NEW t \in Targets \ {Stats}
               PROVE  Visible(header, t) \in Documents \union {Nothing, Damage}
    BY DEF NothingForged
  <2>1. t \in Own /\ Truthful(header)
    BY UploadParts DEF Own
  <2>2. CASE header.meta[t] = NoPayload
    BY <2>2 DEF Visible, NoPayload
  <2>3. CASE header.meta[t] # NoPayload
    <3>1. PICK d \in Documents : header.meta[t] = Stored(d)
      BY <2>1, <2>3 DEF Truthful
    <3>2. header.meta[t].hash = Whole(d)
      BY <3>1 DEF Stored
    <3>3. (CHOOSE e \in Documents : header.meta[t].hash = Whole(e)) \in Documents
      BY <3>2
    <3> QED BY <3>2, <3>3 DEF Visible
  <2> QED BY <2>2, <2>3
<1>2. UploadInv /\ [Next]_vars => UploadInv'
  BY UploadStep
<1> QED BY <1>1, <1>2, InitUploads, PTL DEF Spec

-----------------------------------------------------------------------------
(* The next header, for the HTTP task alone.                                 *)

LEMMA LoopRests ==
  ASSUME UploadInv, Days = 0
  PROVE  /\ todo["loop"] = << >> /\ persist = Resting
         /\ ~EndDay /\ ~PersistCall /\ ~PersistAdvance /\ ~PersistFails
         /\ Own = Targets
<1>1. persist = Resting /\ ~(day < Days)
  BY UploadParts DEF TypeInv
<1>2. todo["loop"] = << >>
  BY UploadParts
<1> QED BY <1>1, <1>2 DEF EndDay, PersistCall, PersistAdvance, PersistFails, Advance, GiveUp, Idle, Own

\* The steps of the HTTP task, as far as the partition is concerned.
Rests == todo'["httpd"] = todo["httpd"] /\ flash' = flash /\ header' = header
Begins(plan) ==
    todo["httpd"] = << >> /\ todo'["httpd"] = plan.effects /\ flash' = flash /\ header' = header
Breaks == todo'["httpd"] = << >> /\ flash' = flash /\ header' = header

LEMMA CallBegins ==
  ASSUME TypeInv, NEW plan, WellFormed(plan.effects), Call("httpd", plan)
  PROVE  Begins(plan)
<1>1. "httpd" \in Actors
  BY DEF Actors
<1> QED BY <1>1, CallStep DEF Begins

LEMMA HttpSteps ==
  ASSUME UploadInv, Days = 0, [Next]_vars
  PROVE  \/ Rests
         \/ \E b \in Dashboards : \E r \in NextRequests(up[b]) :
               /\ ServeUpload(b) /\ up[b] # NotUploading
               /\ Begins(PlanFor(up[b], r)) /\ PlanFor(up[b], r).effects # << >>
         \/ \E d \in Patches : Patch(d) /\ header # NoHeader /\ Begins(WritePayload(Patchable, d))
         \/ DeleteNext /\ Head(jobs) \in DeleteCalls /\ Begins(DeletePayloads(Head(jobs)))
         \/ HttpAdvance
         \/ Breaks /\ (HttpFails \/ Reboot)
<1>1. ASSUME NEW b \in Dashboards, NEW u \in Uploads, BeginUpload(b, u[1], u[2]) PROVE Rests
  BY <1>1 DEF BeginUpload, storageVars, Rests
<1>2. ASSUME NEW b \in Dashboards, Abandon(b) PROVE Rests
  BY <1>2 DEF Abandon, storageVars, Rests
<1>3. ASSUME NEW b \in Dashboards, ServeUpload(b)
      PROVE  \/ Rests
             \/ \E r \in NextRequests(up[b]) :
                   Begins(PlanFor(up[b], r)) /\ PlanFor(up[b], r).effects # << >>
  <2>1. PICK r \in NextRequests(up[b]) : Call("httpd", PlanFor(up[b], r))
    BY <1>3 DEF ServeUpload
  <2>2. up[b] # NotUploading
    BY <1>3 DEF ServeUpload
  <2>3. Begins(PlanFor(up[b], r))
    BY <2>1, <2>2, UploadPlanTypes, UploadParts, CallBegins
  <2> DEFINE p == PlanFor(up[b], r)
  <2> HIDE DEF p
  <2>4. p.effects = << >> /\ Begins(p) => Rests
    BY DEF Begins, Rests
  <2> QED BY <2>3, <2>4 DEF p
<1>4. ASSUME NEW d \in Patches, Patch(d)
      PROVE  header # NoHeader /\ Begins(WritePayload(Patchable, d))
  <2>1. Patchable \in Targets /\ d \in Documents
    BY ClientsAssumption
  <2>2. header \in GoodHeaders \union {NoHeader}
    BY UploadParts, Types
  <2>3. WellFormed(WritePayload(Patchable, d).effects)
    BY <2>1, <2>2, WritePlan
  <2> QED BY <1>4, <2>3, UploadParts, CallBegins DEF Patch
<1>5. ASSUME NEW calls \in Deletions, Delete(calls) PROVE Rests
  BY <1>5 DEF Delete, storageVars, Rests
<1>6. ASSUME DeleteNext PROVE Head(jobs) \in DeleteCalls /\ Begins(DeletePayloads(Head(jobs)))
  <2>1. jobs \in Seq(DeleteCalls) /\ jobs # << >>
    BY <1>6, UploadParts DEF DeleteNext, TypeInv
  <2>2. Head(jobs) \in DeleteCalls
    BY <2>1, HeadTailProperties
  <2>3. header \in GoodHeaders \union {NoHeader}
    BY UploadParts, Types
  <2>4. WellFormed(DeletePayloads(Head(jobs)).effects)
    BY <2>2, <2>3, DeletePlan
  <2> QED BY <1>6, <2>2, <2>4, UploadParts, CallBegins DEF DeleteNext
<1>7. HttpFails => Breaks
  BY UploadParts, GiveUpStep DEF HttpFails, Breaks, Actors
<1>8. Reboot => Breaks
  BY DEF Reboot, PowerLoss, Breaks, Actors
<1>9. UNCHANGED vars => Rests
  BY DEF vars, storageVars, Rests
<1> QED BY <1>1, <1>2, <1>3, <1>4, <1>5, <1>6, <1>7, <1>8, <1>9, LoopRests DEF Next, ServeUpload

LEMMA NothingSucceeds == ASSUME NEW m, NEW f PROVE Succeeds(m, f, << >>) /\ ~(Len(<< >>) = 1)
BY EmptySeq, LenProperties DEF Succeeds

\* The effects q commit the upload u.
Commits(u, q) ==
    /\ Len(q) = 2 /\ header # NoHeader /\ header.upload.target = u.target
    /\ Final(q).meta = [header.meta EXCEPT ![u.target] = Stored(u.document)]
    /\ Final(q).upload = NoUpload
    /\ Final(q).last = [target |-> u.target, session |-> u.session]
    /\ InFlash(flash, u.target, u.document)

\* A commit hashes what was received.
LEMMA CommitsWhatIsThere ==
  ASSUME UploadInv, Careful, NEW b \in Dashboards, up[b] # NotUploading, Idle("httpd"),
         up[b].target \in Own, NEW r \in NextRequests(up[b]), r.kind = "commit",
         NEW q, q = PlanFor(up[b], r).effects, q # << >>
  PROVE  Commits(up[b], q)
<1> DEFINE u == up[b]
           t == up[b].target
           d == up[b].document
           s == up[b].session
           n == header.upload.size
           p == CommitUpload(t, s)
<1>1. /\ t \in Targets /\ d \in Documents /\ s \in AllSessions /\ s # NoSession
      /\ Cells[d] \in Nat /\ u.received = 1..Cells[d]
  BY UploadParts, Uploading, Sizes, RequestTypes DEF Careful
<1>2. header \in GoodHeaders \union {NoHeader} /\ flash \in [Targets -> [1..Capacity -> SUBSET Documents]]
  BY UploadParts, Types
<1>3. PlanFor(u, r) = p
  BY PlanKinds
<1>4. p.effects # << >> /\ q = p.effects
  BY <1>3
<1>5. /\ Len(p.effects) = 2 /\ header # NoHeader /\ OpenUpload(header, t, s)
      /\ Final(p.effects).meta = [header.meta EXCEPT ![t] = [size |-> n, hash |-> Content(t, n)]]
      /\ Final(p.effects).upload = NoUpload
      /\ Final(p.effects).last = [target |-> t, session |-> s]
  BY <1>1, <1>2, <1>4, CommitPlan
<1>6. Carries(header, u)
  BY <1>5 DEF Carries, OpenUpload
<1>7. Coherent(header, flash, << >>, NotServing, u)
  BY UploadParts DEF Idle
<1>8. Agrees(header, u) /\ Filled(flash, u, u.received)
  BY <1>1, <1>6, <1>7, NoSessionIsOpen DEF Coherent, OpenIsFilled
<1>9. n = Cells[d] /\ \A i \in 1..Cells[d] : flash[t][i] = {d}
  BY <1>1, <1>8 DEF Agrees, Filled
<1>10. [size |-> n, hash |-> Content(t, n)] = Stored(d)
  BY <1>9 DEF Stored, Whole, Content
<1> HIDE DEF p, t, d, s, u
<1>11. InFlash(flash, t, d)
  BY <1>9 DEF InFlash
<1> QED BY <1>4, <1>5, <1>10, <1>11 DEF u, t, d, s, OpenUpload, Commits

LEMMA UploadsSucceed ==
  ASSUME UploadInv, Careful, Days = 0, NEW b \in Dashboards, up[b] # NotUploading, Idle("httpd"),
         NEW r \in NextRequests(up[b]), NEW q, q = PlanFor(up[b], r).effects, q # << >>
  PROVE  Succeeds(HeaderOrDefault.meta, flash, q) /\ Len(q) # 1
<1> DEFINE u == up[b]
           t == up[b].target
           d == up[b].document
           s == up[b].session
           n == Cells[d]
<1>1. /\ t \in Targets /\ d \in Documents /\ s \in AllSessions /\ n \in 0..Capacity
  BY UploadParts, Uploading, Sizes, StorageAssumption
<1>2. r.kind \in {"start", "chunk", "commit"} /\ r.cell \in Nat
  BY UploadParts, RequestTypes DEF Requests
<1>3. header \in GoodHeaders \union {NoHeader} /\ flash \in [Targets -> [1..Capacity -> SUBSET Documents]]
  BY UploadParts, Types
<1>4. ASSUME Final(q).meta = HeaderOrDefault.meta PROVE Succeeds(HeaderOrDefault.meta, flash, q)
  BY <1>4 DEF Succeeds, Deletes
<1>5. CASE r.kind = "start"
  <2>1. q = StartUpload(t, n, s).effects
    BY <1>5, PlanKinds
  <2> HIDE DEF t, d, s, u, n
  <2>a. t \in Targets /\ s \in AllSessions /\ n \in 0..Capacity /\ StartUpload(t, n, s).effects # << >>
    BY <2>1, <1>1
  <2>b. Len(StartUpload(t, n, s).effects) = 3
    BY <2>a, <1>3, StartedHeader
  <2>c. Final(StartUpload(t, n, s).effects).meta = HeaderOrDefault.meta
    BY <2>a, <1>3, StartedHeader
  <2> QED BY <2>1, <2>b, <2>c, <1>4
<1>6. CASE r.kind = "chunk"
  <2>1. q = WriteUploadChunk(t, r.cell, d, s).effects
    BY <1>6, PlanKinds
  <2> HIDE DEF t, d, s, u, n
  <2>2. Len(q) = 3 /\ header # NoHeader /\ Final(q).meta = header.meta
    BY <2>1, <1>1, <1>2, <1>3, ChunkPlan
  <2> QED BY <2>2, <1>4 DEF HeaderOrDefault
<1>7. CASE r.kind = "commit"
  <2>0. up[b].target \in Own
    BY <1>1, LoopRests
  <2>1. /\ Len(q) = 2 /\ header # NoHeader
        /\ Final(q).meta = [header.meta EXCEPT ![up[b].target] = Stored(up[b].document)]
        /\ InFlash(flash, up[b].target, up[b].document)
    <3>1. Commits(up[b], q)
      BY <1>7, <2>0, CommitsWhatIsThere
    <3> QED BY <3>1 DEF Commits
  <2>2. Completes(HeaderOrDefault.meta, Final(q).meta, flash, q, t, d)
    BY <2>1 DEF Completes, HeaderOrDefault
  <2> HIDE DEF t, d
  <2> QED BY <1>1, <2>1, <2>2 DEF Succeeds
<1> QED BY <1>2, <1>5, <1>6, <1>7

LEMMA PatchSucceeds ==
  ASSUME UploadInv, NEW d \in Patches, NEW q, q = WritePayload(Patchable, d).effects
  PROVE  Succeeds(HeaderOrDefault.meta, flash, q) /\ Len(q) # 1
<1>1. Patchable \in Targets /\ d \in Documents /\ header \in GoodHeaders \union {NoHeader}
  BY ClientsAssumption, UploadParts, Types
<1>2. /\ Len(q) = 4 /\ Head(q) = Erase(Patchable, Cells[d])
      /\ Head(Tail(q)) = Program(Patchable, 1..Cells[d], d)
  BY <1>1, WritePlan
<1>3. Final(q).meta = [HeaderOrDefault.meta EXCEPT ![Patchable] = Stored(d)]
  BY <1>1, WritePlan
<1>4. Completes(HeaderOrDefault.meta, Final(q).meta, flash, q, Patchable, d)
  BY <1>2, <1>3 DEF Completes
<1> QED BY <1>1, <1>2, <1>4 DEF Succeeds

LEMMA DeleteSucceeds ==
  ASSUME UploadInv, NEW ts \in DeleteCalls, NEW q, q = DeletePayloads(ts).effects
  PROVE  Succeeds(HeaderOrDefault.meta, flash, q) /\ Len(q) # 1
<1>1. header \in GoodHeaders \union {NoHeader}
  BY UploadParts, Types
<1>2. /\ Len(q) \in {2, 3, 4}
      /\ Final(q).meta = [t \in Targets |-> IF t \in Gone(ts) THEN NoPayload ELSE HeaderOrDefault.meta[t]]
  BY <1>1, DeletePlan
<1>3. Deletes(HeaderOrDefault.meta, Final(q).meta)
  BY <1>2 DEF Deletes
<1> QED BY <1>2, <1>3 DEF Succeeds

LEMMA EffectSucceeds ==
  ASSUME NEW m, NEW f, NEW q, WellFormed(q), q # << >>, Len(q) \in {3, 4}, Succeeds(m, f, q),
         NEW e, e = Head(q), NEW g, Flashed(f, g, e)
  PROVE  Succeeds(m, g, Tail(q)) /\ ~(Len(Tail(q)) = 1)
<1> DEFINE p == Tail(q)
           n == Final(q).meta
<1>1. /\ Final(p) = Final(q)
      /\ Len(q) = 3 => Len(p) = 2
      /\ Len(q) = 4 => Len(p) = 3
      /\ Head(p) = Head(Tail(q))
  BY NextEffect
<1>2. CASE Deletes(m, n)
  BY <1>1, <1>2 DEF Succeeds
<1>3. CASE \E t \in Targets, d \in Documents : Completes(m, n, f, q, t, d)
  <2>1. PICK t \in Targets, d \in Documents : Completes(m, n, f, q, t, d)
    BY <1>3
  <2>2. Cells[d] \in Nat /\ \A i \in 1..Cells[d] : i \in 1..Capacity
    BY Sizes
  <2>3. CASE Len(q) = 3
    <3>1. /\ n = [m EXCEPT ![t] = Stored(d)]
          /\ \A i \in 1..Cells[d] : f[t][i] = {}
          /\ e = Program(t, 1..Cells[d], d)
      BY <2>1, <2>3 DEF Completes
    <3>2. /\ e.target = t /\ e.do = "program" /\ e.cells = 1..Cells[d] /\ e.document = d
      BY <3>1 DEF Program
    <3>3. InFlash(g, t, d)
      <4>1. ASSUME NEW i \in 1..Cells[d] PROVE g[t][i] = {d}
        <5>1. g[t][i] = f[t][i] \union {d}
          BY <3>2, <2>2 DEF Flashed
        <5> QED BY <5>1, <3>1
      <4> QED BY <4>1 DEF InFlash
    <3> HIDE DEF p
    <3>4. Len(p) = 2
      BY <1>1, <2>3
    <3>5. Completes(m, n, g, p, t, d)
      BY <3>1, <3>3, <3>4 DEF Completes
    <3>6. Succeeds(m, g, p)
      BY <3>5, <1>1 DEF Succeeds
    <3> QED BY <3>4, <3>6 DEF p
  <2>4. CASE Len(q) = 4
    <3>1. /\ n = [m EXCEPT ![t] = Stored(d)]
          /\ e = Erase(t, Cells[d]) /\ Head(p) = Program(t, 1..Cells[d], d)
      BY <2>1, <2>4 DEF Completes
    <3>2. e.target = t /\ e.do = "erase" /\ e.cells = 1..RoundUpSector(Cells[d])
      BY <3>1 DEF Erase
    <3>3. \A i \in 1..Cells[d] : i \in e.cells
      BY <3>2, <2>2, RoundedUp
    <3>4. \A i \in 1..Cells[d] : g[t][i] = {}
      BY <3>2, <3>3, <2>2 DEF Flashed
    <3> HIDE DEF p
    <3>5. Len(p) = 3
      BY <1>1, <2>4
    <3>6. Completes(m, n, g, p, t, d)
      BY <3>1, <3>4, <3>5 DEF Completes
    <3>7. Succeeds(m, g, p)
      BY <3>6, <1>1 DEF Succeeds
    <3> QED BY <3>5, <3>7 DEF p
  <2> QED BY <2>3, <2>4
<1>4. Deletes(m, n) \/ \E t \in Targets, d \in Documents : Completes(m, n, f, q, t, d)
  <2>1. Len(q) \in {2, 3, 4}
    OBVIOUS
  <2> QED BY <2>1 DEF Succeeds
<1> QED BY <1>2, <1>3, <1>4

LEMMA SuccessionStep ==
  ASSUME Careful, Days = 0, UploadInv, SuccessionInv, [Next]_vars
  PROVE  SuccessionInv'
<1> DEFINE q == todo["httpd"]
           m == HeaderOrDefault.meta
<1>m. header' = header => HeaderOrDefault' = HeaderOrDefault
  BY DEF HeaderOrDefault
<1>1. ASSUME Succeeds(m, flash, todo'["httpd"]), flash' = flash, header' = header,
             Len(todo'["httpd"]) = 1 => header = NoHeader
      PROVE  SuccessionInv'
  BY <1>1, <1>m DEF SuccessionInv
<1>2. CASE Rests
  BY <1>1, <1>2 DEF Rests, SuccessionInv
<1>3. ASSUME NEW b \in Dashboards, NEW r \in NextRequests(up[b]), up[b] # NotUploading,
             Begins(PlanFor(up[b], r)), PlanFor(up[b], r).effects # << >>
      PROVE  SuccessionInv'
  <2> DEFINE p == PlanFor(up[b], r).effects
  <2>1. Idle("httpd") /\ todo'["httpd"] = p /\ flash' = flash /\ header' = header
    BY <1>3 DEF Begins, Idle
  <2>2. Succeeds(m, flash, p) /\ Len(p) # 1
    BY <1>3, <2>1, UploadsSucceed
  <2> QED BY <1>1, <2>1, <2>2
<1>4. ASSUME NEW d \in Patches, Begins(WritePayload(Patchable, d)) PROVE SuccessionInv'
  BY <1>1, <1>4, PatchSucceeds DEF Begins
<1>5. ASSUME Head(jobs) \in DeleteCalls, Begins(DeletePayloads(Head(jobs))) PROVE SuccessionInv'
  BY <1>1, <1>5, DeleteSucceeds DEF Begins
<1>6. CASE Breaks
  BY <1>1, <1>6, NothingSucceeds DEF Breaks
<1>7. CASE HttpAdvance
  <2>1. Advance("httpd") /\ "httpd" \in Actors
    BY <1>7 DEF HttpAdvance, Actors
  <2> DEFINE p == Tail(q)
  <2>2. WellFormed(q) /\ q # << >> /\ todo'["httpd"] = p
    BY <2>1, UploadParts, AdvanceTodo
  <2>3. /\ Len(q) \in {1, 2, 3, 4}
        /\ Len(q) = 2 => Len(p) = 1
        /\ Len(q) = 1 => p = << >>
    BY <2>2, NextEffect
  <2>4. CASE Len(q) = 1
    BY <2>2, <2>3, <2>4, NothingSucceeds DEF SuccessionInv
  <2>5. CASE Len(q) = 2
    <3>1. header' = NoHeader
      BY <2>1, <2>5, UploadParts, AdvanceErases
    <3>2. Len(p) = 1
      BY <2>3, <2>5
    <3> HIDE DEF q, p
    <3>3. Succeeds(HeaderOrDefault'.meta, flash', p)
      BY <3>2 DEF Succeeds
    <3> QED BY <2>2, <3>1, <3>2, <3>3 DEF SuccessionInv
  <2>6. CASE Len(q) \in {3, 4}
    <3> DEFINE e == Head(q)
    <3>1. e = Head(q)
      OBVIOUS
    <3>2. header' = header /\ Flashed(flash, flash', e)
      BY <2>1, <2>6, <3>1, UploadParts, AdvancePayload DEF Flashed
    <3>3. Succeeds(m, flash, q)
      BY DEF SuccessionInv
    <3> DEFINE g == flash'
    <3>4. Flashed(flash, g, e)
      BY <3>2
    <3> HIDE DEF q, e, m, g
    <3>5. Succeeds(m, g, p) /\ ~(Len(p) = 1)
      BY <2>2, <2>6, <3>1, <3>3, <3>4, EffectSucceeds
    <3> HIDE DEF p
    <3> QED BY <2>2, <3>2, <3>5, <1>m DEF SuccessionInv, m, g
  <2> QED BY <2>3, <2>4, <2>5, <2>6
<1> QED BY <1>2, <1>3, <1>4, <1>5, <1>6, <1>7, HttpSteps

-----------------------------------------------------------------------------
(* What a reader finds, for the HTTP task alone.                             *)

\* What a reader that compares hashes makes of the payloads m in flash f.
Look(m, f, t) ==
    IF m[t].size = 0 THEN Nothing
    ELSE IF m[t].hash # [i \in 1..m[t].size |-> f[t][i]] THEN Damage
    ELSE IF \E d \in Documents : m[t].hash = Whole(d)
         THEN CHOOSE d \in Documents : m[t].hash = Whole(d)
    ELSE m[t].hash

\* The payloads of the header in force.
Meta(h, q) ==
    IF h # NoHeader THEN h.meta ELSE IF Len(q) = 1 THEN Final(q).meta ELSE DefaultHeader.meta

Sees(h, f, q) == [t \in Targets |-> Look(Meta(h, q), f, t)]

\* What the step of PayloadStore may make of v.
Spoiled(v, w, t) == w = [v EXCEPT ![t] = Damage]
Completed(v, w, t, d) == v[t] \in {Nothing, Damage} /\ w = [v EXCEPT ![t] = d]
Forgotten(v, w, ts) == w = [t \in Targets |-> IF t \in ts THEN Nothing ELSE v[t]]
StoreStep(v, w) ==
    \/ w = v
    \/ \E t \in Targets : Spoiled(v, w, t)
    \/ \E t \in Targets, d \in Documents : Completed(v, w, t, d)
    \/ \E ts \in SUBSET Targets : Forgotten(v, w, ts)

LEMMA HeaderInForce ==
  ASSUME NEW q, WellFormed(q)
  PROVE  /\ q # << >> /\ Head(q).do = "write header" <=> Len(q) = 1
         /\ Len(q) = 1 => Head(q).header = Final(q)
<1>1. CASE q = << >>
  BY <1>1, EmptySeq, LenProperties
<1>2. CASE q # << >>
  <2>1. /\ Len(q) \in {1, 2, 3, 4}
        /\ Len(q) = 1 => Head(q) = WriteHeader(Final(q))
        /\ Len(q) = 2 => Head(q) = HeaderErase
        /\ Len(q) \in {3, 4} => Head(q) \in PayloadEffects
    BY <1>2, NextEffect
  <2>2. Len(q) \in {3, 4} => Head(q).do \in {"erase", "program"}
    BY <2>1, PayloadEffectTypes
  <2> QED BY <1>2, <2>1, <2>2, HeaderEffects
<1> QED BY <1>1, <1>2

LEMMA VisibleIsSeen ==
  ASSUME WellFormed(todo["httpd"])
  PROVE  [t \in Targets |-> Visible(StableHeader, t)] = Sees(header, flash, todo["httpd"])
<1> DEFINE q == todo["httpd"]
<1>1. StableHeader.meta = Meta(header, q)
  BY HeaderInForce DEF StableHeader, Meta, Idle
<1>2. ASSUME NEW t \in Targets PROVE Visible(StableHeader, t) = Look(Meta(header, q), flash, t)
  BY <1>1 DEF Visible, Look, Content
<1> QED BY <1>2 DEF Sees

LEMMA VisibleIsSeenNext ==
  ASSUME WellFormed(todo'["httpd"])
  PROVE  [t \in Targets |-> Visible(StableHeader, t)]' = Sees(header', flash', todo'["httpd"])
<1> DEFINE q == todo'["httpd"]
<1>1. StableHeader'.meta = Meta(header', q)
  BY HeaderInForce DEF StableHeader, Meta, Idle
<1>2. ASSUME NEW t \in Targets PROVE Visible(StableHeader, t)' = Look(Meta(header', q), flash', t)
  BY <1>1 DEF Visible, Look, Content
<1> QED BY <1>2 DEF Sees

\* A target reads as nothing, as its document, or as damage.
LEMMA LookReads ==
  ASSUME NEW m, NEW f, NEW t
  PROVE  /\ m[t] = NoPayload => Look(m, f, t) = Nothing
         /\ \A d \in Documents : m[t] = Stored(d) =>
               Look(m, f, t) = IF InFlash(f, t, d) THEN d ELSE Damage
<1>1. ASSUME m[t] = NoPayload PROVE Look(m, f, t) = Nothing
  BY <1>1 DEF Look, NoPayload
<1>2. ASSUME NEW d \in Documents, m[t] = Stored(d)
      PROVE  Look(m, f, t) = IF InFlash(f, t, d) THEN d ELSE Damage
  <2>1. m[t].size = Cells[d] /\ m[t].size # 0 /\ m[t].hash = Whole(d) /\ 1 \in 1..Cells[d]
    BY <1>2, Sizes DEF Stored
  <2>2. Whole(d) = [i \in 1..Cells[d] |-> f[t][i]] <=> InFlash(f, t, d)
    BY DEF Whole, InFlash
  <2>3. ASSUME NEW e \in Documents, Whole(d) = Whole(e) PROVE e = d
    <3>1. 1 \in 1..Cells[e]
      BY Sizes
    <3>2. Whole(d)[1] = {d} /\ Whole(e)[1] = {e}
      BY <2>1, <3>1 DEF Whole
    <3> QED BY <2>3, <3>2
  <2>4. (CHOOSE e \in Documents : Whole(d) = Whole(e)) = d
    BY <2>3
  <2> QED BY <2>1, <2>2, <2>4 DEF Look
<1> QED BY <1>1, <1>2

LEMMA OneDocument ==
  ASSUME NEW f, NEW t, NEW d \in Documents, NEW e \in Documents, InFlash(f, t, d), InFlash(f, t, e)
  PROVE  d = e
<1>1. 1 \in 1..Cells[d] /\ 1 \in 1..Cells[e]
  BY Sizes
<1>2. f[t][1] = {d} /\ f[t][1] = {e}
  BY <1>1 DEF InFlash
<1> QED BY <1>2

\* Where one target changes, from or to damage, PayloadStore takes a step.
LEMMA OneTarget ==
  ASSUME NEW v, v = [t \in Targets |-> v[t]], NEW w, w = [t \in Targets |-> w[t]],
         NEW x \in Targets, \A t \in Targets : t # x => w[t] = v[t],
         \/ w[x] = v[x]
         \/ w[x] = Damage
         \/ v[x] \in {Nothing, Damage} /\ w[x] \in Documents
  PROVE  StoreStep(v, w)
<1>1. w = [v EXCEPT ![x] = w[x]]
  OBVIOUS
<1>2. CASE w[x] = v[x]
  <2>1. w = v
    BY <1>2
  <2> QED BY <2>1 DEF StoreStep
<1>3. CASE w[x] = Damage
  BY <1>1, <1>3 DEF StoreStep, Spoiled
<1>4. CASE v[x] \in {Nothing, Damage} /\ w[x] \in Documents
  BY <1>1, <1>4 DEF StoreStep, Completed
<1> QED BY <1>2, <1>3, <1>4

\* The header is replaced by its successor.
LEMMA SuccessorStep ==
  ASSUME NEW m, NEW n, NEW f, NEW q, Len(q) = 2,
         m = [t \in Targets |-> m[t]],
         \A t \in Targets : m[t] = NoPayload \/ \E d \in Documents : m[t] = Stored(d),
         \/ Deletes(m, n)
         \/ \E t \in Targets, d \in Documents : Completes(m, n, f, q, t, d)
  PROVE  StoreStep([t \in Targets |-> Look(m, f, t)], [t \in Targets |-> Look(n, f, t)])
<1> DEFINE v == [t \in Targets |-> Look(m, f, t)]
           w == [t \in Targets |-> Look(n, f, t)]
<1>1. CASE Deletes(m, n)
  <2> DEFINE ts == {t \in Targets : n[t] = NoPayload}
  <2>1. ASSUME NEW t \in Targets PROVE w[t] = IF t \in ts THEN Nothing ELSE v[t]
    <3>1. CASE n[t] = NoPayload
      BY <3>1, LookReads
    <3>2. CASE n[t] # NoPayload
      <4>1. n[t] = m[t]
        BY <1>1, <3>2 DEF Deletes
      <4>2. Look(n, f, t) = Look(m, f, t)
        BY <4>1 DEF Look
      <4> QED BY <3>2, <4>2
    <3> QED BY <3>1, <3>2
  <2>2. w = [t \in Targets |-> IF t \in ts THEN Nothing ELSE v[t]]
    BY <2>1
  <2>3. ts \in SUBSET Targets
    OBVIOUS
  <2> HIDE DEF v, w, ts
  <2> QED BY <2>2, <2>3 DEF StoreStep, Forgotten, v, w
<1>2. CASE \E t \in Targets, d \in Documents : Completes(m, n, f, q, t, d)
  <2>1. PICK x \in Targets, d \in Documents : Completes(m, n, f, q, x, d)
    BY <1>2
  <2>2. n = [m EXCEPT ![x] = Stored(d)] /\ InFlash(f, x, d)
    BY <2>1 DEF Completes
  <2>3. n[x] = Stored(d) /\ \A t \in Targets : t # x => n[t] = m[t]
    BY <2>2
  <2>4. ASSUME NEW t \in Targets, t # x PROVE w[t] = v[t]
    <3>1. n[t] = m[t]
      BY <2>3, <2>4
    <3>2. Look(n, f, t) = Look(m, f, t)
      BY <3>1 DEF Look
    <3> QED BY <3>2
  <2>5. w[x] = d
    BY <2>2, <2>3, LookReads
  <2>6. v[x] \in {Nothing, Damage, d}
    <3>1. CASE m[x] = NoPayload
      BY <3>1, LookReads
    <3>2. CASE \E e \in Documents : m[x] = Stored(e)
      <4>1. PICK e \in Documents : m[x] = Stored(e)
        BY <3>2
      <4>2. v[x] = IF InFlash(f, x, e) THEN e ELSE Damage
        BY <4>1, LookReads
      <4> QED BY <4>2, <2>2, OneDocument
    <3> QED BY <3>1, <3>2
  <2>7. v = [t \in Targets |-> v[t]] /\ w = [t \in Targets |-> w[t]]
    OBVIOUS
  <2> HIDE DEF v, w
  <2>8. StoreStep(v, w)
    BY <2>4, <2>5, <2>6, <2>7, OneTarget
  <2> QED BY <2>8 DEF v, w
<1> QED BY <1>1, <1>2

\* An effect on a payload is carried out under a header that stays.
LEMMA PayloadStep ==
  ASSUME NEW m, \A t \in Targets : m[t] = NoPayload \/ \E d \in Documents : m[t] = Stored(d),
         NEW f, NEW g, NEW e, e.target \in Targets, Flashed(f, g, e)
  PROVE  StoreStep([t \in Targets |-> Look(m, f, t)], [t \in Targets |-> Look(m, g, t)])
<1> DEFINE v == [t \in Targets |-> Look(m, f, t)]
           w == [t \in Targets |-> Look(m, g, t)]
           x == e.target
<1>1. \A t \in Targets : t # x => w[t] = v[t]
  BY DEF Flashed, Look
<1>2. \/ w[x] = v[x]
      \/ w[x] = Damage
      \/ v[x] \in {Nothing, Damage} /\ w[x] \in Documents
  <2>1. CASE m[x] = NoPayload
    BY <2>1, LookReads
  <2>2. CASE \E d \in Documents : m[x] = Stored(d)
    BY <2>2, LookReads
  <2> QED BY <2>1, <2>2
<1>3. v = [t \in Targets |-> v[t]] /\ w = [t \in Targets |-> w[t]]
  OBVIOUS
<1> HIDE DEF v, w
<1>4. StoreStep(v, w)
  BY <1>1, <1>2, <1>3, OneTarget
<1> QED BY <1>4 DEF v, w

\* Every step of the HTTP task is a step of PayloadStore, or none.
LEMMA StoreSteps ==
  ASSUME Careful, Days = 0, UploadInv, SuccessionInv, [Next]_vars
  PROVE  StoreStep(Sees(header, flash, todo["httpd"]), Sees(header', flash', todo'["httpd"]))
<1> DEFINE q == todo["httpd"]
           p == todo'["httpd"]
           m == HeaderOrDefault.meta
<1>m. /\ m = [t \in Targets |-> m[t]]
      /\ \A t \in Targets : m[t] = NoPayload \/ \E d \in Documents : m[t] = Stored(d)
  <2>1. HeaderOrDefault \in GoodHeaders
    BY UploadParts, Types, CurrentIsGood
  <2> QED BY <2>1, CurrentIsTruthful, LoopRests, GoodParts DEF Truthful
<1>0. ASSUME Meta(header', p) = Meta(header, q), flash' = flash
      PROVE  StoreStep(Sees(header, flash, q), Sees(header', flash', p))
  BY <1>0 DEF StoreStep, Sees
<1>e. Len(<< >>) # 1
  BY EmptySeq, LenProperties
<1>n. Len(q) # 1 => Meta(header, q) = m
  BY DEF Meta, HeaderOrDefault
<1>1. CASE Rests
  BY <1>0, <1>1 DEF Rests
<1>2. ASSUME header' = header, flash' = flash, q = << >>, Len(p) # 1
      PROVE  StoreStep(Sees(header, flash, q), Sees(header', flash', p))
  BY <1>0, <1>2, <1>e DEF Meta
<1>3. ASSUME NEW b \in Dashboards, NEW r \in NextRequests(up[b]), up[b] # NotUploading,
             Begins(PlanFor(up[b], r)), PlanFor(up[b], r).effects # << >>
      PROVE  StoreStep(Sees(header, flash, q), Sees(header', flash', p))
  <2> DEFINE e == PlanFor(up[b], r).effects
  <2>1. Idle("httpd") /\ p = e /\ flash' = flash /\ header' = header /\ q = << >>
    BY <1>3 DEF Begins, Idle
  <2>2. Len(e) # 1
    BY <1>3, <2>1, UploadsSucceed
  <2> QED BY <1>2, <2>1, <2>2
<1>4. ASSUME NEW d \in Patches, Begins(WritePayload(Patchable, d))
      PROVE  StoreStep(Sees(header, flash, q), Sees(header', flash', p))
  BY <1>2, <1>4, PatchSucceeds DEF Begins
<1>5. ASSUME Head(jobs) \in DeleteCalls, Begins(DeletePayloads(Head(jobs)))
      PROVE  StoreStep(Sees(header, flash, q), Sees(header', flash', p))
  BY <1>2, <1>5, DeleteSucceeds DEF Begins
<1>6. CASE Breaks
  <2>1. p = << >> /\ flash' = flash /\ header' = header
    BY <1>6 DEF Breaks
  <2>2. CASE header # NoHeader
    BY <1>0, <2>1, <2>2 DEF Meta
  <2>3. CASE header = NoHeader
    <3>1. Meta(header', p) = DefaultHeader.meta
      BY <2>1, <2>3, <1>e DEF Meta
    <3>2. ASSUME NEW t \in Targets PROVE Look(Meta(header', p), flash', t) = Nothing
      <4>1. DefaultHeader.meta[t] = NoPayload
        BY DEF DefaultHeader
      <4> QED BY <3>1, <4>1, LookReads
    <3> DEFINE v == Sees(header, flash, q)
    <3>3. Sees(header', flash', p) = [t \in Targets |-> IF t \in Targets THEN Nothing ELSE v[t]]
      BY <3>2 DEF Sees
    <3> QED BY <3>3 DEF StoreStep, Forgotten
  <2> QED BY <2>2, <2>3
<1>7. CASE HttpAdvance
  <2>1. Advance("httpd") /\ "httpd" \in Actors
    BY <1>7 DEF HttpAdvance, Actors
  <2>2. WellFormed(q) /\ q # << >> /\ p = Tail(q)
    BY <2>1, UploadParts, AdvanceTodo
  <2>3. /\ Len(q) \in {1, 2, 3, 4}
        /\ Len(q) = 2 => Len(p) = 1
        /\ Len(q) = 3 => Len(p) = 2
        /\ Len(q) = 4 => Len(p) = 3
        /\ p # << >> => Final(p) = Final(q)
    BY <2>2, NextEffect
  <2>4. CASE Len(q) = 1
    <3>1. header = NoHeader
      BY <2>4 DEF SuccessionInv
    <3>2. flash' = flash /\ header' = Final(q) /\ header' # NoHeader
      BY <2>1, <2>4, UploadParts, AdvanceWrites
    <3> QED BY <1>0, <2>4, <3>1, <3>2 DEF Meta
  <2>5. CASE Len(q) = 2
    <3>1. header' = NoHeader /\ flash' = flash
      BY <2>1, <2>5, UploadParts, AdvanceErases
    <3>2. Len(p) = 1 /\ Final(p) = Final(q)
      BY <2>3, <2>5, <1>e
    <3>3. Meta(header', p) = Final(q).meta /\ Meta(header, q) = m
      BY <3>1, <3>2, <2>5, <1>n DEF Meta
    <3>4. \/ Deletes(m, Final(q).meta)
          \/ \E t \in Targets, d \in Documents : Completes(m, Final(q).meta, flash, q, t, d)
      BY <2>5 DEF SuccessionInv, Succeeds
    <3> DEFINE n == Final(q).meta
    <3>5. StoreStep([t \in Targets |-> Look(m, flash, t)], [t \in Targets |-> Look(n, flash, t)])
      <4> HIDE DEF m, n, q
      <4> QED BY <2>5, <3>4, <1>m, SuccessorStep DEF n
    <3> QED BY <3>1, <3>3, <3>5 DEF Sees
  <2>6. CASE Len(q) \in {3, 4}
    <3> DEFINE e == Head(q)
               g == flash'
    <3>1. header' = header /\ Flashed(flash, g, e) /\ e \in PayloadEffects
      BY <2>1, <2>6, UploadParts, AdvancePayload DEF Flashed
    <3>2. e.target \in Targets
      BY <3>1, PayloadEffectTypes
    <3>3. Meta(header', p) = m /\ Meta(header, q) = m
      <4>1. Len(q) # 1 /\ Len(p) # 1
        BY <2>3, <2>6
      <4> QED BY <4>1, <3>1, <1>n DEF Meta, HeaderOrDefault
    <3>4. StoreStep([t \in Targets |-> Look(m, flash, t)], [t \in Targets |-> Look(m, g, t)])
      <4> HIDE DEF m, e, g
      <4> QED BY <3>1, <3>2, <1>m, PayloadStep
    <3> QED BY <3>3, <3>4 DEF Sees
  <2> QED BY <2>3, <2>4, <2>5, <2>6
<1> QED BY <1>1, <1>3, <1>4, <1>5, <1>6, <1>7, HttpSteps

LEMMA InitSuccession == Init => SuccessionInv
<1> SUFFICES ASSUME Init PROVE SuccessionInv
  OBVIOUS
<1>1. todo["httpd"] = << >>
  BY DEF Init, StorageInit, Actors
<1> QED BY <1>1, NothingSucceeds DEF SuccessionInv

\* Between statistics writes, with dashboards that send every chunk in order
\* (and the rest of Careful), uploads, patches, deletions, failing calls and
\* power losses in any order amount to the steps of PayloadStore: to a reader
\* that compares hashes, a payload only ever turns into damage, into nothing,
\* or from nothing or damage into one whole document.
THEOREM StorageImplementsStore ==
  ASSUME Careful, Days = 0
  PROVE  Spec => ImplementsPayloadStore
<1> DEFINE Inv == UploadInv /\ SuccessionInv
<1>1. Init => Inv
  BY InitUploads, InitSuccession
<1>2. Inv /\ [Next]_vars => Inv'
  BY UploadStep, SuccessionStep
<1>3. Init => Store!Init
  <2> SUFFICES ASSUME Init PROVE Store!Init
    OBVIOUS
  <2>1. header = NoHeader /\ todo["httpd"] = << >>
    BY DEF Init, StorageInit, Actors
  <2>2. ASSUME NEW t \in Targets PROVE Visible(StableHeader, t) = Nothing
    <3>1. StableHeader.meta[t] = NoPayload
      BY <2>1 DEF StableHeader, Idle, DefaultHeader
    <3> QED BY <3>1 DEF Visible, NoPayload
  <2> QED BY <2>2 DEF Store!Init
<1>4. Inv /\ [Next]_vars => [Store!Next]_([t \in Targets |-> Visible(StableHeader, t)])
  <2> SUFFICES ASSUME Inv, [Next]_vars
               PROVE  [Store!Next]_([t \in Targets |-> Visible(StableHeader, t)])
    OBVIOUS
  <2> DEFINE v == [t \in Targets |-> Visible(StableHeader, t)]
             w == v'
  <2>1. UploadInv /\ UploadInv'
    BY <1>2
  <2>2. WellFormed(todo["httpd"])
    BY <2>1, UploadParts, Types
  <2>3. WellFormed(todo'["httpd"])
    BY <2>1 DEF UploadInv, TypeInv, Actors
  <2>4. v = Sees(header, flash, todo["httpd"]) /\ w = Sees(header', flash', todo'["httpd"])
    BY <2>2, <2>3, VisibleIsSeen, VisibleIsSeenNext
  <2>5. StoreStep(v, w)
    BY <2>4, StoreSteps
  <2>6. \/ w = v
        \/ \E t \in Targets : w = [v EXCEPT ![t] = Damage]
        \/ \E t \in Targets, d \in Documents :
              v[t] \in {Nothing, Damage} /\ w = [v EXCEPT ![t] = d]
        \/ \E ts \in SUBSET Targets : w = [t \in Targets |-> IF t \in ts THEN Nothing ELSE v[t]]
    <3> HIDE DEF v, w
    <3> QED BY <2>5 DEF StoreStep, Spoiled, Completed, Forgotten
  <2> QED BY <2>6 DEF Store!Next, Store!Spoil, Store!Store, Store!Forget
<1> QED BY <1>1, <1>2, <1>3, <1>4, PTL DEF Spec, ImplementsPayloadStore, Store!Spec

-----------------------------------------------------------------------------
(* Acknowledged documents, for the HTTP task alone.                          *)

LEMMA AcknowledgedNext ==
  ASSUME header' # NoHeader => header'.last.session \in used' \union {StatsSession, NoSession},
         todo'["httpd"] # << >> =>
            Final(todo'["httpd"]).last.session \in used' \union {StatsSession, NoSession},
         \A b \in Dashboards : Uncommitted(header', flash', todo'["httpd"], serving', up'[b]),
         \A t \in Targets :
            saved'[t] # Nothing => Stays(header', flash', todo'["httpd"], t, saved'[t])
  PROVE  AcknowledgedInv'
BY DEF AcknowledgedInv

LEMMA NothingToCommit ==
  ASSUME NEW h, NEW f, NEW q, NEW sv
  PROVE  Uncommitted(h, f, q, sv, NotUploading)
BY DEF Uncommitted

\* A document that stays does so through the rest of a call ...
LEMMA StaysWritten ==
  ASSUME NEW h, NEW f, NEW q, NEW t, NEW d, Stays(h, f, q, t, d), q # << >>, Final(q) # NoHeader
  PROVE  Stays(Final(q), f, << >>, t, d)
BY NoEffects DEF Stays

LEMMA StaysErased ==
  ASSUME NEW h, NEW f, NEW q, NEW t, NEW d, Stays(h, f, q, t, d), WellFormed(q), q # << >>,
         Len(q) = 2
  PROVE  Stays(NoHeader, f, Tail(q), t, d)
<1> DEFINE p == Tail(q)
<1>1. Len(p) = 1 /\ (p # << >> => Final(p) = Final(q))
  BY NextEffect
<1> HIDE DEF p
<1>2. ~Touches(p, t)
  BY <1>1, TouchesNothing
<1>3. Stays(NoHeader, f, p, t, d)
  BY <1>1, <1>2 DEF Stays
<1> QED BY <1>3 DEF p

LEMMA StaysFlashed ==
  ASSUME NEW h, NEW f, NEW q, NEW t \in Targets, NEW d, Stays(h, f, q, t, d), WellFormed(q), q # << >>,
         Len(q) \in {3, 4}, NEW e, e = Head(q), NEW g, Flashed(f, g, e)
  PROVE  Stays(h, g, Tail(q), t, d)
<1>1. e.target # t /\ ~Touches(Tail(q), t)
  BY NextEffect DEF Stays
<1>2. g[t] = f[t]
  BY <1>1 DEF Flashed
<1>3. InFlash(g, t, d)
  BY <1>2 DEF Stays, InFlash
<1>4. h # NoHeader
  BY DEF Stays
<1>5. Tail(q) # << >> => Final(Tail(q)) = Final(q)
  BY NextEffect
<1>6. q # << >>
  OBVIOUS
<1> DEFINE p == Tail(q)
<1> HIDE DEF p
<1>7. Stays(h, g, p, t, d)
  BY <1>1, <1>3, <1>4, <1>5, <1>6 DEF Stays, p
<1> QED BY <1>7 DEF p

\* ... if it ends in the middle, while the header is there ...
LEMMA StaysBroken ==
  ASSUME NEW h, NEW f, NEW q, NEW t, NEW d, Stays(h, f, q, t, d), h # NoHeader
  PROVE  Stays(h, f, << >>, t, d)
BY NoEffects DEF Stays

\* ... and through a call of something else.
LEMMA StaysCalled ==
  ASSUME NEW h, NEW f, NEW t, NEW d, Stays(h, f, << >>, t, d), NEW q,
         h # NoHeader => /\ Final(q).meta[t] = h.meta[t]
                         /\ h.upload.target # t => Final(q).upload.target # t
                         /\ h.upload.target # t => ~Touches(q, t)
  PROVE  h # NoHeader /\ Stays(h, f, q, t, d)
<1>1. h # NoHeader
  BY EmptySeq, LenProperties DEF Stays
<1> QED BY <1>1 DEF Stays

\* The payloads that a call erases.
LEMMA ErasedByCall ==
  ASSUME NEW plan, WellFormed(plan.effects), plan.effects # << >>
  PROVE  /\ Len(plan.effects) \in {3, 4} /\ Head(plan.effects).do = "erase" =>
               Head(plan.effects).target \in Erased(plan)
         /\ Len(plan.effects) = 4 /\ Head(Tail(plan.effects)).do = "erase" =>
               Head(Tail(plan.effects)).target \in Erased(plan)
<1> DEFINE q == plan.effects
<1>1. PICK h \in GoodHeaders :
          \/ q = <<WriteHeader(h)>>
          \/ q = <<HeaderErase, WriteHeader(h)>>
          \/ \E e \in PayloadEffects : q = <<e, HeaderErase, WriteHeader(h)>>
          \/ \E e, f \in PayloadEffects : q = <<e, f, HeaderErase, WriteHeader(h)>>
  BY DEF WellFormed
<1>2. ASSUME NEW e \in PayloadEffects, q = <<e, HeaderErase, WriteHeader(h)>>
      PROVE  Len(q) = 3 /\ 1 \in DOMAIN q /\ q[1] = Head(q)
  BY <1>2
<1>3. ASSUME NEW e \in PayloadEffects, NEW f \in PayloadEffects,
             q = <<e, f, HeaderErase, WriteHeader(h)>>
      PROVE  /\ Len(q) = 4 /\ 1 \in DOMAIN q /\ q[1] = Head(q)
             /\ 2 \in DOMAIN q /\ q[2] = Head(Tail(q))
  BY <1>3, Tails
<1>4. /\ Len(q) \in {3, 4} => 1 \in DOMAIN q /\ q[1] = Head(q)
      /\ Len(q) = 4 => 2 \in DOMAIN q /\ q[2] = Head(Tail(q))
  <2>1. CASE q = <<WriteHeader(h)>> \/ q = <<HeaderErase, WriteHeader(h)>>
    <3>1. ~(Len(q) \in {3, 4})
      BY <2>1
    <3> QED BY <3>1
  <2>2. CASE \E e \in PayloadEffects : q = <<e, HeaderErase, WriteHeader(h)>>
    <3>1. Len(q) = 3 /\ 1 \in DOMAIN q /\ q[1] = Head(q)
      BY <2>2, <1>2
    <3> QED BY <3>1
  <2>3. CASE \E e, f \in PayloadEffects : q = <<e, f, HeaderErase, WriteHeader(h)>>
    BY <2>3, <1>3
  <2> QED BY <1>1, <2>1, <2>2, <2>3
<1> HIDE DEF q
<1> QED BY <1>4 DEF q, Erased

\* A deletion erases what it deletes, if there is something.
LEMMA DeleteTouches ==
  ASSUME NEW ts \in DeleteCalls, header \in GoodHeaders \union {NoHeader},
         NEW t \in Gone(ts), HeaderOrDefault.meta[t].size > 0
  PROVE  Touches(DeletePayloads(ts).effects, t)
<1> DEFINE h == HeaderOrDefault
           e(x) == Erase(x, h.meta[x].size)
           u == IF h.upload.target \in Gone(ts) THEN NoUpload ELSE h.upload
           m == [x \in Targets |-> IF x \in Gone(ts) THEN NoPayload ELSE h.meta[x]]
           g == [meta |-> m, upload |-> u, last |-> h.last]
           q == DeletePayloads(ts).effects
           r == IF Len(ts) = 1 THEN EraseHeld(h, ts[1])
                ELSE EraseHeld(h, ts[1]) \o EraseHeld(h, ts[2])
<1>1. q = r \o RewriteHeader(g)
  BY DEF DeletePayloads, Granted, Gone
<1>2. \A x \in Targets : EraseHeld(h, x) = << >> \/ EraseHeld(h, x) = <<e(x)>>
  BY DEF EraseHeld
<1>3. EraseHeld(h, t) = <<e(t)>>
  BY DEF EraseHeld
<1>4. t \in Targets /\ \A x \in Targets : e(x).target = x
  <2>1. t \in Targets
    BY DEF Gone, DeleteCalls
  <2> QED BY <2>1 DEF Erase
<1>5. \/ r = <<e(t)>>
      \/ \E x \in Targets : r = <<e(t), e(x)>> \/ r = <<e(x), e(t)>>
  <2>1. CASE ts \in {<<x>> : x \in Targets}
    <3>1. PICK x \in Targets : ts = <<x>>
      BY <2>1
    <3>2. Len(ts) = 1 /\ ts[1] = x /\ x = t
      BY <3>1 DEF Gone
    <3> QED BY <3>2, <1>3
  <2>2. CASE ts \in Targets \X Targets
    <3>1. PICK x \in Targets, y \in Targets : ts = <<x, y>>
      BY <2>2
    <3>2. Len(ts) = 2 /\ ts[1] = x /\ ts[2] = y /\ (x = t \/ y = t)
      BY <3>1 DEF Gone
    <3>3. r = EraseHeld(h, x) \o EraseHeld(h, y)
      BY <3>2
    <3> HIDE DEF r, e, h
    <3>4. /\ << >> \o << >> = << >> /\ << >> \o <<e(y)>> = <<e(y)>>
          /\ <<e(x)>> \o << >> = <<e(x)>> /\ <<e(x)>> \o <<e(y)>> = <<e(x), e(y)>>
      BY ShortRows, Zenon
    <3>5. CASE x = t
      BY <3>3, <3>4, <3>5, <1>2, <1>3, Zenon
    <3>6. CASE y = t
      BY <3>3, <3>4, <3>6, <1>2, <1>3, Zenon
    <3> QED BY <3>2, <3>5, <3>6
  <2> QED BY <2>1, <2>2 DEF DeleteCalls
<1>6. RewriteHeader(g) = <<HeaderErase, WriteHeader(g)>>
  BY DEF RewriteHeader, HeaderErase, WriteHeader
<1> HIDE DEF q, r, g, e
<1>7. CASE r = <<e(t)>>
  <2>1. <<e(t)>> \o <<HeaderErase, WriteHeader(g)>> = <<e(t), HeaderErase, WriteHeader(g)>>
    BY ThreeInARow, Zenon
  <2>2. q = <<e(t), HeaderErase, WriteHeader(g)>>
    BY <1>1, <1>6, <1>7, <2>1
  <2>3. Len(q) = 3 /\ Head(q) = e(t)
    BY <2>2
  <2> QED BY <2>3, <1>4 DEF Touches, q
<1>8. ASSUME NEW x \in Targets, r = <<e(t), e(x)>> \/ r = <<e(x), e(t)>> PROVE Touches(q, t)
  <2>1. ASSUME NEW a, NEW b, r = <<a, b>>, a.target = t \/ b.target = t PROVE Touches(q, t)
    <3>1. <<a, b>> \o <<HeaderErase, WriteHeader(g)>> = <<a, b, HeaderErase, WriteHeader(g)>>
      BY FourInARow, Zenon
    <3>2. q = <<a, b, HeaderErase, WriteHeader(g)>>
      BY <1>1, <1>6, <2>1, <3>1
    <3>3. Len(q) = 4 /\ Head(q) = a /\ Head(Tail(q)) = b
      BY <3>2, Tails
    <3> QED BY <3>3, <2>1 DEF Touches
  <2> QED BY <1>8, <2>1, <1>4
<1> QED BY <1>5, <1>7, <1>8 DEF q

LEMMA RequestSpares ==
  ASSUME UploadInv, Idle("httpd"), NEW b \in Dashboards, up[b] # NotUploading,
         NEW r \in NextRequests(up[b]), NEW q, q = PlanFor(up[b], r).effects, q # << >>,
         NEW t \in Targets, t \notin Erased(PlanFor(up[b], r)),
         NEW d, Stays(header, flash, << >>, t, d)
  PROVE  Stays(header, flash, q, t, d)
<1> DEFINE u == up[b]
           x == up[b].target
           c == up[b].document
           s == up[b].session
           n == Cells[c]
<1>1. /\ x \in Targets /\ c \in Documents /\ s \in AllSessions /\ n \in 0..Capacity
  BY UploadParts, Uploading, Sizes, StorageAssumption
<1>2. r.kind \in {"start", "chunk", "commit"} /\ r.cell \in Nat
  BY UploadParts, RequestTypes DEF Requests
<1>3. header \in GoodHeaders \union {NoHeader} /\ flash \in [Targets -> [1..Capacity -> SUBSET Documents]]
  BY UploadParts, Types
<1>4. WellFormed(PlanFor(u, r).effects)
  BY UploadParts, UploadPlanTypes
<1>5. header # NoHeader /\ header.upload.target # t
  BY EmptySeq, LenProperties DEF Stays
<1>6. NoTarget # t
  BY StorageAssumption
<1>7. CASE r.kind = "start"
  <2> DEFINE p == StartUpload(x, n, s)
  <2>1. PlanFor(u, r) = p
    BY <1>7, PlanKinds
  <2>2. p.effects # << >>
    BY <2>1
  <2>3. /\ Len(p.effects) = 3 /\ Head(p.effects) = Erase(x, n)
        /\ Final(p.effects).meta = header.meta
        /\ Final(p.effects).upload.target = x
        /\ \A y : Touches(p.effects, y) => y = x
    <3> HIDE DEF u, x, c, n, s
    <3>1. Len(p.effects) = 3 /\ Head(p.effects) = Erase(x, n)
      BY <1>1, <1>3, <2>2, StartedHeader
    <3>2. Final(p.effects).meta = header.meta
      BY <1>1, <1>3, <1>5, <2>2, StartedHeader DEF HeaderOrDefault
    <3>3. Final(p.effects).upload = [target |-> x, size |-> n, written |-> 0, session |-> s]
      BY <1>1, <1>3, <2>2, StartedHeader
    <3>4. \A y : Touches(p.effects, y) => y = x
      BY <1>1, <1>3, <2>2, StartedHeader
    <3> QED BY <3>1, <3>2, <3>3, <3>4
  <2>4. Head(p.effects).do = "erase" /\ Head(p.effects).target = x
    BY <2>3 DEF Erase
  <2>5. x # t
    <3> HIDE DEF p, x
    <3>1. WellFormed(p.effects) /\ Len(p.effects) \in {3, 4} /\ t \notin Erased(p)
      BY <1>4, <2>1, <2>3
    <3> QED BY <3>1, <2>2, <2>4, ErasedByCall
  <2> HIDE DEF p, x
  <2>6. Stays(header, flash, p.effects, t, d)
    BY <2>3, <2>5, StaysCalled
  <2> QED BY <2>1, <2>6
<1>8. CASE r.kind = "chunk"
  <2> DEFINE p == WriteUploadChunk(x, r.cell, c, s)
  <2>1. q = p.effects
    BY <1>8, PlanKinds
  <2>2. /\ \A y : Touches(q, y) <=> x = y
        /\ header.upload.target = x
        /\ Final(q).meta = header.meta /\ Final(q).upload.target = x
    <3> HIDE DEF u, x, c, s, n
    <3>0. p.effects # << >>
      BY <2>1
    <3>1. \A y : Touches(p.effects, y) <=> x = y
      BY <1>1, <1>2, <1>3, <3>0, ChunkPlan
    <3>2. OpenUpload(header, x, s) /\ OpenUpload(Final(p.effects), x, s)
      BY <1>1, <1>2, <1>3, <3>0, ChunkPlan
    <3>3. Final(p.effects).meta = header.meta
      BY <1>1, <1>2, <1>3, <3>0, ChunkPlan
    <3> QED BY <2>1, <3>1, <3>2, <3>3 DEF OpenUpload
  <2> HIDE DEF x
  <2> QED BY <1>5, <2>2, StaysCalled
<1>9. CASE r.kind = "commit"
  <2> DEFINE m == header.upload.size
             p == CommitUpload(x, s)
  <2>1. q = p.effects
    BY <1>9, PlanKinds
  <2>2. /\ \A y : ~Touches(q, y)
        /\ header.upload.target = x
        /\ Final(q).meta = [header.meta EXCEPT ![x] = [size |-> m, hash |-> Content(x, m)]]
        /\ Final(q).upload = NoUpload
    <3> HIDE DEF u, x, c, s, n
    <3>0. p.effects # << >>
      BY <2>1
    <3>1. \A y : ~Touches(p.effects, y)
      BY <1>1, <1>3, <3>0, CommitPlan
    <3>2. OpenUpload(header, x, s) /\ Final(p.effects).upload = NoUpload
      BY <1>1, <1>3, <3>0, CommitPlan
    <3>3. Final(p.effects).meta = [header.meta EXCEPT ![x] = [size |-> m, hash |-> Content(x, m)]]
      BY <1>1, <1>3, <3>0, CommitPlan
    <3> QED BY <2>1, <3>1, <3>2, <3>3 DEF OpenUpload
  <2>3. Final(q).meta[t] = header.meta[t] /\ Final(q).upload.target # t
    <3>1. x # t /\ header \in GoodHeaders
      BY <1>3, <1>5, <2>2
    <3> QED BY <3>1, <2>2, <1>6, GoodParts, NoSessionIsOpen
  <2> QED BY <2>2, <2>3, StaysCalled
<1> QED BY <1>2, <1>7, <1>8, <1>9

LEMMA PatchSpares ==
  ASSUME UploadInv, NEW c \in Patches, NEW q, q = WritePayload(Patchable, c).effects,
         NEW t \in Targets, t \notin Erased(WritePayload(Patchable, c)),
         NEW d, Stays(header, flash, << >>, t, d)
  PROVE  Stays(header, flash, q, t, d) /\ Final(q).last.session = NoSession
<1> DEFINE p == WritePayload(Patchable, c)
<1>1. Patchable \in Targets /\ c \in Documents /\ header \in GoodHeaders \union {NoHeader}
  BY ClientsAssumption, UploadParts, Types
<1>2. /\ WellFormed(p.effects) /\ p.effects # << >> /\ Len(p.effects) = 4
      /\ Head(p.effects) = Erase(Patchable, Cells[c])
      /\ \A x : Touches(p.effects, x) <=> Patchable = x
      /\ Final(p.effects).meta = [HeaderOrDefault.meta EXCEPT ![Patchable] = Stored(c)]
      /\ Final(p.effects).upload = NoUpload
      /\ Final(p.effects).last = [target |-> NoTarget, session |-> NoSession]
  BY <1>1, WritePlan
<1>3. Head(p.effects).do = "erase" /\ Head(p.effects).target = Patchable
  BY <1>2 DEF Erase
<1>4. Patchable # t
  <2> HIDE DEF p
  <2> QED BY <1>2, <1>3, ErasedByCall DEF p
<1>5. NoTarget # t
  BY StorageAssumption
<1>6. header # NoHeader => Final(p.effects).meta[t] = header.meta[t]
  BY <1>1, <1>2, <1>4, GoodParts DEF HeaderOrDefault
<1> HIDE DEF p
<1>7. Stays(header, flash, p.effects, t, d)
  BY <1>2, <1>4, <1>5, <1>6, NoSessionIsOpen, StaysCalled
<1> QED BY <1>2, <1>7 DEF p

LEMMA DeleteSpares ==
  ASSUME UploadInv, NEW ts \in DeleteCalls, NEW q, q = DeletePayloads(ts).effects,
         NEW t \in Targets, t \notin Erased(DeletePayloads(ts)),
         NEW d \in Documents, Stays(header, flash, << >>, t, d)
  PROVE  Stays(header, flash, q, t, d)
<1> DEFINE p == DeletePayloads(ts)
<1>1. header \in GoodHeaders \union {NoHeader}
  BY UploadParts, Types
<1>2. /\ WellFormed(p.effects) /\ p.effects # << >> /\ Len(p.effects) \in {2, 3, 4}
      /\ Len(p.effects) \in {3, 4} => Head(p.effects).do = "erase"
      /\ Len(p.effects) = 4 => Head(Tail(p.effects)).do = "erase"
      /\ \A x : Touches(p.effects, x) => x \in Gone(ts)
      /\ Final(p.effects).meta =
            [x \in Targets |-> IF x \in Gone(ts) THEN NoPayload ELSE HeaderOrDefault.meta[x]]
      /\ Final(p.effects).upload = IF HeaderOrDefault.upload.target \in Gone(ts) THEN NoUpload
                                   ELSE HeaderOrDefault.upload
  BY <1>1, DeletePlan
<1>3. header # NoHeader /\ header.meta[t] = Stored(d) /\ HeaderOrDefault = header
  BY EmptySeq, LenProperties DEF Stays, HeaderOrDefault
<1>4. HeaderOrDefault.meta[t].size > 0
  BY <1>3, Sizes DEF Stored
<1>5. t \notin Gone(ts)
  <2>1. ASSUME t \in Gone(ts) PROVE FALSE
    <3>1. Touches(p.effects, t)
      BY <1>1, <1>4, <2>1, DeleteTouches
    <3> HIDE DEF p
    <3>2. t \in Erased(p)
      BY <1>2, <3>1, ErasedByCall DEF Touches
    <3> QED BY <3>2 DEF p
  <2> QED BY <2>1
<1>6. NoTarget # t
  BY StorageAssumption
<1> HIDE DEF p
<1>7. Stays(header, flash, p.effects, t, d)
  BY <1>2, <1>3, <1>5, <1>6, NoSessionIsOpen, StaysCalled
<1> QED BY <1>7 DEF p

\* Whose session a call is going to record.
LEMMA LastSession ==
  ASSUME UploadInv, NEW b \in Dashboards, up[b] # NotUploading,
         NEW r \in NextRequests(up[b]), NEW q, q = PlanFor(up[b], r).effects, q # << >>
  PROVE  /\ r.kind = "commit" => Final(q).last.session = up[b].session
         /\ r.kind # "commit" => Final(q).last.session = HeaderOrDefault.last.session
<1> DEFINE x == up[b].target
           c == up[b].document
           s == up[b].session
           n == Cells[c]
<1>1. /\ x \in Targets /\ c \in Documents /\ s \in AllSessions /\ n \in 0..Capacity
  BY UploadParts, Uploading, Sizes, StorageAssumption
<1>2. r.kind \in {"start", "chunk", "commit"} /\ r.cell \in Nat
  BY UploadParts, RequestTypes DEF Requests
<1>3. header \in GoodHeaders \union {NoHeader} /\ flash \in [Targets -> [1..Capacity -> SUBSET Documents]]
  BY UploadParts, Types
<1>4. CASE r.kind = "start"
  <2>1. q = StartUpload(x, n, s).effects
    BY <1>4, PlanKinds
  <2> HIDE DEF x, n, s
  <2>2. StartUpload(x, n, s).effects # << >>
    BY <2>1
  <2>3. Final(StartUpload(x, n, s).effects).last = HeaderOrDefault.last
    BY <1>1, <1>3, <2>2, StartedHeader
  <2> QED BY <2>1, <2>3, <1>4
<1>5. CASE r.kind = "chunk"
  <2>1. q = WriteUploadChunk(x, r.cell, c, s).effects
    BY <1>5, PlanKinds
  <2> HIDE DEF x, c, s
  <2>2. header # NoHeader /\ Final(q).last = header.last
    BY <1>1, <1>2, <1>3, <2>1, ChunkPlan
  <2> QED BY <2>2, <1>5 DEF HeaderOrDefault
<1>6. CASE r.kind = "commit"
  <2>1. q = CommitUpload(x, s).effects
    BY <1>6, PlanKinds
  <2>2. Final(q).last = [target |-> x, session |-> s]
    <3> DEFINE p == CommitUpload(x, s)
    <3> HIDE DEF x, c, s, n
    <3>1. p.effects # << >> /\ Final(q) = Final(p.effects)
      BY <2>1
    <3>2. Final(p.effects).last = [target |-> x, session |-> s]
      BY <1>1, <1>3, <3>1, CommitPlan
    <3> QED BY <3>1, <3>2
  <2> QED BY <2>2, <1>6
<1> QED BY <1>2, <1>4, <1>5, <1>6

LEMMA LastOrNone ==
  ASSUME AcknowledgedInv
  PROVE  /\ HeaderOrDefault.last.session \in used \union {StatsSession, NoSession}
         /\ \A u : /\ u # NotUploading /\ u.session # NoSession
                   /\ Uncommitted(header, flash, todo["httpd"], serving, u)
                   => HeaderOrDefault.last.session # u.session
<1>1. DefaultHeader.last.session = NoSession
  BY DEF DefaultHeader
<1> QED BY <1>1 DEF AcknowledgedInv, HeaderOrDefault, Uncommitted

\* A session that is still uploading: through a call of others, through the
\* steps of any call, and when the call ends in the middle.
LEMMA UncommittedCalled ==
  ASSUME NEW h, NEW f, NEW u, Uncommitted(h, f, << >>, NotServing, u), NEW q, NEW sv,
         u # NotUploading => sv.session # u.session /\ Final(q).last.session # u.session
  PROVE  Uncommitted(h, f, q, sv, u)
BY DEF Uncommitted

LEMMA UncommittedSame ==
  ASSUME NEW h, NEW f, NEW q, NEW sv, NEW u, Uncommitted(h, f, q, sv, u), u # NotUploading,
         NEW v, v.session = u.session, v.target = u.target, v.document = u.document
  PROVE  Uncommitted(h, f, q, sv, v)
BY DEF Uncommitted

IsUpload(u) ==
    u = [session |-> u.session, target |-> u.target, document |-> u.document,
         started |-> u.started, received |-> u.received]

LEMMA AnswerKeeps ==
  ASSUME NEW u, IsUpload(u), NEW r, NEW ok, AfterAnswer(u, r, ok) # NotUploading
  PROVE  /\ AfterAnswer(u, r, ok).session = u.session /\ AfterAnswer(u, r, ok).target = u.target
         /\ AfterAnswer(u, r, ok).document = u.document /\ r.kind # "commit"
BY DEF AfterAnswer, IsUpload

LEMMA UncommittedWritten ==
  ASSUME NEW h, NEW f, NEW q, NEW sv, NEW u, Uncommitted(h, f, q, sv, u), q # << >>,
         u = NotUploading \/ u.session # NoSession,
         IsUpload(u), NEW v, v = IF u.session = sv.session /\ sv.session # NoSession
                    THEN AfterAnswer(u, sv.request, TRUE) ELSE u
  PROVE  Uncommitted(Final(q), f, << >>, NotServing, v)
<1>1. CASE v = NotUploading
  BY <1>1, NothingToCommit
<1>2. CASE v # NotUploading
  <2>0. u # NotUploading /\ u.session # NoSession
    <3>1. NotUploading.session = NoSession
      BY DEF NotUploading
    <3> QED BY <1>2, <3>1
  <2>1. /\ v.session = u.session
        /\ sv.session = u.session => sv.request.kind # "commit"
    <3>1. CASE u.session = sv.session
      BY <1>2, <2>0, <3>1, AnswerKeeps
    <3>2. CASE u.session # sv.session
      BY <3>2
    <3> QED BY <3>1, <3>2
  <2>2. Final(q).last.session # v.session
    BY <2>0, <2>1 DEF Uncommitted
  <2> QED BY <2>0, <2>1, <2>2, NoSessionIsOpen DEF Uncommitted
<1> QED BY <1>1, <1>2

LEMMA UncommittedErased ==
  ASSUME NEW h, NEW f, NEW q, NEW sv, NEW u, Uncommitted(h, f, q, sv, u), WellFormed(q), q # << >>,
         Len(q) = 2
  PROVE  Uncommitted(NoHeader, f, Tail(q), sv, u)
<1> DEFINE p == Tail(q)
<1>1. p # << >> /\ Len(p) = 1 /\ Final(p) = Final(q)
  BY NextEffect
<1> HIDE DEF p
<1>2. Len(p) \in {1, 2} /\ Final(p) = Final(q)
  BY <1>1
<1>3. Uncommitted(NoHeader, f, p, sv, u)
  BY <1>2 DEF Uncommitted
<1> QED BY <1>3 DEF p

LEMMA UncommittedFlashed ==
  ASSUME NEW h, NEW f, NEW q, NEW sv, NEW u, Uncommitted(h, f, q, sv, u), WellFormed(q), q # << >>,
         Len(q) \in {3, 4}, NEW g
  PROVE  Uncommitted(h, g, Tail(q), sv, u)
<1> DEFINE p == Tail(q)
<1>1. p # << >> => Final(p) = Final(q)
  BY NextEffect
<1>2. ~(Len(q) \in {1, 2})
  OBVIOUS
<1> HIDE DEF p
<1>3. Uncommitted(h, g, p, sv, u)
  BY <1>1, <1>2 DEF Uncommitted
<1> QED BY <1>3 DEF p

LEMMA UncommittedBroken ==
  ASSUME NEW h, NEW f, NEW q, NEW sv, NEW u, Uncommitted(h, f, q, sv, u),
         u = NotUploading \/ u.session # NoSession
  PROVE  Uncommitted(h, f, << >>, NotServing, u)
BY NoSessionIsOpen DEF Uncommitted

-----------------------------------------------------------------------------
(* The steps.                                                                *)

LEMMA BeginAcknowledged ==
  ASSUME UploadInv, AcknowledgedInv, NEW b \in Dashboards, NEW x \in Uploads,
         BeginUpload(b, x[1], x[2])
  PROVE  AcknowledgedInv'
<1>1. PICK s \in Sessions \ (used \union {StatsSession}) :
        /\ up' = [up EXCEPT ![b] = [session |-> s, target |-> x[1], document |-> x[2],
                                    started |-> FALSE, received |-> {}]]
        /\ used' = used \union {s}
  BY DEF BeginUpload
<1>2. /\ flash' = flash /\ header' = header /\ todo' = todo /\ serving' = serving
      /\ saved' = saved
  BY DEF BeginUpload, storageVars
<1>3. s # NoSession /\ s # StatsSession /\ s \notin used
  BY <1>1, Sizes
<1> DEFINE v == [session |-> s, target |-> x[1], document |-> x[2],
                 started |-> FALSE, received |-> {}]
<1>4. v.session = s
  OBVIOUS
<1>5. up'[b] = v /\ \A c \in Dashboards : c # b => up'[c] = up[c]
  BY <1>1, UploadParts DEF TypeInv
<1> HIDE DEF v
<1>6. serving.session \in used \union {NoSession}
  BY UploadParts
<1>7. Uncommitted(header, flash, todo["httpd"], serving, v)
  BY <1>3, <1>4, <1>6 DEF AcknowledgedInv, Uncommitted
<1>8. \A c \in Dashboards : Uncommitted(header', flash', todo'["httpd"], serving', up'[c])
  BY <1>2, <1>5, <1>7 DEF AcknowledgedInv
<1>9. \A t \in Targets : saved'[t] # Nothing => Stays(header', flash', todo'["httpd"], t, saved'[t])
  BY <1>2 DEF AcknowledgedInv
<1>10. /\ header' # NoHeader => header'.last.session \in used' \union {StatsSession, NoSession}
       /\ todo'["httpd"] # << >> =>
            Final(todo'["httpd"]).last.session \in used' \union {StatsSession, NoSession}
  BY <1>1, <1>2 DEF AcknowledgedInv
<1> QED BY <1>8, <1>9, <1>10, AcknowledgedNext

LEMMA AbandonAcknowledged ==
  ASSUME UploadInv, AcknowledgedInv, NEW b \in Dashboards, Abandon(b)
  PROVE  AcknowledgedInv'
<1>1. /\ flash' = flash /\ header' = header /\ todo' = todo /\ serving' = serving
      /\ saved' = saved /\ used' = used
  BY DEF Abandon, storageVars
<1>2. up'[b] = NotUploading /\ \A c \in Dashboards : c # b => up'[c] = up[c]
  BY UploadParts DEF Abandon, TypeInv
<1>3. \A c \in Dashboards : Uncommitted(header', flash', todo'["httpd"], serving', up'[c])
  BY <1>1, <1>2, NothingToCommit DEF AcknowledgedInv
<1> QED BY <1>1, <1>3, AcknowledgedNext DEF AcknowledgedInv

\* No request, patch or deletion that begins concerns an acknowledged document.
LEMMA CallAcknowledged ==
  ASSUME UploadInv, AcknowledgedInv, todo["httpd"] = << >>, NEW q, todo'["httpd"] = q,
         flash' = flash, header' = header, used' = used, up' = up,
         q # << >> => Final(q).last.session \in used \union {StatsSession, NoSession},
         \A c \in Dashboards : Uncommitted(header, flash, q, serving', up[c]),
         NEW plan, saved' = Without(Erased(plan)),
         \A t \in Targets, d \in Documents :
            t \notin Erased(plan) /\ Stays(header, flash, << >>, t, d) => Stays(header, flash, q, t, d)
  PROVE  AcknowledgedInv'
<1>1. ASSUME NEW t \in Targets, saved'[t] # Nothing PROVE Stays(header', flash', q, t, saved'[t])
  <2>1. t \notin Erased(plan) /\ saved'[t] = saved[t]
    BY <1>1 DEF Without
  <2>2. saved[t] \in Documents
    BY <1>1, <2>1, UploadParts DEF TypeInv
  <2>3. Stays(header, flash, << >>, t, saved[t])
    BY <1>1, <2>1 DEF AcknowledgedInv
  <2> QED BY <2>1, <2>2, <2>3
<1> QED BY <1>1, AcknowledgedNext DEF AcknowledgedInv

LEMMA ServeAcknowledged ==
  ASSUME UploadInv, AcknowledgedInv, Careful, Days = 0, NEW b \in Dashboards, ServeUpload(b)
  PROVE  AcknowledgedInv'
<1> DEFINE s == up[b].session
<1>1. PICK r \in NextRequests(up[b]) :
        LET plan == PlanFor(up[b], r)
        IN  /\ Call("httpd", plan)
            /\ IF plan.effects = << >> THEN Answer(s, r, plan.ok) /\ UNCHANGED serving
               ELSE serving' = Serving(s, r) /\ saved' = Without(Erased(plan)) /\ UNCHANGED up
  BY DEF ServeUpload
<1> DEFINE p == PlanFor(up[b], r)
           q == p.effects
<1>2. up[b] # NotUploading /\ used' = used /\ Idle("httpd")
  BY DEF ServeUpload, HttpFree
<1>3. flash' = flash /\ header' = header /\ todo["httpd"] = << >> /\ todo'["httpd"] = q
  <2>1. "httpd" \in Actors /\ WellFormed(q) /\ Call("httpd", p)
    BY <1>1, <1>2, UploadPlanTypes, UploadParts DEF Actors
  <2> HIDE DEF p
  <2> QED BY <2>1, UploadParts, CallStep
<1>4. /\ s \in used /\ s # NoSession /\ serving = NotServing /\ up[b].target \in Own
      /\ up[b].target \in Targets /\ s \in AllSessions
  BY <1>2, <1>3, UploadParts, Uploading, LoopRests
<1>5. \A c \in Dashboards : c # b /\ up[c] # NotUploading => up[c].session # s
  BY <1>2, UploadParts
<1>6. \A c \in Dashboards :
         /\ up[c] = NotUploading \/ up[c].session # NoSession
         /\ IsUpload(up[c])
  BY UploadParts, Uploading DEF UploadType, IsUpload
<1>7. \A c \in Dashboards : Uncommitted(header, flash, << >>, NotServing, up[c])
  BY <1>3, <1>4 DEF AcknowledgedInv
<1>8. header \in GoodHeaders \union {NoHeader} /\ flash \in [Targets -> [1..Capacity -> SUBSET Documents]]
  BY UploadParts, Types
<1>9. CASE q = << >>
  <2> DEFINE v == AfterAnswer(up[b], r, p.ok)
  <2>1. Answer(s, r, p.ok) /\ serving' = serving
    BY <1>1, <1>9
  <2>2. up' = [c \in Dashboards |-> IF up[c].session = s THEN AfterAnswer(up[c], r, p.ok) ELSE up[c]]
    BY <2>1, <1>4 DEF Answer
  <2>3. up'[b] = v /\ \A c \in Dashboards : c # b => up'[c] = up[c]
    <3>1. \A c \in Dashboards : c # b => up[c].session # s
      BY <1>4, <1>5, Uploading, UploadParts
    <3> HIDE DEF p
    <3> QED BY <2>2, <3>1
  <2>4. ~(p.ok /\ r.kind = "commit")
    <3>1. SUFFICES ASSUME r.kind = "commit" PROVE p.ok = FALSE
      OBVIOUS
    <3>2. p = CommitUpload(up[b].target, s)
      BY <3>1, PlanKinds
    <3> DEFINE t == up[b].target
               k == CommitUpload(t, s)
    <3>3. t \in Targets /\ s \in AllSessions /\ k.effects = << >>
      BY <1>4, <1>9, <3>2
    <3>4. header # NoHeader => header.last.session # s
      BY <1>2, <1>7 DEF Uncommitted
    <3> HIDE DEF t, s
    <3>5. \/ k.ok = FALSE
          \/ k.ok = TRUE /\ header # NoHeader /\ header.last = [target |-> t, session |-> s]
      BY <1>8, <3>3, CommitPlan
    <3>6. k.ok = FALSE
      BY <3>4, <3>5
    <3> QED BY <3>2, <3>6 DEF t
  <2>5. \A t \in Targets : saved'[t] = saved[t]
    BY <2>1, <2>4 DEF Answer
  <2>6. Uncommitted(header, flash, << >>, NotServing, v)
    <3>1. CASE v = NotUploading
      BY <3>1, NothingToCommit
    <3>2. CASE v # NotUploading
      <4>1. v.session = up[b].session /\ v.target = up[b].target /\ v.document = up[b].document
        BY <1>6, <3>2, AnswerKeeps
      <4>2. Uncommitted(header, flash, << >>, NotServing, up[b])
        BY <1>7
      <4> HIDE DEF v
      <4> QED BY <1>2, <4>1, <4>2, UncommittedSame
    <3> QED BY <3>1, <3>2
  <2> HIDE DEF v, p, s, q
  <2>7. \A c \in Dashboards : Uncommitted(header', flash', todo'["httpd"], serving', up'[c])
    BY <1>3, <1>4, <1>7, <1>9, <2>1, <2>3, <2>6
  <2>8. \A t \in Targets : saved'[t] # Nothing => Stays(header', flash', todo'["httpd"], t, saved'[t])
    BY <1>3, <1>9, <2>5 DEF AcknowledgedInv
  <2> QED BY <1>2, <1>3, <1>9, <2>7, <2>8, AcknowledgedNext DEF AcknowledgedInv
<1>10. CASE q # << >>
  <2> DEFINE sv == Serving(s, r)
  <2>1. serving' = sv /\ up' = up /\ saved' = Without(Erased(p))
    BY <1>1, <1>10
  <2>2. sv.session = s /\ sv.request = r
    BY DEF Serving
  <2>3. /\ r.kind = "commit" => Final(q).last.session = s
        /\ r.kind # "commit" => Final(q).last.session = HeaderOrDefault.last.session
    BY <1>2, <1>10, LastSession
  <2>4. r.kind = "commit" => Commits(up[b], q)
    BY <1>2, <1>4, <1>10, CommitsWhatIsThere
  <2>5. /\ HeaderOrDefault.last.session \in used \union {StatsSession, NoSession}
        /\ \A c \in Dashboards : up[c] # NotUploading => HeaderOrDefault.last.session # up[c].session
    BY <1>6, LastOrNone DEF AcknowledgedInv
  <2>6. Uncommitted(header, flash, q, sv, up[b])
    <3>1. Uncommitted(header, flash, << >>, NotServing, up[b]) /\ HeaderOrDefault.last.session # s
      BY <1>2, <1>7, <2>5
    <3>2. r.kind = "commit" =>
            /\ Len(q) \in {1, 2} /\ Final(q).upload = NoUpload
            /\ Final(q).meta[up[b].target] = Stored(up[b].document)
            /\ InFlash(flash, up[b].target, up[b].document)
      <4>1. SUFFICES ASSUME r.kind = "commit"
                     PROVE  /\ Len(q) \in {1, 2} /\ Final(q).upload = NoUpload
                            /\ Final(q).meta[up[b].target] = Stored(up[b].document)
                            /\ InFlash(flash, up[b].target, up[b].document)
        OBVIOUS
      <4>2. Commits(up[b], q)
        BY <2>4, <4>1
      <4> HIDE DEF p, q
      <4>3. /\ Len(q) = 2 /\ Final(q).upload = NoUpload /\ header \in GoodHeaders
            /\ Final(q).meta = [header.meta EXCEPT ![up[b].target] = Stored(up[b].document)]
            /\ InFlash(flash, up[b].target, up[b].document)
        BY <4>2, <1>8 DEF Commits
      <4>4. Final(q).meta[up[b].target] = Stored(up[b].document)
        BY <4>3, <1>4, GoodParts
      <4> QED BY <4>3, <4>4
    <3> HIDE DEF p, q, sv
    <3> QED BY <2>2, <2>3, <3>1, <3>2 DEF Uncommitted, s
  <2> HIDE DEF sv, p, s, q
  <2>7. ASSUME NEW c \in Dashboards, c # b PROVE Uncommitted(header, flash, q, sv, up[c])
    BY <1>5, <1>7, <2>2, <2>3, <2>5, <2>7, UncommittedCalled
  <2>8. \A c \in Dashboards : Uncommitted(header, flash, q, serving', up[c])
    BY <2>1, <2>6, <2>7
  <2>9. Final(q).last.session \in used \union {StatsSession, NoSession}
    BY <1>4, <2>3, <2>5
  <2>10. ASSUME NEW t \in Targets, NEW d \in Documents, t \notin Erased(p),
                Stays(header, flash, << >>, t, d)
         PROVE  Stays(header, flash, q, t, d)
    BY <1>2, <1>10, <2>10, RequestSpares DEF p, q
  <2> QED BY <1>2, <1>3, <2>1, <2>8, <2>9, <2>10, CallAcknowledged
<1> QED BY <1>9, <1>10

LEMMA PatchAcknowledged ==
  ASSUME UploadInv, AcknowledgedInv, NEW c \in Patches, Patch(c)
  PROVE  AcknowledgedInv'
<1> DEFINE p == WritePayload(Patchable, c)
           q == p.effects
<1>1. /\ Begins(p) /\ saved' = Without(Erased(p)) /\ used' = used /\ up' = up /\ serving' = serving
  <2>1. Patchable \in Targets /\ c \in Documents /\ header \in GoodHeaders \union {NoHeader}
    BY ClientsAssumption, UploadParts, Types
  <2>2. WellFormed(q)
    BY <2>1, WritePlan
  <2>3. Begins(p)
    BY <2>2, UploadParts, CallBegins DEF Patch
  <2> QED BY <2>3 DEF Patch, httpVars
<1>2. todo["httpd"] = << >> /\ todo'["httpd"] = q /\ flash' = flash /\ header' = header
  BY <1>1 DEF Begins
<1>3. serving = NotServing
  BY <1>2, UploadParts
<1>4. Final(q).last.session = NoSession
  <2>1. Patchable \in Targets /\ c \in Documents /\ header \in GoodHeaders \union {NoHeader}
    BY ClientsAssumption, UploadParts, Types
  <2>2. Final(q).last = [target |-> NoTarget, session |-> NoSession]
    BY <2>1, WritePlan
  <2> QED BY <2>2
<1> HIDE DEF q, p
<1>5. \A b \in Dashboards : Uncommitted(header, flash, q, serving', up[b])
  <2>1. ASSUME NEW b \in Dashboards PROVE Uncommitted(header, flash, q, NotServing, up[b])
    <3>1. /\ Uncommitted(header, flash, << >>, NotServing, up[b])
          /\ up[b] # NotUploading => up[b].session # NoSession
      BY <1>2, <1>3, UploadParts, Uploading DEF AcknowledgedInv
    <3> QED BY <1>4, <3>1, NoSessionIsOpen, UncommittedCalled
  <2> QED BY <1>1, <1>3, <2>1
<1>6. ASSUME NEW t \in Targets, NEW d \in Documents, t \notin Erased(p),
             Stays(header, flash, << >>, t, d)
      PROVE  Stays(header, flash, q, t, d)
  BY <1>6, PatchSpares DEF p, q
<1> QED BY <1>1, <1>2, <1>4, <1>5, <1>6, CallAcknowledged

LEMMA DeleteAcknowledged ==
  ASSUME UploadInv, AcknowledgedInv, DeleteNext
  PROVE  AcknowledgedInv'
<1> DEFINE ts == Head(jobs)
           p == DeletePayloads(ts)
           q == p.effects
<1>0. ts \in DeleteCalls /\ header \in GoodHeaders \union {NoHeader}
  <2>1. jobs \in Seq(DeleteCalls) /\ jobs # << >>
    BY UploadParts DEF DeleteNext, TypeInv
  <2> QED BY <2>1, HeadTailProperties, UploadParts, Types
<1>1. /\ Begins(p) /\ saved' = Without(Erased(p)) /\ used' = used /\ up' = up /\ serving' = serving
  <2>2. WellFormed(q)
    BY <1>0, DeletePlan
  <2>3. Begins(p)
    BY <2>2, UploadParts, CallBegins DEF DeleteNext
  <2> QED BY <2>3 DEF DeleteNext
<1>2. todo["httpd"] = << >> /\ todo'["httpd"] = q /\ flash' = flash /\ header' = header
  BY <1>1 DEF Begins
<1>3. serving = NotServing
  BY <1>2, UploadParts
<1>4. Final(q).last = HeaderOrDefault.last
  <2> HIDE DEF ts
  <2> QED BY <1>0, DeletePlan
<1> HIDE DEF q, p, ts
<1>5. \A b \in Dashboards : Uncommitted(header, flash, q, serving', up[b])
  <2>1. ASSUME NEW b \in Dashboards PROVE Uncommitted(header, flash, q, NotServing, up[b])
    <3>1. /\ Uncommitted(header, flash, << >>, NotServing, up[b])
          /\ up[b] # NotUploading => up[b].session # NoSession
      BY <1>2, <1>3, UploadParts, Uploading DEF AcknowledgedInv
    <3>2. up[b] # NotUploading => HeaderOrDefault.last.session # up[b].session
      BY <1>2, <1>3, <3>1, LastOrNone
    <3> QED BY <1>4, <3>1, <3>2, NoSessionIsOpen, UncommittedCalled
  <2> QED BY <1>1, <1>3, <2>1
<1>6. ASSUME NEW t \in Targets, NEW d \in Documents, t \notin Erased(p),
             Stays(header, flash, << >>, t, d)
      PROVE  Stays(header, flash, q, t, d)
  BY <1>0, <1>6, DeleteSpares DEF p, q
<1>7. Final(q).last.session \in used \union {StatsSession, NoSession}
  BY <1>4, LastOrNone
<1> QED BY <1>1, <1>2, <1>5, <1>6, <1>7, CallAcknowledged

\* When a call ends, what was promised of its header holds of the header; the
\* answer to a commit makes its document an acknowledged one.
LEMMA AdvanceAcknowledged ==
  ASSUME UploadInv, AcknowledgedInv, HttpAdvance
  PROVE  AcknowledgedInv'
<1> DEFINE q == todo["httpd"]
           sv == serving
<1>1. Advance("httpd") /\ used' = used /\ "httpd" \in Actors
  BY DEF HttpAdvance, Actors
<1>2. /\ todo'["httpd"] = Tail(q) /\ WellFormed(q) /\ q # << >> /\ Len(q) \in {1, 2, 3, 4}
  BY <1>1, UploadParts, AdvanceTodo, AdvanceStep
<1>3. /\ Tail(q) # << >> => Final(Tail(q)) = Final(q)
      /\ Tail(q) = << >> <=> Len(q) = 1
      /\ Final(q) \in GoodHeaders
  BY <1>2, NextEffect
<1>4. Final(q).last.session \in used \union {StatsSession, NoSession} /\ Final(q) # NoHeader
  BY <1>2, <1>3, GoodParts DEF AcknowledgedInv
<1>5. todo'["httpd"] # << >> =>
         Final(todo'["httpd"]).last.session \in used' \union {StatsSession, NoSession}
  BY <1>1, <1>2, <1>3, <1>4
<1>6. \A c \in Dashboards :
         /\ up[c] = NotUploading \/ up[c].session # NoSession
         /\ IsUpload(up[c]) /\ Uncommitted(header, flash, q, sv, up[c])
  BY UploadParts, Uploading DEF UploadType, IsUpload, AcknowledgedInv
<1>7. CASE Len(q) = 1
  <2>1. flash' = flash /\ header' = Final(q)
    BY <1>1, <1>7, UploadParts, AdvanceWrites
  <2>2. Answer(sv.session, sv.request, TRUE) /\ serving' = NotServing
    BY <1>7 DEF HttpAdvance
  <2>3. todo'["httpd"] = << >>
    BY <1>2, <1>3, <1>7
  <2>4. ASSUME NEW c \in Dashboards
        PROVE  Uncommitted(header', flash', todo'["httpd"], serving', up'[c])
    <3> DEFINE u == up[c]
               v == up'[c]
    <3>1. v = IF u.session = sv.session /\ sv.session # NoSession
              THEN AfterAnswer(u, sv.request, TRUE) ELSE u
      BY <2>2 DEF Answer
    <3>2. /\ u = NotUploading \/ u.session # NoSession
          /\ IsUpload(u) /\ Uncommitted(header, flash, q, sv, u)
      BY <1>6
    <3> HIDE DEF u, v, sv, q
    <3>3. Uncommitted(Final(q), flash, << >>, NotServing, v)
      BY <1>2, <3>1, <3>2, UncommittedWritten
    <3> QED BY <2>1, <2>2, <2>3, <3>3 DEF v
  <2>5. ASSUME NEW t \in Targets, saved'[t] # Nothing
        PROVE  Stays(header', flash', todo'["httpd"], t, saved'[t])
    <3>1. CASE /\ sv.session # NoSession /\ sv.request.kind = "commit"
               /\ \E b \in Dashboards : up[b].session = sv.session /\ up[b].target = t
      <4>1. PICK b \in Dashboards : up[b].session = sv.session /\ up[b].target = t
        BY <3>1
      <4> DEFINE waiting == {c \in Dashboards : up[c].session = sv.session /\ sv.session # NoSession}
      <4>2. up[b] # NotUploading
        BY <3>1, <4>1, UploadParts, Uploading
      <4>3. waiting = {b}
        BY <3>1, <4>1, <4>2, UploadParts
      <4>4. saved'[t] = up[b].document
        <5>1. saved'[t] = up[CHOOSE c \in waiting : TRUE].document
          BY <2>2, <3>1, <4>1, <4>3 DEF Answer
        <5>2. (CHOOSE c \in waiting : TRUE) = b
          <6> HIDE DEF waiting
          <6> QED BY <4>3
        <5> QED BY <5>1, <5>2
      <4>5. /\ Final(q).upload = NoUpload /\ Final(q).meta[t] = Stored(up[b].document)
            /\ InFlash(flash, t, up[b].document)
        BY <1>6, <3>1, <4>1, <4>2 DEF Uncommitted
      <4>6. NoTarget # t
        BY StorageAssumption
      <4>7. Stays(Final(q), flash, << >>, t, up[b].document)
        BY <1>4, <4>5, <4>6, NoEffects, NoSessionIsOpen DEF Stays
      <4> QED BY <2>1, <2>3, <4>4, <4>7
    <3>2. CASE ~(/\ sv.session # NoSession /\ sv.request.kind = "commit"
                 /\ \E b \in Dashboards : up[b].session = sv.session /\ up[b].target = t)
      <4>1. saved'[t] = saved[t]
        BY <2>2, <3>2 DEF Answer
      <4>2. Stays(header, flash, q, t, saved[t])
        BY <2>5, <4>1 DEF AcknowledgedInv
      <4> QED BY <1>2, <1>4, <2>1, <2>3, <4>1, <4>2, StaysWritten
    <3> QED BY <3>1, <3>2
  <2>6. header'.last.session \in used' \union {StatsSession, NoSession}
    BY <1>1, <1>4, <2>1
  <2> QED BY <1>5, <2>4, <2>5, <2>6, AcknowledgedNext
<1>8. CASE Len(q) \in {2, 3, 4}
  <2>1. up' = up /\ serving' = serving /\ saved' = saved
    <3>1. Len(q) # 1
      BY <1>8
    <3> QED BY <3>1 DEF HttpAdvance
  <2>2. ASSUME header' \in {header, NoHeader},
               \A c \in Dashboards : Uncommitted(header', flash', Tail(q), sv, up[c]),
               \A t \in Targets : saved[t] # Nothing => Stays(header', flash', Tail(q), t, saved[t])
        PROVE  AcknowledgedInv'
    <3>1. header' # NoHeader => header'.last.session \in used' \union {StatsSession, NoSession}
      BY <1>1, <2>2 DEF AcknowledgedInv
    <3> QED BY <1>2, <1>5, <2>1, <2>2, <3>1, AcknowledgedNext
  <2>3. CASE Len(q) = 2
    <3>1. flash' = flash /\ header' = NoHeader
      BY <1>1, <2>3, UploadParts, AdvanceErases
    <3> HIDE DEF q, sv
    <3>2. \A c \in Dashboards : Uncommitted(NoHeader, flash, Tail(q), sv, up[c])
      BY <1>2, <1>6, <2>3, UncommittedErased
    <3>3. ASSUME NEW t \in Targets, saved[t] # Nothing
          PROVE  Stays(NoHeader, flash, Tail(q), t, saved[t])
      <4>1. Stays(header, flash, q, t, saved[t])
        BY <3>3 DEF AcknowledgedInv, q
      <4> QED BY <1>2, <2>3, <4>1, StaysErased
    <3> QED BY <2>2, <3>1, <3>2, <3>3
  <2>4. CASE Len(q) \in {3, 4}
    <3> DEFINE e == Head(q)
               g == flash'
    <3>1. header' = header /\ Flashed(flash, g, e)
      BY <1>1, <2>4, UploadParts, AdvancePayload DEF Flashed
    <3>2. e = Head(q)
      OBVIOUS
    <3> HIDE DEF q, sv, e, g
    <3>3. \A c \in Dashboards : Uncommitted(header, g, Tail(q), sv, up[c])
      BY <1>2, <1>6, <2>4, UncommittedFlashed
    <3>4. ASSUME NEW t \in Targets, saved[t] # Nothing
          PROVE  Stays(header, g, Tail(q), t, saved[t])
      <4>1. Stays(header, flash, q, t, saved[t])
        BY <3>4 DEF AcknowledgedInv, q
      <4> QED BY <1>2, <2>4, <3>1, <3>2, <4>1, StaysFlashed
    <3> QED BY <2>2, <3>1, <3>3, <3>4 DEF g
  <2> QED BY <1>8, <2>3, <2>4
<1> QED BY <1>2, <1>7, <1>8

\* An interruption loses either the header, and with it all that was promised,
\* or only what was not promised yet.
LEMMA BreakAcknowledged ==
  ASSUME UploadInv, AcknowledgedInv, UNCHANGED <<flash, header, used>>, todo'["httpd"] = << >>,
         serving' = NotServing, saved' = AfterInterruption,
         \A c \in Dashboards : up'[c] = NotUploading \/ up'[c] = up[c]
  PROVE  AcknowledgedInv'
<1>1. ASSUME NEW c \in Dashboards PROVE Uncommitted(header, flash, << >>, NotServing, up'[c])
  <2>0. /\ Uncommitted(header, flash, todo["httpd"], serving, up[c])
        /\ up[c] = NotUploading \/ up[c].session # NoSession
    BY UploadParts, Uploading DEF AcknowledgedInv
  <2>1. CASE up'[c] = NotUploading
    BY <2>1, NothingToCommit
  <2>2. CASE up'[c] = up[c]
    BY <2>0, <2>2, UncommittedBroken
  <2> QED BY <2>1, <2>2
<1>2. ASSUME NEW t \in Targets, saved'[t] # Nothing PROVE Stays(header, flash, << >>, t, saved'[t])
  <2>1. header # NoHeader /\ saved'[t] = saved[t]
    BY <1>2 DEF AfterInterruption, Without
  <2>2. Stays(header, flash, todo["httpd"], t, saved[t])
    BY <1>2, <2>1 DEF AcknowledgedInv
  <2> QED BY <2>1, <2>2, StaysBroken
<1> QED BY <1>1, <1>2, AcknowledgedNext DEF AcknowledgedInv

LEMMA AcknowledgedStep ==
  ASSUME UploadInv, AcknowledgedInv, Careful, Days = 0, [Next]_vars
  PROVE  AcknowledgedInv'
<1>0. ASSUME UNCHANGED <<storageVars, serving, up, used, saved>> PROVE AcknowledgedInv'
  BY <1>0, AcknowledgedNext DEF AcknowledgedInv, storageVars
<1>1. ASSUME NEW b \in Dashboards, NEW u \in Uploads, BeginUpload(b, u[1], u[2])
      PROVE  AcknowledgedInv'
  BY <1>1, BeginAcknowledged
<1>2. ASSUME NEW b \in Dashboards, Abandon(b) PROVE AcknowledgedInv'
  BY <1>2, AbandonAcknowledged
<1>3. ASSUME NEW b \in Dashboards, ServeUpload(b) PROVE AcknowledgedInv'
  BY <1>3, ServeAcknowledged
<1>4. ASSUME NEW d \in Patches, Patch(d) PROVE AcknowledgedInv'
  BY <1>4, PatchAcknowledged
<1>5. ASSUME NEW calls \in Deletions, Delete(calls) PROVE AcknowledgedInv'
  BY <1>0, <1>5 DEF Delete
<1>6. CASE DeleteNext
  BY <1>6, DeleteAcknowledged
<1>7. CASE HttpAdvance
  BY <1>7, AdvanceAcknowledged
<1>8. CASE HttpFails
  <2>1. "httpd" \in Actors
    BY DEF Actors
  <2>2. UNCHANGED <<flash, header, used>> /\ todo'["httpd"] = << >>
    BY <1>8, <2>1, UploadParts, GiveUpStep DEF HttpFails
  <2> QED BY <1>8, <2>2, BreakAcknowledged DEF HttpFails
<1>9. CASE Reboot
  <2>1. UNCHANGED <<flash, header, used>> /\ todo'["httpd"] = << >>
    BY <1>9 DEF Reboot, PowerLoss, Actors
  <2> QED BY <1>9, <2>1, BreakAcknowledged DEF Reboot
<1>10. CASE UNCHANGED vars
  BY <1>0, <1>10 DEF vars, httpVars
<1> QED BY <1>1, <1>2, <1>3, <1>4, <1>5, <1>6, <1>7, <1>8, <1>9, <1>10, LoopRests DEF Next

LEMMA InitAcknowledged == Init => AcknowledgedInv
<1> SUFFICES ASSUME Init PROVE AcknowledgedInv
  OBVIOUS
<1>1. /\ header = NoHeader /\ todo["httpd"] = << >>
      /\ \A b \in Dashboards : up[b] = NotUploading
      /\ \A t \in Targets : saved[t] = Nothing
  BY DEF Init, StorageInit, Actors
<1> QED BY <1>1, NothingToCommit DEF AcknowledgedInv

\* Between statistics writes, and under the rest of Careful: once a dashboard
\* was told that its upload is committed, every reader finds that document in
\* the target, through all other uploads, patches and deletions, failing calls
\* and power losses, until a later request starts to rewrite that target or an
\* interruption loses the header sector.
THEOREM AcknowledgedStays ==
  ASSUME Careful, Days = 0
  PROVE  Spec => []SavedDocumentIntact
<1>1. UploadInv /\ AcknowledgedInv => SavedDocumentIntact
  <2> SUFFICES ASSUME UploadInv, AcknowledgedInv, NEW t \in Targets, saved[t] # Nothing
               PROVE  Visible(StableHeader, t) = saved[t]
    BY DEF SavedDocumentIntact
  <2> DEFINE q == todo["httpd"]
             d == saved[t]
  <2>1. d \in Documents /\ WellFormed(q)
    BY UploadParts, Types DEF TypeInv
  <2>2. Stays(header, flash, q, t, d)
    BY DEF AcknowledgedInv
  <2>3. Visible(StableHeader, t) = Look(Meta(header, q), flash, t)
    <3>1. [x \in Targets |-> Visible(StableHeader, x)] = Sees(header, flash, q)
      BY <2>1, VisibleIsSeen
    <3> QED BY <3>1 DEF Sees
  <2>4. Meta(header, q)[t] = Stored(d) /\ InFlash(flash, t, d)
    <3>1. header = NoHeader => q # << >> /\ Len(q) = 1
      BY <2>2, EmptySeq, LenProperties DEF Stays
    <3> HIDE DEF q, d
    <3> QED BY <2>2, <3>1 DEF Stays, Meta
  <2> QED BY <2>1, <2>3, <2>4, LookReads
<1>2. UploadInv /\ AcknowledgedInv /\ [Next]_vars => UploadInv' /\ AcknowledgedInv'
  BY UploadStep, AcknowledgedStep
<1> QED BY <1>1, <1>2, InitUploads, InitAcknowledged, PTL DEF Spec
=============================================================================

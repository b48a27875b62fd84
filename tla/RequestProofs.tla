------------------------------ MODULE RequestProofs ------------------------------
(* Proofs about what requests ask of the rest of the program: the mailbox of  *)
(* the controls, for any settings, gates and levels, the resets of the        *)
(* system, the dispatch of requests, for any strangers, the configuration in  *)
(* use, and the list of networks of the setup.                                *)
EXTENDS ControlMailbox, SystemReset, HttpRouting, ConfigCache, NetworkList,
        SequenceTheorems, FiniteSetTheorems, WellFoundedInduction, TLAPS

-----------------------------------------------------------------------------
(* The controls: their types, and that no acknowledged change is lost between*)
(* the two tasks.                                                           *)

\* A request is on its way from the stored value to its flag.
Raising(s) == handler.at = "raise flag" /\ handler.setting = s

HandlerOK ==
    /\ handler.at = "raise flag" => handler.setting \in Settings
    /\ handler.at = "store level" => handler.level \in Levels
    /\ handler.at = "store keepalive" => handler.active \in BOOLEAN /\ handler.changed \in BOOLEAN

\* What has been taken belongs to the section that the loop is in.
TakenOK ==
    /\ loop.section = 0 => loop.lag = 0 /\ loop.taken = {}
    /\ loop.section = 1 => loop.taken \subseteq {Timezone}
    /\ loop.section = 2 => loop.taken \subseteq Plain
    /\ loop.section \in {3, 5} => loop.taken = {}
    /\ loop.section = 4 => loop.taken \subseteq {"gate"}

Told == {<< >>} \union {<<v>> : v \in Values} \union (Gates \X Levels)
ToldOK == acknowledged \in [Settings \union {"gate"} -> Told]

\* The section that applies a setting.
SectionOf(s) == IF s = Timezone THEN 1 ELSE 2

\* The acknowledged value is the request, unless the next one is being stored;
\* it is in force once its flag is down and the loop no longer works on it, and
\* the dashboards are shown the value in force before the loop comes to it.
SettingKept(s) ==
    /\ ~Raising(s) /\ acknowledged[s] # << >> =>
          /\ acknowledged[s] = <<requested[s]>>
          /\ ~pending[s] /\ s \notin loop.taken => device[s] = requested[s]
    /\ ~pending[s] /\ s \notin loop.taken /\ loop.section <= SectionOf(s) =>
          shown[s] = device[s]

GateKept ==
    handler.at # "store level" /\ acknowledged["gate"] # << >> =>
        /\ acknowledged["gate"] = <<gateRequest.gate, gateRequest.level>>
        /\ ~gateRequest.pending /\ "gate" \notin loop.taken =>
              threshold[gateRequest.gate] = BothThresholds(gateRequest.level)

MailInv ==
    /\ ControlTypeOK /\ HandlerOK /\ TakenOK /\ ToldOK
    /\ \A s \in Settings : SettingKept(s)
    /\ GateKept

-----------------------------------------------------------------------------
(* The sections and the values.                                              *)

LEMMA SectionNames ==
  ASSUME ControlTypeOK
  PROVE  /\ Len(Sections) = 5
         /\ InSection("timezone") <=> loop.section = 1
         /\ InSection("plain") <=> loop.section = 2
         /\ InSection("session") <=> loop.section = 3
         /\ InSection("gate") <=> loop.section = 4
         /\ InSection("publish") <=> loop.section = 5
         /\ loop.section = 1 => SettingsOf(Section) = {Timezone}
         /\ loop.section = 2 => SettingsOf(Section) = Plain
<1>1. /\ Len(Sections) = 5 /\ Sections[1] = "timezone" /\ Sections[2] = "plain"
      /\ Sections[3] = "session" /\ Sections[4] = "gate" /\ Sections[5] = "publish"
  BY DEF Sections
<1>2. loop.section \in 0..5
  BY <1>1 DEF ControlTypeOK
<1>3. loop.section = 0 \/ loop.section \in {1, 2, 3, 4, 5}
  BY <1>2
<1> QED BY <1>1, <1>3 DEF InSection, Section, SettingsOf

LEMMA ClampedValues == \A v \in Inputs : Clamp(v) \in Values
BY ControlAssumption DEF Clamp, Values

\* A sensitivity that was applied is the one that is reported.
LEMMA LevelsAreReported ==
  ASSUME NEW level \in Levels
  PROVE  /\ BothThresholds(level) \in [move : 0..MaxLevel, still : 0..MaxLevel]
         /\ ReportedLevel(BothThresholds(level)) = level
<1>1. MaxLevel \in Nat /\ level \in 0..MaxLevel
  BY ControlAssumption
<1>2. MaxLevel - level \in 0..MaxLevel /\ MaxLevel - (MaxLevel - level) = level
  BY <1>1
<1> QED BY <1>1, <1>2 DEF BothThresholds, ReportedLevel

LEMMA LoopAt ==
  ASSUME ControlTypeOK
  PROVE  /\ loop = [section |-> loop.section, lag |-> loop.lag, taken |-> loop.taken]
         /\ loop.section \in 0..5 /\ loop.lag \in 0..LongestRun
         /\ loop.taken \in SUBSET (Settings \union {"gate"})
BY SectionNames DEF ControlTypeOK

-----------------------------------------------------------------------------
(* The HTTP task.                                                            *)

LEMMA PostSettingKeepsInv ==
  ASSUME MailInv, NEW s \in Settings, NEW v \in Inputs \union {Malformed}, PostSetting(s, v)
  PROVE  MailInv'
<1>1. /\ requested' = [requested EXCEPT ![s] = Clamp(v)]
      /\ handler' = [at |-> "raise flag", setting |-> s] /\ handler = Resting
      /\ UNCHANGED <<pending, shown, device, gateVars, sessionVars, loop, acknowledged>>
      /\ Clamp(v) \in Values
  BY ClampedValues DEF PostSetting, HandlerFree, Readable
<1>2. ControlTypeOK'
  BY <1>1 DEF MailInv, ControlTypeOK, gateVars, sessionVars, OldestAge
<1>3. HandlerOK' /\ TakenOK' /\ ToldOK'
  BY <1>1 DEF MailInv, HandlerOK, TakenOK, ToldOK
<1>4. ASSUME NEW t \in Settings PROVE SettingKept(t)'
  <2>1. SettingKept(t) /\ ~Raising(t)
    BY <1>1 DEF MailInv, Raising, Resting
  <2>2. ~Raising(t)' => t # s
    BY <1>1 DEF Raising
  <2>3. t # s => requested'[t] = requested[t]
    BY <1>1 DEF MailInv, ControlTypeOK
  <2> QED BY <1>1, <2>1, <2>2, <2>3 DEF SettingKept
<1>5. GateKept'
  BY <1>1 DEF MailInv, GateKept, Resting, gateVars
<1> QED BY <1>2, <1>3, <1>4, <1>5 DEF MailInv

LEMMA FinishSettingKeepsInv ==
  ASSUME MailInv, FinishSetting
  PROVE  MailInv'
<1> DEFINE s == handler.setting
<1>1. /\ pending' = [pending EXCEPT ![s] = TRUE]
      /\ shown' = [shown EXCEPT ![s] = requested[s]]
      /\ acknowledged' = [acknowledged EXCEPT ![s] = <<requested[s]>>]
      /\ handler.at = "raise flag" /\ handler' = Resting
      /\ UNCHANGED <<requested, device, gateVars, sessionVars, loop>>
  BY DEF FinishSetting
<1>2. s \in Settings
  BY <1>1 DEF MailInv, HandlerOK
<1>3. requested[s] \in Values /\ "gate" # s
  BY <1>2, ControlAssumption DEF MailInv, ControlTypeOK, Settings
<1>4. ControlTypeOK'
  BY <1>1, <1>2, <1>3 DEF MailInv, ControlTypeOK, gateVars, sessionVars, OldestAge
<1>5. HandlerOK' /\ TakenOK' /\ ToldOK'
  <2>1. <<requested[s]>> \in Told
    BY <1>3 DEF Told
  <2> QED BY <1>1, <1>2, <2>1 DEF MailInv, HandlerOK, TakenOK, ToldOK, Resting
<1>6. ASSUME NEW t \in Settings PROVE SettingKept(t)'
  <2>1. SettingKept(t)
    BY DEF MailInv
  <2>2. CASE t = s
    <3>1. pending'[t] = TRUE /\ acknowledged'[t] = <<requested'[t]>>
      BY <1>1, <1>2, <2>2 DEF MailInv, ControlTypeOK, ToldOK
    <3> QED BY <3>1 DEF SettingKept
  <2>3. CASE t # s
    <3>1. /\ pending'[t] = pending[t] /\ shown'[t] = shown[t]
          /\ acknowledged'[t] = acknowledged[t]
      BY <1>1, <2>3 DEF MailInv, ControlTypeOK, ToldOK
    <3>2. ~Raising(t)
      BY <2>3 DEF Raising
    <3> QED BY <1>1, <2>1, <3>1, <3>2 DEF SettingKept
  <2> QED BY <2>2, <2>3
<1>7. GateKept'
  <2>1. acknowledged'["gate"] = acknowledged["gate"]
    BY <1>1, <1>3 DEF MailInv, ToldOK
  <2> QED BY <1>1, <2>1 DEF MailInv, GateKept, gateVars
<1> QED BY <1>4, <1>5, <1>6, <1>7 DEF MailInv

\* A step that leaves the settings and what the loop has taken alone.
LEMMA SettingsUndisturbed ==
  ASSUME MailInv, UNCHANGED <<mailVars, loop>>,
         \A s \in Settings : acknowledged'[s] = acknowledged[s] /\ ~Raising(s)
  PROVE  \A s \in Settings : SettingKept(s)'
<1> SUFFICES ASSUME NEW s \in Settings PROVE SettingKept(s)'
  OBVIOUS
<1>1. SettingKept(s) /\ ~Raising(s) /\ acknowledged'[s] = acknowledged[s]
  BY DEF MailInv
<1> QED BY <1>1 DEF SettingKept, mailVars

LEMMA PostGateKeepsInv ==
  ASSUME MailInv, NEW g \in Gates, NEW v \in Levels, PostGate(g, v)
  PROVE  MailInv'
<1>1. /\ gateRequest' = [gateRequest EXCEPT !.gate = g] /\ handler = Resting
      /\ handler' = [at |-> "store level", level |-> v]
      /\ UNCHANGED <<mailVars, threshold, sessionVars, loop, acknowledged>>
  BY DEF PostGate, HandlerFree
<1>2. ControlTypeOK'
  BY <1>1 DEF MailInv, ControlTypeOK, mailVars, sessionVars, OldestAge
<1>3. HandlerOK' /\ TakenOK' /\ ToldOK'
  BY <1>1 DEF MailInv, HandlerOK, TakenOK, ToldOK
<1>4. \A s \in Settings : SettingKept(s)'
  BY <1>1, SettingsUndisturbed DEF Raising, Resting
<1>5. GateKept'
  BY <1>1 DEF GateKept
<1> QED BY <1>2, <1>3, <1>4, <1>5 DEF MailInv

LEMMA FinishGateKeepsInv ==
  ASSUME MailInv, FinishGate
  PROVE  MailInv'
<1>1. /\ gateRequest' = [gateRequest EXCEPT !.level = handler.level, !.pending = TRUE]
      /\ handler.at = "store level" /\ handler' = Resting
      /\ acknowledged' = [acknowledged EXCEPT !["gate"] = <<gateRequest.gate, handler.level>>]
      /\ UNCHANGED <<mailVars, threshold, sessionVars, loop>>
  BY DEF FinishGate
<1>2. handler.level \in Levels /\ gateRequest.gate \in Gates
  BY <1>1 DEF MailInv, HandlerOK, ControlTypeOK
<1>3. /\ gateRequest'.gate = gateRequest.gate /\ gateRequest'.level = handler.level
      /\ gateRequest'.pending = TRUE
  BY <1>1 DEF MailInv, ControlTypeOK
<1>4. ControlTypeOK'
  BY <1>1, <1>2 DEF MailInv, ControlTypeOK, mailVars, sessionVars, OldestAge
<1>5. HandlerOK' /\ TakenOK' /\ ToldOK'
  <2>1. <<gateRequest.gate, handler.level>> \in Told
    BY <1>2 DEF Told
  <2> QED BY <1>1, <2>1 DEF MailInv, HandlerOK, TakenOK, ToldOK, Resting
<1>6. \A s \in Settings : SettingKept(s)'
  <2>1. \A s \in Settings : acknowledged'[s] = acknowledged[s]
    BY <1>1, ControlAssumption DEF MailInv, ToldOK, Settings
  <2> QED BY <1>1, <2>1, SettingsUndisturbed DEF Raising
<1>7. GateKept'
  <2>1. acknowledged'["gate"] = <<gateRequest.gate, handler.level>>
    BY <1>1 DEF MailInv, ToldOK
  <2> QED BY <1>3, <2>1 DEF GateKept
<1> QED BY <1>4, <1>5, <1>6, <1>7 DEF MailInv

LEMMA PostSessionKeepsInv ==
  ASSUME MailInv, NEW active \in BOOLEAN, PostSession(active)
  PROVE  MailInv'
<1>1. /\ session' = [session EXCEPT !.active = active] /\ handler = Resting
      /\ handler' = [at |-> "store keepalive", active |-> active,
                     changed |-> session.active # active]
      /\ UNCHANGED <<mailVars, gateVars, keepAge, engineering, tuning, loop, acknowledged>>
  BY DEF PostSession, HandlerFree
<1>2. ControlTypeOK'
  BY <1>1 DEF MailInv, ControlTypeOK, mailVars, gateVars, OldestAge
<1>3. HandlerOK' /\ TakenOK' /\ ToldOK'
  BY <1>1 DEF MailInv, HandlerOK, TakenOK, ToldOK
<1>4. \A s \in Settings : SettingKept(s)'
  BY <1>1, SettingsUndisturbed DEF Raising, Resting
<1>5. GateKept'
  BY <1>1 DEF MailInv, GateKept, gateVars, Resting
<1> QED BY <1>2, <1>3, <1>4, <1>5 DEF MailInv

LEMMA FinishSessionKeepsInv ==
  ASSUME MailInv, FinishSession
  PROVE  MailInv'
<1>1. /\ keepAge' = (IF handler.active THEN 0 ELSE keepAge)
      /\ session' = [session EXCEPT !.pending = @ \/ handler.changed]
      /\ handler.at = "store keepalive" /\ handler' = Resting
      /\ UNCHANGED <<mailVars, gateVars, engineering, tuning, loop, acknowledged>>
  BY DEF FinishSession
<1>2. ControlTypeOK'
  <2>1. OldestAge \in Nat
    BY ControlAssumption DEF OldestAge
  <2>2. keepAge' \in 0..OldestAge
    <3>1. keepAge' = 0 \/ keepAge' = keepAge
      BY <1>1
    <3>2. keepAge \in 0..OldestAge
      BY DEF MailInv, ControlTypeOK
    <3> QED BY <2>1, <3>1, <3>2
  <2>3. session' \in [active : BOOLEAN, pending : BOOLEAN]
    BY <1>1 DEF MailInv, ControlTypeOK
  <2> QED BY <1>1, <2>2, <2>3 DEF MailInv, ControlTypeOK, mailVars, gateVars, OldestAge
<1>3. HandlerOK' /\ TakenOK' /\ ToldOK'
  BY <1>1 DEF MailInv, HandlerOK, TakenOK, ToldOK, Resting
<1>4. \A s \in Settings : SettingKept(s)'
  BY <1>1, SettingsUndisturbed DEF Raising
<1>5. GateKept'
  BY <1>1 DEF MailInv, GateKept, gateVars, Resting
<1> QED BY <1>2, <1>3, <1>4, <1>5 DEF MailInv

-----------------------------------------------------------------------------
(* The main loop.                                                            *)

LEMMA BeginRunKeepsInv ==
  ASSUME MailInv, BeginRun
  PROVE  MailInv'
<1>1. /\ loop' = [section |-> 1, lag |-> 0, taken |-> {}] /\ loop.section = 0 /\ loop.taken = {}
      /\ UNCHANGED <<mailVars, gateVars, sessionVars, handler, acknowledged>>
  BY DEF BeginRun, SleepingLoop
<1>2. ControlTypeOK'
  <2>1. loop' \in [section : 0..Len(Sections), lag : 0..LongestRun,
                   taken : SUBSET (Settings \union {"gate"})]
    BY <1>1, SectionNames, ControlAssumption DEF MailInv
  <2> QED BY <1>1, <2>1 DEF MailInv, ControlTypeOK, mailVars, gateVars, sessionVars, OldestAge
<1>3. HandlerOK' /\ TakenOK' /\ ToldOK'
  BY <1>1 DEF MailInv, HandlerOK, TakenOK, ToldOK
<1>4. ASSUME NEW s \in Settings PROVE SettingKept(s)'
  <2>1. SettingKept(s) /\ loop.section <= SectionOf(s) /\ Raising(s)' = Raising(s)
    BY <1>1 DEF MailInv, SectionOf, Raising
  <2> QED BY <1>1, <2>1 DEF SettingKept, mailVars
<1>5. GateKept'
  BY <1>1 DEF MailInv, GateKept, gateVars
<1> QED BY <1>2, <1>3, <1>4, <1>5 DEF MailInv

LEMMA ClearFlagKeepsInv ==
  ASSUME MailInv, NEW s \in Settings, ClearFlag(s)
  PROVE  MailInv'
<1>1. /\ pending' = [pending EXCEPT ![s] = FALSE]
      /\ loop' = [loop EXCEPT !.taken = @ \union {s}]
      /\ UNCHANGED <<requested, shown, device, gateVars, sessionVars, handler, acknowledged>>
  BY DEF ClearFlag
<1>2. \/ loop.section = 1 /\ s = Timezone
      \/ loop.section = 2 /\ s \in Plain
  BY SectionNames DEF ClearFlag, MailInv
<1>3. /\ loop' \in [section : 0..Len(Sections), lag : 0..LongestRun,
                    taken : SUBSET (Settings \union {"gate"})]
      /\ loop'.section = loop.section /\ loop'.taken = loop.taken \union {s}
  BY <1>1 DEF MailInv, ControlTypeOK
<1>4. ControlTypeOK'
  BY <1>1, <1>3 DEF MailInv, ControlTypeOK, gateVars, sessionVars, OldestAge
<1>5. HandlerOK' /\ TakenOK' /\ ToldOK'
  <2>1. TakenOK'
    <3>1. /\ loop.section = 1 => loop'.taken \subseteq {Timezone}
          /\ loop.section = 2 => loop'.taken \subseteq Plain
      BY <1>2, <1>3 DEF MailInv, TakenOK
    <3> QED BY <1>2, <1>3, <3>1 DEF TakenOK
  <2> QED BY <1>1, <2>1 DEF MailInv, HandlerOK, ToldOK
<1>6. ASSUME NEW t \in Settings PROVE SettingKept(t)'
  <2>1. t # s => pending'[t] = pending[t]
    BY <1>1 DEF MailInv, ControlTypeOK
  <2>2. SettingKept(t) /\ Raising(t)' = Raising(t)
    BY <1>1 DEF MailInv, Raising
  <2> QED BY <1>1, <1>3, <2>1, <2>2 DEF SettingKept, SectionOf
<1>7. GateKept'
  BY <1>1, <1>3 DEF MailInv, GateKept, gateVars
<1> QED BY <1>4, <1>5, <1>6, <1>7 DEF MailInv

LEMMA NextSectionIs ==
  ASSUME ControlTypeOK, loop' = NextSection, loop.section < 5
  PROVE  /\ loop' \in [section : 0..Len(Sections), lag : 0..LongestRun,
                       taken : SUBSET (Settings \union {"gate"})]
         /\ loop'.section = loop.section + 1 /\ loop'.taken = {}
<1>1. /\ Len(Sections) = 5 /\ loop.section \in 0..5 /\ loop.lag \in 0..LongestRun
      /\ loop' = [section |-> loop.section + 1, lag |-> loop.lag, taken |-> {}]
  BY LoopAt, SectionNames DEF NextSection
<1>2. loop.section + 1 \in 0..5
  BY <1>1
<1> QED BY <1>1, <1>2

\* Once the settings were applied, nothing of them is under way in this run.
LEMMA LaterSectionsKeepSettings ==
  ASSUME MailInv, UNCHANGED <<requested, pending, device, handler, acknowledged>>,
         loop.section \in {3, 4, 5}, loop'.section \in {3, 4, 5} \/ shown' = device
  PROVE  \A s \in Settings : s \notin loop'.taken => SettingKept(s)'
<1> SUFFICES ASSUME NEW s \in Settings, s \notin loop'.taken PROVE SettingKept(s)'
  OBVIOUS
<1>1. s \notin loop.taken
  BY ControlAssumption DEF MailInv, TakenOK, Settings
<1>2. SettingKept(s) /\ Raising(s)' = Raising(s)
  BY DEF MailInv, Raising
<1>3. SectionOf(s) \in {1, 2}
  BY DEF SectionOf
<1>4. loop'.section <= SectionOf(s)' => shown' = device
  BY <1>3 DEF SectionOf
<1> QED BY <1>1, <1>2, <1>4 DEF SettingKept

LEMMA ApplySettingsKeepsInv ==
  ASSUME MailInv, ApplySettings
  PROVE  MailInv'
<1>1. /\ device' = [s \in Settings |-> IF s \in loop.taken THEN requested[s] ELSE device[s]]
      /\ loop' = NextSection
      /\ UNCHANGED <<requested, pending, shown, gateVars, sessionVars, handler, acknowledged>>
  BY DEF ApplySettings
<1>2. loop.section \in {1, 2}
  BY SectionNames DEF ApplySettings, MailInv
<1>3. /\ loop' \in [section : 0..Len(Sections), lag : 0..LongestRun,
                    taken : SUBSET (Settings \union {"gate"})]
      /\ loop'.section = loop.section + 1 /\ loop'.taken = {}
  BY <1>1, <1>2, NextSectionIs DEF MailInv
<1>4. ControlTypeOK'
  BY <1>1, <1>3 DEF MailInv, ControlTypeOK, gateVars, sessionVars, OldestAge
<1>5. HandlerOK' /\ TakenOK' /\ ToldOK'
  <2>1. TakenOK'
    BY <1>2, <1>3 DEF TakenOK
  <2> QED BY <1>1, <2>1 DEF MailInv, HandlerOK, ToldOK
<1>6. ASSUME NEW t \in Settings PROVE SettingKept(t)'
  <2>1. SettingKept(t) /\ Raising(t)' = Raising(t)
    BY <1>1 DEF MailInv, Raising
  <2>2. device'[t] = IF t \in loop.taken THEN requested[t] ELSE device[t]
    BY <1>1
  <2>3. loop'.section <= SectionOf(t) => t \notin loop.taken /\ loop.section <= SectionOf(t)
    BY <1>2, <1>3 DEF SectionOf, MailInv, TakenOK
  <2> QED BY <1>1, <1>3, <2>1, <2>2, <2>3 DEF SettingKept, SectionOf
<1>7. GateKept'
  <2>1. "gate" \notin loop.taken
    BY <1>2, ControlAssumption DEF MailInv, TakenOK
  <2> QED BY <1>1, <2>1 DEF MailInv, GateKept, gateVars
<1> QED BY <1>4, <1>5, <1>6, <1>7 DEF MailInv

LEMMA TakeSessionKeepsInv ==
  ASSUME MailInv, TakeSession
  PROVE  MailInv'
<1> DEFINE active == session.active /\ ~Expired
           changed == session.pending \/ Expired
<1>1. /\ session' = [active |-> active, pending |-> FALSE]
      /\ engineering' = (IF changed THEN active ELSE engineering)
      /\ loop' = NextSection
      /\ UNCHANGED <<mailVars, gateVars, keepAge, tuning, handler, acknowledged>>
  BY DEF TakeSession
<1>2. active \in BOOLEAN /\ changed \in BOOLEAN
  BY DEF Expired, MailInv, ControlTypeOK
<1> HIDE DEF active, changed
<1>3. loop.section = 3
  BY SectionNames DEF TakeSession, MailInv
<1>4. /\ loop' \in [section : 0..Len(Sections), lag : 0..LongestRun,
                    taken : SUBSET (Settings \union {"gate"})]
      /\ loop'.section = 4 /\ loop'.taken = {}
  BY <1>1, <1>3, NextSectionIs DEF MailInv
<1>5. ControlTypeOK'
  <2>1. session' \in [active : BOOLEAN, pending : BOOLEAN] /\ engineering' \in BOOLEAN
    BY <1>1, <1>2 DEF MailInv, ControlTypeOK
  <2> QED BY <1>1, <1>4, <2>1 DEF MailInv, ControlTypeOK, mailVars, gateVars, OldestAge
<1>6. HandlerOK' /\ TakenOK' /\ ToldOK'
  <2>1. TakenOK'
    BY <1>4 DEF TakenOK
  <2> QED BY <1>1, <2>1 DEF MailInv, HandlerOK, ToldOK
<1>7. \A s \in Settings : SettingKept(s)'
  BY <1>1, <1>3, <1>4, LaterSectionsKeepSettings DEF mailVars
<1>8. GateKept'
  BY <1>1, <1>3, <1>4 DEF MailInv, GateKept, TakenOK, gateVars
<1> QED BY <1>5, <1>6, <1>7, <1>8 DEF MailInv

LEMMA ClearGateFlagKeepsInv ==
  ASSUME MailInv, ClearGateFlag
  PROVE  MailInv'
<1>1. /\ gateRequest' = [gateRequest EXCEPT !.pending = FALSE]
      /\ loop' = [loop EXCEPT !.taken = {"gate"}]
      /\ UNCHANGED <<mailVars, threshold, sessionVars, handler, acknowledged>>
  BY DEF ClearGateFlag
<1>2. loop.section = 4
  BY SectionNames DEF ClearGateFlag, MailInv
<1>3. /\ loop' \in [section : 0..Len(Sections), lag : 0..LongestRun,
                    taken : SUBSET (Settings \union {"gate"})]
      /\ loop'.section = 4 /\ loop'.taken = {"gate"}
  BY <1>1, <1>2, LoopAt, SectionNames DEF MailInv
<1>4. ControlTypeOK'
  BY <1>1, <1>3 DEF MailInv, ControlTypeOK, mailVars, sessionVars, OldestAge
<1>5. HandlerOK' /\ TakenOK' /\ ToldOK'
  <2>1. TakenOK'
    BY <1>3 DEF TakenOK
  <2> QED BY <1>1, <2>1 DEF MailInv, HandlerOK, ToldOK
<1>6. ASSUME NEW s \in Settings PROVE SettingKept(s)'
  BY <1>1, <1>2, <1>3, LaterSectionsKeepSettings, ControlAssumption DEF Settings, mailVars
<1>7. GateKept'
  <2>1. gateRequest'.gate = gateRequest.gate /\ gateRequest'.level = gateRequest.level
    BY <1>1 DEF MailInv, ControlTypeOK
  <2> QED BY <1>1, <1>3, <2>1 DEF MailInv, GateKept
<1> QED BY <1>4, <1>5, <1>6, <1>7 DEF MailInv

LEMMA ApplyGateKeepsInv ==
  ASSUME MailInv, ApplyGate
  PROVE  MailInv'
<1> DEFINE applied == [threshold EXCEPT ![gateRequest.gate] = BothThresholds(gateRequest.level)]
<1>1. /\ threshold' = (IF loop.taken = {} THEN threshold ELSE applied)
      /\ loop' = NextSection
      /\ UNCHANGED <<mailVars, gateRequest, sessionVars, handler, acknowledged>>
  BY DEF ApplyGate
<1>2. gateRequest.gate \in Gates /\ gateRequest.level \in Levels
  BY DEF MailInv, ControlTypeOK
<1>3. /\ applied \in [Gates -> [move : 0..MaxLevel, still : 0..MaxLevel]]
      /\ applied[gateRequest.gate] = BothThresholds(gateRequest.level)
  BY <1>2, LevelsAreReported DEF MailInv, ControlTypeOK
<1> HIDE DEF applied
<1>4. loop.section = 4 /\ loop.taken \subseteq {"gate"}
  BY SectionNames DEF ApplyGate, MailInv, TakenOK
<1>5. /\ loop' \in [section : 0..Len(Sections), lag : 0..LongestRun,
                    taken : SUBSET (Settings \union {"gate"})]
      /\ loop'.section = 5 /\ loop'.taken = {}
  BY <1>1, <1>4, NextSectionIs DEF MailInv
<1>6. ControlTypeOK'
  BY <1>1, <1>3, <1>5 DEF MailInv, ControlTypeOK, mailVars, sessionVars, OldestAge
<1>7. HandlerOK' /\ TakenOK' /\ ToldOK'
  <2>1. TakenOK'
    BY <1>5 DEF TakenOK
  <2> QED BY <1>1, <2>1 DEF MailInv, HandlerOK, ToldOK
<1>8. \A s \in Settings : SettingKept(s)'
  BY <1>1, <1>4, <1>5, LaterSectionsKeepSettings DEF mailVars
<1>9. GateKept'
  <2>1. "gate" \notin loop.taken => threshold' = threshold
    BY <1>1, <1>4
  <2>2. "gate" \in loop.taken => threshold'[gateRequest.gate] = BothThresholds(gateRequest.level)
    BY <1>1, <1>3
  <2> QED BY <1>1, <2>1, <2>2 DEF MailInv, GateKept, BothThresholds
<1> QED BY <1>6, <1>7, <1>8, <1>9 DEF MailInv

LEMMA PublishKeepsInv ==
  ASSUME MailInv, Publish
  PROVE  MailInv'
<1>1. /\ shown' = device /\ loop' = [section |-> 0, lag |-> 0, taken |-> {}]
      /\ UNCHANGED <<requested, pending, device, gateVars, session, keepAge, engineering,
                     handler, acknowledged>>
  BY DEF Publish, Mirror, SleepingLoop
<1>2. PICK available \in BOOLEAN :
        tuning' = [available |-> available, active |-> available /\ engineering]
  BY DEF Publish
<1>3. loop.section = 5
  BY SectionNames DEF Publish, MailInv
<1>4. ControlTypeOK'
  <2>1. loop' \in [section : 0..Len(Sections), lag : 0..LongestRun,
                   taken : SUBSET (Settings \union {"gate"})]
    BY <1>1, SectionNames, ControlAssumption DEF MailInv
  <2>2. tuning' \in [available : BOOLEAN, active : BOOLEAN]
    BY <1>2 DEF MailInv, ControlTypeOK
  <2> QED BY <1>1, <2>1, <2>2 DEF MailInv, ControlTypeOK, gateVars, OldestAge
<1>5. HandlerOK' /\ TakenOK' /\ ToldOK'
  BY <1>1 DEF MailInv, HandlerOK, TakenOK, ToldOK
<1>6. \A s \in Settings : SettingKept(s)'
  BY <1>1, <1>3, LaterSectionsKeepSettings
<1>7. GateKept'
  BY <1>1, <1>3 DEF MailInv, GateKept, TakenOK, gateVars
<1> QED BY <1>4, <1>5, <1>6, <1>7 DEF MailInv

LEMMA TimePassesKeepsInv ==
  ASSUME MailInv, TimePasses
  PROVE  MailInv'
<1>1. /\ loop.section # 0 => loop.lag < LongestRun
      /\ keepAge' = (IF keepAge < OldestAge THEN keepAge + 1 ELSE OldestAge)
      /\ loop' = (IF loop.section = 0 THEN loop ELSE [loop EXCEPT !.lag = @ + 1])
      /\ UNCHANGED <<mailVars, gateVars, session, engineering, tuning, handler, acknowledged>>
  BY DEF TimePasses
<1>2. OldestAge \in Nat /\ LongestRun \in Nat
  BY ControlAssumption DEF OldestAge
<1>3. keepAge' \in 0..OldestAge
  <2>1. keepAge \in 0..OldestAge
    BY DEF MailInv, ControlTypeOK
  <2> QED BY <1>1, <1>2, <2>1
<1>4. /\ loop' \in [section : 0..Len(Sections), lag : 0..LongestRun,
                    taken : SUBSET (Settings \union {"gate"})]
      /\ loop'.section = loop.section /\ loop'.taken = loop.taken
      /\ loop.section = 0 => loop' = loop
  <2>1. CASE loop.section = 0
    BY <1>1, <2>1 DEF MailInv, ControlTypeOK
  <2>2. CASE loop.section # 0
    <3>1. loop.lag + 1 \in 0..LongestRun
      BY <1>1, <1>2, <2>2, LoopAt DEF MailInv
    <3> QED BY <1>1, <2>2, <3>1 DEF MailInv, ControlTypeOK
  <2> QED BY <2>1, <2>2
<1>5. ControlTypeOK'
  BY <1>1, <1>3, <1>4 DEF MailInv, ControlTypeOK, mailVars, gateVars, OldestAge
<1>6. HandlerOK' /\ TakenOK' /\ ToldOK'
  BY <1>1, <1>4 DEF MailInv, HandlerOK, TakenOK, ToldOK
<1>7. ASSUME NEW s \in Settings PROVE SettingKept(s)'
  <2>1. SettingKept(s) /\ Raising(s)' = Raising(s)
    BY <1>1 DEF MailInv, Raising
  <2> QED BY <1>1, <1>4, <2>1 DEF SettingKept, SectionOf, mailVars
<1>8. GateKept'
  BY <1>1, <1>4 DEF MailInv, GateKept, gateVars
<1> QED BY <1>5, <1>6, <1>7, <1>8 DEF MailInv

-----------------------------------------------------------------------------
(* The specification.                                                        *)

LEMMA InitHasInv ==
  ASSUME ControlInit
  PROVE  MailInv
<1>1. /\ requested = [s \in Settings |-> Lowest] /\ Lowest \in Values
      /\ pending = [s \in Settings |-> FALSE]
      /\ device \in [Settings -> Values] /\ shown = device
      /\ handler.at = "idle" /\ loop = [section |-> 0, lag |-> 0, taken |-> {}]
      /\ acknowledged = [s \in Settings \union {"gate"} |-> << >>]
  BY ControlAssumption DEF ControlInit, Values, Resting, SleepingLoop
<1>2. /\ session \in [active : BOOLEAN, pending : BOOLEAN]
      /\ tuning \in [available : BOOLEAN, active : BOOLEAN]
      /\ engineering \in BOOLEAN /\ keepAge \in 0..OldestAge
  <2>1. OldestAge \in Nat
    BY ControlAssumption DEF OldestAge
  <2>2. keepAge = OldestAge /\ OldestAge \in 0..OldestAge
    BY <2>1 DEF ControlInit
  <2>3. /\ session = [active |-> FALSE, pending |-> FALSE] /\ engineering = FALSE
        /\ tuning = [available |-> FALSE, active |-> FALSE]
    BY DEF ControlInit
  <2> QED BY <2>2, <2>3
<1>3. /\ gateRequest \in [gate : Gates, level : Levels, pending : BOOLEAN]
      /\ threshold \in [Gates -> [move : 0..MaxLevel, still : 0..MaxLevel]]
  BY LevelsAreReported DEF ControlInit
<1>4. loop \in [section : 0..Len(Sections), lag : 0..LongestRun,
                taken : SUBSET (Settings \union {"gate"})]
  <2>1. Len(Sections) = 5
    BY DEF Sections
  <2> QED BY <1>1, <2>1, ControlAssumption
<1>5. ControlTypeOK
  BY <1>1, <1>2, <1>3, <1>4 DEF ControlTypeOK
<1>6. HandlerOK /\ TakenOK /\ ToldOK
  BY <1>1 DEF HandlerOK, TakenOK, ToldOK, Told
<1>7. \A s \in Settings : SettingKept(s)
  BY <1>1 DEF SettingKept
<1>8. GateKept
  BY <1>1 DEF GateKept
<1> QED BY <1>5, <1>6, <1>7, <1>8 DEF MailInv

LEMMA ControlStepsKeepInv ==
  ASSUME MailInv, [ControlNext]_controlVars
  PROVE  MailInv'
<1>1. ASSUME NEW s \in Settings, NEW v \in Inputs \union {Malformed}, PostSetting(s, v)
      PROVE  MailInv'
  BY <1>1, PostSettingKeepsInv
<1>2. ASSUME NEW g \in Gates, NEW v \in Levels, PostGate(g, v)
      PROVE  MailInv'
  BY <1>2, PostGateKeepsInv
<1>3. ASSUME NEW active \in BOOLEAN, PostSession(active)
      PROVE  MailInv'
  BY <1>3, PostSessionKeepsInv
<1>4. ASSUME HandlerRuns
      PROVE  MailInv'
  BY <1>4, FinishSettingKeepsInv, FinishSessionKeepsInv, FinishGateKeepsInv DEF HandlerRuns
<1>5. ASSUME LoopRuns
      PROVE  MailInv'
  BY <1>5, BeginRunKeepsInv, ClearFlagKeepsInv, ApplySettingsKeepsInv, TakeSessionKeepsInv,
     ClearGateFlagKeepsInv, ApplyGateKeepsInv, PublishKeepsInv DEF LoopRuns
<1>6. ASSUME UNCHANGED controlVars
      PROVE  MailInv'
  <2>1. ControlTypeOK'
    BY <1>6 DEF controlVars, mailVars, gateVars, sessionVars, MailInv, ControlTypeOK, OldestAge
  <2>2. HandlerOK' /\ TakenOK' /\ ToldOK' /\ GateKept'
    BY <1>6 DEF controlVars, gateVars, MailInv, HandlerOK, TakenOK, ToldOK, GateKept
  <2>3. ASSUME NEW s \in Settings PROVE SettingKept(s)'
    BY <1>6 DEF controlVars, mailVars, MailInv, SettingKept, SectionOf, Raising
  <2> QED BY <2>1, <2>2, <2>3 DEF MailInv
<1> QED BY <1>1, <1>2, <1>3, <1>4, <1>5, <1>6, TimePassesKeepsInv DEF ControlNext

LEMMA InvAtRest ==
  ASSUME MailInv
  PROVE  AcknowledgedIsApplied
<1> SUFFICES ASSUME HandlerFree, loop = SleepingLoop
             PROVE  AcknowledgedIsApplied
  BY DEF AcknowledgedIsApplied
<1>1. handler.at = "idle" /\ loop.section = 0 /\ loop.taken = {}
  BY DEF HandlerFree, Resting, SleepingLoop
<1>2. ASSUME NEW s \in Settings, ~pending[s]
      PROVE  /\ acknowledged[s] # << >> => acknowledged[s] = <<device[s]>>
             /\ shown[s] = device[s]
  BY <1>1, <1>2 DEF MailInv, SettingKept, SectionOf, Raising
<1>3. ASSUME ~gateRequest.pending, acknowledged["gate"] # << >>
      PROVE  ReportedLevel(threshold[acknowledged["gate"][1]]) = acknowledged["gate"][2]
  <2>1. /\ acknowledged["gate"] = <<gateRequest.gate, gateRequest.level>>
        /\ threshold[gateRequest.gate] = BothThresholds(gateRequest.level)
    BY <1>1, <1>3 DEF MailInv, GateKept
  <2>2. gateRequest.level \in Levels
    BY DEF MailInv, ControlTypeOK
  <2> QED BY <2>1, <2>2, LevelsAreReported
<1> QED BY <1>2, <1>3 DEF AcknowledgedIsApplied, StatusReport

\* The requests, the values in force and the state of the tuning session stay
\* within their ranges, whatever the dashboards ask for (control_state.cpp).
THEOREM ControlTypes == ControlSpec => []ControlTypeOK
<1>1. MailInv => ControlTypeOK
  BY DEF MailInv
<1> QED BY <1>1, InitHasInv, ControlStepsKeepInv, PTL DEF ControlSpec

\* No acknowledged change is lost between the stores of the HTTP task and the
\* reads of the lambda that clears the flags (control_state.cpp, interval-500ms).
THEOREM AcknowledgedAreApplied == ControlSpec => []AcknowledgedIsApplied
BY InitHasInv, ControlStepsKeepInv, InvAtRest, PTL DEF ControlSpec

-----------------------------------------------------------------------------
(* The resets: no sequence of resets, failures, saves, reboots and power cuts*)
(* brings back what an answered reset was to remove.                        *)

\* What goes with ResetIsKept: only what a boot reads into RAM is a copy there,
\* and the settings and the history are promised only as members of Parts.
ResetInv ==
    /\ kept \subseteq Parts /\ claimed \subseteq Copied
    /\ promised \subseteq Parts
    /\ ResetIsKept

LEMMA ResetInvInit == ResetInit => ResetInv
BY DEF ResetInit, ResetInv, ResetIsKept, Parts, Copied

LEMMA RemovedParts ==
  ASSUME NEW selection \in Selections
  PROVE  /\ Removed(selection) \subseteq Parts \ {"wifi"}
         /\ "device" \in Removed(selection) <=> "settings" \in selection
         /\ "history" \in Removed(selection) <=> "stats" \in selection
<1>1. SettingsParts = {"key", "config", "image", "device"}
  <2>1. DOMAIN SettingsSteps = 1..4
    BY DEF SettingsSteps
  <2>2. /\ SettingsSteps[1] = "key" /\ SettingsSteps[2] = "config"
        /\ SettingsSteps[3] = "image" /\ SettingsSteps[4] = "device"
    BY DEF SettingsSteps
  <2>3. SettingsParts = {SettingsSteps[i] : i \in {1, 2, 3, 4}}
    BY <2>1 DEF SettingsParts
  <2> QED BY <2>2, <2>3
<1> QED BY <1>1 DEF Removed, Parts

\* What a reset clears in RAM is what it removes there.
LEMMA ClearedIsRemoved ==
  ASSUME NEW selection \in Selections
  PROVE  Cleared(selection) = Removed(selection) \intersect Copied
BY RemovedParts DEF Cleared, Copied, Parts

LEMMA ResetKeepsInv ==
  ASSUME ResetInv, NEW selection \in Selections, Reset(selection)
  PROVE  ResetInv'
<1>1. /\ Removed(selection) \subseteq Parts \ {"wifi"}
      /\ Cleared(selection) = Removed(selection) \intersect Copied
  BY RemovedParts, ClearedIsRemoved
<1>2. /\ kept' = kept \ Removed(selection)
      /\ claimed' = claimed \ Cleared(selection)
      /\ timer' = TimerAfter(selection)
      /\ promised' = Removed(selection)
                     \union (IF "wifi" \in selection THEN {"wifi"} ELSE {})
                     \union (IF timer' = "reboot" THEN promised \ {"wifi"} ELSE promised)
  BY DEF Reset
<1>3. kept' \subseteq Parts /\ claimed' \subseteq Copied /\ promised' \subseteq Parts
  BY <1>1, <1>2 DEF ResetInv, Parts
<1>4. promised' \intersect claimed' = {}
  <2>1. "wifi" \notin Copied
    BY DEF Copied
  <2>2. promised \intersect claimed = {} /\ claimed \subseteq Copied
    BY DEF ResetInv, ResetIsKept
  <2> QED BY <1>1, <1>2, <2>1, <2>2
<1>5. promised' \intersect kept' \subseteq
          (IF timer' = "erase and reboot" THEN {"wifi"} ELSE {})
  <2>1. promised \intersect kept \subseteq
            (IF timer = "erase and reboot" THEN {"wifi"} ELSE {})
    BY DEF ResetInv, ResetIsKept
  <2>2. CASE "wifi" \in selection
    <3>1. timer' = "erase and reboot"
      BY <1>2, <2>2 DEF TimerAfter
    <3> QED BY <1>2, <2>1, <3>1
  <2>3. CASE "wifi" \notin selection /\ "settings" \in selection
    <3>1. timer' = "reboot"
      BY <1>2, <2>3 DEF TimerAfter
    <3> QED BY <1>2, <2>1, <2>3, <3>1
  <2>4. CASE "wifi" \notin selection /\ "settings" \notin selection
    <3>1. timer' = timer
      BY <1>2, <2>4 DEF TimerAfter
    <3> QED BY <1>2, <2>1, <2>4, <3>1
  <2> QED BY <2>2, <2>3, <2>4
<1> QED BY <1>3, <1>4, <1>5 DEF ResetInv, ResetIsKept

\* A deletion that fails takes things away and promises nothing.
LEMMA FailuresKeepInv ==
  ASSUME ResetInv, kept' \subseteq kept, claimed' \subseteq claimed,
         timer' = timer, promised' = promised
  PROVE  ResetInv'
BY DEF ResetInv, ResetIsKept

\* A boot reads into RAM what the flash holds.
LEMMA BootKeepsInv ==
  ASSUME ResetInv, Boot, kept' \subseteq kept, promised' \subseteq promised,
         "wifi" \notin promised' \intersect kept'
  PROVE  ResetInv'
<1>1. promised' \intersect kept' = {}
  BY DEF ResetInv, ResetIsKept
<1>2. claimed' = Copied \intersect kept'
  BY DEF Boot
<1> QED BY <1>1, <1>2 DEF ResetInv, ResetIsKept

LEMMA ResetStep == ResetInv /\ [ResetNext]_resetVars => ResetInv'
<1> SUFFICES ASSUME ResetInv, [ResetNext]_resetVars PROVE ResetInv'
  OBVIOUS
<1>1. ASSUME NEW selection \in Selections, Reset(selection) PROVE ResetInv'
  BY <1>1, ResetKeepsInv
<1>2. CASE NothingSelected
  BY <1>2, FailuresKeepInv DEF NothingSelected
<1>3. ASSUME NEW n \in DOMAIN SettingsSteps, SettingsFail(n) PROVE ResetInv'
  BY <1>3, FailuresKeepInv DEF SettingsFail
<1>4. ASSUME NEW selection \in Selections, StatsFail(selection) PROVE ResetInv'
  BY <1>4, FailuresKeepInv DEF StatsFail
<1>5. CASE RebootRequest
  BY <1>5 DEF RebootRequest, ResetInv, ResetIsKept
<1>6. CASE HandoffRequest
  BY <1>6, FailuresKeepInv DEF HandoffRequest
<1>7. CASE StatusRequest
  BY <1>7, FailuresKeepInv DEF StatusRequest
<1>8. CASE ApiKeyRequest
  BY <1>8, FailuresKeepInv DEF ApiKeyRequest
<1>9. ASSUME NEW part \in Parts, UserStores(part) PROVE ResetInv'
  BY <1>9 DEF UserStores, ResetInv, ResetIsKept
<1>10. CASE PersistHistory
  <2>1. "history" \notin promised /\ "history" \in Parts
    BY <1>10 DEF PersistHistory, ResetInv, ResetIsKept, Parts
  <2> QED BY <1>10, <2>1 DEF PersistHistory, ResetInv, ResetIsKept
<1>11. CASE HandoffFires
  BY <1>11, FailuresKeepInv DEF HandoffFires
<1>12. CASE GuardEnds
  BY <1>12, FailuresKeepInv DEF GuardEnds
<1>13. CASE RebootTimer
  <2>1. Boot /\ kept' \subseteq kept /\ promised' = promised
    BY <1>13 DEF RebootTimer
  <2>2. "wifi" \notin promised' \intersect kept'
    BY <1>13, <2>1 DEF RebootTimer, ResetInv, ResetIsKept
  <2> QED BY <2>1, <2>2, BootKeepsInv
<1>14. CASE PowerCut
  BY <1>14, BootKeepsInv DEF PowerCut
<1>15. CASE UNCHANGED resetVars
  BY <1>15, FailuresKeepInv DEF resetVars
<1> QED BY <1>1, <1>2, <1>3, <1>4, <1>5, <1>6, <1>7, <1>8, <1>9, <1>10, <1>11, <1>12,
           <1>13, <1>14, <1>15 DEF ResetNext

\* What an answered reset was to remove stays removed, in flash and in RAM,
\* whatever is reset, fails, is stored or reboots afterwards.
THEOREM ResetsAreKept == ResetSpec => []ResetIsKept
<1>1. ResetInv => ResetIsKept
  BY DEF ResetInv
<1> QED BY <1>1, ResetInvInit, ResetStep, PTL DEF ResetSpec

-----------------------------------------------------------------------------
(* The dispatch: no two handlers claim the same URL, and each has a branch   *)
(* for what it claims.                                                       *)

\* Which handler has the URL.
Home(url) ==
    IF url \in {"/", "/setup", "/api/setup/status", "/api/setup/networks", "/api/setup/ping",
                "/api/setup/scan", "/api/setup/wifi", "/api/setup/prepare",
                "/api/setup/finalize-security", "/api/setup/apply-wifi",
                "/api/setup/connected", "/api/setup/finish"} THEN 1
    ELSE IF url \in {"/dashboard", "/dashboard/", "/dashboard/assets/dashboard.js",
                     "/dashboard/assets/dashboard.css"} THEN 2
    ELSE IF url \in {"/api/floorplan/status", "/api/floorplan", "/api/floorplan/image",
                     "/api/floorplan/upload/start", "/api/floorplan/upload/chunk",
                     "/api/floorplan/upload/commit", "/api/floorplan/radar",
                     "/api/floorplan/room-name", "/api/floorplan/occlusion",
                     "/api/floorplan/objects", "/api/floorplan/delete"} THEN 3
    ELSE IF url \in {"/api/config/status", "/api/config", "/api/config/upload/start",
                     "/api/config/upload/chunk", "/api/config/upload/commit"} THEN 4
    ELSE IF url \in {"/api/stats", "/api/stats/upload/start", "/api/stats/upload/chunk",
                     "/api/stats/upload/commit"} THEN 5
    ELSE IF url \in {"/api/system/status", "/api/system/api-key",
                     "/api/system/ha-setup-handoff", "/api/system/reboot",
                     "/api/system/reset"} THEN 6
    ELSE IF url = "/api/state" THEN 7
    ELSE IF url \in {"/api/diagnostics/events", "/api/diagnostics/events.txt",
                     "/api/diagnostics/replay.ndjson"} THEN 8
    ELSE 9

LEMMA HandlerNames ==
  /\ DOMAIN Handlers = 1..9
  /\ Handlers[1] = "setup" /\ Handlers[2] = "dashboard" /\ Handlers[3] = "floorplan"
  /\ Handlers[4] = "device config" /\ Handlers[5] = "stats" /\ Handlers[6] = "system"
  /\ Handlers[7] = "state" /\ Handlers[8] = "diagnostic" /\ Handlers[9] = "control"
BY DEF Handlers

LEMMA ClaimsAre ==
  ASSUME NEW r
  PROVE  /\ CanHandle("setup", r) <=> r \in SetupClaims
         /\ CanHandle("dashboard", r) <=> r \in DashboardClaims
         /\ CanHandle("floorplan", r) <=> r \in FloorplanClaims
         /\ CanHandle("device config", r) <=> r \in DeviceConfigClaims
         /\ CanHandle("stats", r) <=> r \in StatsClaims
         /\ CanHandle("system", r) <=> r \in SystemClaims
         /\ CanHandle("state", r) <=> r \in StateClaims
         /\ CanHandle("diagnostic", r) <=> r \in DiagnosticClaims
         /\ CanHandle("control", r) <=> r \in ControlClaims
BY DEF CanHandle

LEMMA Methods ==
  ASSUME NEW urls, NEW r
  PROVE  /\ r \in Get(urls) <=> r = <<"GET", r[2]>> /\ r[2] \in urls
         /\ r \in Post(urls) <=> r = <<"POST", r[2]>> /\ r[2] \in urls
BY DEF Get, Post

\* A handler claims no URL of another.
LEMMA ClaimsAtHome ==
  ASSUME NEW i \in 1..9, NEW r, CanHandle(Handlers[i], r)
  PROVE  Home(r[2]) = i
<1>1. ASSUME r \in SetupClaims PROVE Home(r[2]) = 1
  <2>1. r \in SetupPages \/ r \in SetupCalls
    BY <1>1 DEF SetupClaims
  <2> QED BY <2>1, Methods DEF SetupPages, SetupCalls, Home
<1>2. ASSUME r \in DashboardClaims PROVE Home(r[2]) = 2
  BY <1>2, Methods DEF DashboardClaims, Home
<1>3. ASSUME r \in FloorplanClaims PROVE Home(r[2]) = 3
  BY <1>3, Methods DEF FloorplanClaims, Home
<1>4. ASSUME r \in DeviceConfigClaims PROVE Home(r[2]) = 4
  BY <1>4, Methods DEF DeviceConfigClaims, Home
<1>5. ASSUME r \in StatsClaims PROVE Home(r[2]) = 5
  BY <1>5, Methods DEF StatsClaims, Home
<1>6. ASSUME r \in SystemClaims PROVE Home(r[2]) = 6
  BY <1>6, Methods DEF SystemClaims, Home
<1>7. ASSUME r \in StateClaims PROVE Home(r[2]) = 7
  BY <1>7, Methods DEF StateClaims, Home
<1>8. ASSUME r \in DiagnosticClaims PROVE Home(r[2]) = 8
  BY <1>8, Methods DEF DiagnosticClaims, Home
<1>9. ASSUME r \in ControlClaims PROVE Home(r[2]) = 9
  BY <1>9, Methods DEF ControlClaims, Home
<1>10. CASE i \in {1, 2, 3}
  BY <1>1, <1>2, <1>3, <1>10, HandlerNames, ClaimsAre
<1>11. CASE i \in {4, 5, 6}
  BY <1>4, <1>5, <1>6, <1>11, HandlerNames, ClaimsAre
<1>12. CASE i \in {7, 8, 9}
  BY <1>7, <1>8, <1>9, <1>12, HandlerNames, ClaimsAre
<1> QED BY <1>10, <1>11, <1>12

\* A handler has an operation for all that it claims.
Serves(branches, r) ==
    /\ \E o \in DOMAIN branches : r \in branches[o]
    /\ \A o \in DOMAIN branches : o # "none" /\ o # "not found"

LEMMA BranchesOf ==
  /\ Branches("setup") = SetupBranches /\ Branches("dashboard") = DashboardBranches
  /\ Branches("floorplan") = FloorplanBranches
  /\ Branches("device config") = DeviceConfigBranches /\ Branches("stats") = StatsBranches
  /\ Branches("system") = SystemBranches /\ Branches("state") = [state |-> StateClaims]
  /\ Branches("diagnostic") = DiagnosticBranches /\ Branches("control") = ControlBranches
BY DEF Branches

LEMMA SetupServes ==
  ASSUME NEW r \in SetupClaims
  PROVE  Serves(SetupBranches, r)
<1>1. r \in SetupPages \/ r \in SetupCalls
  BY DEF SetupClaims
<1>2. \/ r \in SetupBranches.root \/ r \in SetupBranches.page
      \/ r \in SetupBranches.status \/ r \in SetupBranches.ping
      \/ r \in SetupBranches.networks \/ r \in SetupBranches.scan
      \/ r \in SetupBranches.applyWifi \/ r \in SetupBranches.prepare
      \/ r \in SetupBranches.connected \/ r \in SetupBranches.finish
  BY <1>1, Methods DEF SetupPages, SetupCalls, SetupBranches
<1>3. DOMAIN SetupBranches = {"root", "page", "status", "ping", "networks", "scan",
                              "applyWifi", "prepare", "connected", "finish"}
  BY DEF SetupBranches
<1> QED BY <1>2, <1>3 DEF Serves

LEMMA DashboardServes ==
  ASSUME NEW r \in DashboardClaims
  PROVE  Serves(DashboardBranches, r)
<1>1. \/ r \in DashboardBranches.script \/ r \in DashboardBranches.style
      \/ r \in DashboardBranches.index
  BY Methods DEF DashboardClaims, DashboardBranches
<1>2. DOMAIN DashboardBranches = {"script", "style", "index"}
  BY DEF DashboardBranches
<1> QED BY <1>1, <1>2 DEF Serves

LEMMA FloorplanServes ==
  ASSUME NEW r \in FloorplanClaims
  PROVE  Serves(FloorplanBranches, r)
<1>1. \/ r \in FloorplanBranches.status \/ r \in FloorplanBranches.config
      \/ r \in FloorplanBranches.image \/ r \in FloorplanBranches.start
      \/ r \in FloorplanBranches.chunk \/ r \in FloorplanBranches.commit
      \/ r \in FloorplanBranches.radar \/ r \in FloorplanBranches.roomName
      \/ r \in FloorplanBranches.occlusion \/ r \in FloorplanBranches.objects
      \/ r \in FloorplanBranches.delete
  BY Methods DEF FloorplanClaims, FloorplanBranches
<1>2. DOMAIN FloorplanBranches = {"status", "config", "image", "start", "chunk", "commit",
                                  "radar", "roomName", "occlusion", "objects", "delete"}
  BY DEF FloorplanBranches
<1> QED BY <1>1, <1>2 DEF Serves

LEMMA DeviceConfigServes ==
  ASSUME NEW r \in DeviceConfigClaims
  PROVE  Serves(DeviceConfigBranches, r)
<1>1. \/ r \in DeviceConfigBranches.status \/ r \in DeviceConfigBranches.config
      \/ r \in DeviceConfigBranches.start \/ r \in DeviceConfigBranches.chunk
      \/ r \in DeviceConfigBranches.commit
  BY Methods DEF DeviceConfigClaims, DeviceConfigBranches
<1>2. DOMAIN DeviceConfigBranches = {"status", "config", "start", "chunk", "commit"}
  BY DEF DeviceConfigBranches
<1> QED BY <1>1, <1>2 DEF Serves

LEMMA StatsServes ==
  ASSUME NEW r \in StatsClaims
  PROVE  Serves(StatsBranches, r)
<1>1. \/ r \in StatsBranches.stats \/ r \in StatsBranches.start
      \/ r \in StatsBranches.chunk \/ r \in StatsBranches.commit
  BY Methods DEF StatsClaims, StatsBranches
<1>2. DOMAIN StatsBranches = {"stats", "start", "chunk", "commit"}
  BY DEF StatsBranches
<1> QED BY <1>1, <1>2 DEF Serves

LEMMA SystemServes ==
  ASSUME NEW r \in SystemClaims
  PROVE  Serves(SystemBranches, r)
<1>1. \/ r \in SystemBranches.reset \/ r \in SystemBranches.reboot
      \/ r \in SystemBranches.handoff \/ r \in SystemBranches.apiKey
      \/ r \in SystemBranches.status
  BY Methods DEF SystemClaims, SystemBranches
<1>2. DOMAIN SystemBranches = {"reset", "reboot", "handoff", "apiKey", "status"}
  BY DEF SystemBranches
<1> QED BY <1>1, <1>2 DEF Serves

LEMMA DiagnosticServes ==
  ASSUME NEW r \in DiagnosticClaims
  PROVE  Serves(DiagnosticBranches, r)
<1>1. \/ r \in DiagnosticBranches.replay \/ r \in DiagnosticBranches.text
      \/ r \in DiagnosticBranches.events
  BY Methods DEF DiagnosticClaims, DiagnosticBranches
<1>2. DOMAIN DiagnosticBranches = {"replay", "text", "events"}
  BY DEF DiagnosticBranches
<1> QED BY <1>1, <1>2 DEF Serves

LEMMA ControlServes ==
  ASSUME NEW r \in ControlClaims
  PROVE  Serves(ControlBranches, r)
<1>1. \/ r \in ControlBranches.status \/ r \in ControlBranches.tuning
      \/ r \in ControlBranches.statusLed \/ r \in ControlBranches.ledDuration
      \/ r \in ControlBranches.environment \/ r \in ControlBranches.temperature
      \/ r \in ControlBranches.humidity \/ r \in ControlBranches.timezone
      \/ r \in ControlBranches.tuningSession \/ r \in ControlBranches.tuningGate
  BY Methods DEF ControlClaims, ControlBranches
<1>2. DOMAIN ControlBranches = {"status", "tuning", "statusLed", "ledDuration", "environment",
                                "temperature", "humidity", "timezone", "tuningSession",
                                "tuningGate"}
  BY DEF ControlBranches
<1> QED BY <1>1, <1>2 DEF Serves

LEMMA StateServes ==
  ASSUME NEW r \in StateClaims
  PROVE  Serves([state |-> StateClaims], r)
BY DEF Serves

LEMMA ClaimsHaveBranches ==
  ASSUME NEW i \in 1..9, NEW r, CanHandle(Handlers[i], r)
  PROVE  Serves(Branches(Handlers[i]), r)
<1>1. CASE i \in {1, 2, 3}
  BY <1>1, HandlerNames, ClaimsAre, BranchesOf, SetupServes, DashboardServes, FloorplanServes
<1>2. CASE i \in {4, 5, 6}
  BY <1>2, HandlerNames, ClaimsAre, BranchesOf, DeviceConfigServes, StatsServes, SystemServes
<1>3. CASE i \in {7, 8, 9}
  BY <1>3, HandlerNames, ClaimsAre, BranchesOf, StateServes, DiagnosticServes, ControlServes
<1> QED BY <1>1, <1>2, <1>3

LEMMA OperationOf ==
  ASSUME NEW h, NEW r
  PROVE  /\ ~CanHandle(h, r) => Operation(h, r) = NoOperation
         /\ CanHandle(h, r) /\ Serves(Branches(h), r) =>
               Operation(h, r) # NoOperation /\ Operation(h, r) # "not found"
BY DEF Operation, Serves, NoOperation

\* While a request is on its way no handler that was asked claims it, and the
\* one that does is still to be asked.
Underway ==
    asked # NothingAsked =>
        /\ turn \in Nat \ {0}
        /\ \E i \in 1..9 : turn <= i /\ CanHandle(Handlers[i], asked)

RoutingInv ==
    /\ asked = NothingAsked => done = NothingDone
    /\ Underway
    /\ ClaimedIsServed

LEMMA ArriveKeeps ==
  ASSUME RoutingInv, NEW r, Arrive(r)
  PROVE  RoutingInv'
<1>1. asked' = r /\ turn' = 1 /\ done' = NothingDone
  BY DEF Arrive, RoutingInv
<1>2. PICK i \in 1..9 : CanHandle(Handlers[i], r)
  BY HandlerNames DEF Arrive, Claimed
<1>3. turn' <= i /\ turn' \in Nat \ {0} /\ CanHandle(Handlers[i], asked')
  BY <1>1, <1>2
<1> QED BY <1>1, <1>3 DEF RoutingInv, Underway, ClaimedIsServed

LEMMA OfferKeeps ==
  ASSUME RoutingInv, Offer
  PROVE  RoutingInv'
<1>1. /\ asked # NothingAsked /\ asked' = asked /\ done = NothingDone
      /\ IF Outcome[2] = NoOperation THEN turn' = turn + 1 /\ done' = done
         ELSE done' = Outcome /\ turn' = turn
  BY DEF Offer
<1>2. PICK i \in 1..9 : turn \in Nat \ {0} /\ turn <= i /\ CanHandle(Handlers[i], asked)
  BY <1>1 DEF RoutingInv, Underway
<1>3. \A j \in 1..9 : CanHandle(Handlers[j], asked) => j = i
  BY <1>2, ClaimsAtHome
<1>4. /\ turn \in 1..9
      /\ Outcome = <<Handlers[turn], Operation(Handlers[turn], asked)>>
  <2>1. turn \in 1..9
    BY <1>2
  <2> QED BY <2>1, HandlerNames DEF Outcome
<1>5. CASE turn = i
  <2>1. Operation(Handlers[i], asked) # NoOperation /\ Operation(Handlers[i], asked) # "not found"
    BY <1>2, ClaimsHaveBranches, OperationOf
  <2>2. turn' = turn /\ done' = <<Handlers[i], Operation(Handlers[i], asked)>>
    BY <1>1, <1>4, <1>5, <2>1
  <2>3. ClaimedIsServed'
    <3>1. \A j \in DOMAIN Handlers : CanHandle(Handlers[j], asked) => j = i
      BY <1>3, HandlerNames
    <3> QED BY <1>1, <2>1, <2>2, <3>1 DEF ClaimedIsServed
  <2> QED BY <1>1, <1>2, <2>2, <2>3 DEF RoutingInv, Underway
<1>6. CASE turn # i
  <2>1. Operation(Handlers[turn], asked) = NoOperation
    BY <1>3, <1>4, <1>6, OperationOf
  <2>2. turn' = turn + 1 /\ done' = NothingDone
    BY <1>1, <1>4, <2>1
  <2>3. turn' \in Nat \ {0} /\ turn' <= i
    BY <1>2, <1>4, <1>6, <2>2
  <2> QED BY <1>1, <1>2, <2>2, <2>3 DEF RoutingInv, Underway, ClaimedIsServed
<1> QED BY <1>5, <1>6

LEMMA RoutingStep == RoutingInv /\ [RoutingNext]_routingVars => RoutingInv'
<1> SUFFICES ASSUME RoutingInv, [RoutingNext]_routingVars
             PROVE  RoutingInv'
  OBVIOUS
<1>1. ASSUME NEW r \in Known \union Strangers, Arrive(r)
      PROVE  RoutingInv'
  BY <1>1, ArriveKeeps
<1>2. CASE Offer
  BY <1>2, OfferKeeps
<1>3. CASE Answered
  BY <1>3 DEF Answered, RoutingInv, Underway, ClaimedIsServed
<1>4. CASE UNCHANGED routingVars
  BY <1>4 DEF routingVars, RoutingInv, Underway, ClaimedIsServed
<1> QED BY <1>1, <1>2, <1>3, <1>4 DEF RoutingNext

\* Whatever a request, what the server claims gets the answer of the one
\* handler that knows the URL (canHandle and handleRequest of radar_api_server.cpp).
THEOREM ClaimsAreServed == RoutingSpec => []ClaimedIsServed
<1>1. RoutingInit => RoutingInv
  BY DEF RoutingInit, RoutingInv, Underway, ClaimedIsServed
<1>2. RoutingInv => ClaimedIsServed
  BY DEF RoutingInv
<1> QED BY <1>1, <1>2, RoutingStep, PTL DEF RoutingSpec

-----------------------------------------------------------------------------
(* The configuration in use: what the cache holds and what the loop makes of  *)
(* it, for any zones and any configurations whose documents are read back.    *)

ZoneCount == Len(ZoneIds)
CalibrationCount == Len(CalibrationIds)

LEMMA Concatenated ==
    ASSUME NEW S, NEW a \in Seq(S), NEW b \in Seq(S), NEW k, Len(a) = k, NEW l, Len(b) = l
    PROVE  /\ a \o b \in Seq(S) /\ Len(a \o b) = k + l
           /\ \A i \in 1..k : (a \o b)[i] = a[i]
           /\ \A i \in 1..l : (a \o b)[k + i] = b[i]
<1>1. k \in Nat /\ l \in Nat
  BY LenProperties
<1>2. /\ Len(a \o b) = k + l
      /\ \A i \in 1..(k + l) : (a \o b)[i] = IF i <= k THEN a[i] ELSE b[i - k]
  BY ConcatProperties
<1>3. a \o b \in Seq(S)
  BY ConcatProperties
<1>4. ASSUME NEW i \in 1..k
      PROVE  (a \o b)[i] = a[i]
  BY <1>1, <1>2
<1>5. ASSUME NEW i \in 1..l
      PROVE  (a \o b)[k + i] = b[i]
  <2>1. k + i \in 1..(k + l) /\ ~ (k + i <= k) /\ (k + i) - k = i
    BY <1>1
  <2> QED
    BY <1>2, <2>1
<1> QED
  BY <1>2, <1>3, <1>4, <1>5

LEMMA FunctionIsSeq ==
    ASSUME NEW S, NEW n \in Nat, NEW f, f = [i \in 1..n |-> f[i]], \A i \in 1..n : f[i] \in S
    PROVE  f \in Seq(S) /\ Len(f) = n
<1>1. f \in [1..n -> S]
  OBVIOUS
<1> QED
  BY <1>1, SeqDef

LEMMA TupleIsSeq ==
    ASSUME NEW S, NEW a \in S, NEW b \in S, NEW c \in S
    PROVE  <<a, b, c>> \in Seq(S) /\ <<a, b>> \in Seq(S)
OBVIOUS

LEMMA StepsInOrder ==
    /\ ZoneCount \in Nat /\ CalibrationCount \in Nat /\ DOMAIN ZoneIds = 1..ZoneCount /\ DOMAIN CalibrationIds = 1..CalibrationCount
    /\ Len(Steps) = ZoneCount + CalibrationCount + 5
    /\ Steps[1] = <<"text", 0>> /\ Steps[2] = <<"legacy", 0>> /\ Steps[3] = <<"assist", 0>>
    /\ \A i \in 1..ZoneCount : Steps[3 + i] = <<"zone", i>>
    /\ \A i \in 1..CalibrationCount : Steps[3 + ZoneCount + i] = <<"calibration", i>>
    /\ Steps[ZoneCount + CalibrationCount + 4] = <<"no room", 0>> /\ Steps[ZoneCount + CalibrationCount + 5] = <<"room", 0>>
<1> DEFINE S == {<<"text", 0>>, <<"legacy", 0>>, <<"assist", 0>>, <<"no room", 0>>, <<"room", 0>>}
                \union {<<"zone", i>> : i \in Nat} \union {<<"calibration", i>> : i \in Nat}
           head == <<<<"text", 0>>, <<"legacy", 0>>, <<"assist", 0>>>>
           zones == [i \in DOMAIN ZoneIds |-> <<"zone", i>>]
           calibrations == [i \in DOMAIN CalibrationIds |-> <<"calibration", i>>]
           tail == <<<<"no room", 0>>, <<"room", 0>>>>
<1>1. ZoneCount \in Nat /\ CalibrationCount \in Nat /\ DOMAIN ZoneIds = 1..ZoneCount /\ DOMAIN CalibrationIds = 1..CalibrationCount
  BY ConfigAssumption DEF ZoneCount, CalibrationCount
<1>2. head \in Seq(S) /\ tail \in Seq(S)
  <2>1. /\ <<"text", 0>> \in S /\ <<"legacy", 0>> \in S /\ <<"assist", 0>> \in S
        /\ <<"no room", 0>> \in S /\ <<"room", 0>> \in S
    OBVIOUS
  <2> HIDE DEF S
  <2> QED
    BY <2>1, TupleIsSeq
<1>3. zones \in Seq(S) /\ Len(zones) = ZoneCount /\ \A i \in 1..ZoneCount : zones[i] = <<"zone", i>>
  <2>1. \A i \in 1..ZoneCount : zones[i] = <<"zone", i>> /\ zones[i] \in S
    BY <1>1
  <2>2. zones = [i \in 1..ZoneCount |-> zones[i]]
    BY <1>1
  <2> HIDE DEF zones, S
  <2> QED
    BY <1>1, <2>1, <2>2, FunctionIsSeq
<1>4. /\ calibrations \in Seq(S) /\ Len(calibrations) = CalibrationCount
      /\ \A i \in 1..CalibrationCount : calibrations[i] = <<"calibration", i>>
  <2>1. \A i \in 1..CalibrationCount : calibrations[i] = <<"calibration", i>> /\ calibrations[i] \in S
    BY <1>1
  <2>2. calibrations = [i \in 1..CalibrationCount |-> calibrations[i]]
    BY <1>1
  <2> HIDE DEF calibrations, S
  <2> QED
    BY <1>1, <2>1, <2>2, FunctionIsSeq
<1>5. Steps = head \o zones \o calibrations \o tail
  BY DEF Steps
<1>6. /\ Len(head) = 3 /\ Len(tail) = 2
      /\ head[1] = <<"text", 0>> /\ head[2] = <<"legacy", 0>> /\ head[3] = <<"assist", 0>>
      /\ tail[1] = <<"no room", 0>> /\ tail[2] = <<"room", 0>>
  OBVIOUS
<1> HIDE DEF S, head, zones, calibrations, tail
<1> DEFINE two == head \o zones
           three == two \o calibrations
<1>7. /\ two \in Seq(S) /\ Len(two) = 3 + ZoneCount
      /\ \A i \in 1..3 : two[i] = head[i]
      /\ \A i \in 1..ZoneCount : two[3 + i] = zones[i]
  <2>1. PICK k : k = 3
    OBVIOUS
  <2>2. Len(head) = k
    BY <1>6, <2>1
  <2>3. /\ two \in Seq(S) /\ Len(two) = k + ZoneCount
        /\ \A i \in 1..k : two[i] = head[i]
        /\ \A i \in 1..ZoneCount : two[k + i] = zones[i]
    BY <1>2, <1>3, <2>2, Concatenated
  <2> QED
    BY <2>1, <2>3
<1> HIDE DEF two
<1>8. /\ three \in Seq(S) /\ Len(three) = (3 + ZoneCount) + CalibrationCount
      /\ \A i \in 1..(3 + ZoneCount) : three[i] = two[i]
      /\ \A i \in 1..CalibrationCount : three[(3 + ZoneCount) + i] = calibrations[i]
  BY <1>4, <1>7, Concatenated
<1> HIDE DEF three
<1>9. Steps = three \o tail
  BY <1>5 DEF three, two
<1>10. /\ Len(Steps) = ((3 + ZoneCount) + CalibrationCount) + 2
       /\ \A i \in 1..((3 + ZoneCount) + CalibrationCount) : Steps[i] = three[i]
       /\ \A i \in 1..2 : Steps[((3 + ZoneCount) + CalibrationCount) + i] = tail[i]
  <2>1. PICK l : l = 2
    OBVIOUS
  <2>2. Len(tail) = l
    BY <1>6, <2>1
  <2>3. /\ Len(Steps) = ((3 + ZoneCount) + CalibrationCount) + l
        /\ \A i \in 1..((3 + ZoneCount) + CalibrationCount) : Steps[i] = three[i]
        /\ \A i \in 1..l : Steps[((3 + ZoneCount) + CalibrationCount) + i] = tail[i]
    BY <1>2, <1>8, <1>9, <2>2, Concatenated
  <2> QED
    BY <2>1, <2>3
<1>11. /\ Len(Steps) = ZoneCount + CalibrationCount + 5
       /\ Steps[ZoneCount + CalibrationCount + 4] = tail[1] /\ Steps[ZoneCount + CalibrationCount + 5] = tail[2]
  <2>1. ((3 + ZoneCount) + CalibrationCount) + 2 = ZoneCount + CalibrationCount + 5 /\ ((3 + ZoneCount) + CalibrationCount) + 1 = ZoneCount + CalibrationCount + 4
    BY <1>1
  <2> QED
    BY <1>10, <2>1
<1>12. Steps[1] = head[1] /\ Steps[2] = head[2] /\ Steps[3] = head[3]
  <2>1. \A i \in 1..3 : i \in 1..(3 + ZoneCount) /\ i \in 1..((3 + ZoneCount) + CalibrationCount)
    BY <1>1
  <2>2. \A i \in 1..3 : Steps[i] = head[i]
    BY <1>7, <1>8, <1>10, <2>1
  <2> QED
    BY <2>2
<1>13. ASSUME NEW i \in 1..ZoneCount
       PROVE  Steps[3 + i] = <<"zone", i>>
  <2>1. 3 + i \in 1..(3 + ZoneCount) /\ 3 + i \in 1..((3 + ZoneCount) + CalibrationCount)
    BY <1>1
  <2> QED
    BY <1>3, <1>7, <1>8, <1>10, <2>1
<1>14. ASSUME NEW i \in 1..CalibrationCount
       PROVE  Steps[3 + ZoneCount + i] = <<"calibration", i>>
  <2>1. (3 + ZoneCount) + i \in 1..((3 + ZoneCount) + CalibrationCount) /\ 3 + ZoneCount + i = (3 + ZoneCount) + i
    BY <1>1
  <2> QED
    BY <1>4, <1>8, <1>10, <2>1
<1> QED
  BY <1>1, <1>6, <1>11, <1>12, <1>13, <1>14

-----------------------------------------------------------------------------
(* What is in the cache after the first stores of an installation.           *)

LegacyIn(text) == BoolByKey(text, "legacyPresenceFallback", FALSE)

Shaped(c) ==
    c = [text |-> c.text, legacy |-> c.legacy, assist |-> c.assist,
         zones |-> [i \in DOMAIN ZoneIds |-> c.zones[i]],
         calibrations |-> [i \in DOMAIN CalibrationIds |-> c.calibrations[i]], room |-> c.room]

StoredUpTo(c, text, next) ==
    /\ next > 1 => c.text = text
    /\ next > 2 => c.legacy = LegacyIn(text)
    /\ next > 3 => c.assist = ~LegacyIn(text)
    /\ \A i \in DOMAIN ZoneIds : next > 3 + i => c.zones[i] = ObjectById(text, ZoneIds[i])
    /\ \A i \in DOMAIN CalibrationIds :
          next > 3 + ZoneCount + i => c.calibrations[i] = ObjectById(text, CalibrationIds[i])
    /\ next > ZoneCount + CalibrationCount + 5 => c.room = RoomIn(text)

LEMMA Intervals ==
    ASSUME NEW z \in Nat, NEW m \in Nat, NEW n \in 1..(z + m + 5)
    PROVE  \/ n = 1 \/ n = 2 \/ n = 3
           \/ \E i \in 1..z : n = 3 + i
           \/ \E i \in 1..m : n = 3 + z + i
           \/ n = z + m + 4
           \/ n = z + m + 5
<1>1. CASE n > 3 /\ n <= 3 + z
  <2>1. n - 3 \in 1..z /\ n = 3 + (n - 3)
    BY <1>1
  <2> QED
    BY <2>1
<1>2. CASE n > 3 + z /\ n <= 3 + z + m
  <2>1. n - (3 + z) \in 1..m /\ n = 3 + z + (n - (3 + z))
    BY <1>2
  <2> QED
    BY <2>1
<1>3. CASE n <= 3 \/ n > 3 + z + m
  BY <1>3
<1> QED
  BY <1>1, <1>2, <1>3

LEMMA Reach ==
    ASSUME NEW z \in Nat, NEW m \in Nat, NEW l, l = z + m + 5
    PROVE  /\ l \in Nat /\ 1 \in 1..l
           /\ l + 1 > 1 /\ l + 1 > 2 /\ l + 1 > 3 /\ l + 1 > z + m + 5
           /\ \A i \in 1..z : l + 1 > 3 + i /\ ~ (1 > 3 + i)
           /\ \A i \in 1..m : l + 1 > 3 + z + i /\ ~ (1 > 3 + z + i)
           /\ ~ (1 > z + m + 5)
           /\ \A n \in 1..l : n + 1 # 0 /\ (n < l => n + 1 \in 1..l) /\ (~ (n < l) => n = l)
OBVIOUS

LEMMA StepReach ==
    /\ Len(Steps) \in Nat /\ 1 \in 1..Len(Steps)
    /\ Len(Steps) + 1 > 1 /\ Len(Steps) + 1 > 2 /\ Len(Steps) + 1 > 3
    /\ Len(Steps) + 1 > ZoneCount + CalibrationCount + 5
    /\ \A i \in DOMAIN ZoneIds : Len(Steps) + 1 > 3 + i /\ ~ (1 > 3 + i)
    /\ \A i \in DOMAIN CalibrationIds :
          Len(Steps) + 1 > 3 + ZoneCount + i /\ ~ (1 > 3 + ZoneCount + i)
    /\ ~ (1 > ZoneCount + CalibrationCount + 5)
    /\ \A n \in 1..Len(Steps) :
          n + 1 # 0 /\ (n < Len(Steps) => n + 1 \in 1..Len(Steps)) /\ (~ (n < Len(Steps)) => n = Len(Steps))
<1>1. /\ ZoneCount \in Nat /\ CalibrationCount \in Nat
      /\ DOMAIN ZoneIds = 1..ZoneCount /\ DOMAIN CalibrationIds = 1..CalibrationCount
      /\ Len(Steps) = ZoneCount + CalibrationCount + 5
  BY StepsInOrder
<1>2. PICK l : l = Len(Steps)
  OBVIOUS
<1>3. l = ZoneCount + CalibrationCount + 5
  BY <1>1, <1>2
<1> HIDE DEF ZoneCount, CalibrationCount, Steps
<1>4. /\ l \in Nat /\ 1 \in 1..l
      /\ l + 1 > 1 /\ l + 1 > 2 /\ l + 1 > 3 /\ l + 1 > ZoneCount + CalibrationCount + 5
      /\ \A i \in 1..ZoneCount : l + 1 > 3 + i /\ ~ (1 > 3 + i)
      /\ \A i \in 1..CalibrationCount : l + 1 > 3 + ZoneCount + i /\ ~ (1 > 3 + ZoneCount + i)
      /\ ~ (1 > ZoneCount + CalibrationCount + 5)
      /\ \A n \in 1..l : n + 1 # 0 /\ (n < l => n + 1 \in 1..l) /\ (~ (n < l) => n = l)
  BY <1>1, <1>3, Reach
<1> QED
  BY <1>1, <1>2, <1>4

LEMMA StepCases ==
    ASSUME NEW n \in 1..Len(Steps)
    PROVE  \/ n = 1 \/ n = 2 \/ n = 3
           \/ \E i \in DOMAIN ZoneIds : n = 3 + i
           \/ \E i \in DOMAIN CalibrationIds : n = 3 + ZoneCount + i
           \/ n = ZoneCount + CalibrationCount + 4
           \/ n = ZoneCount + CalibrationCount + 5
<1>1. n \in 1..(ZoneCount + CalibrationCount + 5)
  BY StepsInOrder
<1> QED
  BY <1>1, StepsInOrder, Intervals

LEMMA Stores ==
    ASSUME NEW c, NEW text
    PROVE  /\ AfterStore(c, text, <<"text", 0>>) = [c EXCEPT !.text = text]
           /\ AfterStore(c, text, <<"legacy", 0>>) = [c EXCEPT !.legacy = LegacyIn(c.text)]
           /\ AfterStore(c, text, <<"assist", 0>>) = [c EXCEPT !.assist = ~c.legacy]
           /\ AfterStore(c, text, <<"no room", 0>>) = [c EXCEPT !.room = RoomNotSet]
           /\ AfterStore(c, text, <<"room", 0>>) = [c EXCEPT !.room = RoomIn(c.text)]
<1>1. AfterStore(c, text, <<"text", 0>>) = [c EXCEPT !.text = text]
  BY DEF AfterStore
<1>2. AfterStore(c, text, <<"legacy", 0>>) = [c EXCEPT !.legacy = LegacyIn(c.text)]
  BY DEF AfterStore, LegacyIn
<1>3. AfterStore(c, text, <<"assist", 0>>) = [c EXCEPT !.assist = ~c.legacy]
  BY DEF AfterStore
<1>4. AfterStore(c, text, <<"no room", 0>>) = [c EXCEPT !.room = RoomNotSet]
  BY DEF AfterStore
<1>5. AfterStore(c, text, <<"room", 0>>) = [c EXCEPT !.room = RoomIn(c.text)]
  BY DEF AfterStore
<1> QED
  BY <1>1, <1>2, <1>3, <1>4, <1>5

\* One store keeps what was stored before it, adds its own part, and touches
\* the zones only when it stores one.
LEMMA StoreIsNext ==
    ASSUME NEW c, Shaped(c), NEW text, NEW n \in 1..Len(Steps), StoredUpTo(c, text, n)
    PROVE  LET d == AfterStore(c, text, Steps[n])
           IN  /\ Shaped(d) /\ StoredUpTo(d, text, n + 1)
               /\ \A i \in DOMAIN ZoneIds :
                     d.zones[i] = c.zones[i] \/ d.zones[i] = ObjectById(text, ZoneIds[i])
<1> DEFINE d == AfterStore(c, text, Steps[n])
<1>0. /\ ZoneCount \in Nat /\ CalibrationCount \in Nat
      /\ DOMAIN ZoneIds = 1..ZoneCount /\ DOMAIN CalibrationIds = 1..CalibrationCount
  BY StepsInOrder
<1> DEFINE Goal == /\ Shaped(d) /\ StoredUpTo(d, text, n + 1)
                   /\ \A i \in DOMAIN ZoneIds :
                         d.zones[i] = c.zones[i] \/ d.zones[i] = ObjectById(text, ZoneIds[i])
<1>1. ASSUME n = 1
      PROVE  Goal
  <2>0. d = AfterStore(c, text, <<"text", 0>>)
    BY <1>1, <1>0, StepsInOrder
  <2>1. d = [c EXCEPT !.text = text]
    BY <2>0, Stores
  <2>2. /\ d.text = text /\ d.legacy = c.legacy /\ d.assist = c.assist /\ d.zones = c.zones
        /\ d.calibrations = c.calibrations /\ d.room = c.room /\ Shaped(d)
    BY <2>1 DEF Shaped
  <2> HIDE DEF d
  <2> QED
    BY <1>0, <1>1, <2>2 DEF StoredUpTo
<1>2. ASSUME n = 2
      PROVE  Goal
  <2>0. d = AfterStore(c, text, <<"legacy", 0>>)
    BY <1>2, <1>0, StepsInOrder
  <2>1. d = [c EXCEPT !.legacy = LegacyIn(c.text)]
    BY <2>0, Stores
  <2>2. /\ d.text = c.text /\ d.legacy = LegacyIn(c.text) /\ d.assist = c.assist
        /\ d.zones = c.zones
        /\ d.calibrations = c.calibrations /\ d.room = c.room /\ Shaped(d)
    BY <2>1 DEF Shaped
  <2> HIDE DEF d
  <2> QED
    BY <1>0, <1>2, <2>2 DEF StoredUpTo
<1>3. ASSUME n = 3
      PROVE  Goal
  <2>0. d = AfterStore(c, text, <<"assist", 0>>)
    BY <1>3, <1>0, StepsInOrder
  <2>1. d = [c EXCEPT !.assist = ~c.legacy]
    BY <2>0, Stores
  <2>2. /\ d.text = c.text /\ d.legacy = c.legacy /\ d.assist = ~c.legacy
        /\ d.zones = c.zones
        /\ d.calibrations = c.calibrations /\ d.room = c.room /\ Shaped(d)
    BY <2>1 DEF Shaped
  <2> HIDE DEF d
  <2> QED
    BY <1>0, <1>3, <2>2 DEF StoredUpTo
<1>4. ASSUME NEW k \in DOMAIN ZoneIds, n = 3 + k
      PROVE  Goal
  <2>0. d = AfterStore(c, text, <<"zone", k>>)
    BY <1>4, <1>0, StepsInOrder
  <2> HIDE DEF d
  <2>1. d = [c EXCEPT !.zones = [c.zones EXCEPT ![k] = ObjectById(c.text, ZoneIds[k])]]
    BY <2>0 DEF AfterStore
  <2>2. c.text = text
    BY <1>0, <1>4 DEF StoredUpTo
  <2> DEFINE object == ObjectById(text, ZoneIds[k])
  <2>3. d = [c EXCEPT !.zones = [c.zones EXCEPT ![k] = object]]
    BY <2>1, <2>2
  <2> HIDE DEF object, d
  <2>4. /\ d.text = c.text /\ d.legacy = c.legacy /\ d.assist = c.assist
        /\ d.zones = [c.zones EXCEPT ![k] = object]
        /\ d.calibrations = c.calibrations /\ d.room = c.room
        /\ d = [text |-> d.text, legacy |-> d.legacy, assist |-> d.assist,
                zones |-> d.zones, calibrations |-> d.calibrations, room |-> d.room]
    BY <2>3 DEF Shaped
  <2>5. /\ c.zones = [i \in DOMAIN ZoneIds |-> c.zones[i]]
        /\ c.calibrations = [i \in DOMAIN CalibrationIds |-> c.calibrations[i]]
    BY DEF Shaped
  <2>6. d.zones = [i \in DOMAIN ZoneIds |-> IF i = k THEN object ELSE c.zones[i]]
    BY <1>4, <2>4, <2>5
  <2>7. Shaped(d)
    BY <2>4, <2>5, <2>6 DEF Shaped
  <2>8. \A i \in DOMAIN ZoneIds : d.zones[i] = IF i = k THEN object ELSE c.zones[i]
    BY <2>6
  <2>9. StoredUpTo(d, text, n + 1)
    <3>1. \A i \in DOMAIN ZoneIds : n + 1 > 3 + i => i = k \/ n > 3 + i
      BY <1>0, <1>4
    <3>2. \A i \in DOMAIN ZoneIds : n + 1 > 3 + i => d.zones[i] = ObjectById(text, ZoneIds[i])
      BY <2>8, <3>1 DEF StoredUpTo, object
    <3>3. n > 3 /\ n <= 3 + ZoneCount
      BY <1>0, <1>4
    <3>4. \A i \in DOMAIN CalibrationIds : ~ (n + 1 > 3 + ZoneCount + i)
      BY <1>0, <3>3
    <3>5. ~ (n + 1 > ZoneCount + CalibrationCount + 5)
      BY <1>0, <3>3
    <3> QED
      BY <1>0, <2>4, <3>2, <3>3, <3>4, <3>5 DEF StoredUpTo
  <2> QED
    BY <2>7, <2>8, <2>9 DEF object
<1>5. ASSUME NEW k \in DOMAIN CalibrationIds, n = 3 + ZoneCount + k
      PROVE  Goal
  <2>0. d = AfterStore(c, text, <<"calibration", k>>)
    BY <1>5, <1>0, StepsInOrder
  <2> HIDE DEF d
  <2>1. d = [c EXCEPT !.calibrations = [c.calibrations EXCEPT ![k] = ObjectById(c.text, CalibrationIds[k])]]
    BY <2>0 DEF AfterStore
  <2>2. c.text = text
    BY <1>0, <1>5 DEF StoredUpTo
  <2> DEFINE object == ObjectById(text, CalibrationIds[k])
  <2>3. d = [c EXCEPT !.calibrations = [c.calibrations EXCEPT ![k] = object]]
    BY <2>1, <2>2
  <2> HIDE DEF object, d
  <2>4. /\ d.text = c.text /\ d.legacy = c.legacy /\ d.assist = c.assist
        /\ d.calibrations = [c.calibrations EXCEPT ![k] = object]
        /\ d.zones = c.zones /\ d.room = c.room
        /\ d = [text |-> d.text, legacy |-> d.legacy, assist |-> d.assist,
                zones |-> d.zones, calibrations |-> d.calibrations, room |-> d.room]
    BY <2>3 DEF Shaped
  <2>5. /\ c.zones = [i \in DOMAIN ZoneIds |-> c.zones[i]]
        /\ c.calibrations = [i \in DOMAIN CalibrationIds |-> c.calibrations[i]]
    BY DEF Shaped
  <2>6. d.calibrations = [i \in DOMAIN CalibrationIds |-> IF i = k THEN object ELSE c.calibrations[i]]
    BY <1>5, <2>4, <2>5
  <2>7. Shaped(d)
    BY <2>4, <2>5, <2>6 DEF Shaped
  <2>8. \A i \in DOMAIN CalibrationIds :
            d.calibrations[i] = IF i = k THEN object ELSE c.calibrations[i]
    BY <2>6
  <2>9. StoredUpTo(d, text, n + 1)
    <3>1. \A i \in DOMAIN CalibrationIds : n + 1 > 3 + ZoneCount + i => i = k \/ n > 3 + ZoneCount + i
      BY <1>0, <1>5
    <3>2. \A i \in DOMAIN CalibrationIds :
              n + 1 > 3 + ZoneCount + i => d.calibrations[i] = ObjectById(text, CalibrationIds[i])
      BY <2>8, <3>1 DEF StoredUpTo, object
    <3>3. n > 3 + ZoneCount /\ n <= 3 + ZoneCount + CalibrationCount
      BY <1>0, <1>5
    <3>4. \A i \in DOMAIN ZoneIds : n > 3 + i
      BY <1>0, <3>3
    <3>5. ~ (n + 1 > ZoneCount + CalibrationCount + 5) /\ n > 3
      BY <1>0, <3>3
    <3> QED
      BY <1>0, <2>4, <3>2, <3>4, <3>5 DEF StoredUpTo
  <2> QED
    BY <2>4, <2>7, <2>9
<1>6. ASSUME n = ZoneCount + CalibrationCount + 4
      PROVE  Goal
  <2>0. d = AfterStore(c, text, <<"no room", 0>>)
    BY <1>6, <1>0, StepsInOrder
  <2>1. d = [c EXCEPT !.room = RoomNotSet]
    BY <2>0, Stores
  <2>2. /\ d.text = c.text /\ d.legacy = c.legacy /\ d.assist = c.assist /\ d.zones = c.zones
        /\ d.calibrations = c.calibrations /\ Shaped(d)
    BY <2>1 DEF Shaped
  <2> HIDE DEF d
  <2>3. /\ n > 3 /\ \A i \in DOMAIN ZoneIds : n > 3 + i
        /\ \A i \in DOMAIN CalibrationIds : n > 3 + ZoneCount + i
        /\ ~ (n + 1 > ZoneCount + CalibrationCount + 5)
    BY <1>0, <1>6
  <2> QED
    BY <1>0, <2>2, <2>3 DEF StoredUpTo
<1>7. ASSUME n = ZoneCount + CalibrationCount + 5
      PROVE  Goal
  <2>0. d = AfterStore(c, text, <<"room", 0>>)
    BY <1>7, <1>0, StepsInOrder
  <2>1. d = [c EXCEPT !.room = RoomIn(c.text)]
    BY <2>0, Stores
  <2>2. /\ d.text = c.text /\ d.legacy = c.legacy /\ d.assist = c.assist /\ d.zones = c.zones
        /\ d.calibrations = c.calibrations /\ d.room = RoomIn(c.text) /\ Shaped(d)
    BY <2>1 DEF Shaped
  <2> HIDE DEF d
  <2>3. /\ n > 3 /\ \A i \in DOMAIN ZoneIds : n > 3 + i
        /\ \A i \in DOMAIN CalibrationIds : n > 3 + ZoneCount + i
    BY <1>0, <1>7
  <2> QED
    BY <1>0, <2>2, <2>3 DEF StoredUpTo
<1>8. Goal
  <2> HIDE DEF Goal
  <2>1. \/ n = 1 \/ n = 2 \/ n = 3
        \/ \E i \in DOMAIN ZoneIds : n = 3 + i
        \/ \E i \in DOMAIN CalibrationIds : n = 3 + ZoneCount + i
        \/ n = ZoneCount + CalibrationCount + 4
        \/ n = ZoneCount + CalibrationCount + 5
    BY StepCases
  <2> QED
    BY <1>1, <1>2, <1>3, <1>4, <1>5, <1>6, <1>7, <2>1 DEF Goal
<1> QED
  BY <1>8

-----------------------------------------------------------------------------
(* The inductive invariant.                                                  *)

DrawnText(c, i) == IF c.zones[i] = NoZone THEN << >> ELSE ZoneText(ZoneIds[i], c.zones[i])

InUseIsMeant ==
    installing = NotInstalling =>
        \E c \in AllConfigs : inUse = {c} /\ cache = Meant(c) /\ (saveAnswer = "ok" => c = config)

InstallingTheSaved ==
    installing # NotInstalling =>
        /\ installing.next \in 1..Len(Steps)
        /\ installing = [next |-> installing.next, text |-> configText]
        /\ config \in inUse
        /\ StoredUpTo(cache, configText, installing.next)

ZonesAreFromConfigs ==
    \A i \in DOMAIN ZoneIds : \E c \in inUse : cache.zones[i] = DrawnText(c, i)

CacheInv ==
    /\ config \in AllConfigs /\ configText = TextOf[config] /\ inUse \subseteq AllConfigs
    /\ Shaped(cache)
    /\ InUseIsMeant
    /\ InstallingTheSaved
    /\ ZonesAreFromConfigs

LEMMA MeantZones ==
    ASSUME AllReadBack, NEW c \in AllConfigs
    PROVE  /\ Installed(TextOf[c]) = Meant(c) /\ Shaped(Meant(c))
           /\ \A i \in DOMAIN ZoneIds : Meant(c).zones[i] = DrawnText(c, i)
           /\ \A i \in DOMAIN ZoneIds : ObjectById(TextOf[c], ZoneIds[i]) = DrawnText(c, i)
<1>1. Installed(TextOf[c]) = Meant(c)
  BY DEF AllReadBack, ReadsBack
<1>2. \A i \in DOMAIN ZoneIds : Meant(c).zones[i] = DrawnText(c, i)
  BY DEF Meant, DrawnText
<1>3. Shaped(Installed(TextOf[c]))
  BY DEF Shaped, Installed
<1>4. \A i \in DOMAIN ZoneIds :
         Installed(TextOf[c]).zones[i] = ObjectById(TextOf[c], ZoneIds[i])
  BY DEF Installed
<1> QED
  BY <1>1, <1>2, <1>3, <1>4

LEMMA AllStored ==
    ASSUME NEW c, Shaped(c), NEW text, StoredUpTo(c, text, Len(Steps) + 1)
    PROVE  c = Installed(text)
<1>1. /\ Len(Steps) + 1 > 3
      /\ \A i \in DOMAIN ZoneIds : Len(Steps) + 1 > 3 + i
      /\ \A i \in DOMAIN CalibrationIds : Len(Steps) + 1 > 3 + ZoneCount + i
      /\ Len(Steps) + 1 > ZoneCount + CalibrationCount + 5
      /\ Len(Steps) + 1 > 1 /\ Len(Steps) + 1 > 2
  BY StepReach
<1>2. /\ c.text = text /\ c.legacy = LegacyIn(text) /\ c.assist = ~LegacyIn(text)
      /\ \A i \in DOMAIN ZoneIds : c.zones[i] = ObjectById(text, ZoneIds[i])
      /\ \A i \in DOMAIN CalibrationIds : c.calibrations[i] = ObjectById(text, CalibrationIds[i])
      /\ c.room = RoomIn(text)
  BY <1>1 DEF StoredUpTo
<1> QED
  BY <1>2 DEF Shaped, Installed, LegacyIn

LEMMA NothingIsStored ==
    /\ NoConfig \in AllConfigs /\ TextOf[NoConfig] = << >>
    /\ EmptyCache = Meant(NoConfig)
<1>1. NoConfig \in AllConfigs /\ TextOf[NoConfig] = << >>
  BY DEF AllConfigs, TextOf
<1>2. \A i \in DOMAIN ZoneIds : NoConfig.zones[i] = NoZone
  BY DEF NoConfig
<1>3. \A i \in DOMAIN CalibrationIds : NoConfig.calibrations[i] = NoZone
  BY DEF NoConfig
<1>4. NoConfig.legacy = FALSE /\ NoConfig.room = NoRoom
  BY DEF NoConfig
<1> QED
  BY <1>1, <1>2, <1>3, <1>4 DEF EmptyCache, Meant

LEMMA CacheInit ==
    ASSUME AllReadBack, ConfigInit
    PROVE  CacheInv
<1>1. cache = Meant(NoConfig) /\ config = NoConfig /\ inUse = {NoConfig} /\ installing = NotInstalling
      /\ configText = << >>
  BY NothingIsStored DEF ConfigInit
<1> QED
  BY <1>1, NothingIsStored, MeantZones
     DEF CacheInv, InUseIsMeant, InstallingTheSaved, ZonesAreFromConfigs

\* A new document is about to be installed over a configuration in use.
LEMMA InstallBegins ==
    ASSUME CacheInv, installing = NotInstalling, NEW c \in AllConfigs,
           config' = c, configText' = TextOf[c], cache' = cache,
           installing' = [next |-> 1, text |-> configText'], inUse' = inUse \union {c}
    PROVE  CacheInv'
<1>1. Len(Steps) \in Nat /\ 1 \in 1..Len(Steps) /\ installing' # NotInstalling
  <2>1. installing'.next = 1 /\ NotInstalling.next = 0
    BY DEF NotInstalling
  <2> QED
    BY <2>1, StepReach
<1>2. StoredUpTo(cache, TextOf[c], 1)
  BY StepReach DEF StoredUpTo
<1>3. InstallingTheSaved'
  BY <1>1, <1>2 DEF InstallingTheSaved
<1>4. InUseIsMeant'
  BY <1>1 DEF InUseIsMeant
<1>5. ZonesAreFromConfigs'
  BY DEF CacheInv, ZonesAreFromConfigs
<1> QED
  BY <1>3, <1>4, <1>5 DEF CacheInv

LEMMA CacheStep ==
    ASSUME AllReadBack, CacheInv, [ConfigNext]_configVars
    PROVE  CacheInv'
<1>1. ASSUME NEW c \in Configs, NEW readable \in BOOLEAN, SaveConfig(c, readable)
      PROVE  CacheInv'
  <2>0. c \in AllConfigs
    BY DEF AllConfigs
  <2>1. CASE readable
    BY <1>1, <2>0, <2>1, InstallBegins DEF SaveConfig
  <2>2. CASE ~readable
    <3>1. /\ installing = NotInstalling /\ config' = c /\ configText' = TextOf[c]
          /\ saveAnswer' = "config_read_failed"
          /\ installing' = installing /\ inUse' = inUse /\ cache' = cache
      BY <1>1, <2>2 DEF SaveConfig
    <3>2. InUseIsMeant'
      BY <3>1 DEF CacheInv, InUseIsMeant
    <3> QED
      BY <2>0, <3>1, <3>2 DEF CacheInv, InstallingTheSaved, ZonesAreFromConfigs
  <2> QED
    BY <2>1, <2>2
<1>2. CASE ResetConfig
  <2>1. /\ installing = NotInstalling /\ config' = NoConfig /\ configText' = TextOf[NoConfig]
        /\ cache' = cache /\ installing' = [next |-> 1, text |-> configText']
        /\ inUse' = inUse \union {NoConfig}
    BY <1>2, NothingIsStored DEF ResetConfig
  <2> QED
    BY <2>1, NothingIsStored, InstallBegins
<1>3. CASE InstallStep
  <2> DEFINE n == installing.next
  <2>1. /\ installing # NotInstalling /\ n \in 1..Len(Steps)
        /\ installing = [next |-> n, text |-> configText] /\ config \in inUse
        /\ StoredUpTo(cache, configText, n) /\ Shaped(cache)
        /\ config \in AllConfigs /\ configText = TextOf[config]
    BY <1>3 DEF InstallStep, CacheInv, InstallingTheSaved
  <2>2. cache' = AfterStore(cache, configText, Steps[n])
    BY <1>3, <2>1 DEF InstallStep
  <2>3. /\ Shaped(cache') /\ StoredUpTo(cache', configText, n + 1)
        /\ \A i \in DOMAIN ZoneIds :
              \/ cache'.zones[i] = cache.zones[i]
              \/ cache'.zones[i] = ObjectById(configText, ZoneIds[i])
    BY <2>1, <2>2, StoreIsNext
  <2>4. config' = config /\ configText' = configText
    BY <1>3 DEF InstallStep
  <2>5. CASE n < Len(Steps)
    <3>1. /\ installing' = [installing EXCEPT !.next = @ + 1]
          /\ inUse' = inUse
      BY <1>3, <2>5 DEF InstallStep
    <3>2. installing' = [next |-> n + 1, text |-> configText]
      BY <2>1, <3>1
    <3>3. n + 1 \in 1..Len(Steps) /\ n + 1 # 0
      BY <2>1, <2>5, StepReach
    <3>4. installing' # NotInstalling
      BY <3>2, <3>3 DEF NotInstalling
    <3>5. InstallingTheSaved'
      BY <2>1, <2>3, <2>4, <3>1, <3>2, <3>3 DEF InstallingTheSaved
    <3>6. InUseIsMeant'
      BY <3>4 DEF InUseIsMeant
    <3>7. ZonesAreFromConfigs'
      <4>1. ASSUME NEW i \in DOMAIN ZoneIds
            PROVE  \E c \in inUse : cache'.zones[i] = DrawnText(c, i)
        BY <2>1, <2>3, MeantZones DEF CacheInv, ZonesAreFromConfigs
      <4> QED
        BY <3>1, <4>1 DEF ZonesAreFromConfigs
    <3> QED
      BY <2>1, <2>3, <2>4, <3>1, <3>5, <3>6, <3>7 DEF CacheInv
  <2>6. CASE ~ (n < Len(Steps))
    <3>1. installing' = NotInstalling /\ inUse' = {config}
      BY <1>3, <2>6 DEF InstallStep
    <3>2. n + 1 = Len(Steps) + 1
      BY <2>1, <2>6, StepReach
    <3>3. cache' = Meant(config)
      BY <2>1, <2>3, <3>2, AllStored, MeantZones
    <3>4. InUseIsMeant'
      BY <2>1, <2>4, <3>1, <3>3 DEF InUseIsMeant
    <3>5. ZonesAreFromConfigs'
      BY <2>1, <3>1, <3>3, MeantZones DEF ZonesAreFromConfigs
    <3>6. InstallingTheSaved'
      BY <3>1 DEF InstallingTheSaved
    <3> QED
      BY <2>1, <2>3, <2>4, <3>1, <3>4, <3>5, <3>6 DEF CacheInv
  <2> QED
    BY <2>5, <2>6
<1>4. CASE BootConfig
  <2>1. /\ cache' = Meant(config) /\ installing' = NotInstalling /\ inUse' = {config}
        /\ config' = config /\ configText' = configText
        /\ config \in AllConfigs /\ configText = TextOf[config]
    <3>1. config \in AllConfigs /\ configText = TextOf[config]
      BY DEF CacheInv
    <3>2. InstalledOf[configText] = Installed(configText)
      BY <3>1 DEF InstalledOf
    <3> QED
      BY <1>4, <3>1, <3>2, MeantZones DEF BootConfig
  <2>2. ZonesAreFromConfigs'
    BY <2>1, MeantZones DEF ZonesAreFromConfigs
  <2>3. InUseIsMeant' /\ InstallingTheSaved'
    BY <2>1 DEF InUseIsMeant, InstallingTheSaved
  <2> QED
    BY <2>1, <2>2, <2>3, MeantZones DEF CacheInv
<1>5. ASSUME NEW where, Look(where)
      PROVE  CacheInv'
  <2>1. UNCHANGED <<config, configText, cache, installing, saveAnswer, inUse>>
    BY <1>5 DEF Look
  <2> QED
    BY <2>1 DEF CacheInv, InUseIsMeant, InstallingTheSaved, ZonesAreFromConfigs
<1>6. CASE UNCHANGED configVars
  BY <1>6 DEF configVars, CacheInv, InUseIsMeant, InstallingTheSaved, ZonesAreFromConfigs
<1> QED
  BY <1>1, <1>2, <1>3, <1>4, <1>5, <1>6 DEF ConfigNext

\* Between uploads the cache holds one configuration, and after an answer "ok"
\* the saved one (DeviceConfigCache::update and its callers).
THEOREM CacheHoldsOneConfig ==
    AllReadBack => (ConfigSpec => []CacheIsOneConfig)
<1> SUFFICES ASSUME AllReadBack
             PROVE  ConfigSpec => []CacheIsOneConfig
  OBVIOUS
<1>1. ConfigInit => CacheInv
  BY CacheInit
<1>2. CacheInv /\ [ConfigNext]_configVars => CacheInv'
  BY CacheStep
<1>3. CacheInv => CacheIsOneConfig
  <2> SUFFICES ASSUME CacheInv, installing = NotInstalling
               PROVE  /\ \E c \in inUse : inUse = {c} /\ cache = MeantOf[c]
                      /\ saveAnswer = "ok" => inUse = {config}
    BY DEF CacheIsOneConfig
  <2>1. PICK c \in AllConfigs : inUse = {c} /\ cache = Meant(c) /\ (saveAnswer = "ok" => c = config)
    BY DEF CacheInv, InUseIsMeant
  <2> QED
    BY <2>1 DEF MeantOf
<1> QED
  BY <1>1, <1>2, <1>3, PTL DEF ConfigSpec

-----------------------------------------------------------------------------
(* What the loop finds.                                                      *)

LEMMA NothingIsNoZone == \A i : ~ ZoneValid(<< >>, i)
<1> SUFFICES ASSUME NEW i
             PROVE  ~ ZoneValid(<< >>, i)
  OBVIOUS
<1> DEFINE piece == Key("id") \o <<":">> \o Key(ZoneIds[i])
<1>1. Len(piece) = 7
  BY DEF Key
<1>2. Len(<< >>) - Len(piece) + 1 = -6
  BY <1>1
<1> HIDE DEF piece
<1>3. 1..(Len(<< >>) - Len(piece) + 1) = {}
  BY <1>2
<1>4. Find(<< >>, piece, 1) = 0
  BY <1>3 DEF Find, First
<1> QED
  BY <1>4 DEF ZoneValid, piece

\* The zones that the evidence is made of.
ValidIn(zones) == {i \in DOMAIN ZoneIds : ZoneValid(zones[i], i)}
DetectionsIn(zones) == {i \in ValidIn(zones) : ZoneTypeIs(zones[i], "detection")}
FiltersIn(zones) == {i \in ValidIn(zones) \ DetectionsIn(zones) : ZoneTypeIs(zones[i], "filter")}
ExitsIn(zones) ==
    {i \in ValidIn(zones) \ (DetectionsIn(zones) \union FiltersIn(zones)) : ZoneTypeIs(zones[i], "exit")}

LEMMA EvidenceParts ==
    ASSUME NEW zones, NEW room, NEW where
    PROVE  LET e == EvidenceIn(zones, room, where)
           IN  /\ e.valid = ValidIn(zones)
               /\ e.inDetection = [t \in DOMAIN where |-> where[t] \intersect DetectionsIn(zones)]
               /\ e.inExit = [t \in DOMAIN where |-> where[t] \intersect ExitsIn(zones)]
BY DEF EvidenceIn, ValidIn, DetectionsIn, FiltersIn, ExitsIn

TypeOf(c, i) == c.zones[i].type

\* A zone that the loop reads as an exit or a detection zone was drawn as one.
LEMMA ZoneReadIsDrawn ==
    ASSUME AllReadBack, NEW c \in AllConfigs, NEW i \in DOMAIN ZoneIds,
           NEW zones, zones[i] = DrawnText(c, i)
    PROVE  /\ i \in DetectionsIn(zones) => c.zones[i] # NoZone /\ c.zones[i].type = "detection"
           /\ i \in ExitsIn(zones) => c.zones[i] # NoZone /\ c.zones[i].type = "exit"
           /\ c.zones[i] # NoZone /\ c.zones[i].type = "exit" => i \in ExitsIn(zones)
           /\ i \in ValidIn(zones) <=> c.zones[i] # NoZone
<1>1. CASE c.zones[i] = NoZone
  <2>1. zones[i] = << >>
    BY <1>1 DEF DrawnText
  <2>2. i \notin ValidIn(zones)
    BY <2>1, NothingIsNoZone DEF ValidIn
  <2> QED
    BY <1>1, <2>2 DEF DetectionsIn, ExitsIn
<1>2. CASE c.zones[i] # NoZone
  <2>1. zones[i] = ZoneText(ZoneIds[i], c.zones[i])
    BY <1>2 DEF DrawnText
  <2>2. /\ ZoneValid(zones[i], i)
        /\ \A type \in {"detection", "filter", "exit"} :
              ZoneTypeIs(zones[i], type) <=> (c.zones[i].type = type)
    BY <1>2, <2>1 DEF AllReadBack, ReadsBack
  <2>3. i \in ValidIn(zones)
    BY <2>2 DEF ValidIn
  <2>4. /\ i \in DetectionsIn(zones) <=> c.zones[i].type = "detection"
        /\ i \in FiltersIn(zones) => c.zones[i].type = "filter"
    BY <2>2, <2>3 DEF DetectionsIn, FiltersIn
  <2>5. i \in ExitsIn(zones) <=> c.zones[i].type = "exit"
    BY <2>2, <2>3, <2>4 DEF ExitsIn
  <2> QED
    BY <1>2, <2>3, <2>4, <2>5
<1> QED
  BY <1>1, <1>2

\* What a look may find in one zone.
ReadableZone(i) ==
    {cache.zones[i]} \union
    (IF installing # NotInstalling /\ Steps[installing.next] = <<"zone", i>>
     THEN {<< >>, ObjectById(cache.text, ZoneIds[i])} ELSE {})

LEMMA ReadableZoneByZone ==
    ASSUME Shaped(cache), NEW zones \in ReadableZones
    PROVE  /\ zones = [i \in DOMAIN ZoneIds |-> zones[i]]
           /\ \A i \in DOMAIN ZoneIds : zones[i] \in ReadableZone(i)
<1>1. cache.zones = [i \in DOMAIN ZoneIds |-> cache.zones[i]]
  <2>1. cache.zones = [text |-> cache.text, legacy |-> cache.legacy, assist |-> cache.assist,
                       zones |-> [i \in DOMAIN ZoneIds |-> cache.zones[i]],
                       calibrations |-> [i \in DOMAIN CalibrationIds |-> cache.calibrations[i]],
                       room |-> cache.room].zones
    BY DEF Shaped
  <2> QED
    BY <2>1
<1>2. CASE zones = cache.zones
  BY <1>1, <1>2 DEF ReadableZone
<1>3. ASSUME NEW k \in BeingStored, NEW z \in {<< >>, ObjectById(cache.text, ZoneIds[k])},
             zones = [cache.zones EXCEPT ![k] = z]
      PROVE  /\ zones = [i \in DOMAIN ZoneIds |-> zones[i]]
             /\ \A i \in DOMAIN ZoneIds : zones[i] \in ReadableZone(i)
  <2>1. zones = [i \in DOMAIN ZoneIds |-> IF i = k THEN z ELSE cache.zones[i]]
    BY <1>1, <1>3
  <2>2. /\ k \in DOMAIN ZoneIds /\ installing # NotInstalling
        /\ Steps[installing.next] = <<"zone", k>>
    BY DEF BeingStored
  <2>3. z \in ReadableZone(k)
    BY <2>2 DEF ReadableZone
  <2>4. ASSUME NEW i \in DOMAIN ZoneIds
        PROVE  zones[i] \in ReadableZone(i)
    <3>1. CASE i = k
      BY <2>1, <2>3, <3>1
    <3>2. CASE i # k
      BY <2>1, <3>2 DEF ReadableZone
    <3> QED
      BY <3>1, <3>2
  <2> QED
    BY <2>1, <2>4
<1> QED
  BY <1>2, <1>3 DEF ReadableZones

LEMMA ReadableIsDrawn ==
    ASSUME AllReadBack, CacheInv, NEW i \in DOMAIN ZoneIds, NEW z \in ReadableZone(i)
    PROVE  /\ z # << >> => \E c \in inUse : z = DrawnText(c, i)
           /\ installing = NotInstalling => z = cache.zones[i]
<1>1. CASE z = cache.zones[i]
  BY <1>1 DEF CacheInv, ZonesAreFromConfigs
<1>2. CASE /\ installing # NotInstalling /\ Steps[installing.next] = <<"zone", i>>
           /\ z \in {<< >>, ObjectById(cache.text, ZoneIds[i])}
  <2>1. /\ installing.next \in 1..Len(Steps) /\ config \in inUse /\ config \in AllConfigs
        /\ configText = TextOf[config] /\ StoredUpTo(cache, configText, installing.next)
    BY <1>2 DEF CacheInv, InstallingTheSaved
  <2>2. installing.next # 1
    <3>1. Steps[1] = <<"text", 0>>
      BY StepsInOrder
    <3> QED
      BY <1>2, <3>1
  <2>3. installing.next > 1
    BY <2>1, <2>2, StepReach
  <2>4. cache.text = TextOf[config]
    BY <2>1, <2>3 DEF StoredUpTo
  <2> QED
    BY <1>2, <2>1, <2>4, MeantZones
<1>3. \/ z = cache.zones[i]
      \/ /\ installing # NotInstalling /\ Steps[installing.next] = <<"zone", i>>
         /\ z \in {<< >>, ObjectById(cache.text, ZoneIds[i])}
  BY DEF ReadableZone
<1> QED
  BY <1>1, <1>2, <1>3

DrawnIn(configs, type, i) == \E c \in configs : c.zones[i] # NoZone /\ c.zones[i].type = type

LEMMA LookIsRight ==
    ASSUME AllReadBack, CacheInv, NEW slots, NEW where \in [slots -> SUBSET DOMAIN ZoneIds],
           Look(where)
    PROVE  EvidenceWasDrawn'
<1>0. PICK zones : /\ zones \in ReadableZones
                   /\ looked' = [evidence |-> EvidenceIn(zones, cache.room, where), where |-> where,
                                 zones |-> ZonesJson(zones, EvidenceIn(zones, cache.room, where).valid,
                                                    TargetsIn(EvidenceIn(zones, cache.room, where))),
                                 of |-> inUse, settled |-> installing = NotInstalling,
                                 exitAge |-> ExitAge(EvidenceIn(zones, cache.room, where))]
  BY DEF Look
<1>1. \A i \in DOMAIN ZoneIds : zones[i] \in ReadableZone(i)
  BY <1>0, ReadableZoneByZone DEF CacheInv
<1> DEFINE e == EvidenceIn(zones, cache.room, where)
<1>2. /\ looked'.evidence = e /\ looked'.where = where /\ looked'.of = inUse
      /\ looked'.settled = (installing = NotInstalling) /\ looked'.exitAge = ExitAge(e)
  BY <1>0
<1>3. /\ e.inDetection = [t \in slots |-> where[t] \intersect DetectionsIn(zones)]
      /\ e.inExit = [t \in slots |-> where[t] \intersect ExitsIn(zones)]
      /\ DOMAIN where = slots
  BY EvidenceParts
<1> HIDE DEF e
<1>4. inUse \subseteq AllConfigs
  BY DEF CacheInv
<1>5. ASSUME NEW i \in DOMAIN ZoneIds
      PROVE  /\ i \in DetectionsIn(zones) => DrawnIn(inUse, "detection", i)
             /\ i \in ExitsIn(zones) => DrawnIn(inUse, "exit", i)
  <2>1. CASE zones[i] = << >>
    BY <2>1, NothingIsNoZone DEF DetectionsIn, ExitsIn, ValidIn
  <2>2. CASE zones[i] # << >>
    <3>1. PICK c \in inUse : zones[i] = DrawnText(c, i)
      BY <1>1, <2>2, ReadableIsDrawn
    <3> QED
      BY <1>4, <3>1, ZoneReadIsDrawn DEF DrawnIn
  <2> QED
    BY <2>1, <2>2
<1>6. ASSUME NEW i \in DOMAIN ZoneIds, installing = NotInstalling, DrawnIn(inUse, "exit", i)
      PROVE  i \in ExitsIn(zones)
  <2>1. PICK c \in AllConfigs : inUse = {c} /\ cache = Meant(c)
    BY <1>6 DEF CacheInv, InUseIsMeant
  <2>2. zones[i] = DrawnText(c, i)
    BY <1>1, <1>6, <2>1, ReadableIsDrawn, MeantZones
  <2>3. c.zones[i] # NoZone /\ c.zones[i].type = "exit"
    BY <1>6, <2>1 DEF DrawnIn
  <2> QED
    BY <2>2, <2>3, ZoneReadIsDrawn
<1>7. ASSUME NEW t \in slots
      PROVE  /\ \A i \in e.inExit[t] : i \in where[t] /\ DrawnIn(inUse, "exit", i)
             /\ \A i \in e.inDetection[t] : i \in where[t] /\ DrawnIn(inUse, "detection", i)
  BY <1>3, <1>5
<1>8. ASSUME NEW t \in slots, NEW i \in where[t], installing = NotInstalling,
             DrawnIn(inUse, "exit", i)
      PROVE  i \in e.inExit[t] /\ ExitAge(e) = 0
  <2>1. i \in e.inExit[t]
    BY <1>3, <1>6, <1>8
  <2>2. \E s \in DOMAIN e.inExit : e.inExit[s] # {}
    BY <1>3, <2>1
  <2> QED
    BY <2>1, <2>2 DEF ExitAge
<1>9. \A t \in DOMAIN looked'.where :
         /\ \A i \in looked'.evidence.inExit[t] :
               i \in looked'.where[t] /\ DrawnIn(looked'.of, "exit", i)
         /\ \A i \in looked'.evidence.inDetection[t] :
               i \in looked'.where[t] /\ DrawnIn(looked'.of, "detection", i)
  BY <1>2, <1>3, <1>7
<1>10. looked'.settled =>
         \A t \in DOMAIN looked'.where : \A i \in looked'.where[t] :
            DrawnIn(looked'.of, "exit", i) =>
               i \in looked'.evidence.inExit[t] /\ looked'.exitAge = 0
  BY <1>2, <1>3, <1>8
<1> QED
  BY <1>9, <1>10 DEF EvidenceWasDrawn, DrawnIn

\* How many targets are in each zone, in the evidence of a look.
LEMMA TargetsAreCounted ==
    ASSUME NEW slots \in SUBSET TargetSlots, NEW where \in [slots -> SUBSET DOMAIN ZoneIds],
           NEW zones, NEW room
    PROVE  TargetsIn(EvidenceIn(zones, room, where))
             \in [DOMAIN ZoneIds -> 0..Cardinality(TargetSlots)]
<1> DEFINE e == EvidenceIn(zones, room, where)
<1>1. DOMAIN e.inExit = slots
  <2>1. e.inExit = [t \in DOMAIN where |-> where[t] \intersect ExitsIn(zones)]
    BY DEF EvidenceIn, ValidIn, DetectionsIn, FiltersIn, ExitsIn
  <2> HIDE DEF e
  <2> QED
    BY <2>1
<1> DEFINE In(i) == {t \in DOMAIN e.inExit : i \in e.inExit[t] \union e.inDetection[t]}
<1>2. ASSUME NEW i \in DOMAIN ZoneIds
      PROVE  Cardinality(In(i)) \in 0..Cardinality(TargetSlots)
  <2>1. In(i) \subseteq TargetSlots
    BY <1>1
  <2> HIDE DEF In
  <2>2. IsFiniteSet(TargetSlots)
    BY ConfigAssumption
  <2>3. IsFiniteSet(In(i)) /\ Cardinality(In(i)) <= Cardinality(TargetSlots)
    BY <2>1, <2>2, FS_Subset
  <2>4. Cardinality(In(i)) \in Nat /\ Cardinality(TargetSlots) \in Nat
    BY <2>2, <2>3, FS_CardinalityType
  <2> QED
    BY <2>3, <2>4
<1>3. TargetsIn(e) = [i \in DOMAIN ZoneIds |-> Cardinality(In(i))]
  BY DEF TargetsIn
<1> HIDE DEF e, In
<1>4. TargetsIn(e) \in [DOMAIN ZoneIds -> 0..Cardinality(TargetSlots)]
  BY <1>2, <1>3
<1> QED
  BY <1>4 DEF e

LEMMA StateIsRight ==
    ASSUME AllReadBack, CacheInv, NEW slots \in SUBSET TargetSlots,
           NEW where \in [slots -> SUBSET DOMAIN ZoneIds], Look(where)
    PROVE  StateNamesTheZones'
<1>0. PICK zones \in ReadableZones :
         looked' = [evidence |-> EvidenceIn(zones, cache.room, where), where |-> where,
                     zones |-> ZonesJson(zones, EvidenceIn(zones, cache.room, where).valid,
                                        TargetsIn(EvidenceIn(zones, cache.room, where))),
                     of |-> inUse, settled |-> installing = NotInstalling,
                     exitAge |-> ExitAge(EvidenceIn(zones, cache.room, where))]
  BY DEF Look
<1>1. /\ zones = [i \in DOMAIN ZoneIds |-> zones[i]]
      /\ \A i \in DOMAIN ZoneIds : zones[i] \in ReadableZone(i)
  BY <1>0, ReadableZoneByZone DEF CacheInv
<1> DEFINE counts == TargetsIn(EvidenceIn(zones, cache.room, where))
<1>2. /\ looked'.zones = ZonesJson(zones, ValidIn(zones), counts)
      /\ looked'.of = inUse /\ looked'.settled = (installing = NotInstalling)
  BY <1>0, EvidenceParts
<1>3. counts \in [DOMAIN ZoneIds -> 0..Cardinality(TargetSlots)]
  BY TargetsAreCounted
<1> HIDE DEF counts
<1>4. ASSUME installing = NotInstalling, NEW d \in inUse
      PROVE  NamesZones(ZonesJson(zones, ValidIn(zones), counts), d)
  <2>1. PICK c \in AllConfigs : inUse = {c} /\ cache = Meant(c)
    BY <1>4 DEF CacheInv, InUseIsMeant
  <2>2. \A i \in DOMAIN ZoneIds : zones[i] = DrawnText(c, i) /\ zones[i] = Meant(c).zones[i]
    BY <1>1, <1>4, <2>1, ReadableIsDrawn, MeantZones
  <2>3. zones = Meant(c).zones
    <3>1. Meant(c).zones = [i \in DOMAIN ZoneIds |-> DrawnText(c, i)]
      BY DEF Meant, DrawnText
    <3> QED
      BY <1>1, <2>2, <3>1
  <2>4. ValidIn(zones) = DrawnSlots(c)
    <3>1. \A i \in DOMAIN ZoneIds : i \in ValidIn(zones) <=> c.zones[i] # NoZone
      BY <2>2, ZoneReadIsDrawn
    <3>2. ValidIn(zones) \subseteq DOMAIN ZoneIds
      BY DEF ValidIn
    <3> QED
      BY <3>1, <3>2 DEF DrawnSlots
  <2>5. NamesZones(ZonesJson(Meant(c).zones, DrawnSlots(c), counts), c)
    BY <1>3 DEF AllReadBack, ReadsBack
  <2> QED
    BY <2>1, <2>3, <2>4, <2>5
<1> QED
  BY <1>2, <1>4 DEF StateNamesTheZones

\* However the HTTP task installs a configuration, the loop finds targets in
\* zones that were drawn, and the state JSON names those of the configuration
\* (software_zone_evidence.cpp under DeviceConfigCache::update).
THEOREM LoopFindsWhatWasDrawn ==
    AllReadBack => (ConfigSpec => []LoopSeesTheConfiguration)
<1> SUFFICES ASSUME AllReadBack
             PROVE  ConfigSpec => []LoopSeesTheConfiguration
  OBVIOUS
<1>0. looked = NotLooked => LoopSeesTheConfiguration
  <2> SUFFICES ASSUME looked = NotLooked
               PROVE  LoopSeesTheConfiguration
    OBVIOUS
  <2>1. DOMAIN looked.where = {} /\ looked.settled = FALSE /\ looked.of = {}
    BY DEF NotLooked
  <2> QED
    BY <2>1 DEF LoopSeesTheConfiguration, EvidenceWasDrawn, StateNamesTheZones
<1>1. ConfigInit => CacheInv /\ LoopSeesTheConfiguration
  BY <1>0, CacheInit DEF ConfigInit
<1>2. CacheInv /\ LoopSeesTheConfiguration /\ [ConfigNext]_configVars
        => CacheInv' /\ LoopSeesTheConfiguration'
  <2> SUFFICES ASSUME CacheInv, LoopSeesTheConfiguration, [ConfigNext]_configVars
               PROVE  LoopSeesTheConfiguration'
    BY CacheStep
  <2>1. CASE looked' = looked
    BY <2>1 DEF LoopSeesTheConfiguration, EvidenceWasDrawn, StateNamesTheZones
  <2>2. CASE BootConfig
    <3>1. looked' = NotLooked
      BY <2>2 DEF BootConfig
    <3>2. DOMAIN (looked').where = {} /\ (looked').settled = FALSE /\ (looked').of = {}
      BY <3>1 DEF NotLooked
    <3> QED
      BY <3>2 DEF LoopSeesTheConfiguration, EvidenceWasDrawn, StateNamesTheZones
  <2>3. ASSUME NEW slots \in SUBSET TargetSlots, NEW where \in [slots -> SUBSET DOMAIN ZoneIds],
               Look(where)
        PROVE  LoopSeesTheConfiguration'
    BY <2>3, LookIsRight, StateIsRight DEF LoopSeesTheConfiguration
  <2>4. \/ looked' = looked \/ BootConfig
        \/ \E slots \in SUBSET TargetSlots : \E where \in [slots -> SUBSET DOMAIN ZoneIds] : Look(where)
    BY DEF ConfigNext, configVars, SaveConfig, ResetConfig, InstallStep
  <2> QED
    BY <2>1, <2>2, <2>3, <2>4
<1> QED
  BY <1>1, <1>2, PTL DEF ConfigSpec

-----------------------------------------------------------------------------
(* The list of networks: the page of the setup shows each network once, the  *)
(* strongest first, for any access points and any number of records.         *)

LEMMA LeastNatural ==
    ASSUME NEW S \in SUBSET Nat, S # {}
    PROVE  \E n \in S : \A m \in S : n <= m
<1>1. PICK n \in S : \A m \in S : ~(<<m, n>> \in OpToRel(<, Nat))
  BY NatLessThanWellFounded, WFMin
<1>2. \A m \in S : ~(m < n)
  BY <1>1 DEF OpToRel
<1> QED
  BY <1>2

\* A list of m networks that stands for the first n records.
ListsFirst(list, m, heard, n) ==
    /\ m \in Nat /\ m <= n /\ list \in [1..m -> ScanRecords]
    /\ \A i \in 1..m : list[i].ssid # Hidden /\ \E j \in 1..n : heard[j] = list[i]
    /\ \A i, k \in 1..m : list[i].ssid = list[k].ssid => i = k
    /\ \A j \in 1..n : heard[j].ssid # Hidden =>
          \E i \in 1..m : list[i].ssid = heard[j].ssid /\ list[i].rssi >= heard[j].rssi

LEMMA NextIsListed ==
    ASSUME NEW n \in Nat, NEW heard, \A j \in 1..(n + 1) : heard[j] \in ScanRecords,
           NEW list, NEW m, ListsFirst(list, m, heard, n)
    PROVE  LET r == heard[n + 1]
               next == IF r.ssid = Hidden THEN list ELSE Updated(list, r)
           IN  \E k : ListsFirst(next, k, heard, n + 1)
<1> DEFINE r == heard[n + 1]
           at == {i \in DOMAIN list : list[i].ssid = r.ssid}
<1>0. n + 1 \in 1..(n + 1) /\ \A j \in 1..n : j \in 1..(n + 1)
  OBVIOUS
<1>1. /\ m \in Nat /\ m <= n /\ list \in [1..m -> ScanRecords]
      /\ \A i \in 1..m : list[i].ssid # Hidden /\ \E j \in 1..n : heard[j] = list[i]
      /\ \A i, k \in 1..m : list[i].ssid = list[k].ssid => i = k
      /\ \A j \in 1..n : heard[j].ssid # Hidden =>
            \E i \in 1..m : list[i].ssid = heard[j].ssid /\ list[i].rssi >= heard[j].rssi
  BY DEF ListsFirst
<1>2. r \in ScanRecords /\ \A s \in ScanRecords : s.rssi \in Int
  BY <1>0, NetworkListAssumption
<1>3. \A j \in 1..(n + 1) : j \in 1..n \/ heard[j] = r
  BY DEF r
<1>4. heard[n + 1] = r
  OBVIOUS
<1> HIDE DEF r
<1>5. CASE r.ssid = Hidden
  <2>1. \A i \in 1..m : \E j \in 1..(n + 1) : heard[j] = list[i]
    BY <1>0, <1>1
  <2>2. \A j \in 1..(n + 1) : heard[j].ssid # Hidden =>
            \E i \in 1..m : list[i].ssid = heard[j].ssid /\ list[i].rssi >= heard[j].rssi
    BY <1>1, <1>3, <1>5
  <2>3. m <= n + 1
    BY <1>1
  <2>4. ListsFirst(list, m, heard, n + 1)
    BY <1>1, <2>1, <2>2, <2>3 DEF ListsFirst
  <2> QED
    BY <1>4, <1>5, <2>4
<1>6. CASE r.ssid # Hidden /\ at = {}
  <2> DEFINE next == Append(list, r)
  <2>0. list \in Seq(ScanRecords) /\ Len(list) = m
    BY <1>1
  <2>1. /\ next \in Seq(ScanRecords) /\ Len(next) = m + 1
        /\ \A i \in 1..m : next[i] = list[i]
        /\ next[m + 1] = r
    BY <1>1, <1>2, <2>0
  <2>2. \A i \in 1..m : list[i].ssid # r.ssid
    BY <1>1, <1>6
  <2> HIDE DEF next
  <2>3. next \in [1..(m + 1) -> ScanRecords]
    BY <2>1
  <2>4. \A i \in 1..(m + 1) : i \in 1..m \/ i = m + 1
    BY <1>1
  <2>5. ASSUME NEW i \in 1..(m + 1)
        PROVE  next[i].ssid # Hidden /\ \E j \in 1..(n + 1) : heard[j] = next[i]
    BY <1>0, <1>1, <1>4, <1>6, <2>1, <2>4
  <2>6. ASSUME NEW i \in 1..(m + 1), NEW k \in 1..(m + 1), next[i].ssid = next[k].ssid
        PROVE  i = k
    BY <1>1, <2>1, <2>2, <2>4, <2>6
  <2>7. ASSUME NEW j \in 1..(n + 1), heard[j].ssid # Hidden
        PROVE  \E i \in 1..(m + 1) : next[i].ssid = heard[j].ssid /\ next[i].rssi >= heard[j].rssi
    <3>1. CASE j \in 1..n
      <4>1. PICK i \in 1..m : list[i].ssid = heard[j].ssid /\ list[i].rssi >= heard[j].rssi
        BY <1>1, <2>7, <3>1
      <4>2. i \in 1..(m + 1)
        BY <1>1
      <4> QED
        BY <2>1, <4>1, <4>2
    <3>2. CASE heard[j] = r
      <4>1. m + 1 \in 1..(m + 1) /\ r.rssi >= r.rssi
        BY <1>1, <1>2
      <4> QED
        BY <2>1, <3>2, <4>1
    <3> QED
      BY <1>3, <3>1, <3>2
  <2>8. m + 1 \in Nat /\ m + 1 <= n + 1
    BY <1>1
  <2>9. ListsFirst(next, m + 1, heard, n + 1)
    BY <2>3, <2>5, <2>6, <2>7, <2>8 DEF ListsFirst
  <2>10. Updated(list, r) = next
    BY <1>6 DEF Updated, next
  <2> QED
    BY <1>4, <1>6, <2>9, <2>10
<1>7. CASE r.ssid # Hidden /\ at # {}
  <2> DEFINE next == [i \in DOMAIN list |-> IF i \in at /\ r.rssi > list[i].rssi THEN r ELSE list[i]]
  <2>1. DOMAIN list = 1..m
    BY <1>1
  <2>2. \A i \in 1..m : /\ next[i] = r \/ next[i] = list[i]
                        /\ next[i].ssid = list[i].ssid /\ next[i].rssi >= list[i].rssi
                        /\ list[i].ssid = r.ssid => next[i].rssi >= r.rssi
    <3>1. \A i \in 1..m : list[i].rssi \in Int /\ r.rssi \in Int
      BY <1>1, <1>2
    <3> QED
      BY <2>1, <3>1
  <2>3. next \in [1..m -> ScanRecords]
    BY <1>1, <1>2, <2>1
  <2> HIDE DEF next
  <2>4. ASSUME NEW i \in 1..m
        PROVE  next[i].ssid # Hidden /\ \E j \in 1..(n + 1) : heard[j] = next[i]
    BY <1>0, <1>1, <1>4, <1>7, <2>2
  <2>5. ASSUME NEW i \in 1..m, NEW k \in 1..m, next[i].ssid = next[k].ssid
        PROVE  i = k
    BY <1>1, <2>2, <2>5
  <2>6. ASSUME NEW j \in 1..(n + 1), heard[j].ssid # Hidden
        PROVE  \E i \in 1..m : next[i].ssid = heard[j].ssid /\ next[i].rssi >= heard[j].rssi
    <3>1. CASE j \in 1..n
      <4>1. PICK i \in 1..m : list[i].ssid = heard[j].ssid /\ list[i].rssi >= heard[j].rssi
        BY <1>1, <2>6, <3>1
      <4>2. next[i].rssi \in Int /\ list[i].rssi \in Int /\ heard[j].rssi \in Int
        BY <1>1, <1>2, <2>3
      <4> QED
        BY <2>2, <4>1, <4>2
    <3>2. CASE heard[j] = r
      BY <1>7, <2>1, <2>2, <3>2
    <3> QED
      BY <1>3, <3>1, <3>2
  <2>7. m <= n + 1
    BY <1>1
  <2>8. ListsFirst(next, m, heard, n + 1)
    BY <1>1, <2>3, <2>4, <2>5, <2>6, <2>7 DEF ListsFirst
  <2>9. Updated(list, r) = next
    BY <1>7 DEF Updated, next
  <2> QED
    BY <1>4, <1>7, <2>8, <2>9
<1> QED
  BY <1>5, <1>6, <1>7

\* The lists that the records make, one after the other.
NextList(list, r) == IF r.ssid = Hidden THEN list ELSE Updated(list, r)
Lists(f, heard, n) ==
    f = [k \in 0..n |-> IF k = 0 THEN << >> ELSE NextList(f[k - 1], heard[k])]

LEMMA ListsExist ==
    ASSUME NEW heard, NEW n \in Nat
    PROVE  \E f : Lists(f, heard, n)
<1> DEFINE Bad == {k \in Nat : ~ \E f : Lists(f, heard, k)}
<1>1. SUFFICES ASSUME Bad # {} PROVE FALSE
  OBVIOUS
<1>2. PICK b \in Bad : \A l \in Bad : b <= l
  <2>1. Bad \in SUBSET Nat
    OBVIOUS
  <2> HIDE DEF Bad
  <2> QED
    BY <1>1, <2>1, LeastNatural
<1>3. b \in Nat /\ ~ \E f : Lists(f, heard, b)
  OBVIOUS
<1>4. CASE b = 0
  <2>1. \A k \in 0..0 : k = 0
    OBVIOUS
  <2>2. Lists([k \in 0..0 |-> << >>], heard, 0)
    BY <2>1 DEF Lists
  <2> QED
    BY <1>3, <1>4, <2>2
<1>5. CASE b # 0
  <2> DEFINE l == b - 1
  <2>1. l \in Nat /\ ~ (b <= l) /\ l + 1 = b
    BY <1>3, <1>5
  <2>2. l \notin Bad
    <3> HIDE DEF Bad, l
    <3> QED
      BY <1>2, <2>1
  <2>3. PICK f : Lists(f, heard, l)
    BY <2>1, <2>2
  <2> DEFINE g == [k \in 0..b |-> IF k = b THEN NextList(f[l], heard[b]) ELSE f[k]]
  <2>4. \A k \in 0..b : k = b \/ k \in 0..l
    BY <2>1
  <2>5. \A k \in 0..l : f[k] = IF k = 0 THEN << >> ELSE NextList(f[k - 1], heard[k])
    BY <2>3 DEF Lists
  <2>6. \A k \in 0..l : g[k] = f[k]
    BY <2>1
  <2>7. g[b] = NextList(f[l], heard[b]) /\ g[l] = f[l]
    BY <2>1
  <2>8. \A k \in 0..b : g[k] = IF k = 0 THEN << >> ELSE NextList(g[k - 1], heard[k])
    <3>1. ASSUME NEW k \in 0..b
          PROVE  g[k] = IF k = 0 THEN << >> ELSE NextList(g[k - 1], heard[k])
      <4> HIDE DEF g
      <4>1. CASE k = b
        BY <1>5, <2>7, <4>1 DEF l
      <4>2. CASE k # b
        <5>1. k \in 0..l /\ (k = 0 \/ k - 1 \in 0..l)
          BY <2>1, <2>4, <4>2
        <5> QED
          BY <2>5, <2>6, <5>1
      <4> QED
        BY <4>1, <4>2
    <3> QED
      BY <3>1
  <2>9. g = [k \in 0..b |-> g[k]]
    OBVIOUS
  <2> HIDE DEF g
  <2>10. Lists(g, heard, b)
    BY <2>8, <2>9 DEF Lists
  <2> QED
    BY <1>3, <2>10
<1> QED
  BY <1>4, <1>5

LEMMA EveryListIsListed ==
    ASSUME NEW n \in Nat, NEW heard, \A j \in 1..n : heard[j] \in ScanRecords,
           NEW f, Lists(f, heard, n)
    PROVE  \E m : ListsFirst(f[n], m, heard, n)
<1> DEFINE Bad == {k \in Nat : k <= n /\ ~ \E m : ListsFirst(f[k], m, heard, k)}
<1>1. SUFFICES ASSUME Bad # {} PROVE FALSE
  <2>1. n \in Nat /\ n <= n
    OBVIOUS
  <2> QED
    BY <1>1, <2>1
<1>2. PICK b \in Bad : \A l \in Bad : b <= l
  <2>1. Bad \in SUBSET Nat
    OBVIOUS
  <2> HIDE DEF Bad
  <2> QED
    BY <1>1, <2>1, LeastNatural
<1>3. b \in Nat /\ b <= n /\ ~ \E m : ListsFirst(f[b], m, heard, b)
  OBVIOUS
<1>4. \A k \in 0..n : f[k] = IF k = 0 THEN << >> ELSE NextList(f[k - 1], heard[k])
  BY DEF Lists
<1>5. CASE b = 0
  <2>1. PICK k : k = 0
    OBVIOUS
  <2>2. f[k] = << >>
    BY <1>4, <2>1
  <2>3. (\A i : i \notin 1..0) /\ << >> \in [1..0 -> ScanRecords]
    OBVIOUS
  <2>4. ListsFirst(<< >>, 0, heard, 0)
    BY <2>3 DEF ListsFirst
  <2> QED
    BY <1>3, <1>5, <2>1, <2>2, <2>4
<1>6. CASE b # 0
  <2> DEFINE l == b - 1
  <2>1. l \in Nat /\ ~ (b <= l) /\ l <= n /\ l + 1 = b /\ b \in 0..n /\ b - 1 = l
    BY <1>3, <1>6
  <2>2. PICK m : ListsFirst(f[l], m, heard, l)
    <3>1. l \notin Bad
      <4> HIDE DEF Bad, l
      <4> QED
        BY <1>2, <2>1
    <3> QED
      BY <2>1, <3>1
  <2>3. f[b] = NextList(f[l], heard[b])
    BY <1>4, <1>6, <2>1
  <2>4. \A j \in 1..(l + 1) : heard[j] \in ScanRecords
    <3>1. \A j \in 1..(l + 1) : j \in 1..n
      BY <1>3, <2>1
    <3> QED
      BY <3>1
  <2> HIDE DEF l
  <2>5. PICK k : ListsFirst(NextList(f[l], heard[l + 1]), k, heard, l + 1)
    BY <2>1, <2>2, <2>4, NextIsListed DEF NextList
  <2> QED
    BY <1>3, <2>1, <2>3, <2>5
<1> QED
  BY <1>5, <1>6

LEMMA HeardRecords ==
    ASSUME NEW n \in Nat, NEW records \in [1..n -> ScanRecords]
    PROVE  LET heard == Heard(records)
           IN  /\ Len(heard) \in Nat /\ Len(heard) <= MostRecords
               /\ DOMAIN heard = 1..Len(heard)
               /\ \A j \in 1..Len(heard) : heard[j] \in ScanRecords
<1>1. records \in Seq(ScanRecords) /\ Len(records) = n /\ MostRecords \in Nat
  BY NetworkListAssumption
<1> DEFINE l == IF Len(records) > MostRecords THEN MostRecords ELSE Len(records)
<1>2. l \in Nat /\ l <= MostRecords /\ l <= Len(records)
  BY <1>1
<1>3. Heard(records) = SubSeq(records, 1, l)
  BY DEF Heard
<1> HIDE DEF l
<1>4. SubSeq(records, 1, l) \in Seq(ScanRecords) /\ Len(SubSeq(records, 1, l)) = l
  BY <1>1, <1>2
<1> QED
  BY <1>2, <1>3, <1>4

\* What a scan leaves: a list for its records.
LEMMA ListOfIsListed ==
    ASSUME NEW n \in Nat, NEW records \in [1..n -> ScanRecords]
    PROVE  \E m : ListsFirst(ListOf(records), m, Heard(records), Len(Heard(records)))
<1> DEFINE heard == Heard(records)
           l == Len(heard)
           f == CHOOSE g : Lists(g, heard, l)
<1>1. l \in Nat /\ \A j \in 1..l : heard[j] \in ScanRecords
  BY HeardRecords
<1>2. ListOf(records) = f[l]
  BY DEF ListOf, Lists, NextList
<1> HIDE DEF heard, l
<1>3. Lists(f, heard, l)
  BY <1>1, ListsExist
<1> HIDE DEF f
<1>4. \E m : ListsFirst(f[l], m, heard, l)
  BY <1>1, <1>3, EveryListIsListed
<1> QED
  BY <1>2, <1>4 DEF heard, l

Ordered(list, m) == \A i, k \in 1..m : i < k => list[i].rssi >= list[k].rssi

\* Sorting keeps the networks.
LEMMA SortedIsListed ==
    ASSUME NEW n \in Nat, NEW heard, NEW list, NEW m, ListsFirst(list, m, heard, n),
           NEW p \in Sorted(list)
    PROVE  ListsFirst(p, m, heard, n) /\ Ordered(p, m)
<1> DEFINE R == Range(list)
<1>1. /\ m \in Nat /\ m <= n /\ list \in [1..m -> ScanRecords]
      /\ \A i \in 1..m : list[i].ssid # Hidden /\ \E j \in 1..n : heard[j] = list[i]
      /\ \A i, k \in 1..m : list[i].ssid = list[k].ssid => i = k
      /\ \A j \in 1..n : heard[j].ssid # Hidden =>
            \E i \in 1..m : list[i].ssid = heard[j].ssid /\ list[i].rssi >= heard[j].rssi
  BY DEF ListsFirst
<1>2. R = {list[i] : i \in 1..m}
  BY <1>1 DEF Range
<1>3. PICK C : C = 1..m
  OBVIOUS
<1>4. IsFiniteSet(C) /\ Cardinality(C) = m
  <2>1. 1 \in Int /\ m \in Int
    BY <1>1
  <2>2. IsFiniteSet(1..m) /\ Cardinality(1..m) = IF 1 > m THEN 0 ELSE m - 1 + 1
    BY <2>1, FS_Interval
  <2> QED
    BY <1>1, <1>3, <2>2
<1> HIDE DEF R
<1>5. IsFiniteSet(R) /\ Cardinality(R) = m
  <2>1. list \in [C -> R] /\ (\A i, k \in C : list[i] = list[k] => i = k)
        /\ \A x \in R : \E i \in C : list[i] = x
    BY <1>1, <1>2, <1>3
  <2>2. list \in Bijection(C, R)
    BY <2>1 DEF Bijection, Injection, Surjection, IsInjective
  <2>3. ExistsBijection(C, R)
    BY <2>2 DEF ExistsBijection
  <2> QED
    BY <1>4, <2>3, FS_Bijection
<1>6. /\ p \in [1..m -> R] /\ (\A i, j \in 1..m : i # j => p[i] # p[j])
      /\ \A i, j \in DOMAIN p : i < j => p[i].rssi >= p[j].rssi
  BY <1>5 DEF Sorted, SetToSeqs, R
<1>7. \A x \in R : \E i \in 1..m : p[i] = x
  <2>1. p \in Injection(C, R)
    BY <1>3, <1>6 DEF Injection, IsInjective
  <2>2. p \in Surjection(C, R)
    BY <1>4, <1>5, <2>1, FS_Injection
  <2> QED
    BY <1>3, <2>2 DEF Surjection
<1>8. \A i \in 1..m : \E k \in 1..m : p[i] = list[k]
  BY <1>2, <1>6
<1>9. p \in [1..m -> ScanRecords]
  BY <1>1, <1>6, <1>8
<1>10. ASSUME NEW i \in 1..m
       PROVE  p[i].ssid # Hidden /\ \E j \in 1..n : heard[j] = p[i]
  <2>1. PICK k \in 1..m : p[i] = list[k]
    BY <1>8
  <2>2. list[k].ssid # Hidden /\ \E j \in 1..n : heard[j] = list[k]
    BY <1>1
  <2> QED
    BY <2>1, <2>2
<1>11. ASSUME NEW i \in 1..m, NEW k \in 1..m, p[i].ssid = p[k].ssid
       PROVE  i = k
  <2>1. PICK a \in 1..m : p[i] = list[a]
    BY <1>8
  <2>2. PICK b \in 1..m : p[k] = list[b]
    BY <1>8
  <2>3. a = b
    BY <1>1, <1>11, <2>1, <2>2
  <2> QED
    BY <1>6, <2>1, <2>2, <2>3
<1>12. ASSUME NEW j \in 1..n, heard[j].ssid # Hidden
       PROVE  \E i \in 1..m : p[i].ssid = heard[j].ssid /\ p[i].rssi >= heard[j].rssi
  <2>1. PICK k \in 1..m : list[k].ssid = heard[j].ssid /\ list[k].rssi >= heard[j].rssi
    BY <1>1, <1>12
  <2>2. PICK i \in 1..m : p[i] = list[k]
    BY <1>2, <1>7
  <2> QED
    BY <2>1, <2>2
<1>13. ListsFirst(p, m, heard, n)
  BY <1>1, <1>9, <1>10, <1>11, <1>12 DEF ListsFirst
<1>14. Ordered(p, m)
  BY <1>6 DEF Ordered
<1> QED
  BY <1>13, <1>14

\* The list that the page shows, at any time: that of the last scan.
ListInv ==
    /\ networksReady \in BOOLEAN
    /\ \E n \in Nat : found \in [1..n -> ScanRecords]
    /\ \E m : ListsFirst(networks, m, Heard(found), Len(Heard(found))) /\ Ordered(networks, m)

LEMMA ListInvInit == NetworkInit => ListInv
<1> SUFFICES ASSUME NetworkInit PROVE ListInv
  OBVIOUS
<1>1. PICK n : n = 0
  OBVIOUS
<1>2. n \in Nat /\ (\A i : i \notin 1..n) /\ << >> \in [1..n -> ScanRecords]
  BY <1>1
<1>3. found = << >> /\ networks = << >> /\ networksReady \in BOOLEAN
  BY DEF NetworkInit
<1> DEFINE l == Len(Heard(found))
<1>4. l \in Nat /\ l = 0
  <2>1. MostRecords \in Nat
    BY NetworkListAssumption
  <2>2. Heard(found) = SubSeq(<< >>, 1, 0)
    BY <1>3, <2>1 DEF Heard
  <2> QED
    BY <2>2
<1> HIDE DEF l
<1>5. ListsFirst(networks, n, Heard(found), l) /\ Ordered(networks, n)
  BY <1>1, <1>2, <1>3, <1>4 DEF ListsFirst, Ordered
<1> QED
  BY <1>2, <1>3, <1>5 DEF ListInv, l

LEMMA ListInvNext == ListInv /\ [NetworkNext]_networkVars => ListInv'
<1> SUFFICES ASSUME ListInv, [NetworkNext]_networkVars PROVE ListInv'
  OBVIOUS
<1>1. CASE StartList
  BY <1>1 DEF StartList, ListInv
<1>2. ASSUME NEW n \in 0..MaxScan, NEW records \in [1..n -> ScanRecords], FinishList(records)
      PROVE  ListInv'
  <2> DEFINE l == Len(Heard(records))
  <2>1. n \in Nat
    BY NetworkListAssumption
  <2>2. networks' \in Sorted(ListOf(records)) /\ networksReady' = TRUE /\ found' = records
    BY <1>2 DEF FinishList
  <2>3. l \in Nat
    BY <2>1, HeardRecords
  <2>4. PICK m : ListsFirst(ListOf(records), m, Heard(records), l)
    BY <2>1, ListOfIsListed
  <2> HIDE DEF l
  <2>5. ListsFirst(networks', m, Heard(records), l) /\ Ordered(networks', m)
    BY <2>2, <2>3, <2>4, SortedIsListed
  <2> QED
    BY <2>1, <2>2, <2>5 DEF ListInv, l
<1>3. CASE UNCHANGED networkVars
  BY <1>3 DEF networkVars, ListInv
<1> QED
  BY <1>1, <1>2, <1>3 DEF NetworkNext

\* If pages show what they were made of: whatever is heard, in any order and
\* however many access points share a name, the page of the setup lists each
\* network that was read once, the strongest first, as its strongest access
\* point presents itself.
THEOREM PagesListTheStrongest == PagesReadBack => (NetworkSpec => []PageListsTheStrongest)
<1>1. ListInv /\ PagesReadBack => PageListsTheStrongest
  <2> SUFFICES ASSUME ListInv, PagesReadBack PROVE PageListsTheStrongest
    OBVIOUS
  <2> DEFINE heard == Heard(found)
             l == Len(heard)
             page == NetworksPage
             names == {r.ssid : r \in Range(heard)} \ {Hidden}
  <2>1. PICK m : ListsFirst(networks, m, heard, l) /\ Ordered(networks, m)
    BY DEF ListInv
  <2>2. /\ l \in Nat /\ l <= MostRecords /\ DOMAIN heard = 1..l
        /\ \A j \in 1..l : heard[j] \in ScanRecords
    <3>1. PICK n \in Nat : found \in [1..n -> ScanRecords]
      BY DEF ListInv
    <3> QED
      BY <3>1, HeardRecords
  <2>3. Range(heard) = {heard[j] : j \in 1..l}
    BY <2>2 DEF Range
  <2>4. names = {heard[j].ssid : j \in 1..l} \ {Hidden}
    BY <2>3
  <2>5. \A ssid : Strongest(ssid) =
            {r \in {s \in {heard[j] : j \in 1..l} : s.ssid = ssid} :
                \A other \in {s \in {heard[j] : j \in 1..l} : s.ssid = ssid} : other.rssi <= r.rssi}
    BY <2>3 DEF Strongest
  <2> HIDE DEF heard, l, page, names
  <2>6. /\ m \in Nat /\ m <= l /\ networks \in [1..m -> ScanRecords]
        /\ \A i \in 1..m : networks[i].ssid # Hidden /\ \E j \in 1..l : heard[j] = networks[i]
        /\ \A i, k \in 1..m : networks[i].ssid = networks[k].ssid => i = k
        /\ \A j \in 1..l : heard[j].ssid # Hidden =>
              \E i \in 1..m : networks[i].ssid = heard[j].ssid /\ networks[i].rssi >= heard[j].rssi
    BY <2>1 DEF ListsFirst
  <2>7. /\ Len(ItemsOf(page)) = m /\ DOMAIN ItemsOf(page) = 1..m
        /\ \A k \in 1..m : Shows(page, k, networks[k])
    <3>1. m \in 0..MostRecords /\ networksReady \in BOOLEAN
      BY <2>2, <2>6, NetworkListAssumption DEF ListInv
    <3>2. page = PageOf(networks, networksReady)
      BY DEF page, NetworksPage
    <3> QED
      BY <2>6, <3>1, <3>2 DEF PagesReadBack
  <2>8. Cardinality(names) = m
    <3> DEFINE f == [i \in 1..m |-> networks[i].ssid]
    <3>0. PICK C : C = 1..m
      OBVIOUS
    <3>1. IsFiniteSet(C) /\ Cardinality(C) = m
      <4>1. 1 \in Int /\ m \in Int
        BY <2>6
      <4>2. IsFiniteSet(1..m) /\ Cardinality(1..m) = IF 1 > m THEN 0 ELSE m - 1 + 1
        BY <4>1, FS_Interval
      <4> QED
        BY <2>6, <3>0, <4>2
    <3>2. ASSUME NEW i \in 1..m PROVE networks[i].ssid \in names
      BY <2>4, <2>6
    <3>3. ASSUME NEW x \in names PROVE \E i \in 1..m : networks[i].ssid = x
      BY <2>4, <2>6
    <3>4. /\ f \in [C -> names] /\ (\A i, k \in C : f[i] = f[k] => i = k)
          /\ \A x \in names : \E i \in C : f[i] = x
      BY <2>6, <3>0, <3>2, <3>3
    <3> HIDE DEF f
    <3>5. f \in Bijection(C, names)
      BY <3>4 DEF Bijection, Injection, Surjection, IsInjective
    <3>6. ExistsBijection(C, names)
      BY <3>5 DEF ExistsBijection
    <3> QED
      BY <3>1, <3>6, FS_Bijection
  <2>9. ASSUME NEW ssid \in names
        PROVE  \E k \in DOMAIN ItemsOf(page), r \in Strongest(ssid) :
                 /\ Shows(page, k, r) /\ IsOpen(ssid) = ~r.locked
                 /\ \A other \in names, i \in DOMAIN ItemsOf(page) :
                       i < k /\ Text(page, i, "ssid") = Literal(other)
                          => \A s \in Strongest(other) : s.rssi >= r.rssi
    <3>1. PICK j \in 1..l : heard[j].ssid = ssid /\ ssid # Hidden
      BY <2>4
    <3>2. PICK k \in 1..m : networks[k].ssid = ssid
      BY <2>6, <3>1
    <3> DEFINE r == networks[k]
    <3>3. r \in Strongest(ssid)
      <4>1. \E i \in 1..l : heard[i] = r
        BY <2>6
      <4>2. ASSUME NEW i \in 1..l, heard[i].ssid = ssid
            PROVE  heard[i].rssi <= r.rssi
        <5>1. PICK c \in 1..m : networks[c].ssid = heard[i].ssid /\ networks[c].rssi >= heard[i].rssi
          BY <2>6, <3>1, <4>2
        <5>2. c = k
          BY <2>6, <3>2, <4>2, <5>1
        <5>3. r.rssi \in Int /\ heard[i].rssi \in Int
          BY <2>2, <2>6, NetworkListAssumption
        <5> QED
          BY <5>1, <5>2, <5>3
      <4> QED
        BY <2>5, <3>2, <4>1, <4>2
    <3>4. Shows(page, k, r)
      BY <2>7
    <3>5. IsOpen(ssid) = ~r.locked
      <4>1. {i \in DOMAIN networks : networks[i].ssid = ssid} = {k}
        BY <2>6, <3>2
      <4>2. Min({k}) = k
        <5>1. k \in Int
          OBVIOUS
        <5> QED
          BY <5>1 DEF Min
      <4> QED
        BY <4>1, <4>2 DEF IsOpen
    <3>6. ASSUME NEW other \in names, NEW i \in 1..m, i < k, Text(page, i, "ssid") = Literal(other),
                 NEW s \in Strongest(other)
          PROVE  s.rssi >= r.rssi
      <4>1. Literal(networks[i].ssid) = Literal(other)
        BY <2>7, <3>6 DEF Shows
      <4>2. networks[i].ssid = other
        <5>1. PICK c \in 1..l : heard[c].ssid = other
          BY <2>4
        <5>2. networks[i] \in ScanRecords /\ heard[c] \in ScanRecords
          BY <2>2, <2>6
        <5>3. \A a, b \in ScanRecords : Literal(a.ssid) = Literal(b.ssid) => a.ssid = b.ssid
          BY DEF PagesReadBack
        <5> QED
          BY <4>1, <5>1, <5>2, <5>3
      <4>3. networks[i].rssi >= r.rssi
        BY <2>1, <3>6 DEF Ordered
      <4>4. networks[i].rssi <= s.rssi
        <5>1. PICK c \in 1..l : heard[c] = networks[i]
          BY <2>6
        <5> QED
          BY <2>5, <4>2, <5>1
      <4>5. networks[i].rssi \in Int /\ r.rssi \in Int /\ s.rssi \in Int
        <5>1. s \in ScanRecords
          BY <2>2, <2>5
        <5> QED
          BY <2>6, <5>1, NetworkListAssumption
      <4> QED
        BY <4>3, <4>4, <4>5
    <3> HIDE DEF r
    <3> QED
      BY <2>7, <3>3, <3>4, <3>5, <3>6
  <2> QED
    BY <2>7, <2>8, <2>9 DEF PageListsTheStrongest, page, names, heard
<1>2. NetworkSpec => []ListInv
  BY ListInvInit, ListInvNext, PTL DEF NetworkSpec
<1>3. SUFFICES ASSUME PagesReadBack PROVE NetworkSpec => []PageListsTheStrongest
  OBVIOUS
<1>4. ListInv => PageListsTheStrongest
  BY <1>1, <1>3
<1> QED
  BY <1>2, <1>4, PTL
=============================================================================

------------------------------ MODULE StatsDays ------------------------------
(* The statistics of the day: the counters of the 500 ms loop, the documents *)
(* that StatsStore keeps of today and of the days before, the calendar that  *)
(* ends a day, changes of the timezone, backups, resets and restarts.        *)
EXTENDS Integers, Sequences, FiniteSets, SequencesExt, FiniteSetsExt, TLC

CONSTANTS
    StartDates, \* <<year, month, day>> at which observation may start
    MaxDays,    \* bound: days that pass
    MaxHits,    \* bound: entries into a zone that a day may count
    HeatCells,  \* cells of the heatmap
    ZoneCells,  \* those inside of a detection zone
    MaxHeat,    \* 65535
    MaxDaily,   \* MAX_DAILY_ENTRIES, 30
    Windows     \* days of the summaries: 3, 7, 15, 30

VARIABLES
    today,     \* the local date, by the clock
    clockSet,  \* SNTP has set the clock since the start
    daysPassed,
    dayKey,    \* stats_current_day_key, or NoDay
    hits,      \* the counters of the day
    inZone,    \* whether the target was in the zone at the last run
    store,     \* the documents of StatsStore
    heat,      \* today_heatmap_cells_
    saved,     \* the STATS payload, or NoDocument
    backup     \* a document that a dashboard has downloaded, or NoDocument

statsDayVars == <<today, clockSet, daysPassed, dayKey, hits, inZone, store, heat, saved,
                  backup>>

-----------------------------------------------------------------------------
(* Dates.  A day key is year * 10000 + month * 100 + day.                    *)

NoDay == 0
KeyOf(date) == date[1] * 10000 + date[2] * 100 + date[3]

\* Bug: January and February count to the year that begins with them.
SerialOfOwnYear(key) ==
    LET y == key \div 10000
        m == (key \div 100) % 100
        mm == IF m <= 2 THEN m + 12 ELSE m
    IN  IF key <= 0 THEN 0
        ELSE 365 * y + y \div 4 - y \div 100 + y \div 400
             + (153 * (mm - 3) + 2) \div 5 + (key % 100) - 1

\* day_serial_: consecutive dates have consecutive numbers.
DaySerial(key) ==
    LET y == key \div 10000
        m == (key \div 100) % 100
        yy == IF m <= 2 THEN y - 1 ELSE y
        mm == IF m <= 2 THEN m + 12 ELSE m
    IN  IF key <= 0 THEN 0
        ELSE 365 * yy + yy \div 4 - yy \div 100 + yy \div 400
             + (153 * (mm - 3) + 2) \div 5 + (key % 100) - 1

\* The calendar.
Leap(y) == y % 4 = 0 /\ (y % 100 # 0 \/ y % 400 = 0)
DaysIn(y, m) == CASE m = 2 -> IF Leap(y) THEN 29 ELSE 28
                  [] m \in {4, 6, 9, 11} -> 30
                  [] OTHER -> 31
NextDate(d) == IF d[3] < DaysIn(d[1], d[2]) THEN <<d[1], d[2], d[3] + 1>>
               ELSE IF d[2] < 12 THEN <<d[1], d[2] + 1, 1>> ELSE <<d[1] + 1, 1, 1>>
PreviousDate(d) == IF d[3] > 1 THEN <<d[1], d[2], d[3] - 1>>
                   ELSE IF d[2] > 1 THEN <<d[1], d[2] - 1, DaysIn(d[1], d[2] - 1)>>
                   ELSE <<d[1] - 1, 12, 31>>

IsDate(d) ==
    /\ d \in Int \X Int \X Int /\ d[1] >= 1 /\ d[2] \in 1..12
    /\ 1 <= d[3] /\ d[3] <= DaysIn(d[1], d[2])

\* No summary reaches back to the first years.
ASSUME StatsDayAssumption ==
    /\ MaxDays \in Nat /\ MaxDaily \in Nat /\ HeatCells \in Nat /\ Windows \subseteq Nat \ {0}
    /\ \A d \in StartDates : /\ IsDate(d) /\ d[1] > MaxDays
                             /\ \A w \in Windows : d[1] > MaxDays + w

-----------------------------------------------------------------------------
(* Order, the heatmap and its run-length encoding.                          *)

\* std::sort: the positions of some days, those of newer days first.
NewestFirst(days) ==
    CHOOSE f \in Bijection(1..Cardinality(DOMAIN days), DOMAIN days) :
        \A i, j \in DOMAIN f : i < j => days[f[i]] >= days[f[j]]

LastCell == HeatCells
NoHeat == [c \in 1..LastCell |-> 0]

\* record_heatmap_hit: the counter of a cell stays at its maximum.
Warmer(cells, visited) ==
    [c \in 1..LastCell |-> IF c \in visited /\ cells[c] < MaxHeat THEN cells[c] + 1 ELSE cells[c]]

\* compact_today_heatmap_rle_: a run ends where the next cell differs.
Encode(cells) ==
    LET ends == {c \in 1..LastCell : c = LastCell \/ cells[c] # cells[c + 1]}
        order == NewestFirst([c \in ends |-> -c])
    IN  [i \in 1..Cardinality(ends) |->
            [value |-> cells[order[i]],
             run |-> order[i] - (IF i = 1 THEN 0 ELSE order[i - 1])]]

\* decode_heatmap_rle_: what goes beyond the last cell is dropped, what is
\* missing is 0.
RunEnds(rle) ==
    LET end[i \in 0..Len(rle)] == IF i = 0 THEN 0 ELSE end[i - 1] + rle[i].run IN end
Covers(rle, i, c) == RunEnds(rle)[i - 1] < c /\ c <= RunEnds(rle)[i]
Decode(rle) ==
    [c \in 1..LastCell |->
        IF \E i \in 1..Len(rle) : Covers(rle, i, c)
        THEN rle[CHOOSE i \in 1..Len(rle) : Covers(rle, i, c)].value ELSE 0]

-----------------------------------------------------------------------------
(* StatsStore.                                                               *)

NoDocument == [none |-> TRUE]
Day(key, n) == [d |-> key, n |-> n]
EmptyStore == [today |-> NoDocument, daily |-> << >>, heatDaily |-> << >>]

\* trim_daily_, trim_heatmap_daily_: of the entries at some positions the newest
\* first, and the oldest dropped.
Trimmed(entries, positions) ==
    LET order == NewestFirst([i \in positions |-> entries[i].d])
    IN  [k \in 1..Min({MaxDaily, Cardinality(positions)}) |-> entries[order[k]]]

\* Bug: an entry of the same day is kept.
AddedTwice(entries, entry) == Trimmed(<<entry>> \o entries, 1..(Len(entries) + 1))

\* finish_day: the entry of a day takes the place of an older one.
Added(entries, entry) ==
    LET all == <<entry>> \o entries
    IN  Trimmed(all, {i \in DOMAIN all : i = 1 \/ all[i].d # entry.d})

\* What GET /api/stats and persist_ write.
DocumentOf(s, cells) == [today |-> IF s.today = NoDocument THEN Day(NoDay, 0) ELSE s.today,
                         daily |-> s.daily, heatDaily |-> s.heatDaily,
                         heatToday |-> Encode(cells)]

\* build_summary: today's document and the entries of other days in the window.
TotalOf(entries, positions) == FoldSet(LAMBDA i, sum : sum + entries[i].n, 0, positions)
Summary(s, days) ==
    IF s.today = NoDocument THEN 0
    ELSE LET last == DaySerial(s.today.d)
             InWindow(e) == /\ e.d # s.today.d
                            /\ DaySerial(e.d) >= last - days + 1 /\ DaySerial(e.d) <= last
         IN  IF last = 0 THEN 0
             ELSE s.today.n + TotalOf(s.daily, {i \in DOMAIN s.daily : InWindow(s.daily[i])})

\* persist_: the slot may be taken, or the flash may fail after the erase.
Persist(s, cells) == saved' \in {DocumentOf(s, cells), saved, NoDocument}

\* load: the payload that cannot be read leaves nothing.
Load(document) ==
    IF document = NoDocument THEN store' = EmptyStore /\ heat' = NoHeat
    ELSE /\ store' = [today |-> document.today,
                      daily |-> Trimmed(document.daily, DOMAIN document.daily),
                      heatDaily |-> Trimmed(document.heatDaily,
                                              DOMAIN document.heatDaily)]
         /\ heat' = Decode(document.heatToday)

-----------------------------------------------------------------------------
(* The 500 ms loop.                                                          *)

\* record_software_zone_transitions counts entries.
HitsWith(entered) == IF entered /\ ~inZone THEN hits + 1 ELSE hits

\* The runs of five seconds without a change of the day: the target is at a cell,
\* where it leaves a mark on the heatmap, or nowhere.
Watch(cells) ==
    LET entered == cells \intersect ZoneCells # {}
    IN  /\ HitsWith(entered) <= MaxHits
        /\ clockSet => dayKey \in {NoDay, KeyOf(today)}
        /\ hits' = HitsWith(entered) /\ inZone' = entered
        /\ heat' = Warmer(heat, cells)
        /\ IF clockSet
           THEN /\ dayKey' = KeyOf(today)
                /\ store' = [store EXCEPT !.today = Day(KeyOf(today), hits')]
           ELSE UNCHANGED <<dayKey, store>>
        /\ UNCHANGED <<today, clockSet, daysPassed, saved, backup>>

\* The run that finds another day.
Finished(s, n, cells) ==
    [s EXCEPT !.daily = Added(s.daily, Day(dayKey, n)),
              !.heatDaily = Added(s.heatDaily, [d |-> dayKey, cells |-> Encode(cells)])]

\* Bug: the counters are reset before they are written down.
ResetThenFinish ==
    /\ clockSet /\ dayKey \notin {NoDay, KeyOf(today)}
    /\ store' = [Finished(store, 0, heat) EXCEPT !.today = Day(KeyOf(today), 0)]
    /\ heat' = NoHeat /\ hits' = 0 /\ inZone' = FALSE /\ dayKey' = KeyOf(today)
    /\ Persist(store', heat')
    /\ UNCHANGED <<today, clockSet, daysPassed, backup>>

FinishDay ==
    /\ clockSet /\ dayKey \notin {NoDay, KeyOf(today)}
    /\ store' = [Finished(store, hits, heat) EXCEPT !.today = Day(KeyOf(today), 0)]
    /\ heat' = NoHeat /\ hits' = 0 /\ inZone' = FALSE /\ dayKey' = KeyOf(today)
    /\ Persist(store', heat')
    /\ UNCHANGED <<today, clockSet, daysPassed, backup>>

\* A change of the timezone restarts the day in the new zone.
ChangeTimezone ==
    /\ today' \in {PreviousDate(today), today, NextDate(today)}
    /\ dayKey' = IF clockSet THEN KeyOf(today') ELSE NoDay
    /\ store' = [store EXCEPT !.today = Day(dayKey', 0)]
    /\ heat' = NoHeat /\ hits' = 0 /\ inZone' = FALSE
    /\ Persist(store', heat')
    /\ daysPassed < MaxDays /\ daysPassed' = daysPassed + 1
    /\ UNCHANGED <<clockSet, backup>>

-----------------------------------------------------------------------------
(* Time, the dashboards, restarts.                                           *)

Midnight ==
    /\ daysPassed < MaxDays
    /\ today' = NextDate(today) /\ daysPassed' = daysPassed + 1
    /\ UNCHANGED <<clockSet, dayKey, hits, inZone, store, heat, saved, backup>>

SetClock ==
    /\ ~clockSet /\ clockSet' = TRUE
    /\ UNCHANGED <<today, daysPassed, dayKey, hits, inZone, store, heat, saved, backup>>

\* GET /api/stats for a backup, of which there is one (bound), when it has
\* something to keep, and its upload afterwards.
Download ==
    /\ backup = NoDocument /\ store.daily # << >>
    /\ backup' = DocumentOf(store, heat)
    /\ UNCHANGED <<today, clockSet, daysPassed, dayKey, hits, inZone, store, heat, saved>>

Restore ==
    /\ backup # NoDocument
    /\ saved' = backup /\ Load(backup)
    /\ UNCHANGED <<today, clockSet, daysPassed, dayKey, hits, inZone, backup>>

\* POST /api/system/reset with statistics: the counters go on until the restart.
ResetStats ==
    /\ saved' = NoDocument
    /\ store' = EmptyStore /\ heat' = NoHeat
    /\ UNCHANGED <<today, clockSet, daysPassed, dayKey, hits, inZone, backup>>

RestartStats ==
    /\ Load(saved)
    /\ clockSet' = FALSE /\ dayKey' = NoDay /\ hits' = 0 /\ inZone' = FALSE
    /\ UNCHANGED <<today, daysPassed, saved, backup>>

StatsDayInit ==
    /\ today \in StartDates /\ clockSet = FALSE /\ daysPassed = 0 /\ dayKey = NoDay
    /\ hits = 0 /\ inZone = FALSE /\ store = EmptyStore /\ heat = NoHeat
    /\ saved = NoDocument /\ backup = NoDocument

StatsDayNext ==
    \/ \E cells \in SUBSET (1..LastCell) : Cardinality(cells) <= 1 /\ Watch(cells)
    \/ FinishDay \/ ChangeTimezone \/ Midnight \/ SetClock
    \/ Download \/ Restore \/ ResetStats \/ RestartStats

StatsDaySpec == StatsDayInit /\ [][StatsDayNext]_statsDayVars

-----------------------------------------------------------------------------
(* Properties.                                                               *)

StatsDayTypeOK ==
    /\ clockSet \in BOOLEAN /\ hits \in 0..MaxHits /\ inZone \in BOOLEAN
    /\ heat \in [1..LastCell -> 0..MaxHeat]
    /\ Len(store.daily) <= MaxDaily /\ Len(store.heatDaily) <= MaxDaily
    /\ saved # NoDocument => Len(saved.daily) <= MaxDaily

DaysOf(entries) == [i \in DOMAIN entries |-> entries[i].d]

\* Whatever the clock, the timezone, restarts and backups do, a day has one
\* entry, the newest come first, and each has its heatmap.
EveryDayOnce ==
    /\ \A i, j \in DOMAIN store.daily : i < j => store.daily[i].d > store.daily[j].d
    /\ DaysOf(store.daily) = DaysOf(store.heatDaily)

\* The summary of the last days adds up exactly the entries whose dates lie
\* that few days back in the calendar, over ends of months and leap days too.
DateOf(key) == <<key \div 10000, (key \div 100) % 100, key % 100>>
CalendarWindow(date, days) ==
    LET back[n \in 0..(days - 1)] == IF n = 0 THEN date ELSE PreviousDate(back[n - 1])
    IN  {KeyOf(back[n]) : n \in 0..(days - 1)}
SummaryIsTheCalendarWindow ==
    store.today # NoDocument /\ store.today.d # NoDay =>
        \A days \in Windows :
            LET window == CalendarWindow(DateOf(store.today.d), days) \ {store.today.d}
            IN  Summary(store, days) =
                    store.today.n + TotalOf(store.daily,
                                        {i \in DOMAIN store.daily : store.daily[i].d \in window})

\* A day that ends is written down as it was counted, with the heatmap that a
\* reader of its encoding finds, unless there are enough newer days.
FinishedDayIsKept ==
    [][dayKey # NoDay /\ dayKey' \notin {dayKey, NoDay} /\ daysPassed' = daysPassed =>
         \/ \E i \in DOMAIN store'.daily :
                /\ store'.daily[i] = Day(dayKey, hits)
                /\ store'.heatDaily[i].d = dayKey /\ Decode(store'.heatDaily[i].cells) = heat
         \/ Cardinality({i \in DOMAIN store'.daily : store'.daily[i].d > dayKey}) = MaxDaily]_statsDayVars

\* interval-500ms.yaml on changes of the timezone: "Completed daily history is
\* preserved."
CompletedHistoryIsPreserved ==
    [][dayKey' \notin {dayKey, NoDay} =>
         \A i \in DOMAIN store.daily, j \in DOMAIN store'.daily :
             store'.daily[j].d = store.daily[i].d => store'.daily[j].n >= store.daily[i].n]_statsDayVars
=============================================================================

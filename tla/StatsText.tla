------------------------------ MODULE StatsText ------------------------------
(* The statistics as stored text: uploaded by a dashboard from a backup, and *)
(* read back by StatsStore.                                                  *)
EXTENDS JsonText

CONSTANTS MaxStatsEntries,  \* MAX_STATS_DAILY_ENTRIES, 30
          StatsEntries,     \* entries of the daily lists
          HeatTexts         \* encoded heatmaps

VARIABLES statsText, \* the STATS payload
          statsParts \* what was uploaded, and what StatsStore made of it

statsTextVars == <<statsText, statsParts>>

\* The statistics of a backup, with members that StatsStore does not know.
StatsDocument(s) ==
    Object(<<<<"version", Word("1")>>, <<"today", s.today>>, <<"daily", Array(s.daily)>>,
             <<"summary", Object(<<<<"today", Word("1")>>>>)>>,
             <<"heatmap", Object(<<<<"cols", Word("1")>>, <<"today", Literal(s.heatToday)>>,
                                   <<"daily", Array(s.heatDaily)>>>>)>>>>)

UploadStats(s) ==
    /\ statsText' = StatsDocument(s)
    /\ statsParts' = [of |-> s, parts |-> ParsedStats(statsText', MaxStatsEntries)]

NoStats == [none |-> TRUE]
StatsTextInit == statsText = << >> /\ statsParts = NoStats

StatsTextNext ==
    \E today \in StatsEntries, e \in StatsEntries, n \in 0..2, m \in 0..2, heat \in HeatTexts :
       UploadStats([today |-> today, daily |-> [i \in 1..n |-> e], heatToday |-> heat,
                    heatDaily |-> [i \in 1..m |-> e]])

StatsTextSpec == StatsTextInit /\ [][StatsTextNext]_statsTextVars

-----------------------------------------------------------------------------
(* Property.                                                                 *)

\* StatsStore finds in a statistics document what its writer put there: the
\* parts of the top level and of the heatmap are not mixed up, and a list keeps
\* its first entries.
StatsAreReadBack ==
    statsParts # NoStats =>
        LET s == statsParts.of
            Kept(list) == [i \in 1..(IF Len(list) < MaxStatsEntries THEN Len(list)
                                     ELSE MaxStatsEntries) |-> list[i]]
        IN  statsParts.parts = [today |-> s.today, daily |-> Kept(s.daily),
                                heatToday |-> s.heatToday, heatDaily |-> Kept(s.heatDaily)]
=============================================================================

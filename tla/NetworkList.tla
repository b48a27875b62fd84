------------------------------ MODULE NetworkList ------------------------------
(* The networks that a scan of the setup has found: from the records of the  *)
(* driver to the list that the setup page shows and chooses from.            *)
EXTENDS JsonText, Integers, TLC

CONSTANTS
    ScanRecords,   \* what an access point may look like: ssid, rssi, locked
    MostRecords,   \* records that are read, 40
    MaxScan        \* bound: access points that are heard

ASSUME NetworkListAssumption ==
    /\ MostRecords \in Nat /\ MaxScan \in Nat /\ \A r \in ScanRecords : r.rssi \in Int

VARIABLES
    networks,      \* setup_network_cache
    networksReady, \* setup_network_cache_ready
    found          \* (history variable) the records of the last scan

networkVars == <<networks, networksReady, found>>

Hidden == << >>

\* Bug: the record that was heard last stands for the network.
KeepLast(list, r) ==
    LET at == {i \in DOMAIN list : list[i].ssid = r.ssid}
    IN  IF at = {} THEN Append(list, r)
        ELSE [i \in DOMAIN list |-> IF i \in at THEN r ELSE list[i]]

\* replace_or_update_network_
Updated(list, r) ==
    LET at == {i \in DOMAIN list : list[i].ssid = r.ssid}
    IN  IF at = {} THEN Append(list, r)
        ELSE [i \in DOMAIN list |-> IF i \in at /\ r.rssi > list[i].rssi THEN r ELSE list[i]]

Heard(records) ==
    SubSeq(records, 1, IF Len(records) > MostRecords THEN MostRecords ELSE Len(records))
ListOf(records) ==
    LET heard == Heard(records)
        list[n \in 0..Len(heard)] ==
            IF n = 0 THEN << >>
            ELSE IF heard[n].ssid = Hidden THEN list[n - 1] ELSE Updated(list[n - 1], heard[n])
    IN  list[Len(heard)]

\* sort_networks_: which of two equals comes first is open.
Sorted(list) ==
    {p \in SetToSeqs(Range(list)) : \A i, j \in DOMAIN p : i < j => p[i].rssi >= p[j].rssi}

\* cached_network_is_open_: such a network is refused.
IsOpen(ssid) ==
    LET at == {i \in DOMAIN networks : networks[i].ssid = ssid}
    IN  at # {} /\ ~networks[Min(at)].locked

\* GET /api/setup/networks
PageOf(list, ready) ==
    <<"{">> \o Key("ok") \o <<":", "true", ",">>
    \o Key("cacheReady") \o <<":", IF ready THEN "true" ELSE "false", ",">>
    \o Key("networks") \o <<":", "[">>
    \o FlattenSeq([i \in DOMAIN list |->
           (IF i = 1 THEN << >> ELSE <<",">>)
           \o <<"{">> \o Key("ssid") \o <<":">> \o Literal(list[i].ssid) \o <<",">>
           \o Key("rssi") \o <<":", ToString(list[i].rssi), ",">>
           \o Key("locked") \o <<":", IF list[i].locked THEN "true" ELSE "false", "}">>])
    \o <<"]", "}">>
NetworksPage == PageOf(networks, networksReady)

\* What a reader of a page finds.
ItemsOf(page) == Items(page, Member(page, 1, "networks"))
ValueIn(item, key) == Cut(item, Member(item, 1, key))
Text(page, k, key) == ValueIn(Cut(page, ItemsOf(page)[k]), key)
Shows(page, k, r) ==
    /\ Text(page, k, "ssid") = Literal(r.ssid)
    /\ Text(page, k, "rssi") = <<ToString(r.rssi)>>
    /\ Text(page, k, "locked") = <<IF r.locked THEN "true" ELSE "false">>

\* Pages show what they were made of, whatever the networks are called.
PagesReadBack ==
    /\ \A n \in 0..MostRecords : \A list \in [1..n -> ScanRecords], ready \in BOOLEAN :
          LET page == PageOf(list, ready)
          IN  /\ Len(ItemsOf(page)) = n /\ DOMAIN ItemsOf(page) = 1..n
              /\ \A k \in 1..n : Shows(page, k, list[k])
    /\ \A r, s \in ScanRecords : Literal(r.ssid) = Literal(s.ssid) => r.ssid = s.ssid

\* A scan starts, and its end: the driver may fail to give its records.
StartList == networksReady /\ networksReady' = FALSE /\ UNCHANGED <<networks, found>>

FinishList(records) ==
    /\ networks' \in Sorted(ListOf(records)) /\ networksReady' = TRUE
    /\ found' = records

NetworkInit == networks = << >> /\ networksReady = FALSE /\ found = << >>

\* The next scan is one after a scan that found nothing (bound).
NetworkNext ==
    \/ StartList
    \/ /\ found = << >>
       /\ \E n \in 0..MaxScan : \E records \in [1..n -> ScanRecords] : FinishList(records)

NetworkSpec == NetworkInit /\ [][NetworkNext]_networkVars

-----------------------------------------------------------------------------
(* Properties.                                                               *)

\* The page of the setup, whatever the networks are called, lists each network
\* that was read once, the strongest first, as the strongest access point of
\* that name presents itself, and no other; one is refused as open when that
\* access point is.
Strongest(ssid) ==
    LET heard == {r \in Range(Heard(found)) : r.ssid = ssid}
    IN  {r \in heard : \A other \in heard : other.rssi <= r.rssi}
PageListsTheStrongest ==
    LET page == NetworksPage
        names == {r.ssid : r \in Range(Heard(found))} \ {Hidden}
    IN  /\ Len(ItemsOf(page)) = Cardinality(names)
        /\ \A ssid \in names :
              \E k \in DOMAIN ItemsOf(page), r \in Strongest(ssid) :
                 /\ Shows(page, k, r) /\ IsOpen(ssid) = ~r.locked
                 /\ \A other \in names, l \in DOMAIN ItemsOf(page) :
                       l < k /\ Text(page, l, "ssid") = Literal(other)
                          => \A s \in Strongest(other) : s.rssi >= r.rssi
=============================================================================

------------------------------- MODULE JsonText -------------------------------
(* JSON as the firmware handles it: not as a tree but as text, searched and  *)
(* cut by small scanners.  A text is a sequence of tokens; a word or a       *)
(* number is one token, white space is left out.  Literal, Array and Object  *)
(* are the texts that a JSON library writes; the scanners are the code's.    *)
EXTENDS Naturals, Sequences, FiniteSets, SequencesExt, FiniteSetsExt

Quote == "quote"
Escape == "\\"

\* json_string_literal
Literal(chars) ==
    <<Quote>> \o FoldLeft(LAMBDA t, c : t \o (IF c \in {Quote, Escape} THEN <<Escape, c>>
                                              ELSE <<c>>), << >>, chars) \o <<Quote>>

Word(w) == <<w>>
Joined(texts) ==
    FlattenSeq([i \in DOMAIN texts |-> (IF i = 1 THEN << >> ELSE <<",">>) \o texts[i]])
Array(items) == <<"[">> \o Joined(items) \o <<"]">>
\* The members are pairs of a key and a text.
Object(members) ==
    <<"{">> \o Joined([i \in DOMAIN members |->
                          Literal(<<members[i][1]>>) \o <<":">> \o members[i][2]]) \o <<"}">>

-----------------------------------------------------------------------------
(* Scanners.  Positions are those of tokens; 0 means that nothing was found. *)

First(positions) == IF positions = {} THEN 0 ELSE Min(positions)

\* A range of positions, and what it holds.
NoRange == <<0, 0>>
Cut(text, range) == IF range = NoRange THEN << >> ELSE SubSeq(text, range[1], range[2])

\* A string ends at the first quote that is not escaped.
StringEnd(text, start) ==
    LET quote[at \in Nat, escaped \in BOOLEAN] ==
            IF at > Len(text) THEN 0
            ELSE IF escaped THEN quote[at + 1, FALSE]
            ELSE IF text[at] = Quote THEN at
            ELSE quote[at + 1, text[at] = Escape]
    IN  quote[start + 1, FALSE]

\* The position after one that may be missing, and after a comma there.
After(at) == IF at = 0 THEN 0 ELSE at + 1
AfterComma(text, end) ==
    IF end < Len(text) /\ text[end + 1] = "," THEN end + 2 ELSE end + 1

\* An object or an array ends at the bracket that takes its depth to 0; its
\* strings are passed over.
CompoundEnd(text, start, open, close) ==
    LET end[at \in Nat, depth \in Nat] ==
            IF at = 0 \/ at > Len(text) THEN 0
            ELSE IF text[at] = Quote THEN end[After(StringEnd(text, at)), depth]
            ELSE IF text[at] = close THEN IF depth = 1 THEN at ELSE end[at + 1, depth - 1]
            ELSE end[at + 1, IF text[at] = open THEN depth + 1 ELSE depth]
    IN  end[start, 0]

\* find_json_value_end
ValueEnd(text, start) ==
    IF start > Len(text) THEN 0
    ELSE CASE text[start] = Quote -> StringEnd(text, start)
           [] text[start] \in {"{", "["} ->
                 CompoundEnd(text, start, text[start], IF text[start] = "{" THEN "}" ELSE "]")
           [] OTHER -> Min({i - 1 : i \in {k \in start..Len(text) : text[k] \in {",", "}", "]"}}}
                           \union {Len(text)})

\* The members of an object from a position on: keys and ranges of values.
MemberBetween(text, pos, keyEnd, end) ==
    [key |-> SubSeq(text, pos + 1, keyEnd - 1), value |-> <<keyEnd + 2, end>>]
MembersFrom(text, start) ==
    LET members[pos \in Nat] ==
            LET keyEnd == StringEnd(text, pos)
                end == ValueEnd(text, keyEnd + 2)
            IN  IF \/ pos > Len(text) \/ text[pos] # Quote
                   \/ keyEnd = 0 \/ end = 0 \/ text[keyEnd + 1] # ":" THEN << >>
                ELSE <<MemberBetween(text, pos, keyEnd, end)>> \o members[AfterComma(text, end)]
    IN  members[start]

\* find_json_member_value_range: the first member with the key.
FirstOf(members, key) ==
    LET with == {i \in DOMAIN members : members[i].key = <<key>>}
    IN  IF with = {} THEN NoRange ELSE members[Min(with)].value
Member(text, start, key) ==
    FirstOf(IF text[start] = "{" THEN MembersFrom(text, start + 1) ELSE << >>, key)

\* The ranges of the items of an array from a position on.
ItemsFrom(text, start) ==
    LET items[pos \in Nat] ==
            IF pos > Len(text) \/ text[pos] = "]" THEN << >>
            ELSE LET end == ValueEnd(text, pos)
                 IN  IF end = 0 THEN << >>
                     ELSE <<<<pos, end>>>> \o items[AfterComma(text, end)]
    IN  items[start]

Items(text, range) == IF range = NoRange \/ text[range[1]] # "[" THEN << >>
                      ELSE ItemsFrom(SubSeq(text, 1, range[2]), range[1] + 1)

Replaced(text, range, by) ==
    SubSeq(text, 1, range[1] - 1) \o by \o SubSeq(text, range[2] + 1, Len(text))

-----------------------------------------------------------------------------
(* The searches of DeviceConfigCache: for a piece of text, wherever it is.   *)

Find(text, piece, from) ==
    First({i \in from..(Len(text) - Len(piece) + 1) :
              SubSeq(text, i, i + Len(piece) - 1) = piece})
Key(word) == <<Quote, word, Quote>>

\* extract_object_by_id_: back to the brace before it, and on to its partner.
ObjectById(text, id) ==
    LET at == Find(text, Key("id") \o <<":">> \o Key(id), 1)
        braces == {i \in 1..at : text[i] = "{"}
    IN  IF at = 0 \/ braces = {} THEN << >>
        ELSE Cut(text, <<Max(braces), CompoundEnd(text, Max(braces), "{", "}")>>)

\* After a key and its colon, the first token of a kind.
AfterKey(text, key, token) ==
    LET at == Find(text, Key(key), 1)
        colon == IF at = 0 THEN 0 ELSE Find(text, <<":">>, at + 3)
    IN  IF colon = 0 THEN 0 ELSE Find(text, <<token>>, colon + 1)

\* extract_object_by_key_
ObjectByKey(text, key) ==
    LET start == AfterKey(text, key, "{")
    IN  IF start = 0 THEN << >> ELSE Cut(text, <<start, CompoundEnd(text, start, "{", "}")>>)

\* extract_string_: what is escaped stays escaped.
StringByKey(text, key) ==
    LET start == AfterKey(text, key, Quote)
    IN  IF start = 0 THEN << >>
        ELSE SubSeq(text, start + 1, StringEnd(text, start) - 1)

\* extract_bool_
BoolByKey(text, key, fallback) ==
    LET at == Find(text, Key(key), 1)
        value == IF at = 0 THEN 0 ELSE Find(text, <<":">>, at + 3)
    IN  IF value = 0 \/ value = Len(text) THEN fallback
        ELSE CASE text[value + 1] = "true" -> TRUE
               [] text[value + 1] = "false" -> FALSE
               [] OTHER -> fallback

\* extract_boundary_points_: pairs of numbers up to "]]", so many at most.
Points(text, key, most, Numbers) ==
    LET at == Find(text, Key(key), 1)
        from == IF at = 0 THEN 0 ELSE Find(text, <<"[">>, at)
        to == IF from = 0 THEN 0 ELSE Find(text, <<"]", "]">>, from)
        numbers == SelectSeq(SubSeq(text, from, IF to = 0 THEN Len(text) ELSE to),
                             LAMBDA c : c \in Numbers)
        pairs == Len(numbers) \div 2
    IN  IF from = 0 THEN << >>
        ELSE [i \in 1..(IF pairs < most THEN pairs ELSE most) |->
                 <<numbers[2 * i - 1], numbers[2 * i]>>]

-----------------------------------------------------------------------------
(* StatsStore reads its payload once, from the front.                        *)

LastOf(members, key) ==
    LET with == {i \in DOMAIN members : members[i].key = <<key>>}
    IN  IF with = {} THEN NoRange ELSE members[Max(with)].value
LastMember(text, range, key) ==
    LastOf(IF range = NoRange THEN << >> ELSE MembersFrom(text, range[1] + 1), key)

\* read_json_object_array keeps the objects, so many at most.
CutAll(text, ranges, most) ==
    [i \in 1..(IF Len(ranges) < most THEN Len(ranges) ELSE most) |-> Cut(text, ranges[i])]
ObjectArray(text, range, most) ==
    CutAll(text, SelectSeq(Items(text, range), LAMBDA r : text[r[1]] = "{"), most)

\* Bug: every escape is dropped, escaped ones too.
WithoutEscapes(literal) ==
    SelectSeq(SubSeq(literal, 2, Len(literal) - 1), LAMBDA c : c # Escape)

\* read_json_string drops the escapes.
Unescaped(literal) ==
    FoldLeft(LAMBDA s, c : IF ~s.escaped /\ c = Escape THEN [s EXCEPT !.escaped = TRUE]
                           ELSE [escaped |-> FALSE, out |-> Append(s.out, c)],
             [escaped |-> FALSE, out |-> << >>], SubSeq(literal, 2, Len(literal) - 1)).out

\* parse_stats_document, parse_heatmap_object
ParsedStats(text, most) ==
    LET whole == <<1, Len(text)>>
        heatmap == LastMember(text, whole, "heatmap")
    IN  [today |-> Cut(text, LastMember(text, whole, "today")),
         daily |-> ObjectArray(text, LastMember(text, whole, "daily"), most),
         heatToday |-> Unescaped(Cut(text, LastMember(text, heatmap, "today"))),
         heatDaily |-> ObjectArray(text, LastMember(text, heatmap, "daily"), most)]
=============================================================================

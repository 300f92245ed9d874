-------------------------------- MODULE Jsonl -------------------------------
(***************************************************************************)
(* The parser of the decoded bus (src/jsonl.c): one line of the analyzer,  *)
(* one JSON object, read from left to right without building a tree.  It   *)
(* is tolerant: a line that just stops is read as far as it goes, and only *)
(* a torn string, a missing colon or an unfinished value that has to be    *)
(* skipped refuse the whole line.                                          *)
(*                                                                         *)
(* A text is a sequence of symbols: the punctuation of JSON, digits, and   *)
(* words, which stand for the rest of the characters (the inside of a      *)
(* string, null).  A place in a text is a position, Null the NULL pointer. *)
(* White space, escapes, signs, decimals and the sizes of the buffers of   *)
(* keys and values are left out.                                           *)
(***************************************************************************)
EXTENDS Naturals, Sequences, SequencesExt

CONSTANTS
    MaxFields,     \* JSONL_MAX_FIELDS
    MaxList,       \* JSONL_MAX_LIST
    MaxItem        \* JSONL_LIST_FIELDS

Quote == "\""
Digits == <<"0", "1", "2", "3", "4", "5", "6", "7", "8", "9">>
Separators == {",", "}", "]"}

Value(c) == SelectInSeq(Digits, LAMBDA d : d = c) - 1

Null == 0
EndOfText == "end of text"

At(s, i) == IF i <= Len(s) THEN s[i] ELSE EndOfText

-----------------------------------------------------------------------------
(* What stands at a place, and the place behind it.                        *)

(* strtol, strtod: the digits that stand there, 0 when there are none.     *)
NumberAt(s, i) ==
    LET stop == SelectInSubSeq(s, i, Len(s), LAMBDA c : ~ Contains(Digits, c))
        run  == SubSeq(s, i, IF stop = 0 THEN Len(s) ELSE stop - 1)
    IN FoldLeft(LAMBDA n, c : (10 * n) + Value(c), 0, run)

(* The closing quotation mark, if the string is not torn.                  *)
Closing(s, i) ==
    IF At(s, i) = Quote THEN SelectInSubSeq(s, i + 1, Len(s), LAMBDA c : c = Quote)
    ELSE Null

StringAt(s, i) == SubSeq(s, i + 1, Closing(s, i) - 1)

BehindString(s, i) == IF Closing(s, i) = Null THEN Null ELSE Closing(s, i) + 1

M_BehindNested(s, i, close) ==
    LET depth[j \in i..Len(s)] ==
            IF j = i THEN 1
            ELSE CASE s[j] = s[i]  -> depth[j - 1] + 1
                   [] s[j] = close -> depth[j - 1] - 1
                   [] OTHER        -> depth[j - 1]
        ends == {j \in i..Len(s) : depth[j] = 0}
    IN IF ends = {} THEN Null ELSE Min(ends) + 1

(* Nested brackets of the kind that opens, those inside strings excepted.  *)
BehindNested(s, i, close) ==
    LET depth[j \in i..Len(s)] ==
            IF j = i THEN [in |-> FALSE, d |-> 1]
            ELSE LET b == depth[j - 1] IN
                 CASE s[j] = Quote              -> [b EXCEPT !.in = ~ @]
                   [] ~ b.in /\ s[j] = s[i]     -> [b EXCEPT !.d = @ + 1]
                   [] ~ b.in /\ s[j] = close    -> [b EXCEPT !.d = @ - 1]
                   [] OTHER                     -> b
        ends == {j \in i..Len(s) : depth[j].d = 0}
    IN IF ends = {} THEN Null ELSE Min(ends) + 1

ScalarEnd(s, i) ==
    LET stop == SelectInSubSeq(s, i, Len(s), LAMBDA c : c \in Separators)
    IN IF stop = 0 THEN Len(s) + 1 ELSE stop

BehindValue(s, i) ==
    CASE At(s, i) = Quote -> BehindString(s, i)
      [] At(s, i) = "{"   -> BehindNested(s, i, "}")
      [] At(s, i) = "["   -> BehindNested(s, i, "]")
      [] OTHER            -> ScalarEnd(s, i)

-----------------------------------------------------------------------------
(* The loops of the parser pass over what they do not know with skip_value,*)
(* which does not move when it stands on a separator that they do not      *)
(* expect either: they then go round for ever.                             *)
Forever(s) == Len(s) + 2

Skipped(s, j) ==
    IF BehindValue(s, j) = j THEN Forever(s) ELSE BehindValue(s, j)

(* The key that is written at place j, and where its value would be.       *)
KeyAt(s, j) == StringAt(s, j)
ValueOf(s, j) == BehindString(s, j) + 1

(* The loop that reads "key": value, key by key, from place i on: the keys *)
(* with the places of their values, and the place behind the brace, Null   *)
(* if the text is refused.  For a key at j, behind[j] is the place behind  *)
(* its value.  A text that ends inside the loop has all the keys it needs. *)
Members(s, i, behind) ==
    LET from[j \in 0..Forever(s)] ==
            CASE j \in {Null, Len(s) + 1, Forever(s)} -> [next |-> j, keys |-> <<>>]
              [] s[j] = "}"       -> [next |-> j + 1, keys |-> <<>>]
              [] s[j] = ","       -> from[j + 1]
              [] s[j] = Quote     ->
                   LET colon == BehindString(s, j)
                   IN IF colon = Null \/ At(s, colon) # ":" THEN from[Null]
                      ELSE LET rest == from[behind[j]]
                           IN [rest EXCEPT !.keys = <<[key |-> KeyAt(s, j), at |-> colon + 1]>> \o @]
              [] OTHER            -> from[Skipped(s, j)]
    IN from[i]

(* {"value":N,"name":"S"}: the name must be a string, the value may be.    *)
NameValue(s, i) ==
    Members(s, i + 1,
        [j \in DOMAIN s |-> IF KeyAt(s, j) = <<"name">> THEN BehindString(s, ValueOf(s, j))
                            ELSE BehindValue(s, ValueOf(s, j))])

BehindField(s, i) ==
    CASE At(s, i) = "{" -> NameValue(s, i).next
      [] OTHER          -> BehindValue(s, i)

Unread == [type |-> "null", num |-> 0, str |-> <<>>]

(* parse_field_value of the object {"value":..,"name":..}.                 *)
NamedField(s, i) ==
    LET Read(f, k) ==
            CASE k.key = <<"value">> /\ At(s, k.at) = Quote ->
                   [type |-> "named", num |-> NumberAt(s, k.at + 1), str |-> StringAt(s, k.at)]
              [] k.key = <<"value">> ->
                   [f EXCEPT !.type = "named", !.num = NumberAt(s, k.at)]
              [] k.key = <<"name">>  ->
                   [f EXCEPT !.type = "named", !.str = StringAt(s, k.at)]
              [] OTHER -> f
    IN FoldLeft(Read, Unread, NameValue(s, i).keys)

FieldAt(s, i) ==
    CASE At(s, i) = Quote -> [Unread EXCEPT !.type = "str", !.str = StringAt(s, i)]
      [] At(s, i) = "{"   -> NamedField(s, i)
      [] Contains(Digits, At(s, i)) ->
             [type |-> "num", num |-> NumberAt(s, i), str |-> SubSeq(s, i, ScalarEnd(s, i) - 1)]
      [] OTHER -> Unread

FirstOf(seq, max) == SubSeq(seq, 1, Min({Len(seq), max}))

Fields(s, keys, max) ==
    LET kept == FirstOf(keys, max)
    IN [k \in DOMAIN kept |-> [key |-> kept[k].key, val |-> FieldAt(s, kept[k].at)]]

-----------------------------------------------------------------------------
(* The list of a message with repeated fields (the satellites of 129540).  *)

Item(s, i) == Members(s, i + 1, [j \in DOMAIN s |-> BehindField(s, ValueOf(s, j))])

(* The places of the items that are read, and the place behind the list.   *)
Items(s, i) ==
    LET from[j \in 0..Forever(s), n \in 0..MaxList] ==
            CASE j \in {Null, Len(s) + 1, Forever(s)} -> [next |-> j, at |-> <<>>]
              [] s[j] = "]"     -> [next |-> j + 1, at |-> <<>>]
              [] s[j] = ","     -> from[j + 1, n]
              [] s[j] = "{" /\ n < MaxList ->
                   LET rest == from[Item(s, j).next, n + 1]
                   IN [rest EXCEPT !.at = <<j>> \o @]
              [] OTHER          -> from[Skipped(s, j), n]
    IN from[i + 1, 0]

IsList(s, k, v) == k = <<"list">> /\ At(s, v) = "["

FieldMembers(s, i) ==
    Members(s, i + 1,
        [j \in DOMAIN s |-> IF IsList(s, KeyAt(s, j), ValueOf(s, j)) THEN Items(s, ValueOf(s, j)).next
                            ELSE BehindField(s, ValueOf(s, j))])

-----------------------------------------------------------------------------
Refused == [ok |-> "no"]
Hangs == [ok |-> "never"]

TopMembers(s) ==
    Members(s, 2,
        [j \in DOMAIN s |->
            LET v == ValueOf(s, j)
            IN CASE KeyAt(s, j) \in {<<"timestamp">>, <<"description">>} -> BehindString(s, v)
                 [] KeyAt(s, j) = <<"fields">> ->
                        IF At(s, v) = "{" THEN FieldMembers(s, v).next ELSE Null
                 [] OTHER -> BehindValue(s, v)])

OfKey(keys, k) == SelectSeq(keys, LAMBDA m : m.key = k)

(* A number at the top: the last one of that key counts.                   *)
NumberIn(s, ms) ==
    IF ms = <<>> THEN [has |-> FALSE, num |-> 0] ELSE [has |-> TRUE, num |-> NumberAt(s, Last(ms).at)]

(* The fields and the items, those of all "fields" and of all lists.       *)
KeysOfFields(s, ms) == FlattenSeq([k \in DOMAIN ms |-> FieldMembers(s, ms[k].at).keys])

ItemsAt(s, items) == [k \in DOMAIN items |-> Fields(s, Item(s, items[k]).keys, MaxItem)]

ItemsOf(s, ms) ==
    ItemsAt(s, FirstOf(FlattenSeq([k \in DOMAIN ms |-> Items(s, ms[k].at).at]), MaxList))

(* What a line says that has the keys of top, and those of keys in its     *)
(* fields: the source and the PGN (-1 when it has none), the fields and    *)
(* the items of the list.                                                  *)
Said(s, top, keys) ==
    [ok     |-> "yes",
     pgn    |-> NumberIn(s, OfKey(top, <<"pgn">>)),
     src    |-> NumberIn(s, OfKey(top, <<"src">>)),
     fields |-> Fields(s, SelectSeq(keys, LAMBDA m : ~ IsList(s, m.key, m.at)), MaxFields),
     list   |-> ItemsOf(s, SelectSeq(keys, LAMBDA m : IsList(s, m.key, m.at)))]

(* The first line of the analyzer, its version, is read although it has no *)
(* PGN.                                                                    *)
Outcome(s, top) ==
    IF top.next = Forever(s) THEN Hangs
    ELSE IF \/ top.next = Null
            \/ OfKey(top.keys, <<"pgn">>) = <<>> /\ OfKey(top.keys, <<"version">>) = <<>>
    THEN Refused
    ELSE Said(s, top.keys, KeysOfFields(s, OfKey(top.keys, <<"fields">>)))

(* jsonl_parse.                                                            *)
Parse(s) == IF At(s, 1) = "{" THEN Outcome(s, TopMembers(s)) ELSE Refused

=============================================================================

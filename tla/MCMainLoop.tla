----------------------------- MODULE MCMainLoop ----------------------------
(* Lines of the analyzer with one to three fields, whole, cut and overlong. *)
EXTENDS MainLoop, TLC

(* How canboat writes a message, and what it means by it.                  *)
Str(w) == <<"\"", w, "\"">>
KeyOf(w) == Str(w) \o <<":">>

Joined(parts) ==
    FlattenSeq([i \in DOMAIN parts |-> (IF i = 1 THEN <<>> ELSE <<",">>) \o parts[i]])

Obj(parts) == <<"{">> \o Joined(parts) \o <<"}">>

NumField(k, ds, n) ==
    [text |-> KeyOf(k) \o ds, means |-> [key |-> <<k>>, val |-> [type |-> "num", num |-> n, str |-> ds]]]

NamedFieldOf(k, ds, n, w) ==
    [text  |-> KeyOf(k) \o Obj(<<KeyOf("value") \o ds, KeyOf("name") \o Str(w)>>),
     means |-> [key |-> <<k>>, val |-> [type |-> "named", num |-> n, str |-> <<w>>]]]

NullField(k) ==
    [text |-> KeyOf(k) \o <<"null">>, means |-> [key |-> <<k>>, val |-> [type |-> "null", num |-> 0, str |-> <<>>]]]

Texts(fields) == [i \in DOMAIN fields |-> fields[i].text]
Means(fields) == [i \in DOMAIN fields |-> fields[i].means]

Of(has, n) == [has |-> has, num |-> n]

Message(src, ds, pgn, fields, list) ==
    [text |-> Obj(<<KeyOf("src") \o <<src>>, KeyOf("pgn") \o ds>>
                    \o (IF fields = <<>> /\ list = <<>> THEN <<>>
                        ELSE <<KeyOf("fields") \o Obj(Texts(fields) \o
                               (IF list = <<>> THEN <<>>
                                ELSE <<KeyOf("list") \o <<"[">>
                                       \o Joined([i \in DOMAIN list |-> Obj(Texts(list[i]))]) \o <<"]">>>>))>>)),
     means |-> [ok |-> "yes", pgn |-> Of(TRUE, pgn), src |-> Of(TRUE, Value(src)),
                fields |-> Means(fields),
                list |-> [i \in 1..Min({Len(list), MaxList}) |-> Means(list[i])]]]

Short(src, ds, pgn) == Message(src, ds, pgn, <<>>, <<>>)

(* A second list, which is passed over.                                    *)
SecondList ==
    [text  |-> KeyOf("list2") \o <<"[">> \o Obj(<<KeyOf("p") \o Str("]")>>) \o <<"]">>,
     means |-> NullField("list2").means]

Rich == Message("1", <<"1", "2">>, 12,
                <<NamedFieldOf("ref", <<"3">>, 3, "}"), SecondList, NumField("v", <<"4", "5">>, 45)>>, <<>>)

(* Longer than the buffer.                                                 *)
Listed == Message("2", <<"1", "3">>, 13, <<NullField("sid"), NumField("n", <<"2">>, 2)>>,
                  [i \in 1..4 |-> <<NumField("prn", <<Digits[i + 1]>>, i)>>])

Version ==
    [text |-> Obj(<<KeyOf("version") \o Str("4.12")>>),
     means |-> [ok |-> "yes", pgn |-> Of(FALSE, 0), src |-> Of(FALSE, 0), fields |-> <<>>, list |-> <<>>]]

TextOf(ms) == FlattenSeq([i \in DOMAIN ms |-> Append(ms[i].text, Newline)])

(* Cut anywhere.                                                           *)
Torn(ms) == Feed(ms, TextOf(ms), 1..Len(TextOf(ms)), 1, 0, 0, 0)

(* Written line by line.                                                   *)
Spread(ms, time, frames, fails, leave) ==
    Feed(ms, TextOf(ms), {Len(TextOf(SubSeq(ms, 1, i))) : i \in DOMAIN ms},
         time, frames, fails, leave)

S(src) == Short(src, <<"1", "2">>, 12)

Fast == Short("2", <<"1", "3">>, 13)

Inputs ==
    << Torn(<<Version, Rich, S("2")>>),
       Torn(<<Listed, S("1")>>),
       Spread(<<S("1"), Fast, S("1")>>, 7, 1, 1, 0),
       Spread(<<S("3"), S("1"), S("2"), S("3")>>, 6, 0, 0, 1) >>

MCFeeds == Inputs

(* The flow of source 3 gains and loses its identity.                      *)
MCDecisions(m) ==
    LET accepted == [disc |-> "", result |-> "accept", name |-> "a"]
        unknown  == [disc |-> "", result |-> "unknown_src", name |-> NoName]
    IN IF ~ m.pgn.has \/ ~ m.src.has THEN {[unknown EXCEPT !.result = "ignored"]}
       ELSE IF m.src.num = 3 THEN {accepted, unknown} ELSE {accepted}

MCSentences(m) == IF m.pgn.num = 12 THEN <<"GLL">> ELSE <<"GSV", "GSV">>

MCFastBytes == 13 :> 20

=============================================================================

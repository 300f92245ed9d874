----------------------------- MODULE MCSentences ----------------------------
(* Five boats, each with the instruments that share a sentence or a state  *)
(* of the mapper, and six configurations.                                  *)
EXTENDS Sentences

Said(pgn, slot, has, about, val) ==
    [pgn |-> pgn, slot |-> slot, has |-> has, about |-> about, val |-> val, sats |-> 0]

InView(n) == [Said(129540, 1, {}, "", 0) EXCEPT !.sats = n]

Depths == {Said(128267, s, {"depth"}, "", v) : s \in Slots, v \in 1..3}
             \cup {Said(128267, 1, {}, "", 0)}

Logs == {Said(128275, s, {"log"}, "", v) : s \in Slots, v \in 1..3}
             \cup {Said(128275, 1, {}, "", 0)}

Weather == {Said(130314, 1, {"press"}, "", v) : v \in 1..2}
             \cup {Said(130314, 1, {}, "", 0)}
             \cup {Said(130316, 1, {"temp"}, "Outside", v) : v \in 1..2}
             \cup {Said(130312, 1, {}, "Outside", 0),
                   Said(130312, 1, {"temp"}, "Sea", 2)}

Gnss == {Said(129026, 1, has, "True", v) : has \in SUBSET {"sog", "cog"}, v \in 1..2}
             \cup {Said(129026, 1, {"sog", "cog"}, "Magnetic", 1)}
             \cup {Said(127250, 1, {"var"}, "True", v) : v \in 1..2}
             \cup {Said(127250, 1, {}, "Magnetic", 0)}
             \cup {Said(129029, 1, {"time"}, "", 0), Said(129029, 1, {}, "", 0)}
             \cup {InView(0), InView(9), InView(32)}

Others == {Said(pgn, 1, {}, "", 0) : pgn \in PlainPgns \ {129026}}
             \cup {Said(126992, 1, {"date", "time"}, "", 0),
                   Said(126992, 1, {"time"}, "", 0),
                   Said(127257, 1, {"pitch"}, "", 0), Said(127257, 1, {}, "", 0),
                   Said(60928, 1, {}, "", 0)}
             \cup {Said(130306, 1, {}, w, 0) : w \in {"North", "Magnetic", "True", ""}}

MCBoats == {[messages |-> ms, steady |-> {}] : ms \in {Depths, Logs, Gnss, Others}}
             \cup {[messages |-> Weather, steady |-> {130316}]}

Plain == [no0183 |-> {}, sentence |-> {}, rate |-> [t \in Types |-> 0]]

MCOutputs ==
    {Plain,
     [Plain EXCEPT !.rate = [t \in Types |-> 2]],
     [Plain EXCEPT !.rate = [t \in Types |-> 1]],
     [Plain EXCEPT !.sentence = {<<129029, "RMC">>, <<128267, "DPT">>}],
     [Plain EXCEPT !.sentence = {<<130306, "MWV">>, <<128267, "DBT">>}],
     [Plain EXCEPT !.no0183 = {129026, 130314}]}

=============================================================================

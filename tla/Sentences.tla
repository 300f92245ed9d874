------------------------------ MODULE Sentences -----------------------------
(***************************************************************************)
(* The NMEA 0183 side of the main loop (src/daemon.c): a retained message  *)
(* goes through the mapper and the throttle, and what passes is written    *)
(* before the next line is read.  A reload of the configuration starts the *)
(* mapper anew and leaves the throttle alone.                              *)
(*                                                                         *)
(* said and the variables after it are no part of the program: they keep   *)
(* what the messages told since the last reload and what the consumer of   *)
(* the sentences was told, for the properties to compare.                  *)
(***************************************************************************)
EXTENDS Mapper, Throttle

CONSTANTS
    Outputs,       \* the configurations
    Boats          \* what a boat's bus may carry, and carries each second:
                   \* [messages : messages, steady : PGNs]

(* What the mapper reads of a message, and the PGNs it reads it in.        *)
Message ==
    [pgn : Nat, slot : Slots, has : SUBSET STRING, about : STRING, val : Nat, sats : Nat]

FieldPgns ==
    [depth |-> {128267}, log |-> {128275}, press |-> {130314}, temp |-> AirPgns,
     var |-> {127250}, sog |-> {129026}, cog |-> {129026}, air |-> {}]

ASSUME SentencesAssumption ==
    \A b \in Boats :
       /\ b.messages \subseteq Message
       /\ \A m \in b.messages : \A w \in m.has \cap DOMAIN FieldPgns : m.pgn \in FieldPgns[w]

VARIABLES
    mp,            \* mapper_t
    thr,           \* throttle_t
    out,           \* the configuration in force
    boat,          \* whose bus it is
    due,           \* the steady PGNs not yet said in this tick
    written,       \* the sentences written for the last line
    said,          \* the last reading told of each quantity
    shown,         \* what the last DPT and the last VLW said
    mdaQuiet,      \* ticks since an MDA was written
    quiet          \* ticks since a type was written under a limit

code == <<mp, thr, out, written>>

history == <<said, shown, mdaQuiet, quiet>>

vars == <<code, boat, due, history>>

-----------------------------------------------------------------------------
(* What the messages tell that the configuration does not withhold.        *)

Sensed == {"depth", "log"} \X Slots

Quantities == Sensed \cup ({"press", "air", "sog", "cog", "var"} \X {0})

Window(q) ==
    CASE q[1] \in {"depth", "log"} -> DepthTimeout
      [] q[1] \in {"press", "air"} -> MdaFresh
      [] OTHER -> RmcFresh

Unsaid == [q \in Quantities |-> Unseen(Window(q))]

Fresh(q) == said[q].age <= Window(q)

Told(m) ==
    IF m.pgn \in out.no0183 THEN {} ELSE
    {q \in Quantities :
        \/ q \in Sensed /\ q[1] \in m.has /\ q[2] = m.slot
        \/ q[1] \in m.has \ {"cog"} /\ q \notin Sensed
        \/ q[1] = "cog" /\ "cog" \in m.has /\ m.about # "Magnetic"
        \/ q[1] = "air" /\ "temp" \in m.has /\ m.about = "Outside"}

SaysNow(type) ==
    UNION {{p[2] : p \in written'[i].says} :
              i \in {j \in DOMAIN written' : written'[j].type = type}}

WrittenNow(type) == \E i \in DOMAIN written' : written'[i].type = type

-----------------------------------------------------------------------------
Init ==
    /\ mp = MapperInit
    /\ thr = ThrottleInit
    /\ out \in Outputs
    /\ boat \in Boats
    /\ due = boat.steady
    /\ written = <<>>
    /\ said = Unsaid
    /\ shown = [t \in {"DPT", "VLW"} |-> {}]
    /\ mdaQuiet = 0
    /\ quiet = ThrottleInit

(* A message of a PGN that the configuration does not convert leaves no    *)
(* trace in the mapper; what the throttle holds back does.                 *)
Converted(m) ==
    /\ m.pgn \notin out.no0183
    /\ mp' = Noted(mp, m)
    /\ written' = Written(out, thr, m.pgn, Mapped(mp', m))
    /\ thr' = Gated(out, thr, written')

Withheld(m) ==
    /\ m.pgn \in out.no0183
    /\ written' = <<>>
    /\ UNCHANGED <<mp, thr>>

Line(m) ==
    /\ Converted(m) \/ Withheld(m)
    /\ said' = [q \in Quantities |->
                  IF q \in Told(m) THEN [age |-> 0, val |-> m.val] ELSE said[q]]
    /\ shown' = [t \in {"DPT", "VLW"} |->
                  IF WrittenNow(t) THEN SaysNow(t) ELSE shown[t]]
    /\ mdaQuiet' = IF WrittenNow("MDA") THEN 0 ELSE mdaQuiet
    /\ quiet' = [t \in Types |->
                  IF WrittenNow(t) /\ out.rate[t] > 0 THEN 0 ELSE quiet[t]]
    /\ due' = due \ {m.pgn}
    /\ UNCHANGED <<out, boat>>

(* A second goes by.  What is steady was said in it.                       *)
Tick ==
    /\ due = {}
    /\ due' = boat.steady
    /\ mp' = Aged(mp)
    /\ thr' = Later(thr)
    /\ quiet' = Later(quiet)
    /\ said' = [q \in Quantities |->
                  IF said[q].age < Window(q) THEN
                     [said[q] EXCEPT !.age = @ + 1] ELSE Unsaid[q]]
    /\ mdaQuiet' = IF mdaQuiet > MdaFresh + 1 THEN mdaQuiet ELSE mdaQuiet + 1
    /\ written' = <<>>
    /\ UNCHANGED <<out, boat, shown>>

(* SIGHUP and a file that parses.                                          *)
Reload ==
    /\ mp' = MapperInit
    /\ out' \in Outputs
    /\ written' = <<>>
    /\ said' = Unsaid
    /\ mdaQuiet' = 0
    /\ UNCHANGED <<thr, boat, due, shown, quiet>>

Next ==
    \/ \E m \in boat.messages : Line(m)
    \/ Tick
    \/ Reload

Spec == Init /\ [][Next]_vars

-----------------------------------------------------------------------------
(* The configuration neither withholds, filters nor limits that sentence   *)
(* of that PGN.                                                            *)
Free(pgn, type) ==
    pgn \notin out.no0183 /\ SentenceOk(out, pgn, type) /\ Rate(out, type) = 0

(* The consumer is never left with a depth above one that a sensor told    *)
(* within the timeout, nor with a log below one: only the holder of the    *)
(* extreme speaks, and holding it passes from sensor to sensor without a   *)
(* gap (mapper.c: map_depth_min, map_log_max).                             *)
LeastShown ==
    Free(128267, "DPT") =>
       \A q \in {"depth"} \X Slots : Fresh(q) =>
          \E v \in shown["DPT"] : v <= said[q].val

MostShown ==
    Free(128275, "VLW") =>
       \A q \in {"log"} \X Slots : Fresh(q) =>
          \E v \in shown["VLW"] : v >= said[q].val

ExtremeShown == LeastShown /\ MostShown

(* While the air temperature is told every second, an MDA is written at    *)
(* least once in the time that a pressure stays fresh, however the         *)
(* pressure comes, goes or fails to be a number (mapper.c: map_mda).       *)
MdaKept ==
    (130316 \in boat.steady /\ Free(130316, "MDA") /\ Free(130314, "MDA"))
        => mdaQuiet <= MdaFresh + 1

(* What a sentence borrows from another PGN is the last that PGN told, in  *)
(* its window and since the reload, and it was not withheld; and an MDA    *)
(* leaves out neither part that is fresh (mapper.c: map_mda, RMC of        *)
(* 129029).                                                                *)
CarriesFresh ==
    \A i \in DOMAIN written :
       LET s == written[i] IN
       /\ s.type \in {"MDA", "RMC"} =>
             \A p \in s.says : Fresh(<<p[1], 0>>) /\ said[<<p[1], 0>>].val = p[2]
       /\ s.type = "MDA" =>
             \A w \in {"press", "air"} :
                Fresh(<<w, 0>>) => <<w, said[<<w, 0>>].val>> \in s.says

(* Two messages that write a limited type are an interval apart, a reload  *)
(* between them or not (daemon.c: main, thr_last).                         *)
BurstsApart ==
    [][\A t \in Types : (WrittenNow(t) /\ out.rate[t] > 0) => quiet[t] >= out.rate[t]]_vars

(* Of the pages of a GSV the limit lets through all or none (daemon.c:     *)
(* main, opened).                                                          *)
PagesWhole ==
    [][\A m \in boat.messages :
          (m.pgn = 129540 /\ Line(m)) => Len(written') \in {0, Pages(m.sats)}]_vars

=============================================================================

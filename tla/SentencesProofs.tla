--------------------------- MODULE SentencesProofs --------------------------
(***************************************************************************)
(* Proofs about the NMEA 0183 sentences, for any messages and any          *)
(* configurations.  The mapper holds what the messages told since the      *)
(* reload, reading by reading and of the same age, and the throttle how    *)
(* long each limited type has been quiet; what a line writes is derived    *)
(* from the two, so that this ties a sentence to the messages.             *)
(***************************************************************************)
EXTENDS Sentences, ScanProofs, FunctionTheorems

Reading == [age : Nat, val : Nat]

MapperState ==
    [depth : [Slots -> Reading], log : [Slots -> Reading],
     press : Reading, air : Reading, var : Reading,
     sog : [age : Nat, says : SUBSET ({"sog", "cog"} \X Nat)]]

IsSeq(b) == b \in Seq({b[i] : i \in 1..Len(b)})

(* The mapper holds what the messages told, and the throttle how long the  *)
(* limited types have been quiet.                                          *)
Remembers ==
    /\ \A s \in Slots : /\ mp.depth[s] = said[<<"depth", s>>]
                        /\ mp.log[s] = said[<<"log", s>>]
    /\ mp.press = said[<<"press", 0>>]
    /\ mp.air = said[<<"air", 0>>]
    /\ mp.var = said[<<"var", 0>>]
    /\ mp.sog.age <= RmcFresh =>
          \A p \in mp.sog.says : said[<<p[1], 0>>] = [age |-> mp.sog.age, val |-> p[2]]

SInv ==
    /\ boat \in Boats
    /\ mp \in MapperState
    /\ said \in [Quantities -> Reading]
    /\ Remembers
    /\ thr = quiet /\ thr \in [Types -> Nat]

LEMMA MapperNumbers ==
    /\ MaxSlot \in Nat /\ DepthTimeout \in Nat /\ MdaFresh \in Nat /\ RmcFresh \in Nat
    /\ MaxSentences \in Nat \ {0}
BY MapperAssumption

LEMMA QuantitiesAre ==
    /\ \A s \in Slots : /\ <<"depth", s>> \in Quantities /\ <<"log", s>> \in Quantities
                        /\ Window(<<"depth", s>>) = DepthTimeout
                        /\ Window(<<"log", s>>) = DepthTimeout
    /\ \A w \in {"press", "air", "sog", "cog", "var"} : <<w, 0>> \in Quantities
    /\ Window(<<"press", 0>>) = MdaFresh /\ Window(<<"air", 0>>) = MdaFresh
    /\ Window(<<"sog", 0>>) = RmcFresh /\ Window(<<"cog", 0>>) = RmcFresh
    /\ Window(<<"var", 0>>) = RmcFresh
    /\ \A q \in Quantities : Window(q) \in Nat
BY MapperNumbers DEF Quantities, Sensed, Window

(* What the fields of a message say of its PGN.                            *)
LEMMA MessageSpec ==
    ASSUME boat \in Boats, NEW m \in boat.messages
    PROVE  /\ m \in Message
           /\ "depth" \in m.has => m.pgn = 128267
           /\ "log" \in m.has => m.pgn = 128275
           /\ "press" \in m.has => m.pgn = 130314
           /\ "temp" \in m.has => m.pgn \in AirPgns
           /\ "var" \in m.has => m.pgn = 127250
           /\ "sog" \in m.has => m.pgn = 129026
           /\ "cog" \in m.has => m.pgn = 129026
           /\ "air" \notin m.has
<1>1. m \in Message /\ \A w \in m.has \cap DOMAIN FieldPgns : m.pgn \in FieldPgns[w]
  BY SentencesAssumption
<1>2. /\ DOMAIN FieldPgns = {"depth", "log", "press", "temp", "var", "sog", "cog", "air"}
      /\ FieldPgns["depth"] = {128267} /\ FieldPgns["log"] = {128275}
      /\ FieldPgns["press"] = {130314} /\ FieldPgns["temp"] = AirPgns
      /\ FieldPgns["var"] = {127250} /\ FieldPgns["sog"] = {129026}
      /\ FieldPgns["cog"] = {129026} /\ FieldPgns["air"] = {}
  BY DEF FieldPgns
<1> QED BY <1>1, <1>2

(* What a message that is converted tells.                                 *)
LEMMA ToldSpec ==
    ASSUME boat \in Boats, NEW m \in boat.messages, m.pgn \notin out.no0183
    PROVE  /\ \A s \in Slots : /\ <<"depth", s>> \in Told(m) <=> "depth" \in m.has /\ s = m.slot
                               /\ <<"log", s>> \in Told(m) <=> "log" \in m.has /\ s = m.slot
           /\ <<"press", 0>> \in Told(m) <=> "press" \in m.has
           /\ <<"air", 0>> \in Told(m) <=> "temp" \in m.has /\ m.about = "Outside"
           /\ <<"var", 0>> \in Told(m) <=> "var" \in m.has
           /\ <<"sog", 0>> \in Told(m) <=> "sog" \in m.has
           /\ <<"cog", 0>> \in Told(m) <=> "cog" \in m.has /\ m.about # "Magnetic"
<1>1. "air" \notin m.has
  BY MessageSpec
<1>2. ASSUME NEW q \in Quantities
      PROVE  q \in Told(m) <=>
                \/ q \in Sensed /\ q[1] \in m.has /\ q[2] = m.slot
                \/ q[1] \in m.has \ {"cog"} /\ q \notin Sensed
                \/ q[1] = "cog" /\ "cog" \in m.has /\ m.about # "Magnetic"
                \/ q[1] = "air" /\ "temp" \in m.has /\ m.about = "Outside"
  BY DEF Told
<1>3. \A s \in Slots : <<"depth", s>> \in Sensed /\ <<"log", s>> \in Sensed
  BY DEF Sensed
<1>4. \A w \in {"press", "air", "sog", "cog", "var"} : <<w, 0>> \notin Sensed
  BY DEF Sensed
<1> QED BY <1>1, <1>2, <1>3, <1>4, QuantitiesAre

(* What it leaves in the mapper.                                           *)
LEMMA NotedSpec ==
    ASSUME boat \in Boats, NEW m \in boat.messages, mp \in MapperState
    PROVE  LET new == [age |-> 0, val |-> m.val]
               mq == Noted(mp, m)
           IN /\ mq \in MapperState
              /\ \A s \in Slots :
                    /\ mq.depth[s] = IF "depth" \in m.has /\ s = m.slot THEN new ELSE mp.depth[s]
                    /\ mq.log[s] = IF "log" \in m.has /\ s = m.slot THEN new ELSE mp.log[s]
              /\ mq.press = IF "press" \in m.has THEN new ELSE mp.press
              /\ mq.air = IF "temp" \in m.has /\ m.about = "Outside" THEN new ELSE mp.air
              /\ mq.var = IF "var" \in m.has THEN new ELSE mp.var
              /\ mq.sog = IF CourseOf(m) # {} THEN [age |-> 0, says |-> CourseOf(m)] ELSE mp.sog
<1> DEFINE new == [age |-> 0, val |-> m.val]
           mq == Noted(mp, m)
<1>1. /\ m.pgn \in Nat /\ m.slot \in Slots /\ m.val \in Nat /\ new \in Reading
      /\ "depth" \in m.has => m.pgn = 128267
      /\ "log" \in m.has => m.pgn = 128275
      /\ "press" \in m.has => m.pgn = 130314
      /\ "temp" \in m.has => m.pgn \in {130312, 130316}
      /\ "var" \in m.has => m.pgn = 127250
      /\ "sog" \in m.has => m.pgn = 129026
      /\ "cog" \in m.has => m.pgn = 129026
  BY MessageSpec DEF Message, AirPgns, Reading
<1>2. CourseOf(m) \subseteq {"sog", "cog"} \X Nat /\ (CourseOf(m) # {} => m.pgn = 129026)
  BY <1>1 DEF CourseOf
<1>3. CASE m.pgn = 128267 /\ "depth" \in m.has
  <2>1. mq = [mp EXCEPT !.depth[m.slot] = new]
    BY <1>3 DEF Noted, AirPgns
  <2> QED BY <1>1, <1>2, <1>3, <2>1 DEF MapperState
<1>4. CASE m.pgn = 128275 /\ "log" \in m.has
  <2>1. mq = [mp EXCEPT !.log[m.slot] = new]
    BY <1>4 DEF Noted, AirPgns
  <2> QED BY <1>1, <1>2, <1>4, <2>1 DEF MapperState
<1>5. CASE m.pgn = 130314 /\ "press" \in m.has
  <2>1. mq = [mp EXCEPT !.press = new]
    BY <1>5 DEF Noted, AirPgns
  <2> QED BY <1>1, <1>2, <1>5, <2>1 DEF MapperState
<1>6. CASE m.pgn \in AirPgns /\ m.about = "Outside" /\ "temp" \in m.has
  <2>1. mq = [mp EXCEPT !.air = new]
    BY <1>6 DEF Noted, AirPgns
  <2> QED BY <1>1, <1>2, <1>6, <2>1 DEF MapperState, AirPgns
<1>7. CASE m.pgn = 127250 /\ "var" \in m.has
  <2>1. mq = [mp EXCEPT !.var = new]
    BY <1>7 DEF Noted, AirPgns
  <2> QED BY <1>1, <1>2, <1>7, <2>1 DEF MapperState
<1>8. CASE m.pgn = 129026 /\ CourseOf(m) # {}
  <2>1. mq = [mp EXCEPT !.sog = [age |-> 0, says |-> CourseOf(m)]]
    BY <1>8 DEF Noted, AirPgns
  <2> QED BY <1>1, <1>2, <1>8, <2>1 DEF MapperState
<1>9. CASE /\ "depth" \notin m.has /\ "log" \notin m.has /\ "press" \notin m.has
           /\ ~ ("temp" \in m.has /\ m.about = "Outside") /\ "var" \notin m.has
           /\ CourseOf(m) = {}
  <2>1. mq = mp
    BY <1>9 DEF Noted
  <2> QED BY <1>9, <2>1
<1> QED BY <1>1, <1>2, <1>3, <1>4, <1>5, <1>6, <1>7, <1>8, <1>9 DEF AirPgns

-----------------------------------------------------------------------------
LEMMA UnsaidSpec ==
    /\ MapperInit \in MapperState /\ Unsaid \in [Quantities -> Reading]
    /\ \A q \in Quantities : Unsaid[q] = [age |-> Window(q) + 1, val |-> 0]
    /\ \A s \in Slots : /\ MapperInit.depth[s] = Unsaid[<<"depth", s>>]
                        /\ MapperInit.log[s] = Unsaid[<<"log", s>>]
    /\ MapperInit.press = Unsaid[<<"press", 0>>] /\ MapperInit.air = Unsaid[<<"air", 0>>]
    /\ MapperInit.var = Unsaid[<<"var", 0>>]
    /\ MapperInit.sog = [age |-> RmcFresh + 1, says |-> {}]
<1>1. \A q \in Quantities : Unsaid[q] = [age |-> Window(q) + 1, val |-> 0]
  BY DEF Unsaid, Unseen
<1>2. Unsaid \in [Quantities -> Reading]
  BY QuantitiesAre DEF Unsaid, Unseen, Reading
<1>3. /\ MapperInit.depth = [s \in Slots |-> [age |-> DepthTimeout + 1, val |-> 0]]
      /\ MapperInit.log = [s \in Slots |-> [age |-> DepthTimeout + 1, val |-> 0]]
      /\ MapperInit.press = [age |-> MdaFresh + 1, val |-> 0]
      /\ MapperInit.air = [age |-> MdaFresh + 1, val |-> 0]
      /\ MapperInit.var = [age |-> RmcFresh + 1, val |-> 0]
      /\ MapperInit.sog = [age |-> RmcFresh + 1, says |-> {}]
  BY DEF MapperInit, Unseen
<1>4. MapperInit \in MapperState
  BY MapperNumbers DEF MapperInit, Unseen, MapperState, Reading
<1> QED BY <1>1, <1>2, <1>3, <1>4, QuantitiesAre

LEMMA InitSInv == Init => SInv
<1> SUFFICES ASSUME Init PROVE SInv
  OBVIOUS
<1> USE DEF Init
<1>1. mp.sog.age = RmcFresh + 1 /\ ~ (RmcFresh + 1 <= RmcFresh)
  BY UnsaidSpec, MapperNumbers
<1>2. thr \in [Types -> Nat]
  BY ThrottleAssumption DEF ThrottleInit
<1> QED BY <1>1, <1>2, UnsaidSpec DEF SInv, Remembers

LEMMA ReloadSInv == ASSUME SInv, Reload PROVE SInv'
<1>1. /\ mp' = MapperInit /\ said' = Unsaid /\ thr' = thr /\ quiet' = quiet /\ boat' = boat
  BY DEF Reload
<1>2. mp'.sog.age = RmcFresh + 1 /\ ~ (RmcFresh + 1 <= RmcFresh)
  BY <1>1, UnsaidSpec, MapperNumbers
<1>3. Remembers'
  BY <1>1, <1>2, UnsaidSpec DEF Remembers
<1>4. thr' \in [Types -> Nat]
  BY <1>1 DEF SInv
<1> QED BY <1>1, <1>3, <1>4, UnsaidSpec DEF SInv

(* What a line does to the mapper and to what was told, in step.           *)
LEMMA LineSaid ==
    ASSUME SInv, NEW m \in boat.messages, Line(m)
    PROVE  /\ said' \in [Quantities -> Reading]
           /\ \A q \in Quantities :
                 said'[q] = IF q \in Told(m) THEN [age |-> 0, val |-> m.val] ELSE said[q]
           /\ Withheld(m) => said' = said /\ mp' = mp
<1>1. /\ said' = [q \in Quantities |->
                    IF q \in Told(m) THEN [age |-> 0, val |-> m.val] ELSE said[q]]
      /\ said \in [Quantities -> Reading] /\ [age |-> 0, val |-> m.val] \in Reading
  BY MessageSpec DEF Line, SInv, Message, Reading
<1>2. ASSUME Withheld(m) PROVE said' = said /\ mp' = mp
  <2>1. Told(m) = {} /\ mp' = mp
    BY <1>2 DEF Withheld, Told
  <2> QED BY <1>1, <2>1
<1> QED BY <1>1, <1>2

LEMMA LineSInv == ASSUME SInv, NEW m \in boat.messages, Line(m) PROVE SInv'
<1> DEFINE new == [age |-> 0, val |-> m.val]
<1>1. /\ boat' = boat /\ boat \in Boats /\ mp \in MapperState
      /\ thr = quiet /\ thr \in [Types -> Nat]
      /\ said \in [Quantities -> Reading] /\ Remembers
  BY DEF Line, SInv
<1>2. thr' = quiet' /\ thr' \in [Types -> Nat]
  <2>1. CASE Converted(m)
    <3>1. thr' = Gated(out, thr, written')
      BY <2>1 DEF Converted
    <3>2. quiet' = [t \in Types |-> IF WrittenNow(t) /\ out.rate[t] > 0 THEN 0 ELSE quiet[t]]
      BY DEF Line
    <3> QED BY <1>1, <3>1, <3>2 DEF Gated, WrittenNow
  <2>2. CASE Withheld(m)
    <3>1. thr' = thr /\ written' = <<>>
      BY <2>2 DEF Withheld
    <3>2. \A t : ~ WrittenNow(t)
      BY <3>1 DEF WrittenNow
    <3> QED BY <1>1, <3>1, <3>2 DEF Line
  <2> QED BY <2>1, <2>2 DEF Line
<1>3. /\ said' \in [Quantities -> Reading]
      /\ \A q \in Quantities : said'[q] = IF q \in Told(m) THEN new ELSE said[q]
  BY LineSaid
<1>4. CASE Withheld(m)
  <2>1. said' = said /\ mp' = mp
    BY <1>4, LineSaid
  <2> QED BY <1>1, <1>2, <2>1 DEF SInv, Remembers
<1>5. CASE Converted(m)
  <2>1. m.pgn \notin out.no0183 /\ mp' = Noted(mp, m)
    BY <1>5 DEF Converted
  <2>2. /\ mp' \in MapperState
        /\ \A s \in Slots :
              /\ mp'.depth[s] = IF "depth" \in m.has /\ s = m.slot THEN new ELSE mp.depth[s]
              /\ mp'.log[s] = IF "log" \in m.has /\ s = m.slot THEN new ELSE mp.log[s]
        /\ mp'.press = IF "press" \in m.has THEN new ELSE mp.press
        /\ mp'.air = IF "temp" \in m.has /\ m.about = "Outside" THEN new ELSE mp.air
        /\ mp'.var = IF "var" \in m.has THEN new ELSE mp.var
        /\ mp'.sog = IF CourseOf(m) # {} THEN [age |-> 0, says |-> CourseOf(m)] ELSE mp.sog
    BY <1>1, <2>1, NotedSpec
  <2>3. /\ \A s \in Slots : /\ <<"depth", s>> \in Told(m) <=> "depth" \in m.has /\ s = m.slot
                            /\ <<"log", s>> \in Told(m) <=> "log" \in m.has /\ s = m.slot
        /\ <<"press", 0>> \in Told(m) <=> "press" \in m.has
        /\ <<"air", 0>> \in Told(m) <=> "temp" \in m.has /\ m.about = "Outside"
        /\ <<"var", 0>> \in Told(m) <=> "var" \in m.has
        /\ <<"sog", 0>> \in Told(m) <=> "sog" \in m.has
        /\ <<"cog", 0>> \in Told(m) <=> "cog" \in m.has /\ m.about # "Magnetic"
    BY <1>1, <2>1, ToldSpec
  <2> HIDE DEF new
  <2>4. /\ \A s \in Slots : /\ mp'.depth[s] = said'[<<"depth", s>>]
                            /\ mp'.log[s] = said'[<<"log", s>>]
        /\ mp'.press = said'[<<"press", 0>>]
        /\ mp'.air = said'[<<"air", 0>>]
        /\ mp'.var = said'[<<"var", 0>>]
    BY <1>1, <1>3, <2>2, <2>3, QuantitiesAre DEF Remembers
  <2>5. ASSUME mp'.sog.age <= RmcFresh, NEW p \in mp'.sog.says
        PROVE  said'[<<p[1], 0>>] = [age |-> mp'.sog.age, val |-> p[2]]
    <3>1. CASE CourseOf(m) # {}
      <4>1. mp'.sog.age = 0 /\ p \in CourseOf(m)
        BY <2>2, <2>5, <3>1
      <4>2. /\ p[1] \in {"sog", "cog"} /\ p[2] = m.val /\ p[1] \in m.has
            /\ p[1] = "cog" => m.about # "Magnetic"
        BY <4>1 DEF CourseOf
      <4>3. <<p[1], 0>> \in Told(m) /\ <<p[1], 0>> \in Quantities
        BY <2>3, <4>2, QuantitiesAre
      <4> QED BY <1>3, <4>1, <4>2, <4>3 DEF new
    <3>2. CASE CourseOf(m) = {}
      <4>1. mp'.sog = mp.sog
        BY <2>2, <3>2
      <4>2. p[1] \in {"sog", "cog"} /\ p \in mp.sog.says
        BY <1>1, <2>5, <4>1 DEF MapperState
      <4>3. <<p[1], 0>> \notin Told(m) /\ <<p[1], 0>> \in Quantities
        <5>1. "sog" \notin m.has /\ ("cog" \in m.has => m.about = "Magnetic")
          <6>1. "sog" \in m.has => <<"sog", m.val>> \in CourseOf(m)
            BY DEF CourseOf
          <6>2. "cog" \in m.has /\ m.about # "Magnetic" => <<"cog", m.val>> \in CourseOf(m)
            BY DEF CourseOf
          <6> QED BY <3>2, <6>1, <6>2
        <5> QED BY <2>3, <4>2, <5>1, QuantitiesAre
      <4>4. said[<<p[1], 0>>] = [age |-> mp.sog.age, val |-> p[2]]
        BY <1>1, <2>5, <4>1, <4>2 DEF Remembers
      <4> QED BY <1>3, <4>1, <4>3, <4>4
    <3> QED BY <3>1, <3>2
  <2>6. Remembers'
    BY <2>4, <2>5 DEF Remembers
  <2> QED BY <1>1, <1>2, <1>3, <2>2, <2>6 DEF SInv
<1> QED BY <1>4, <1>5 DEF Line

LEMMA TickSaid ==
    ASSUME SInv, Tick
    PROVE  /\ said' \in [Quantities -> Reading]
           /\ \A q \in Quantities :
                 said'[q] = IF said[q].age < Window(q)
                            THEN [age |-> said[q].age + 1, val |-> said[q].val]
                            ELSE [age |-> Window(q) + 1, val |-> 0]
<1>1. ASSUME NEW q \in Quantities
      PROVE  /\ said'[q] = IF said[q].age < Window(q)
                           THEN [age |-> said[q].age + 1, val |-> said[q].val]
                           ELSE [age |-> Window(q) + 1, val |-> 0]
             /\ said'[q] \in Reading
  <2>1. said[q] \in Reading /\ Window(q) \in Nat
    BY QuantitiesAre DEF SInv
  <2>2. said'[q] = IF said[q].age < Window(q) THEN [said[q] EXCEPT !.age = @ + 1] ELSE Unsaid[q]
    BY DEF Tick
  <2> QED BY <2>1, <2>2, UnsaidSpec DEF Reading
<1>2. said' \in [Quantities -> Reading]
  BY <1>1 DEF Tick
<1> QED BY <1>1, <1>2

LEMMA TickSInv == ASSUME SInv, Tick PROVE SInv'
<1>1. /\ boat' = boat /\ boat \in Boats /\ mp \in MapperState
      /\ thr' = quiet' /\ thr' \in [Types -> Nat]
      /\ mp' = Aged(mp) /\ said \in [Quantities -> Reading] /\ Remembers
  BY ThrottleAssumption DEF Tick, SInv, Later
<1>2. /\ \A s \in Slots : mp'.depth[s] = Older(mp.depth[s], DepthTimeout)
      /\ \A s \in Slots : mp'.log[s] = Older(mp.log[s], DepthTimeout)
      /\ mp'.press = Older(mp.press, MdaFresh) /\ mp'.air = Older(mp.air, MdaFresh)
      /\ mp'.var = Older(mp.var, RmcFresh)
      /\ mp'.sog = IF mp.sog.age < RmcFresh THEN [mp.sog EXCEPT !.age = @ + 1]
                   ELSE MapperInit.sog
  BY <1>1 DEF Aged
<1>3. ASSUME NEW r \in Reading, NEW w \in Nat
      PROVE  /\ Older(r, w) = IF r.age < w THEN [age |-> r.age + 1, val |-> r.val]
                              ELSE [age |-> w + 1, val |-> 0]
             /\ Older(r, w) \in Reading
  BY DEF Older, Unseen, Reading
<1>4. /\ said' \in [Quantities -> Reading]
      /\ \A q \in Quantities : said'[q] = Older(said[q], Window(q))
  BY <1>1, <1>3, TickSaid, QuantitiesAre
<1>5. mp' \in MapperState
  <2>1. mp'.sog \in [age : Nat, says : SUBSET ({"sog", "cog"} \X Nat)]
    BY <1>1, <1>2, UnsaidSpec, MapperNumbers DEF MapperState
  <2>2. ASSUME NEW f \in [Slots -> Reading]
        PROVE  [s \in Slots |-> Older(f[s], DepthTimeout)] \in [Slots -> Reading]
    BY <1>3, MapperNumbers
  <2>3. mp.depth \in [Slots -> Reading] /\ mp.log \in [Slots -> Reading]
    BY <1>1 DEF MapperState
  <2>4. mp.press \in Reading /\ mp.air \in Reading /\ mp.var \in Reading
    BY <1>1 DEF MapperState
  <2>5. mp'.press \in Reading /\ mp'.air \in Reading /\ mp'.var \in Reading
    BY <1>2, <1>3, <2>4, MapperNumbers
  <2>6. /\ [s \in Slots |-> Older(mp.depth[s], DepthTimeout)] \in [Slots -> Reading]
        /\ [s \in Slots |-> Older(mp.log[s], DepthTimeout)] \in [Slots -> Reading]
    BY <2>2, <2>3
  <2> QED BY <1>1, <2>1, <2>5, <2>6 DEF Aged, MapperState
<1>6. /\ \A s \in Slots : /\ mp'.depth[s] = said'[<<"depth", s>>]
                          /\ mp'.log[s] = said'[<<"log", s>>]
      /\ mp'.press = said'[<<"press", 0>>]
      /\ mp'.air = said'[<<"air", 0>>]
      /\ mp'.var = said'[<<"var", 0>>]
  BY <1>1, <1>2, <1>4, QuantitiesAre DEF Remembers
<1>7. ASSUME mp'.sog.age <= RmcFresh, NEW p \in mp'.sog.says
      PROVE  said'[<<p[1], 0>>] = [age |-> mp'.sog.age, val |-> p[2]]
  <2>1. mp.sog.age \in Nat /\ mp.sog.says \subseteq {"sog", "cog"} \X Nat
    BY <1>1 DEF MapperState
  <2>2. mp.sog.age < RmcFresh /\ mp'.sog = [mp.sog EXCEPT !.age = @ + 1]
    BY <1>2, <1>7, UnsaidSpec, MapperNumbers
  <2>3. p \in mp.sog.says /\ mp'.sog.age = mp.sog.age + 1
    BY <1>1, <1>7, <2>2 DEF MapperState
  <2>4. p[1] \in {"sog", "cog"} /\ p[2] \in Nat
    BY <2>1, <2>3
  <2>5. said[<<p[1], 0>>] = [age |-> mp.sog.age, val |-> p[2]]
    BY <1>1, <2>1, <2>2, <2>3, MapperNumbers DEF Remembers
  <2>6. <<p[1], 0>> \in Quantities /\ Window(<<p[1], 0>>) = RmcFresh
    BY <2>4, QuantitiesAre
  <2> QED BY <2>2, <2>3, <2>5, <2>6, TickSaid
<1> QED BY <1>1, <1>4, <1>5, <1>6, <1>7 DEF SInv, Remembers

LEMMA NextSInv == SInv /\ [Next]_vars => SInv'
<1> SUFFICES ASSUME SInv, [Next]_vars PROVE SInv'
  OBVIOUS
<1>1. CASE UNCHANGED vars
  BY <1>1 DEF vars, code, history, SInv, Remembers
<1>2. ASSUME NEW m \in boat.messages, Line(m) PROVE SInv'
  BY <1>2, LineSInv
<1> QED BY <1>1, <1>2, TickSInv, ReloadSInv DEF Next

-----------------------------------------------------------------------------
(* What a message yields, and what of it is written.                       *)

LEMMA SaySpec ==
    ASSUME NEW type, NEW says, NEW S, [type |-> type, says |-> says] \in S
    PROVE  /\ Say(type, says) \in Seq(S) /\ Len(Say(type, says)) = 1
           /\ Say(type, says)[1] = [type |-> type, says |-> says]
BY DEF Say

LEMMA PagesNat == ASSUME NEW n \in Nat PROVE Pages(n) \in Nat
BY MapperNumbers DEF Pages

LEMMA MappedCases ==
    ASSUME NEW m \in Message, NEW mq
    PROVE  /\ m.pgn \in PlainPgns => Mapped(mq, m) = Say(PlainType(m.pgn), {})
           /\ m.pgn = 126992
                => Mapped(mq, m) = When({"date", "time"} \subseteq m.has, Say("ZDA", {}))
           /\ m.pgn = 127257
                => Mapped(mq, m) = When({"pitch", "roll"} \cap m.has # {}, Say("XDR", {}))
           /\ m.pgn = 129029 => Mapped(mq, m) = PositionSays(mq, m)
           /\ m.pgn = 129540 => Mapped(mq, m) = ViewSays(m)
           /\ m.pgn = 127250 => Mapped(mq, m) = HeadingSays(m)
           /\ m.pgn = 130306 => Mapped(mq, m) = WindSays(m)
           /\ m.pgn = 128267 => Mapped(mq, m) = DepthSays(mq, m)
           /\ m.pgn = 128275 => Mapped(mq, m) = LogSays(mq, m)
           /\ m.pgn = 130314 => Mapped(mq, m) = When(MdaDue(mq, m), Say("MDA", MdaSays(mq)))
           /\ m.pgn \in AirPgns => Mapped(mq, m) = TemperatureSays(mq, m)
           /\ m.pgn \notin PlainPgns \cup AirPgns \cup
                 {126992, 127257, 129029, 129540, 127250, 130306, 128267, 128275, 130314}
                => Mapped(mq, m) = <<>>
<1> DEFINE Own == {126992, 127257, 129029, 129540, 127250, 130306, 128267, 128275, 130314}
<1>1. /\ \A p \in PlainPgns : p \notin Own \cup AirPgns
      /\ \A p \in AirPgns : p \notin Own \cup PlainPgns
  BY DEF PlainPgns, AirPgns
<1>2. m.pgn \in Nat
  BY DEF Message
<1>3. CASE m.pgn \in PlainPgns
  BY <1>1, <1>3 DEF Mapped
<1>4. CASE m.pgn \in AirPgns
  BY <1>1, <1>4 DEF Mapped
<1>5. CASE m.pgn \in Own
  BY <1>1, <1>2, <1>5 DEF Mapped
<1>6. CASE m.pgn \notin PlainPgns \cup AirPgns \cup Own
  BY <1>1, <1>2, <1>6 DEF Mapped
<1> QED BY <1>3, <1>4, <1>5, <1>6

(* Which message sets the pace of DPT, VLW and MDA, and what they and RMC  *)
(* say; the other types are of no concern here.                            *)
LeastSpeaks(mq, m) == m.pgn = 128267 /\ "depth" \in m.has /\ HoldsLeast(mq.depth, m.slot)

MostSpeaks(mq, m) == m.pgn = 128275 /\ "log" \in m.has /\ HoldsMost(mq.log, m.slot)

AirSpeaks(mq, m) ==
    /\ m.pgn = 130314 \/ (m.pgn \in AirPgns /\ m.about = "Outside")
    /\ MdaDue(mq, m)

DepthSentence(mq, m) == [type |-> "DPT", says |-> {<<"depth", mq.depth[m.slot].val>>}]

LogSentence(mq, m) == [type |-> "VLW", says |-> {<<"log", mq.log[m.slot].val>>}]

Ordinary(mq, m) == ~ LeastSpeaks(mq, m) /\ ~ MostSpeaks(mq, m) /\ ~ AirSpeaks(mq, m)

RightlySaid(mq, m, s) ==
    /\ s.type = "DPT" => LeastSpeaks(mq, m) /\ s = DepthSentence(mq, m)
    /\ s.type = "VLW" => MostSpeaks(mq, m) /\ s = LogSentence(mq, m)
    /\ s.type = "MDA" => s.says = MdaSays(mq)
    /\ s.type = "RMC" => s.says = RmcSays(mq)

NotMissing(mq, m, burst) ==
    /\ LeastSpeaks(mq, m) => \E i \in 1..Len(burst) : burst[i] = DepthSentence(mq, m)
    /\ MostSpeaks(mq, m) => \E i \in 1..Len(burst) : burst[i] = LogSentence(mq, m)
    /\ AirSpeaks(mq, m) => \E i \in 1..Len(burst) : burst[i].type = "MDA"

BurstOK(mq, m, burst) ==
    /\ IsSeq(burst)
    /\ \A i \in 1..Len(burst) : RightlySaid(mq, m, burst[i])
    /\ NotMissing(mq, m, burst)

LEMMA OrdinarySpec ==
    ASSUME NEW m, NEW mq, m.pgn \notin {128267, 128275, 130314} \cup AirPgns
    PROVE  Ordinary(mq, m)
BY DEF Ordinary, LeastSpeaks, MostSpeaks, AirSpeaks

LEMMA NoneOK == ASSUME NEW m, NEW mq, Ordinary(mq, m) PROVE BurstOK(mq, m, <<>>)
BY DEF Ordinary, BurstOK, NotMissing, IsSeq

LEMMA OneOK ==
    ASSUME NEW m, NEW mq, NEW type, NEW says,
           RightlySaid(mq, m, [type |-> type, says |-> says]),
           LeastSpeaks(mq, m) => [type |-> type, says |-> says] = DepthSentence(mq, m),
           MostSpeaks(mq, m) => [type |-> type, says |-> says] = LogSentence(mq, m),
           AirSpeaks(mq, m) => type = "MDA"
    PROVE  BurstOK(mq, m, Say(type, says))
<1> DEFINE s == [type |-> type, says |-> says]
           burst == Say(type, says)
<1>1. burst \in Seq({s}) /\ Len(burst) = 1 /\ burst[1] = s /\ s.type = type
  BY SaySpec
<1> HIDE DEF s, burst
<1>2. IsSeq(burst)
  BY <1>1 DEF IsSeq
<1>3. RightlySaid(mq, m, s)
  BY DEF s
<1>4. NotMissing(mq, m, burst)
  <2>1. /\ LeastSpeaks(mq, m) => s = DepthSentence(mq, m)
        /\ MostSpeaks(mq, m) => s = LogSentence(mq, m)
        /\ AirSpeaks(mq, m) => s.type = "MDA"
    BY <1>1 DEF s
  <2> QED BY <1>1, <2>1 DEF NotMissing
<1>5. BurstOK(mq, m, burst)
  BY <1>1, <1>2, <1>3, <1>4 DEF BurstOK
<1> QED BY <1>5 DEF burst

LEMMA OrdinaryOne ==
    ASSUME NEW m, NEW mq, Ordinary(mq, m), NEW type, type \notin {"DPT", "VLW", "MDA", "RMC"}
    PROVE  BurstOK(mq, m, Say(type, {}))
<1>1. RightlySaid(mq, m, [type |-> type, says |-> {}])
  BY DEF RightlySaid
<1> QED BY <1>1, OneOK DEF Ordinary

LEMMA OrdinaryTwo ==
    ASSUME NEW m, NEW mq, Ordinary(mq, m), NEW t, t \notin {"DPT", "VLW", "MDA", "RMC"},
           NEW u, u \notin {"DPT", "VLW", "MDA"}, NEW says, u = "RMC" => says = RmcSays(mq)
    PROVE  BurstOK(mq, m, Say(t, {}) \o Say(u, says))
<1> DEFINE burst == Say(t, {}) \o Say(u, says)
           r1 == [type |-> t, says |-> {}]
           r2 == [type |-> u, says |-> says]
<1>1. /\ Say(t, {}) \in Seq({r1, r2}) /\ Len(Say(t, {})) = 1 /\ Say(t, {})[1] = r1
      /\ Say(u, says) \in Seq({r1, r2}) /\ Len(Say(u, says)) = 1 /\ Say(u, says)[1] = r2
  BY SaySpec
<1>2. RightlySaid(mq, m, r1) /\ RightlySaid(mq, m, r2)
  BY DEF RightlySaid
<1> HIDE DEF r1, r2
<1>3. burst \in Seq({r1, r2}) /\ Len(burst) = 2 /\ burst[1] = r1 /\ burst[2] = r2
  BY <1>1
<1> HIDE DEF burst
<1>4. IsSeq(burst)
  BY <1>3 DEF IsSeq
<1>5. NotMissing(mq, m, burst)
  BY DEF NotMissing, Ordinary
<1>6. BurstOK(mq, m, burst)
  BY <1>2, <1>3, <1>4, <1>5 DEF BurstOK
<1> QED BY <1>6 DEF burst

LEMMA DepthOK ==
    ASSUME NEW m, NEW mq, m.pgn = 128267
    PROVE  BurstOK(mq, m, DepthSays(mq, m))
<1>1. ~ MostSpeaks(mq, m) /\ ~ AirSpeaks(mq, m)
  BY DEF MostSpeaks, AirSpeaks, AirPgns
<1>2. CASE LeastSpeaks(mq, m)
  <2> DEFINE one == {<<"depth", mq.depth[m.slot].val>>}
  <2>1. DepthSays(mq, m) = Say("DPT", one)
    BY <1>2 DEF DepthSays, When, LeastSpeaks
  <2>2. DepthSentence(mq, m) = [type |-> "DPT", says |-> one]
    BY DEF DepthSentence
  <2> HIDE DEF one
  <2>3. RightlySaid(mq, m, DepthSentence(mq, m))
    BY <1>2, <2>2 DEF RightlySaid
  <2>4. BurstOK(mq, m, Say("DPT", one))
    BY <1>1, <2>2, <2>3, OneOK
  <2> QED BY <2>1, <2>4
<1>3. CASE ~ LeastSpeaks(mq, m)
  <2>1. DepthSays(mq, m) = <<>>
    BY <1>3 DEF DepthSays, When, LeastSpeaks
  <2> QED BY <1>1, <1>3, <2>1, NoneOK DEF Ordinary
<1> QED BY <1>2, <1>3

LEMMA LogOK ==
    ASSUME NEW m, NEW mq, m.pgn = 128275
    PROVE  BurstOK(mq, m, LogSays(mq, m))
<1>1. ~ LeastSpeaks(mq, m) /\ ~ AirSpeaks(mq, m)
  BY DEF LeastSpeaks, AirSpeaks, AirPgns
<1>2. CASE MostSpeaks(mq, m)
  <2> DEFINE one == {<<"log", mq.log[m.slot].val>>}
  <2>1. LogSays(mq, m) = Say("VLW", one)
    BY <1>2 DEF LogSays, When, MostSpeaks
  <2>2. LogSentence(mq, m) = [type |-> "VLW", says |-> one]
    BY DEF LogSentence
  <2> HIDE DEF one
  <2>3. RightlySaid(mq, m, LogSentence(mq, m))
    BY <1>2, <2>2 DEF RightlySaid
  <2>4. BurstOK(mq, m, Say("VLW", one))
    BY <1>1, <2>2, <2>3, OneOK
  <2> QED BY <2>1, <2>4
<1>3. CASE ~ MostSpeaks(mq, m)
  <2>1. LogSays(mq, m) = <<>>
    BY <1>3 DEF LogSays, When, MostSpeaks
  <2> QED BY <1>1, <1>3, <2>1, NoneOK DEF Ordinary
<1> QED BY <1>2, <1>3

LEMMA MdaOK ==
    ASSUME NEW m, NEW mq, m.pgn = 130314 \/ (m.pgn \in AirPgns /\ m.about = "Outside")
    PROVE  BurstOK(mq, m, When(MdaDue(mq, m), Say("MDA", MdaSays(mq))))
<1>1. ~ LeastSpeaks(mq, m) /\ ~ MostSpeaks(mq, m)
  BY DEF LeastSpeaks, MostSpeaks, AirPgns
<1>2. CASE MdaDue(mq, m)
  <2>1. RightlySaid(mq, m, [type |-> "MDA", says |-> MdaSays(mq)])
    BY DEF RightlySaid
  <2>2. BurstOK(mq, m, Say("MDA", MdaSays(mq)))
    BY <1>1, <2>1, OneOK
  <2> QED BY <1>2, <2>2 DEF When
<1>3. CASE ~ MdaDue(mq, m)
  <2>1. Ordinary(mq, m)
    BY <1>1, <1>3 DEF Ordinary, AirSpeaks
  <2> QED BY <1>3, <2>1, NoneOK DEF When
<1> QED BY <1>2, <1>3

LEMMA ViewOK ==
    ASSUME NEW m \in Message, NEW mq, Ordinary(mq, m)
    PROVE  BurstOK(mq, m, ViewSays(m))
<1> DEFINE page == [type |-> "GSV", says |-> {}]
           n == Pages(m.sats)
<1>1. page.type = "GSV" /\ n \in Nat
  BY PagesNat DEF Message
<1>2. ViewSays(m) = [i \in 1..n |-> page]
  BY DEF ViewSays
<1> HIDE DEF page, n
<1>3. /\ IsSeq(ViewSays(m))
      /\ \A i \in 1..Len(ViewSays(m)) : ViewSays(m)[i] = page
  <2>1. ViewSays(m) \in Seq({page}) /\ Len(ViewSays(m)) = n
    BY <1>1, <1>2
  <2>2. \A i \in 1..Len(ViewSays(m)) : ViewSays(m)[i] = page
    BY <1>2, <2>1
  <2> QED BY <2>1, <2>2 DEF IsSeq
<1>4. RightlySaid(mq, m, page)
  BY <1>1 DEF RightlySaid
<1>5. NotMissing(mq, m, ViewSays(m))
  BY DEF NotMissing, Ordinary
<1> QED BY <1>3, <1>4, <1>5 DEF BurstOK

LEMMA MappedSpec ==
    ASSUME NEW m \in Message, NEW mq
    PROVE  BurstOK(mq, m, Mapped(mq, m))
<1> DEFINE Own == {126992, 127257, 129029, 129540, 127250, 130306, 128267, 128275, 130314}
           Special == {128267, 128275, 130314} \cup AirPgns
           OK == BurstOK(mq, m, Mapped(mq, m))
<1>1. m.pgn \notin Special => Ordinary(mq, m)
  BY OrdinarySpec
<1>2. /\ \A p \in PlainPgns : p \notin Special
      /\ 126992 \notin Special /\ 127257 \notin Special /\ 129029 \notin Special
      /\ 129540 \notin Special /\ 127250 \notin Special /\ 130306 \notin Special
      /\ Special \subseteq Own \cup AirPgns
  BY DEF PlainPgns, AirPgns
<1> HIDE DEF Special
<1>3. ASSUME m.pgn \in PlainPgns PROVE OK
  <2>1. PlainType(m.pgn) \notin {"DPT", "VLW", "MDA", "RMC"}
    BY <1>3 DEF PlainPgns, PlainType
  <2> QED BY <1>1, <1>2, <1>3, <2>1, MappedCases, OrdinaryOne
<1>4. ASSUME m.pgn = 126992 PROVE OK
  <2>1. Mapped(mq, m) = <<>> \/ Mapped(mq, m) = Say("ZDA", {})
    BY <1>4, MappedCases DEF When
  <2>2. BurstOK(mq, m, Say("ZDA", {})) /\ BurstOK(mq, m, <<>>)
    BY <1>1, <1>2, <1>4, OrdinaryOne, NoneOK
  <2> QED BY <2>1, <2>2
<1>5. ASSUME m.pgn = 127257 PROVE OK
  <2>1. Mapped(mq, m) = <<>> \/ Mapped(mq, m) = Say("XDR", {})
    BY <1>5, MappedCases DEF When
  <2>2. BurstOK(mq, m, Say("XDR", {})) /\ BurstOK(mq, m, <<>>)
    BY <1>1, <1>2, <1>5, OrdinaryOne, NoneOK
  <2> QED BY <2>1, <2>2
<1>6. ASSUME m.pgn = 129029 PROVE OK
  <2>1. Mapped(mq, m) = <<>> \/ Mapped(mq, m) = Say("GGA", {}) \o Say("RMC", RmcSays(mq))
    BY <1>6, MappedCases DEF When, PositionSays
  <2>2. BurstOK(mq, m, Say("GGA", {}) \o Say("RMC", RmcSays(mq))) /\ BurstOK(mq, m, <<>>)
    BY <1>1, <1>2, <1>6, OrdinaryTwo, NoneOK
  <2> QED BY <2>1, <2>2
<1>7. ASSUME m.pgn = 129540 PROVE OK
  BY <1>1, <1>2, <1>7, MappedCases, ViewOK
<1>8. ASSUME m.pgn = 127250 PROVE OK
  <2>1. Mapped(mq, m) = Say("HDT", {}) \/ Mapped(mq, m) = Say("HDG", {}) \o Say("HDM", {})
    BY <1>8, MappedCases DEF HeadingSays
  <2>2. Ordinary(mq, m)
    BY <1>1, <1>2, <1>8
  <2>3. BurstOK(mq, m, Say("HDT", {}))
    BY <2>2, OrdinaryOne
  <2>4. BurstOK(mq, m, Say("HDG", {}) \o Say("HDM", {}))
    BY <2>2, OrdinaryTwo
  <2> QED BY <2>1, <2>3, <2>4
<1>9. ASSUME m.pgn = 130306 PROVE OK
  <2>1. Mapped(mq, m) = Say("MWD", {}) \/ Mapped(mq, m) = Say("MWV", {})
    BY <1>9, MappedCases DEF WindSays
  <2>2. BurstOK(mq, m, Say("MWD", {})) /\ BurstOK(mq, m, Say("MWV", {}))
    BY <1>1, <1>2, <1>9, OrdinaryOne
  <2> QED BY <2>1, <2>2
<1>10. ASSUME m.pgn = 128267 PROVE OK
  BY <1>10, MappedCases, DepthOK
<1>11. ASSUME m.pgn = 128275 PROVE OK
  BY <1>11, MappedCases, LogOK
<1>12. ASSUME m.pgn = 130314 PROVE OK
  BY <1>12, MappedCases, MdaOK
<1>13. ASSUME m.pgn \in AirPgns PROVE OK
  <2>1. Mapped(mq, m) = TemperatureSays(mq, m)
    BY <1>13, MappedCases
  <2>2. CASE m.about = "Outside"
    <3>1. TemperatureSays(mq, m) = When(MdaDue(mq, m), Say("MDA", MdaSays(mq)))
      BY <2>2 DEF TemperatureSays
    <3> QED BY <1>13, <2>1, <2>2, <3>1, MdaOK
  <2>3. CASE m.about # "Outside"
    <3>1. TemperatureSays(mq, m) = Say("MTW", {}) \/ TemperatureSays(mq, m) = <<>>
      BY <2>3 DEF TemperatureSays
    <3>2. Ordinary(mq, m)
      BY <1>13, <2>3 DEF Ordinary, LeastSpeaks, MostSpeaks, AirSpeaks, AirPgns
    <3>3. BurstOK(mq, m, Say("MTW", {})) /\ BurstOK(mq, m, <<>>)
      BY <3>2, OrdinaryOne, NoneOK
    <3> QED BY <2>1, <3>1, <3>3
  <2> QED BY <2>2, <2>3
<1>14. ASSUME m.pgn \notin PlainPgns \cup AirPgns \cup Own PROVE OK
  <2>1. Mapped(mq, m) = <<>>
    BY <1>14, MappedCases
  <2> HIDE DEF Own
  <2>2. Ordinary(mq, m)
    BY <1>1, <1>2, <1>14
  <2> QED BY <2>1, <2>2, NoneOK
<1> HIDE DEF OK
<1>15. ASSUME m.pgn \in Own PROVE OK
  BY <1>4, <1>5, <1>6, <1>7, <1>8, <1>9, <1>10, <1>11, <1>12, <1>15
<1> HIDE DEF Own
<1>16. OK
  BY <1>3, <1>13, <1>14, <1>15
<1> QED BY <1>16 DEF OK


(* Of a burst, what passes is written and nothing else.                    *)
LEMMA WrittenSpec ==
    ASSUME NEW burst, IsSeq(burst), NEW pgn
    PROVE  LET w == Written(out, thr, pgn, burst)
           IN /\ IsSeq(w)
              /\ \A k \in 1..Len(w) : \E i \in 1..Len(burst) :
                    w[k] = burst[i] /\ Passes(out, thr, pgn, burst[i])
              /\ \A i \in 1..Len(burst) : Passes(out, thr, pgn, burst[i])
                    => \E k \in 1..Len(w) : w[k] = burst[i]
<1> DEFINE S == {burst[i] : i \in 1..Len(burst)}
           I == {i \in 1..Len(burst) : Passes(out, thr, pgn, burst[i])}
           w == Written(out, thr, pgn, burst)
           n == Cardinality(I)
<1>0. \A i \in 1..Len(burst) : i \in I <=> Passes(out, thr, pgn, burst[i])
  OBVIOUS
<1>1. I \in SUBSET (1..Len(burst)) /\ w = Selected(burst, I)
  <2>1. DOMAIN burst = 1..Len(burst)
    BY DEF IsSeq
  <2> QED BY <2>1, Zenon DEF Written
<1>2. burst \in Seq(S)
  BY DEF IsSeq
<1> HIDE DEF S, I, w
<1>3. w \in Seq(S) /\ Len(w) = n /\ n \in Nat /\ IsSeq(w)
  <2>1. w \in Seq(S) /\ Len(w) = n /\ n \in Nat
    BY <1>1, <1>2, SelectedSpec
  <2> QED BY <2>1 DEF IsSeq
<1>4. PICK f \in [1..n -> I] :
         /\ \A k \in 1..n : w[k] = burst[f[k]]
         /\ \A i \in I : \E k \in 1..n : f[k] = i
  BY <1>1, <1>2, SelectedSpec
<1> HIDE DEF n
<1>5. \A k \in 1..n : f[k] \in 1..Len(burst) /\ f[k] \in I
  BY <1>1, <1>4
<1>6. ASSUME NEW k \in 1..n
      PROVE  \E i \in 1..Len(burst) : w[k] = burst[i] /\ Passes(out, thr, pgn, burst[i])
  BY <1>0, <1>4, <1>5
<1>7. ASSUME NEW i \in 1..Len(burst), Passes(out, thr, pgn, burst[i])
      PROVE  \E k \in 1..n : w[k] = burst[i]
  BY <1>0, <1>4, <1>7
<1> QED BY <1>3, <1>6, <1>7 DEF w

(* What is written for a message that is converted.                        *)
LEMMA ConvertedSpec ==
    ASSUME NEW m \in Message, Converted(m)
    PROVE  /\ IsSeq(written') /\ DOMAIN written' = 1..Len(written')
           /\ \A k \in 1..Len(written') : /\ RightlySaid(mp', m, written'[k])
                                          /\ Passes(out, thr, m.pgn, written'[k])
           /\ LeastSpeaks(mp', m) /\ Free(m.pgn, "DPT")
                => \E k \in 1..Len(written') : written'[k] = DepthSentence(mp', m)
           /\ MostSpeaks(mp', m) /\ Free(m.pgn, "VLW")
                => \E k \in 1..Len(written') : written'[k] = LogSentence(mp', m)
           /\ AirSpeaks(mp', m) /\ Free(m.pgn, "MDA")
                => \E k \in 1..Len(written') : written'[k].type = "MDA"
<1> DEFINE burst == Mapped(mp', m)
           n == Len(burst)
<1>1. /\ IsSeq(burst) /\ \A i \in 1..n : RightlySaid(mp', m, burst[i])
      /\ LeastSpeaks(mp', m) => \E i \in 1..n : burst[i] = DepthSentence(mp', m)
      /\ MostSpeaks(mp', m) => \E i \in 1..n : burst[i] = LogSentence(mp', m)
      /\ AirSpeaks(mp', m) => \E i \in 1..n : burst[i].type = "MDA"
  BY MappedSpec DEF BurstOK, NotMissing
<1>2. written' = Written(out, thr, m.pgn, burst)
  BY DEF Converted
<1> HIDE DEF burst
<1>3. /\ IsSeq(written')
      /\ \A k \in 1..Len(written') : \E i \in 1..n :
            written'[k] = burst[i] /\ Passes(out, thr, m.pgn, burst[i])
      /\ \A i \in 1..n : Passes(out, thr, m.pgn, burst[i])
            => \E k \in 1..Len(written') : written'[k] = burst[i]
  <2> DEFINE w == Written(out, thr, m.pgn, burst)
  <2>1. /\ IsSeq(w)
        /\ \A k \in 1..Len(w) : \E i \in 1..Len(burst) :
              w[k] = burst[i] /\ Passes(out, thr, m.pgn, burst[i])
        /\ \A i \in 1..Len(burst) : Passes(out, thr, m.pgn, burst[i])
              => \E k \in 1..Len(w) : w[k] = burst[i]
    BY <1>1, WrittenSpec
  <2>2. written' = w
    BY <1>2
  <2> HIDE DEF w
  <2> QED BY <2>1, <2>2
<1> HIDE DEF n
<1>4. \A i \in 1..n : Free(m.pgn, burst[i].type) => Passes(out, thr, m.pgn, burst[i])
  BY DEF Free, Passes, GateOpen
<1>5. DOMAIN written' = 1..Len(written')
  BY <1>3 DEF IsSeq
<1>6. /\ DepthSentence(mp', m).type = "DPT" /\ LogSentence(mp', m).type = "VLW"
  BY DEF DepthSentence, LogSentence
<1>7. \A k \in 1..Len(written') : /\ RightlySaid(mp', m, written'[k])
                                  /\ Passes(out, thr, m.pgn, written'[k])
  BY <1>1, <1>3
<1>8. ASSUME LeastSpeaks(mp', m), Free(m.pgn, "DPT")
      PROVE  \E k \in 1..Len(written') : written'[k] = DepthSentence(mp', m)
  BY <1>1, <1>3, <1>4, <1>6, <1>8
<1>9. ASSUME MostSpeaks(mp', m), Free(m.pgn, "VLW")
      PROVE  \E k \in 1..Len(written') : written'[k] = LogSentence(mp', m)
  BY <1>1, <1>3, <1>4, <1>6, <1>9
<1>10. ASSUME AirSpeaks(mp', m), Free(m.pgn, "MDA")
       PROVE  \E k \in 1..Len(written') : written'[k].type = "MDA"
  BY <1>1, <1>3, <1>4, <1>10
<1> QED BY <1>3, <1>5, <1>7, <1>8, <1>9, <1>10

LEMMA WithheldSpec ==
    ASSUME NEW m, Withheld(m)
    PROVE  m.pgn \in out.no0183 /\ written' = <<>> /\ mp' = mp /\ \A t : ~ WrittenNow(t)
BY DEF Withheld, WrittenNow

-----------------------------------------------------------------------------
(* However the configuration is reloaded, two messages that write a        *)
(* limited type are an interval apart (daemon.c: main, thr_last, which a   *)
(* reload leaves alone).                                                   *)
THEOREM LimitsKept == Spec => BurstsApart
<1>1. ASSUME SInv, NEW m \in boat.messages, Line(m), NEW t \in Types, WrittenNow(t),
             out.rate[t] > 0
      PROVE  quiet[t] >= out.rate[t]
  <2>1. m \in Message
    BY <1>1, MessageSpec DEF SInv
  <2>2. CASE Converted(m)
    <3>1. PICK k \in 1..Len(written') : written'[k].type = t /\ Passes(out, thr, m.pgn, written'[k])
      BY <1>1, <2>1, <2>2, ConvertedSpec DEF WrittenNow
    <3>2. Rate(out, t) = 0 \/ thr[t] >= Rate(out, t)
      BY <3>1 DEF Passes, GateOpen
    <3>3. Rate(out, t) = out.rate[t] /\ out.rate[t] # 0
      BY <1>1 DEF Rate
    <3> QED BY <1>1, <3>2, <3>3 DEF SInv
  <2>3. CASE Withheld(m)
    BY <1>1, <2>3, WithheldSpec
  <2> QED BY <1>1, <2>2, <2>3 DEF Line
<1>2. ASSUME Tick \/ Reload PROVE \A t : ~ WrittenNow(t)
  BY <1>2 DEF Tick, Reload, WrittenNow
<1>3. SInv /\ [Next]_vars
         => (UNCHANGED vars
             \/ \A t \in Types : (WrittenNow(t) /\ out.rate[t] > 0) => quiet[t] >= out.rate[t])
  BY <1>1, <1>2 DEF Next
<1> QED BY <1>3, InitSInv, NextSInv, PTL DEF Spec, BurstsApart

(* The pages of a GSV are alike, so that they pass or fall together.       *)
THEOREM ViewsWhole == Spec => PagesWhole
<1>1. ASSUME SInv, NEW m \in boat.messages, m.pgn = 129540, Line(m)
      PROVE  Len(written') \in {0, Pages(m.sats)}
  <2> DEFINE page == [type |-> "GSV", says |-> {}]
             n == Pages(m.sats)
             burst == [i \in 1..n |-> page]
             I == {i \in DOMAIN burst : Passes(out, thr, m.pgn, burst[i])}
  <2>1. m \in Message /\ n \in Nat
    BY <1>1, MessageSpec, PagesNat DEF SInv, Message
  <2>2. CASE Withheld(m)
    BY <2>2, WithheldSpec
  <2>3. CASE Converted(m)
    <3>1. Mapped(mp', m) = burst
      BY <1>1, <2>1, MappedCases DEF ViewSays
    <3>2. written' = Selected(burst, I)
      BY <2>3, <3>1 DEF Converted, Written
    <3>3. I = {} \/ I = 1..n
      BY <2>1
    <3>4. burst \in Seq({page}) /\ Len(burst) = n /\ I \in SUBSET (1..n)
      BY <2>1
    <3> HIDE DEF n, burst, I
    <3>5. Len(written') = Cardinality(I)
      BY <3>2, <3>4, SelectedSpec
    <3>6. Cardinality({}) = 0 /\ Cardinality(1..n) = n
      <4>1. n \in Int /\ 1 \in Int /\ (1 > n => n = 0) /\ n - 1 + 1 = n
        BY <2>1
      <4> QED BY <4>1, FS_EmptySet, FS_Interval
    <3> QED BY <3>3, <3>5, <3>6 DEF n
  <2> QED BY <1>1, <2>2, <2>3 DEF Line
<1>2. SInv /\ [Next]_vars
         => \A m \in boat.messages :
               (m.pgn = 129540 /\ Line(m)) => Len(written') \in {0, Pages(m.sats)}
  BY <1>1
<1> QED BY <1>2, InitSInv, NextSInv, PTL DEF Spec, PagesWhole

-----------------------------------------------------------------------------
(* What an MDA or an RMC says is what the mapper holds, so what was told.  *)
SaysWhatWasTold ==
    /\ \A p \in MdaSays(mp) \cup RmcSays(mp) :
          said[<<p[1], 0>>].age <= Window(<<p[1], 0>>) /\ said[<<p[1], 0>>].val = p[2]
    /\ \A w \in {"press", "air"} :
          said[<<w, 0>>].age <= Window(<<w, 0>>)
             => <<w, said[<<w, 0>>].val>> \in MdaSays(mp)

LEMMA SaysTold == SInv => SaysWhatWasTold
<1> SUFFICES ASSUME SInv PROVE SaysWhatWasTold
  OBVIOUS
<1>1. /\ mp.press = said[<<"press", 0>>] /\ mp.air = said[<<"air", 0>>]
      /\ mp.var = said[<<"var", 0>>]
  BY DEF SInv, Remembers
<1>2. ASSUME NEW p \in MdaSays(mp)
      PROVE  said[<<p[1], 0>>].age <= Window(<<p[1], 0>>) /\ said[<<p[1], 0>>].val = p[2]
  <2>1. CASE mp.press.age <= MdaFresh /\ p = <<"press", mp.press.val>>
    BY <1>1, <2>1, QuantitiesAre
  <2>2. CASE mp.air.age <= MdaFresh /\ p = <<"air", mp.air.val>>
    BY <1>1, <2>2, QuantitiesAre
  <2> QED BY <2>1, <2>2 DEF MdaSays, Part
<1>3. ASSUME NEW p \in RmcSays(mp)
      PROVE  said[<<p[1], 0>>].age <= Window(<<p[1], 0>>) /\ said[<<p[1], 0>>].val = p[2]
  <2>1. CASE mp.var.age <= RmcFresh /\ p = <<"var", mp.var.val>>
    BY <1>1, <2>1, QuantitiesAre
  <2>2. CASE mp.sog.age <= RmcFresh /\ p \in mp.sog.says
    <3>1. p[1] \in {"sog", "cog"}
      BY <2>2 DEF SInv, MapperState
    <3>2. said[<<p[1], 0>>] = [age |-> mp.sog.age, val |-> p[2]]
      BY <2>2 DEF SInv, Remembers
    <3>3. said[<<p[1], 0>>].age = mp.sog.age /\ said[<<p[1], 0>>].val = p[2]
      BY <3>2
    <3>4. Window(<<p[1], 0>>) = RmcFresh
      BY <3>1, QuantitiesAre
    <3> QED BY <2>2, <3>3, <3>4
  <2> QED BY <2>1, <2>2 DEF RmcSays, Part
<1>4. ASSUME said[<<"press", 0>>].age <= Window(<<"press", 0>>)
      PROVE  <<"press", said[<<"press", 0>>].val>> \in MdaSays(mp)
  <2>1. mp.press.age <= MdaFresh
    BY <1>1, <1>4, QuantitiesAre
  <2> QED BY <1>1, <2>1 DEF MdaSays, Part
<1>5. ASSUME said[<<"air", 0>>].age <= Window(<<"air", 0>>)
      PROVE  <<"air", said[<<"air", 0>>].val>> \in MdaSays(mp)
  <2>1. mp.air.age <= MdaFresh
    BY <1>1, <1>5, QuantitiesAre
  <2> QED BY <1>1, <2>1 DEF MdaSays, Part
<1> QED BY <1>2, <1>3, <1>4, <1>5 DEF SaysWhatWasTold

(* What a sentence borrows from another PGN is the last it told, in its    *)
(* window and since the reload, and an MDA leaves out neither part that is *)
(* fresh (mapper.c: map_mda, RMC of 129029).                               *)
THEOREM BorrowsFresh == Spec => []CarriesFresh
<1>1. Init => CarriesFresh
  BY DEF Init, CarriesFresh
<1>2. ASSUME SInv, SInv', CarriesFresh, [Next]_vars PROVE CarriesFresh'
  <2>1. ASSUME NEW m \in boat.messages, Line(m) PROVE CarriesFresh'
    <3>1. CASE Withheld(m)
      BY <3>1, WithheldSpec DEF CarriesFresh
    <3>2. CASE Converted(m)
      <4>1. /\ DOMAIN written' = 1..Len(written')
            /\ \A k \in 1..Len(written') : RightlySaid(mp', m, written'[k])
        BY <1>2, <3>2, MessageSpec, ConvertedSpec DEF SInv
      <4>2. ASSUME NEW k \in 1..Len(written')
            PROVE  /\ written'[k].type = "MDA" => written'[k].says = MdaSays(mp')
                   /\ written'[k].type = "RMC" => written'[k].says = RmcSays(mp')
        BY <4>1 DEF RightlySaid
      <4>3. SaysWhatWasTold'
        BY <1>2, SaysTold, PTL
      <4> QED BY <4>1, <4>2, <4>3 DEF SaysWhatWasTold, CarriesFresh, Fresh, Window
    <3> QED BY <2>1, <3>1, <3>2 DEF Line
  <2>2. CASE Tick \/ Reload
    BY <2>2 DEF Tick, Reload, CarriesFresh
  <2>3. CASE UNCHANGED vars
    BY <1>2, <2>3 DEF vars, code, history, CarriesFresh, Fresh, Window
  <2> QED BY <1>2, <2>1, <2>2, <2>3 DEF Next
<1> QED BY <1>1, <1>2, InitSInv, NextSInv, PTL DEF Spec

-----------------------------------------------------------------------------
(* The second that brings the air temperature brings it of the air.        *)
AirIsTold ==
    \A b \in Boats : 130316 \in b.steady =>
       \A m \in b.messages : m.pgn = 130316 => "temp" \in m.has /\ m.about = "Outside"

AirIsSteady == 130316 \in boat.steady /\ Free(130316, "MDA") /\ Free(130314, "MDA")

(* A pressure that is fresh was said when it came; the temperature of a    *)
(* second is said with it, or finds such a pressure.                       *)
MdaInv ==
    AirIsSteady =>
       /\ mdaQuiet \in Nat /\ mdaQuiet <= MdaFresh + 1
       /\ 130316 \notin due => mdaQuiet <= MdaFresh
       /\ mp.press.age <= MdaFresh => mdaQuiet <= mp.press.age

LEMMA MdaNotEmpty ==
    ASSUME NEW mq, mq.press.age <= MdaFresh \/ mq.air.age <= MdaFresh
    PROVE  MdaSays(mq) # {}
<1>1. mq.press.age <= MdaFresh => <<"press", mq.press.val>> \in MdaSays(mq)
  BY DEF MdaSays, Part
<1>2. mq.air.age <= MdaFresh => <<"air", mq.air.val>> \in MdaSays(mq)
  BY DEF MdaSays, Part
<1> QED BY <1>1, <1>2

LEMMA LineMdaInv ==
    ASSUME AirIsTold, SInv, MdaInv, NEW m \in boat.messages, Line(m) PROVE MdaInv'
<1>1. /\ out' = out /\ boat' = boat /\ due' = due \ {m.pgn} /\ boat \in Boats
      /\ mdaQuiet' = IF WrittenNow("MDA") THEN 0 ELSE mdaQuiet
      /\ mp \in MapperState /\ m \in Message
  BY MessageSpec DEF Line, SInv
<1>2. AirIsSteady' => AirIsSteady
  BY <1>1 DEF AirIsSteady, Free
<1> SUFFICES ASSUME AirIsSteady
             PROVE  /\ mdaQuiet' \in Nat /\ mdaQuiet' <= MdaFresh + 1
                    /\ 130316 \notin due' => mdaQuiet' <= MdaFresh
                    /\ mp'.press.age <= MdaFresh => mdaQuiet' <= mp'.press.age
  BY <1>2 DEF MdaInv
<1>3. /\ mdaQuiet \in Nat /\ mdaQuiet <= MdaFresh + 1
      /\ 130316 \notin due => mdaQuiet <= MdaFresh
      /\ mp.press.age <= MdaFresh => mdaQuiet <= mp.press.age
  BY DEF MdaInv
<1>4. SInv' /\ mp'.press.age \in Nat
  <2>1. SInv'
    BY LineSInv
  <2> QED BY <2>1 DEF SInv, MapperState, Reading
<1>5. CASE WrittenNow("MDA")
  BY <1>1, <1>4, <1>5, MapperNumbers
<1>6. CASE ~ WrittenNow("MDA") /\ Withheld(m)
  <2>1. m.pgn # 130316 /\ mp' = mp
    BY <1>6, WithheldSpec DEF AirIsSteady, Free
  <2> QED BY <1>1, <1>3, <1>6, <2>1
<1>7. CASE ~ WrittenNow("MDA") /\ Converted(m)
  <2>1. mdaQuiet' = mdaQuiet /\ m.pgn \in Nat
    BY <1>1, <1>7 DEF Message
  <2>2. ~ (AirSpeaks(mp', m) /\ Free(m.pgn, "MDA"))
    BY <1>1, <1>7, ConvertedSpec DEF WrittenNow
  <2>3. /\ mp'.press = IF "press" \in m.has THEN [age |-> 0, val |-> m.val] ELSE mp.press
        /\ mp'.air = IF "temp" \in m.has /\ m.about = "Outside"
                     THEN [age |-> 0, val |-> m.val] ELSE mp.air
    BY <1>1, <1>7, NotedSpec DEF Converted
  <2>4. "press" \notin m.has
    <3> SUFFICES ASSUME "press" \in m.has PROVE FALSE
      OBVIOUS
    <3>1. m.pgn = 130314 /\ mp'.press.age = 0
      BY <1>1, <2>3, MessageSpec
    <3>2. 0 <= MdaFresh
      BY MapperNumbers
    <3>3. MdaSays(mp') # {}
      BY <3>1, <3>2, MdaNotEmpty
    <3> QED BY <2>2, <3>1, <3>3 DEF AirSpeaks, MdaDue, AirIsSteady
  <2>5. m.pgn = 130316 => mp.press.age <= MdaFresh
    <3> SUFFICES ASSUME m.pgn = 130316 PROVE mp.press.age <= MdaFresh
      OBVIOUS
    <3>1. "temp" \in m.has /\ m.about = "Outside" /\ mp'.air.age = 0
      BY <1>1, <2>3 DEF AirIsTold, AirIsSteady
    <3>2. 0 <= MdaFresh
      BY MapperNumbers
    <3>3. MdaSays(mp') # {}
      BY <3>1, <3>2, MdaNotEmpty
    <3>4. ~ MdaDue(mp', m)
      BY <2>2, <3>1 DEF AirSpeaks, AirPgns, AirIsSteady
    <3>5. ~ (mp'.press.age > MdaFresh)
      BY <3>3, <3>4 DEF MdaDue
    <3> QED BY <1>4, <2>3, <2>4, <3>5, MapperNumbers
  <2>6. mp.press.age \in Nat
    BY <1>1 DEF MapperState, Reading
  <2> QED BY <1>1, <1>3, <2>1, <2>3, <2>4, <2>5, <2>6, MapperNumbers
<1> QED BY <1>5, <1>6, <1>7 DEF Line

LEMMA TickMdaInv == ASSUME SInv, MdaInv, Tick PROVE MdaInv'
<1>1. /\ out' = out /\ boat' = boat /\ due = {} /\ due' = boat.steady
      /\ mdaQuiet' = IF mdaQuiet > MdaFresh + 1 THEN mdaQuiet ELSE mdaQuiet + 1
      /\ mp \in MapperState /\ mp'.press = Older(mp.press, MdaFresh)
  BY DEF Tick, SInv, Aged
<1>2. AirIsSteady' => AirIsSteady
  BY <1>1 DEF AirIsSteady, Free
<1>3. AirIsSteady => /\ mdaQuiet \in Nat /\ mdaQuiet <= MdaFresh /\ 130316 \in due'
                     /\ mp.press.age <= MdaFresh => mdaQuiet <= mp.press.age
  BY <1>1 DEF MdaInv, AirIsSteady
<1>4. /\ mp.press.age \in Nat
      /\ mp'.press.age = IF mp.press.age < MdaFresh THEN mp.press.age + 1 ELSE MdaFresh + 1
  BY <1>1 DEF MapperState, Reading, Older, Unseen
<1> QED BY <1>1, <1>2, <1>3, <1>4, MapperNumbers DEF MdaInv

LEMMA NextMdaInv ==
    ASSUME AirIsTold PROVE SInv /\ MdaInv /\ [Next]_vars => MdaInv'
<1> SUFFICES ASSUME SInv, MdaInv, [Next]_vars PROVE MdaInv'
  OBVIOUS
<1>1. ASSUME NEW m \in boat.messages, Line(m) PROVE MdaInv'
  BY <1>1, LineMdaInv
<1>2. CASE Reload
  <2>1. mdaQuiet' = 0 /\ mp'.press.age = MdaFresh + 1
    BY <1>2, MapperNumbers DEF Reload, MapperInit, Unseen
  <2> QED BY <2>1, MapperNumbers DEF MdaInv
<1>3. CASE UNCHANGED vars
  BY <1>3 DEF vars, code, history, MdaInv, AirIsSteady, Free
<1> QED BY <1>1, <1>2, <1>3, TickMdaInv DEF Next

(* While the air temperature is told every second, an MDA is written at    *)
(* least once in the time a pressure stays fresh (mapper.c: map_mda: the   *)
(* temperature takes over when the pressure is too old to set the pace).   *)
THEOREM MdaGoesOn == ASSUME AirIsTold PROVE Spec => []MdaKept
<1>1. Init => MdaInv
  <2> SUFFICES ASSUME Init PROVE MdaInv
    OBVIOUS
  <2>1. /\ mdaQuiet = 0 /\ mp.press.age = MdaFresh + 1
    BY DEF Init, MapperInit, Unseen
  <2> QED BY <2>1, MapperNumbers DEF MdaInv
<1>2. MdaInv => MdaKept
  BY DEF MdaInv, MdaKept, AirIsSteady
<1> QED BY <1>1, <1>2, InitSInv, NextSInv, NextMdaInv, PTL DEF Spec

-----------------------------------------------------------------------------
(* What the consumer was told of depth and log.                            *)
ShownType == shown["DPT"] \in SUBSET Nat /\ shown["VLW"] \in SUBSET Nat

LEMMA LineShownType ==
    ASSUME SInv, ShownType, NEW m \in boat.messages, Line(m) PROVE ShownType'
<1>1. ASSUME NEW t \in {"DPT", "VLW"}, NEW i \in DOMAIN written', written'[i].type = t,
             NEW p \in written'[i].says
      PROVE  p[2] \in Nat
  <2>1. m \in Message
    BY MessageSpec DEF SInv
  <2>2. CASE Withheld(m)
    BY <2>2, WithheldSpec
  <2>3. CASE Converted(m)
    <3>1. RightlySaid(mp', m, written'[i])
      BY <2>1, <2>3, ConvertedSpec
    <3>2. \A s \in Slots : mp'.depth[s].val \in Nat /\ mp'.log[s].val \in Nat
      <4>1. SInv'
        BY LineSInv
      <4> QED BY <4>1 DEF SInv, MapperState, Reading
    <3>3. p = <<"depth", mp'.depth[m.slot].val>> \/ p = <<"log", mp'.log[m.slot].val>>
      BY <1>1, <3>1 DEF RightlySaid, DepthSentence, LogSentence
    <3> QED BY <2>1, <3>2, <3>3 DEF Message
  <2> QED BY <2>2, <2>3 DEF Line
<1>2. ASSUME NEW t \in {"DPT", "VLW"} PROVE SaysNow(t) \in SUBSET Nat
  BY <1>1 DEF SaysNow
<1>3. ASSUME NEW t \in {"DPT", "VLW"}
      PROVE  shown'[t] = IF WrittenNow(t) THEN SaysNow(t) ELSE shown[t]
  BY DEF Line
<1> QED BY <1>2, <1>3 DEF ShownType

LEMMA LineSensed ==
    ASSUME SInv, NEW m \in boat.messages, Converted(m)
    PROVE  \A s \in Slots :
              /\ ~ ("depth" \in m.has /\ s = m.slot) => mp'.depth[s] = mp.depth[s]
              /\ ~ ("log" \in m.has /\ s = m.slot) => mp'.log[s] = mp.log[s]
<1> DEFINE new == [age |-> 0, val |-> m.val]
<1>1. mp' = Noted(mp, m) /\ boat \in Boats /\ mp \in MapperState
  BY DEF Converted, SInv
<1>2. /\ mp' \in MapperState
      /\ \A s \in Slots :
            /\ mp'.depth[s] = IF "depth" \in m.has /\ s = m.slot THEN new ELSE mp.depth[s]
            /\ mp'.log[s] = IF "log" \in m.has /\ s = m.slot THEN new ELSE mp.log[s]
      /\ mp'.press = IF "press" \in m.has THEN new ELSE mp.press
      /\ mp'.air = IF "temp" \in m.has /\ m.about = "Outside" THEN new ELSE mp.air
      /\ mp'.var = IF "var" \in m.has THEN new ELSE mp.var
      /\ mp'.sog = IF CourseOf(m) # {} THEN [age |-> 0, says |-> CourseOf(m)] ELSE mp.sog
  BY <1>1, NotedSpec
<1> HIDE DEF new
<1> QED BY <1>2

LeastHeld ==
    Free(128267, "DPT") =>
       \A s \in Slots : mp.depth[s].age <= DepthTimeout =>
          \E v \in shown["DPT"] : v <= mp.depth[s].val

LEMMA LineLeastHeld ==
    ASSUME SInv, ShownType, LeastHeld, NEW m \in boat.messages, Line(m) PROVE LeastHeld'
<1>1. /\ out' = out /\ boat \in Boats /\ m \in Message /\ m.slot \in Slots
      /\ shown'["DPT"] = IF WrittenNow("DPT") THEN SaysNow("DPT") ELSE shown["DPT"]
      /\ shown["DPT"] \in SUBSET Nat
  BY MessageSpec DEF Line, SInv, ShownType, Message
<1>2. mp' \in MapperState /\ mp \in MapperState
  <2>1. SInv'
    BY LineSInv
  <2> QED BY <2>1 DEF SInv
<1>3. \A t \in Slots : mp'.depth[t].val \in Nat /\ mp.depth[t].val \in Nat
  BY <1>2 DEF MapperState, Reading
<1> SUFFICES ASSUME Free(128267, "DPT"), NEW s \in Slots, mp'.depth[s].age <= DepthTimeout
             PROVE  \E v \in shown'["DPT"] : v <= mp'.depth[s].val
  BY <1>1 DEF LeastHeld, Free
<1>4. ASSUME NEW t \in Slots, mp.depth[t].age <= DepthTimeout
      PROVE  \E v \in shown["DPT"] : v <= mp.depth[t].val
  BY <1>4 DEF LeastHeld
<1>5. CASE Withheld(m)
  BY <1>1, <1>4, <1>5, WithheldSpec
<1>6. CASE Converted(m)
  <2> DEFINE v == mp'.depth[m.slot].val
             x == mp'.depth[s].val
  <2>1. v \in Nat /\ x \in Nat
    BY <1>1, <1>3
  <2>2. \A t \in Slots : ~ ("depth" \in m.has /\ t = m.slot) => mp'.depth[t] = mp.depth[t]
    BY <1>6, LineSensed
  <2>3. CASE WrittenNow("DPT")
    <3>1. /\ DOMAIN written' = 1..Len(written')
          /\ \A k \in 1..Len(written') : RightlySaid(mp', m, written'[k])
      BY <1>1, <1>6, ConvertedSpec
    <3>2. PICK k \in DOMAIN written' : written'[k].type = "DPT"
      BY <2>3 DEF WrittenNow
    <3>3. LeastSpeaks(mp', m) /\ written'[k].says = {<<"depth", v>>}
      BY <3>1, <3>2 DEF RightlySaid, DepthSentence
    <3>4. v \in SaysNow("DPT")
      <4>1. <<"depth", v>> \in written'[k].says
        BY <3>3
      <4>2. v \in {p[2] : p \in written'[k].says}
        BY <4>1
      <4> QED BY <3>2, <4>2 DEF SaysNow
    <3>5. x > v \/ x = v
      BY <3>3 DEF LeastSpeaks, HoldsLeast
    <3>6. shown'["DPT"] = SaysNow("DPT")
      BY <1>1, <2>3
    <3> HIDE DEF v, x
    <3>7. v <= x
      BY <2>1, <3>5
    <3> QED BY <3>4, <3>6, <3>7 DEF x
  <2>4. CASE ~ WrittenNow("DPT")
    <3>1. shown'["DPT"] = shown["DPT"]
      BY <1>1, <2>4
    <3>2. ~ (LeastSpeaks(mp', m) /\ Free(m.pgn, "DPT"))
      <4>1. DepthSentence(mp', m).type = "DPT"
        BY DEF DepthSentence
      <4> QED BY <1>1, <1>6, <2>4, <4>1, ConvertedSpec DEF WrittenNow
    <3>3. CASE "depth" \in m.has /\ s = m.slot
      <4>1. m.pgn = 128267 /\ ~ HoldsLeast(mp'.depth, m.slot)
        BY <1>1, <3>2, <3>3, MessageSpec DEF LeastSpeaks
      <4>2. PICK t \in Slots :
               /\ mp'.depth[t].age <= DepthTimeout
               /\ ~ (mp'.depth[t].val > v \/ (mp'.depth[t].val = v /\ m.slot <= t))
        BY <4>1 DEF HoldsLeast
      <4> DEFINE y == mp'.depth[t].val
      <4>3. y \in Nat /\ m.slot <= m.slot
        BY <1>1, <1>3 DEF Slots
      <4>4. t # m.slot
        BY <4>2, <4>3
      <4>5. mp'.depth[t] = mp.depth[t]
        BY <2>2, <4>4
      <4>6. PICK w \in shown["DPT"] : w <= y
        BY <1>4, <4>2, <4>5
      <4>7. ~ (y > v) /\ w \in Nat
        BY <1>1, <4>2
      <4> HIDE DEF v, y
      <4>8. w <= v
        BY <2>1, <4>3, <4>6, <4>7
      <4> QED BY <3>1, <3>3, <4>8 DEF v
    <3>4. CASE ~ ("depth" \in m.has /\ s = m.slot)
      BY <1>4, <2>2, <3>1, <3>4
    <3> QED BY <3>3, <3>4
  <2> QED BY <2>3, <2>4
<1> QED BY <1>5, <1>6 DEF Line

MostHeld ==
    Free(128275, "VLW") =>
       \A s \in Slots : mp.log[s].age <= DepthTimeout =>
          \E v \in shown["VLW"] : v >= mp.log[s].val

LEMMA LineMostHeld ==
    ASSUME SInv, ShownType, MostHeld, NEW m \in boat.messages, Line(m) PROVE MostHeld'
<1>1. /\ out' = out /\ boat \in Boats /\ m \in Message /\ m.slot \in Slots
      /\ shown'["VLW"] = IF WrittenNow("VLW") THEN SaysNow("VLW") ELSE shown["VLW"]
      /\ shown["VLW"] \in SUBSET Nat
  BY MessageSpec DEF Line, SInv, ShownType, Message
<1>2. mp' \in MapperState /\ mp \in MapperState
  <2>1. SInv'
    BY LineSInv
  <2> QED BY <2>1 DEF SInv
<1>3. \A t \in Slots : mp'.log[t].val \in Nat /\ mp.log[t].val \in Nat
  BY <1>2 DEF MapperState, Reading
<1> SUFFICES ASSUME Free(128275, "VLW"), NEW s \in Slots, mp'.log[s].age <= DepthTimeout
             PROVE  \E v \in shown'["VLW"] : v >= mp'.log[s].val
  BY <1>1 DEF MostHeld, Free
<1>4. ASSUME NEW t \in Slots, mp.log[t].age <= DepthTimeout
      PROVE  \E v \in shown["VLW"] : v >= mp.log[t].val
  BY <1>4 DEF MostHeld
<1>5. CASE Withheld(m)
  BY <1>1, <1>4, <1>5, WithheldSpec
<1>6. CASE Converted(m)
  <2> DEFINE v == mp'.log[m.slot].val
             x == mp'.log[s].val
  <2>1. v \in Nat /\ x \in Nat
    BY <1>1, <1>3
  <2>2. \A t \in Slots : ~ ("log" \in m.has /\ t = m.slot) => mp'.log[t] = mp.log[t]
    BY <1>6, LineSensed
  <2>3. CASE WrittenNow("VLW")
    <3>1. /\ DOMAIN written' = 1..Len(written')
          /\ \A k \in 1..Len(written') : RightlySaid(mp', m, written'[k])
      BY <1>1, <1>6, ConvertedSpec
    <3>2. PICK k \in DOMAIN written' : written'[k].type = "VLW"
      BY <2>3 DEF WrittenNow
    <3>3. MostSpeaks(mp', m) /\ written'[k].says = {<<"log", v>>}
      BY <3>1, <3>2 DEF RightlySaid, LogSentence
    <3>4. v \in SaysNow("VLW")
      <4>1. <<"log", v>> \in written'[k].says
        BY <3>3
      <4>2. v \in {p[2] : p \in written'[k].says}
        BY <4>1
      <4> QED BY <3>2, <4>2 DEF SaysNow
    <3>5. x < v \/ x = v
      BY <3>3 DEF MostSpeaks, HoldsMost
    <3>6. shown'["VLW"] = SaysNow("VLW")
      BY <1>1, <2>3
    <3> HIDE DEF v, x
    <3>7. v >= x
      BY <2>1, <3>5
    <3> QED BY <3>4, <3>6, <3>7 DEF x
  <2>4. CASE ~ WrittenNow("VLW")
    <3>1. shown'["VLW"] = shown["VLW"]
      BY <1>1, <2>4
    <3>2. ~ (MostSpeaks(mp', m) /\ Free(m.pgn, "VLW"))
      <4>1. LogSentence(mp', m).type = "VLW"
        BY DEF LogSentence
      <4> QED BY <1>1, <1>6, <2>4, <4>1, ConvertedSpec DEF WrittenNow
    <3>3. CASE "log" \in m.has /\ s = m.slot
      <4>1. m.pgn = 128275 /\ ~ HoldsMost(mp'.log, m.slot)
        BY <1>1, <3>2, <3>3, MessageSpec DEF MostSpeaks
      <4>2. PICK t \in Slots :
               /\ mp'.log[t].age <= DepthTimeout
               /\ ~ (mp'.log[t].val < v \/ (mp'.log[t].val = v /\ m.slot <= t))
        BY <4>1 DEF HoldsMost
      <4> DEFINE y == mp'.log[t].val
      <4>3. y \in Nat /\ m.slot <= m.slot
        BY <1>1, <1>3 DEF Slots
      <4>4. t # m.slot
        BY <4>2, <4>3
      <4>5. mp'.log[t] = mp.log[t]
        BY <2>2, <4>4
      <4>6. PICK w \in shown["VLW"] : w >= y
        BY <1>4, <4>2, <4>5
      <4>7. ~ (y < v) /\ w \in Nat
        BY <1>1, <4>2
      <4> HIDE DEF v, y
      <4>8. w >= v
        BY <2>1, <4>3, <4>6, <4>7
      <4> QED BY <3>1, <3>3, <4>8 DEF v
    <3>4. CASE ~ ("log" \in m.has /\ s = m.slot)
      BY <1>4, <2>2, <3>1, <3>4
    <3> QED BY <3>3, <3>4
  <2> QED BY <2>3, <2>4
<1> QED BY <1>5, <1>6 DEF Line

ExtremeInv == ShownType /\ LeastHeld /\ MostHeld

LEMMA NextExtremeInv == SInv /\ ExtremeInv /\ [Next]_vars => ExtremeInv'
<1> SUFFICES ASSUME SInv, ExtremeInv, [Next]_vars PROVE ExtremeInv'
  OBVIOUS
<1> USE DEF ExtremeInv
<1>1. ASSUME NEW m \in boat.messages, Line(m) PROVE ExtremeInv'
  BY <1>1, LineShownType, LineLeastHeld, LineMostHeld
<1>2. CASE Tick
  <2>1. shown' = shown /\ out' = out /\ mp' = Aged(mp) /\ mp \in MapperState
    BY <1>2 DEF Tick, SInv
  <2>2. ASSUME NEW r \in Reading, Older(r, DepthTimeout).age <= DepthTimeout
        PROVE  r.age <= DepthTimeout /\ Older(r, DepthTimeout).val = r.val
    BY <2>2, MapperNumbers DEF Older, Unseen, Reading
  <2>3. ASSUME NEW s \in Slots
        PROVE  /\ mp.depth[s] \in Reading /\ mp'.depth[s] = Older(mp.depth[s], DepthTimeout)
               /\ mp.log[s] \in Reading /\ mp'.log[s] = Older(mp.log[s], DepthTimeout)
    BY <2>1 DEF MapperState, Aged
  <2>4. LeastHeld'
    BY <2>1, <2>2, <2>3 DEF LeastHeld, Free
  <2>5. MostHeld'
    BY <2>1, <2>2, <2>3 DEF MostHeld, Free
  <2> QED BY <2>1, <2>4, <2>5 DEF ShownType
<1>3. CASE Reload
  <2>1. /\ shown' = shown
        /\ \A s \in Slots : /\ ~ (mp'.depth[s].age <= DepthTimeout)
                            /\ ~ (mp'.log[s].age <= DepthTimeout)
    BY <1>3, MapperNumbers DEF Reload, MapperInit, Unseen
  <2> QED BY <2>1 DEF ShownType, LeastHeld, MostHeld
<1>4. CASE UNCHANGED vars
  BY <1>4 DEF vars, code, history, ShownType, LeastHeld, MostHeld, Free
<1> QED BY <1>1, <1>2, <1>3, <1>4 DEF Next

(* Of the depths told within the timeout the consumer never misses the     *)
(* least, nor of the logs the greatest, for any number of sensors          *)
(* (mapper.c: map_depth_min, map_log_max).                                 *)
THEOREM ExtremesShown == Spec => []ExtremeShown
<1>1. Init => ExtremeInv
  <2> SUFFICES ASSUME Init PROVE ExtremeInv
    OBVIOUS
  <2>1. /\ shown["DPT"] = {} /\ shown["VLW"] = {}
        /\ \A s \in Slots : /\ ~ (mp.depth[s].age <= DepthTimeout)
                            /\ ~ (mp.log[s].age <= DepthTimeout)
    BY MapperNumbers DEF Init, MapperInit, Unseen
  <2> QED BY <2>1 DEF ExtremeInv, ShownType, LeastHeld, MostHeld
<1>2. SInv /\ ExtremeInv => ExtremeShown
  <2> SUFFICES ASSUME SInv, ExtremeInv PROVE ExtremeShown
    OBVIOUS
  <2>1. \A s \in Slots : /\ mp.depth[s] = said[<<"depth", s>>]
                         /\ mp.log[s] = said[<<"log", s>>]
                         /\ Window(<<"depth", s>>) = DepthTimeout
                         /\ Window(<<"log", s>>) = DepthTimeout
    BY QuantitiesAre DEF SInv, Remembers
  <2>2. ASSUME NEW q \in {"depth"} \X Slots
        PROVE  mp.depth[q[2]] = said[q] /\ Window(q) = DepthTimeout /\ q[2] \in Slots
    <3>1. PICK s \in Slots : q = <<"depth", s>>
      OBVIOUS
    <3> QED BY <2>1, <3>1
  <2>3. ASSUME NEW q \in {"log"} \X Slots
        PROVE  mp.log[q[2]] = said[q] /\ Window(q) = DepthTimeout /\ q[2] \in Slots
    <3>1. PICK s \in Slots : q = <<"log", s>>
      OBVIOUS
    <3> QED BY <2>1, <3>1
  <2>4. LeastShown
    BY <2>2 DEF LeastShown, Fresh, ExtremeInv, LeastHeld
  <2>5. MostShown
    BY <2>3 DEF MostShown, Fresh, ExtremeInv, MostHeld
  <2> QED BY <2>4, <2>5 DEF ExtremeShown
<1> QED BY <1>1, <1>2, InitSInv, NextSInv, NextExtremeInv, PTL DEF Spec

=============================================================================

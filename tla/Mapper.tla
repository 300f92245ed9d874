------------------------------- MODULE Mapper -------------------------------
(***************************************************************************)
(* src/mapper.c: which NMEA 0183 sentences a retained message yields.      *)
(* Most PGNs yield a sentence of their own.  Four sentences say more than  *)
(* the message that triggers them: DPT the least depth of the sensors      *)
(* alive, VLW the greatest log, MDA pressure and air temperature together, *)
(* RMC speed, course and variation taken from two other PGNs.  What those  *)
(* need is kept in mapper_t, with the time it was said.                    *)
(*                                                                         *)
(* A message is one that the arbiter accepts.  It tells its PGN, the place *)
(* of its source in the rule (slot), the fields it has, the word that its  *)
(* reference or its discriminant holds, one value for all its fields, and  *)
(* a number of satellites.  A sentence is its type                        *)
(* and the set of <<quantity, value>> pairs it says, of the quantities     *)
(* above; all other fields are left out.  An age is now minus the time     *)
(* kept, capped just above the window: older ones behave alike, and what   *)
(* was not seen yet is that old.                                           *)
(***************************************************************************)
EXTENDS Naturals, Sequences

CONSTANTS
    MaxSlot,       \* CFG_MAX_PRIO
    DepthTimeout,  \* timeout_ms, for depth and log
    MdaFresh,      \* MAP_MDA_FRESH_MS
    RmcFresh,      \* MAP_RMC_FRESH_MS
    MaxSentences   \* MAP_MAX_SENT

ASSUME MapperAssumption ==
    /\ MaxSlot \in Nat
    /\ DepthTimeout \in Nat
    /\ MdaFresh \in Nat
    /\ RmcFresh \in Nat
    /\ MaxSentences \in Nat \ {0}

Slots == 1..MaxSlot

Unseen(window) == [age |-> window + 1, val |-> 0]

(* mapper_init.                                                            *)
MapperInit ==
    [depth |-> [s \in Slots |-> Unseen(DepthTimeout)],
     log   |-> [s \in Slots |-> Unseen(DepthTimeout)],
     press |-> Unseen(MdaFresh),
     air   |-> Unseen(MdaFresh),
     sog   |-> [age |-> RmcFresh + 1, says |-> {}],
     var   |-> Unseen(RmcFresh)]

-----------------------------------------------------------------------------
(* A tick later.  The value of what is not read any more is dropped.       *)
Older(r, window) ==
    IF r.age < window THEN [r EXCEPT !.age = @ + 1] ELSE Unseen(window)

Aged(mp) ==
    [depth |-> [s \in Slots |-> Older(mp.depth[s], DepthTimeout)],
     log   |-> [s \in Slots |-> Older(mp.log[s], DepthTimeout)],
     press |-> Older(mp.press, MdaFresh),
     air   |-> Older(mp.air, MdaFresh),
     sog   |-> IF mp.sog.age < RmcFresh THEN [mp.sog EXCEPT !.age = @ + 1]
               ELSE MapperInit.sog,
     var   |-> Older(mp.var, RmcFresh)]

-----------------------------------------------------------------------------
(* What the message leaves in mapper_t.  A field it does not have leaves   *)
(* no trace, except that speed and course come and go together.            *)

AirPgns == {130312, 130316}

CourseOf(m) ==
    ((m.has \cap {"sog"}) \cup
     (IF m.about = "Magnetic" THEN {} ELSE m.has \cap {"cog"})) \X {m.val}

Noted(mp, m) ==
    LET said == [age |-> 0, val |-> m.val] IN
    CASE m.pgn = 128267 /\ "depth" \in m.has -> [mp EXCEPT !.depth[m.slot] = said]
      [] m.pgn = 128275 /\ "log" \in m.has -> [mp EXCEPT !.log[m.slot] = said]
      [] m.pgn = 130314 /\ "press" \in m.has -> [mp EXCEPT !.press = said]
      [] m.pgn \in AirPgns /\ m.about = "Outside" /\ "temp" \in m.has ->
            [mp EXCEPT !.air = said]
      [] m.pgn = 127250 /\ "var" \in m.has -> [mp EXCEPT !.var = said]
      [] m.pgn = 129026 /\ CourseOf(m) # {} ->
            [mp EXCEPT !.sog = [age |-> 0, says |-> CourseOf(m)]]
      [] OTHER -> mp

-----------------------------------------------------------------------------
(* The sentences, from mapper_t as Noted leaves it.                        *)

(* The source of the message holds the least depth of those seen lately;   *)
(* of equal ones the first in the rule counts.                             *)
M_HoldsLeast(depth, s) ==
    \A t \in Slots : depth[t].age < DepthTimeout =>
       depth[t].val > depth[s].val \/ (depth[t].val = depth[s].val /\ s <= t)

HoldsLeast(depth, s) ==
    \A t \in Slots : depth[t].age <= DepthTimeout =>
       depth[t].val > depth[s].val \/ (depth[t].val = depth[s].val /\ s <= t)

HoldsMost(log, s) ==
    \A t \in Slots : log[t].age <= DepthTimeout =>
       log[t].val < log[s].val \/ (log[t].val = log[s].val /\ s <= t)

(* The fields of an MDA: pressure and air temperature, each while fresh.   *)
M_Part(what, r, window) == {<<what, r.val>>}

Part(what, r, window) == IF r.age <= window THEN {<<what, r.val>>} ELSE {}

MdaSays(mp) == Part("press", mp.press, MdaFresh) \cup Part("air", mp.air, MdaFresh)

(* Pressure sets the pace of MDA; the temperature only without pressure.   *)
M_MdaDue(mp, m) == MdaSays(mp) # {} /\ m.pgn = 130314

MdaDue(mp, m) ==
    MdaSays(mp) # {} /\ (m.pgn = 130314 \/ mp.press.age > MdaFresh)

RmcSays(mp) ==
    (IF mp.sog.age <= RmcFresh THEN mp.sog.says ELSE {})
        \cup Part("var", mp.var, RmcFresh)

(* The PGNs that always yield one sentence of one type.                    *)
PlainPgns == {129025, 129026, 129539, 127251, 129291, 127245, 128259}

PlainType(pgn) ==
    CASE pgn = 129025 -> "GLL"
      [] pgn = 129026 -> "VTG"
      [] pgn = 129539 -> "GSA"
      [] pgn = 127251 -> "ROT"
      [] pgn = 129291 -> "VDR"
      [] pgn = 127245 -> "RSA"
      [] pgn = 128259 -> "VHW"

Say(type, says) == <<[type |-> type, says |-> says]>>

When(condition, sentences) == IF condition THEN sentences ELSE <<>>

(* Satellites four to a page; pages past MAP_MAX_SENT are not kept (emit).        *)
Pages(sats) == LET n == (sats + 3) \div 4
               IN IF n <= MaxSentences THEN n ELSE MaxSentences

(* 129029: without a time nothing can be said.                             *)
PositionSays(mp, m) ==
    When("time" \in m.has, Say("GGA", {}) \o Say("RMC", RmcSays(mp)))

(* 129540.                                                                 *)
ViewSays(m) == [i \in 1..Pages(m.sats) |-> [type |-> "GSV", says |-> {}]]

(* 127250: magnetic unless it says true.                                   *)
HeadingSays(m) ==
    IF m.about = "True" THEN Say("HDT", {}) ELSE Say("HDG", {}) \o Say("HDM", {})

(* 130306: a direction over the ground or an angle off the bow.            *)
WindSays(m) ==
    IF m.about \in {"North", "Magnetic"} THEN Say("MWD", {}) ELSE Say("MWV", {})

(* 128267, 128275: the holder of the extreme speaks.                       *)
DepthSays(mp, m) ==
    When("depth" \in m.has /\ HoldsLeast(mp.depth, m.slot),
         Say("DPT", {<<"depth", mp.depth[m.slot].val>>}))

LogSays(mp, m) ==
    When("log" \in m.has /\ HoldsMost(mp.log, m.slot),
         Say("VLW", {<<"log", mp.log[m.slot].val>>}))

(* 130312, 130316: of the sea or of the air.                               *)
TemperatureSays(mp, m) ==
    CASE m.about = "Sea" -> Say("MTW", {})
      [] m.about = "Outside" -> When(MdaDue(mp, m), Say("MDA", MdaSays(mp)))
      [] OTHER -> <<>>

Mapped(mp, m) ==
    CASE m.pgn \in PlainPgns -> Say(PlainType(m.pgn), {})
      [] m.pgn = 126992 -> When({"date", "time"} \subseteq m.has, Say("ZDA", {}))
      [] m.pgn = 127257 -> When({"pitch", "roll"} \cap m.has # {}, Say("XDR", {}))
      [] m.pgn = 129029 -> PositionSays(mp, m)
      [] m.pgn = 129540 -> ViewSays(m)
      [] m.pgn = 127250 -> HeadingSays(m)
      [] m.pgn = 130306 -> WindSays(m)
      [] m.pgn = 128267 -> DepthSays(mp, m)
      [] m.pgn = 128275 -> LogSays(mp, m)
      [] m.pgn = 130314 -> When(MdaDue(mp, m), Say("MDA", MdaSays(mp)))
      [] m.pgn \in AirPgns -> TemperatureSays(mp, m)
      [] OTHER -> <<>>

=============================================================================

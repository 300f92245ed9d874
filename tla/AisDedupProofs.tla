---------------------------- MODULE AisDedupProofs ----------------------------
(***************************************************************************)
(* The AIS deduplication hands ships over as Handover promises, for any    *)
(* number of ships, receivers and places in the table, if the rules give   *)
(* the receivers the same order for every AIS PGN.                         *)
(*                                                                         *)
(* Handover speaks of the source passed on last; the code keeps no such    *)
(* thing, only the times at which ships were heard.  What connects them:   *)
(* as long as a source has a voice, it is ahead of every live source of    *)
(* its ship, so that it is passed on again whenever it is heard.           *)
(***************************************************************************)
EXTENDS AisDedup, ScanProofs

Obs == [mmsi : Ships, src : Addrs, age : 0..Expired]

(* Source a is preferred to b.                                             *)
Ahead(p, a, b) ==
    RankOf(p, a) < RankOf(p, b) \/ (RankOf(p, a) = RankOf(p, b) /\ a <= b)

(* The order of the receivers, and that it is the same for every PGN.      *)
FusionSources(c, p) ==
    LET r == ConfigRule(c.rules, p, <<>>) IN
    IF r # NoSlot /\ c.rules[r].pick = "fusion" THEN c.rules[r].sources ELSE <<>>

RankedAlike ==
    \A c \in Configs, p, q \in AisPgns : FusionSources(c, p) = FusionSources(c, q)

Keyed(o, m, a) == o.mmsi = m /\ o.src = a

TableOK(table) ==
    /\ table \in Seq(Obs) /\ Len(table) \in Nat /\ Len(table) <= MaxObs
    /\ \A i \in 1..Len(table) : table[i] \in Obs
    /\ \A i, j \in 1..Len(table) :
          Keyed(table[i], table[j].mmsi, table[j].src) => i = j

AheadOf(m, p) ==
    /\ voice[m].rank = RankOf(p, voice[m].src)
    /\ \A i \in 1..Len(obs) : obs[i].mmsi = m /\ Live(obs[i])
                                 => Ahead(p, voice[m].src, obs[i].src)

VoiceAhead ==
    \A m \in Ships : voice[m] # NoVoice =>
       voice[m].src \in Addrs /\ \A p \in AisPgns : AheadOf(m, p)

AInv ==
    /\ cfg \in Configs
    /\ TableOK(obs)
    /\ voice \in [Ships -> [src : Addrs \cup {None}, rank : Nat]]
    /\ VoiceAhead

LEMMA Numbers ==
    /\ Timeout \in Nat /\ Expired = Timeout + 1 /\ Expired \in Nat
    /\ MaxObs \in Nat \ {0} /\ Addrs \subseteq Nat
    /\ \A o \in Obs : o.age \in Nat /\ o.age <= Expired /\ (Live(o) <=> o.age # Expired)
BY AisDedupAssumption DEF Expired, Obs, Live

-----------------------------------------------------------------------------
(* Ranks.                                                                  *)

LEMMA RuleInRange ==
    ASSUME NEW c \in Configs, NEW p
    PROVE  ConfigRule(c.rules, p, <<>>) # NoSlot
             => /\ ConfigRule(c.rules, p, <<>>) \in 1..Len(c.rules)
                /\ c.rules[ConfigRule(c.rules, p, <<>>)].sources \in Seq(Names)
                /\ Len(c.rules[ConfigRule(c.rules, p, <<>>)].sources) <= MaxPrio
<1> DEFINE A == {i \in 1..Len(c.rules) : /\ c.rules[i].pgn = p
                                         /\ StartsWith(<<>>, c.rules[i].disc)}
           S == {i \in A : \A j \in A : Len(c.rules[i].disc) >= Len(c.rules[j].disc)}
<1>1. /\ c.rules \in Seq(Rule)
      /\ \A i \in 1..Len(c.rules) : Len(c.rules[i].sources) <= MaxPrio
  BY AisDedupAssumption DEF Configuration
<1>2. S \subseteq 1..Len(c.rules) /\ S \in SUBSET (Nat \ {0})
  <2>1. S \subseteq 1..Len(c.rules)
    OBVIOUS
  <2>2. Len(c.rules) \in Nat
    BY <1>1
  <2> HIDE DEF S
  <2> QED BY <2>1, <2>2
<1>3. ConfigRule(c.rules, p, <<>>) = FirstOr0(S)
  BY DEF ConfigRule
<1> HIDE DEF S
<1>4. FirstOr0(S) # NoSlot => FirstOr0(S) \in 1..Len(c.rules)
  BY <1>2, FirstOr0Scan
<1>5. \A i \in 1..Len(c.rules) : c.rules[i].sources \in Seq(Names)
  <2> DEFINE rs == c.rules
  <2>1. rs \in Seq(Rule)
    BY <1>1
  <2> HIDE DEF rs
  <2>2. ASSUME NEW i \in 1..Len(rs) PROVE rs[i].sources \in Seq(Names)
    <3>1. rs[i] \in Rule
      BY <2>1
    <3> QED BY <3>1 DEF Rule
  <2> QED BY <2>2 DEF rs
<1> QED BY <1>1, <1>3, <1>4, <1>5

LEMMA PlaceSpec ==
    ASSUME cfg \in Configs, NEW p, NEW a
    PROVE  /\ PlaceOf(p, a) \in 0..MaxPrio
           /\ PlaceOf(p, a) =
                IF NameOf(a) = None THEN NoSlot
                ELSE FirstOr0({i \in 1..Len(FusionSources(cfg, p)) :
                                 FusionSources(cfg, p)[i] = NameOf(a)})
<1> DEFINE s == FusionSources(cfg, p)
           S == {i \in 1..Len(s) : s[i] = NameOf(a)}
           r == ConfigRule(cfg.rules, p, <<>>)
<1>1. MaxPrio \in Nat
  BY ConfigAssumption
<1>2. s \in Seq(Names) /\ Len(s) \in Nat /\ Len(s) <= MaxPrio
  <2>1. CASE r # NoSlot /\ cfg.rules[r].pick = "fusion"
    BY <2>1, RuleInRange DEF FusionSources
  <2>2. CASE ~ (r # NoSlot /\ cfg.rules[r].pick = "fusion")
    BY <1>1, <2>2 DEF FusionSources
  <2> QED BY <2>1, <2>2
<1>3. PlaceOf(p, a) = IF NameOf(a) = None THEN NoSlot ELSE FirstOr0(S)
  <2>1. CASE FusionRule(p) = NoSlot
    <3>1. s = <<>>
      BY <2>1 DEF FusionRule, FusionSources
    <3>2. S = {}
      <4>1. Len(s) = 0
        BY <3>1
      <4> HIDE DEF s
      <4> QED BY <4>1
    <3> QED BY <2>1, <3>2 DEF PlaceOf, FirstOr0
  <2>2. CASE FusionRule(p) # NoSlot
    <3>1. FusionRule(p) = r /\ s = cfg.rules[r].sources
      BY <2>2 DEF FusionRule, FusionSources
    <3> QED BY <2>2, <3>1 DEF PlaceOf, SlotOfName
  <2> QED BY <2>1, <2>2
<1>4. FirstOr0(S) \in 0..MaxPrio
  <2>1. S \subseteq 1..Len(s)
    OBVIOUS
  <2> HIDE DEF s, S
  <2>2. PICK l \in Nat : l = Len(s) /\ l <= MaxPrio
    BY <1>2
  <2>3. S \subseteq 1..l
    BY <2>1, <2>2, Zenon
  <2>4. S \in SUBSET (Nat \ {0})
    BY <2>2, <2>3
  <2>5. FirstOr0(S) = NoSlot \/ FirstOr0(S) \in S
    BY <2>4, FirstOr0Scan
  <2>6. 1..l \subseteq 0..MaxPrio /\ NoSlot \in 0..MaxPrio
    BY <1>1, <2>2 DEF NoSlot
  <2> QED BY <2>3, <2>5, <2>6, Zenon
<1> QED BY <1>1, <1>3, <1>4 DEF NoSlot

LEMMA RankSpec ==
    ASSUME cfg \in Configs, RankedAlike, NEW p \in AisPgns, NEW q \in AisPgns, NEW a \in Addrs
    PROVE  /\ RankOf(p, a) \in Nat /\ RankOf(p, a) # 0 /\ RankOf(p, a) <= Unranked + a
           /\ RankOf(p, a) = RankOf(q, a)
<1>1. PlaceOf(p, a) \in 0..MaxPrio /\ PlaceOf(q, a) = PlaceOf(p, a)
  BY PlaceSpec DEF RankedAlike
<1>2. MaxPrio \in Nat /\ Unranked \in Nat /\ Unranked > MaxPrio /\ a \in Nat
  BY ConfigAssumption, AisDedupAssumption
<1> QED BY <1>1, <1>2 DEF RankOf, NoSlot

LEMMA RankSame ==
    ASSUME UNCHANGED <<cfg, ident>>
    PROVE  \A p \in AisPgns, a, b \in Addrs :
              RankOf(p, a)' = RankOf(p, a) /\ Ahead(p, a, b)' = Ahead(p, a, b)
<1>1. ASSUME NEW p, NEW a PROVE RankOf(p, a)' = RankOf(p, a)
  BY DEF RankOf, PlaceOf, FusionRule, NameOf
<1> QED BY <1>1 DEF Ahead

(* AheadOf after a step that leaves the ranks alone.                       *)
AheadThen(n, p) ==
    \A v \in Addrs : v = voice[n].src =>
       /\ voice[n].rank = RankOf(p, v)
       /\ \A b \in Addrs, i \in 1..Len(obs) :
             obs[i].mmsi = n /\ obs[i].src = b /\ Live(obs[i]) => Ahead(p, v, b)

AheadsRead ==
    \A n \in Ships, p \in AisPgns :
       voice[n].src \in Addrs => (AheadOf(n, p) <=> AheadThen(n, p))

LEMMA AheadRead == TableOK(obs) => AheadsRead
<1> SUFFICES ASSUME TableOK(obs), NEW n \in Ships, NEW p \in AisPgns, voice[n].src \in Addrs
             PROVE  AheadOf(n, p) <=> AheadThen(n, p)
  BY DEF AheadsRead
<1>1. \A i \in 1..Len(obs) : obs[i].src \in Addrs
  BY DEF TableOK, Obs
<1> QED BY <1>1 DEF AheadOf, AheadThen

LEMMA AheadNext ==
    ASSUME UNCHANGED <<cfg, ident>>, TableOK(obs)', NEW n \in Ships, NEW p \in AisPgns,
           voice'[n].src \in Addrs
    PROVE  AheadOf(n, p)' <=>
              /\ voice'[n].rank = RankOf(p, voice'[n].src)
              /\ \A i \in 1..Len(obs') : obs'[i].mmsi = n /\ Live(obs'[i])
                                            => Ahead(p, voice'[n].src, obs'[i].src)
<1>1. AheadOf(n, p)' <=> AheadThen(n, p)'
  <2>1. TableOK(obs)' => AheadsRead'
    BY AheadRead, PTL
  <2> QED BY <2>1 DEF AheadsRead
<1>2. \A a, b \in Addrs : RankOf(p, a)' = RankOf(p, a) /\ Ahead(p, a, b)' = Ahead(p, a, b)
  BY RankSame
<1>3. \A i \in 1..Len(obs') : obs'[i].src \in Addrs
  BY DEF TableOK, Obs
<1> QED BY <1>1, <1>2, <1>3 DEF AheadThen, Live

-----------------------------------------------------------------------------
(* The table.                                                              *)

New(m, a) == [mmsi |-> m, src |-> a, age |-> 0]

LEMMA ObsOfSpec ==
    ASSUME TableOK(obs), NEW m \in Ships, NEW a \in Addrs
    PROVE  \/ ObsOf(m, a) = NoSlot /\ \A i \in 1..Len(obs) : ~ Keyed(obs[i], m, a)
           \/ /\ ObsOf(m, a) \in 1..Len(obs) /\ ObsOf(m, a) # NoSlot
              /\ \A i \in 1..Len(obs) : Keyed(obs[i], m, a) <=> i = ObsOf(m, a)
<1> DEFINE S == {i \in 1..Len(obs) : Keyed(obs[i], m, a)}
<1>1. DOMAIN obs = 1..Len(obs) /\ S \in SUBSET (Nat \ {0})
  BY DEF TableOK
<1>2. ObsOf(m, a) = FirstOr0(S)
  BY <1>1 DEF ObsOf, Keyed
<1>3. \A i, j \in S : i = j
  BY DEF TableOK, Keyed
<1> HIDE DEF S
<1>4. \/ S = {} /\ ObsOf(m, a) = NoSlot
      \/ ObsOf(m, a) \in S /\ ObsOf(m, a) # NoSlot
  BY <1>1, <1>2, FirstOr0Scan
<1> QED BY <1>3, <1>4 DEF S

LEMMA OldestSpec ==
    ASSUME TableOK(obs), Len(obs) = MaxObs
    PROVE  OldestObs \in 1..Len(obs)
<1>1. Len(obs) \in Nat \ {0} /\ DOMAIN obs = 1..Len(obs)
  BY Numbers DEF TableOK
<1>2. \A i \in 1..Len(obs) : obs[i].age \in Nat /\ Expired - obs[i].age \in Nat
  BY Numbers DEF TableOK
<1> DEFINE D == {Expired - obs[i].age : i \in 1..Len(obs)}
           S == {i \in DOMAIN obs : \A j \in DOMAIN obs : obs[j].age <= obs[i].age}
<1>3. \E x \in D : \A y \in D : x =< y
  <2>1. D \in SUBSET Nat /\ D # {}
    BY <1>1, <1>2
  <2> HIDE DEF D
  <2> QED BY <2>1, LeastExists
<1>4. PICK i \in 1..Len(obs) : \A y \in D : Expired - obs[i].age =< y
  BY <1>3
<1>5. ASSUME NEW j \in 1..Len(obs) PROVE obs[j].age <= obs[i].age
  <2>1. Expired - obs[i].age =< Expired - obs[j].age
    BY <1>4
  <2> QED BY <1>2, <2>1, Numbers
<1>6. i \in S
  BY <1>1, <1>5
<1>7. S \in SUBSET (Nat \ {0}) /\ S \subseteq 1..Len(obs)
  BY <1>1
<1>8. OldestObs = FirstOr0(S)
  BY DEF OldestObs
<1> HIDE DEF S
<1> QED BY <1>6, <1>7, <1>8, FirstOr0Scan

(* Of the table after (m, a) is heard: it is well formed, has (m, a), and  *)
(* otherwise what it had, except an entry that no longer counted.          *)
LEMMA HeardSpec ==
    ASSUME TableOK(obs), NEW m \in Ships, NEW a \in Addrs
    PROVE  /\ TableOK(Heard(m, a))
           /\ \E i \in 1..Len(Heard(m, a)) : Heard(m, a)[i] = New(m, a)
           /\ \A i \in 1..Len(Heard(m, a)) :
                 \/ Heard(m, a)[i] = New(m, a)
                 \/ \E j \in 1..Len(obs) : Heard(m, a)[i] = obs[j] /\ ~ Keyed(obs[j], m, a)
           /\ ~ Crowded(m, a) =>
                 \A j \in 1..Len(obs) : Live(obs[j]) /\ ~ Keyed(obs[j], m, a)
                    => \E i \in 1..Len(Heard(m, a)) : Heard(m, a)[i] = obs[j]
<1> DEFINE s == SlotFor(m, a)
           k == IF s > Len(obs) THEN s ELSE Len(obs)
           T == Heard(m, a)
<1>1. Len(obs) \in Nat /\ Len(obs) <= MaxObs /\ MaxObs \in Nat \ {0}
  BY Numbers DEF TableOK
<1>2. /\ s \in 1..k /\ k \in Nat /\ k <= MaxObs /\ Len(obs) <= k
      /\ \A i \in 1..k : i # s => i \in 1..Len(obs) /\ ~ Keyed(obs[i], m, a)
      /\ s \in 1..Len(obs) => \/ Keyed(obs[s], m, a)
                              \/ Crowded(m, a) \/ ~ Live(obs[s])
  <2>1. CASE ObsOf(m, a) # NoSlot
    <3>1. s = ObsOf(m, a) /\ s \in 1..Len(obs)
          /\ \A i \in 1..Len(obs) : Keyed(obs[i], m, a) <=> i = s
      BY <2>1, ObsOfSpec DEF SlotFor
    <3> QED BY <1>1, <3>1
  <2>2. CASE ObsOf(m, a) = NoSlot /\ Len(obs) < MaxObs
    <3>1. s = Len(obs) + 1 /\ \A i \in 1..Len(obs) : ~ Keyed(obs[i], m, a)
      BY <2>2, ObsOfSpec DEF SlotFor, NoSlot
    <3> HIDE DEF s
    <3>2. k = s
      BY <1>1, <3>1
    <3> QED BY <1>1, <2>2, <3>1, <3>2
  <2>3. CASE ObsOf(m, a) = NoSlot /\ ~ (Len(obs) < MaxObs)
    <3>1. s = OldestObs /\ Len(obs) = MaxObs /\ \A i \in 1..Len(obs) : ~ Keyed(obs[i], m, a)
      BY <1>1, <2>3, ObsOfSpec DEF SlotFor, NoSlot
    <3>2. s \in 1..Len(obs)
      BY <3>1, OldestSpec
    <3>3. Crowded(m, a) \/ ~ Live(obs[s])
      BY <2>3, <3>1 DEF Crowded
    <3> HIDE DEF s
    <3>4. k = Len(obs)
      BY <1>1, <3>2
    <3> QED BY <1>1, <3>1, <3>2, <3>3, <3>4
  <2> QED BY <2>1, <2>2, <2>3
<1>3. T = [i \in 1..k |-> IF i = s THEN New(m, a) ELSE obs[i]]
  BY DEF Heard, New
<1> HIDE DEF s, k, T
<1>4. /\ New(m, a) \in Obs /\ Keyed(New(m, a), m, a)
      /\ \A i \in 1..Len(obs) : obs[i] \in Obs
  BY Numbers DEF New, Obs, Keyed, TableOK
<1>5. \A i \in 1..k : T[i] = (IF i = s THEN New(m, a) ELSE obs[i]) /\ T[i] \in Obs
  BY <1>2, <1>3, <1>4
<1>6. T \in Seq(Obs) /\ Len(T) = k
  BY <1>2, <1>3, <1>5
<1>7. \A i, j \in 1..k : Keyed(T[i], T[j].mmsi, T[j].src) => i = j
  <2> SUFFICES ASSUME NEW i \in 1..k, NEW j \in 1..k, Keyed(T[i], T[j].mmsi, T[j].src)
               PROVE  i = j
    OBVIOUS
  <2>1. CASE i # s /\ j # s
    BY <1>2, <1>5, <2>1 DEF TableOK
  <2>2. CASE i = s /\ j # s
    BY <1>2, <1>4, <1>5, <2>2 DEF Keyed
  <2>3. CASE i # s /\ j = s
    BY <1>2, <1>4, <1>5, <2>3 DEF Keyed
  <2> QED BY <2>1, <2>2, <2>3
<1>8. TableOK(T)
  BY <1>2, <1>5, <1>6, <1>7 DEF TableOK
<1>9. T[s] = New(m, a)
  BY <1>2, <1>5
<1>10. \A i \in 1..k : i # s => T[i] = obs[i] /\ i \in 1..Len(obs) /\ ~ Keyed(obs[i], m, a)
  BY <1>2, <1>5
<1>11. ASSUME ~ Crowded(m, a), NEW j \in 1..Len(obs), Live(obs[j]), ~ Keyed(obs[j], m, a)
       PROVE  \E i \in 1..k : T[i] = obs[j]
  <2>1. j # s /\ j \in 1..k
    BY <1>1, <1>2, <1>11
  <2> QED BY <1>10, <2>1
<1> QED BY <1>2, <1>6, <1>8, <1>9, <1>10, <1>11 DEF T

-----------------------------------------------------------------------------
(* How long ago a source heard a ship.                                     *)
AgeOf(m, a) == IF ObsOf(m, a) = NoSlot THEN Expired ELSE obs[ObsOf(m, a)].age

AgesRead ==
    \A m \in Ships, a \in Addrs :
       /\ AgeOf(m, a) \in 0..Expired
       /\ \A i \in 1..Len(obs) : Keyed(obs[i], m, a) => AgeOf(m, a) = obs[i].age
       /\ (\A i \in 1..Len(obs) : ~ Keyed(obs[i], m, a)) => AgeOf(m, a) = Expired

LEMMA AgeSpec == TableOK(obs) => AgesRead
<1> SUFFICES ASSUME TableOK(obs), NEW m \in Ships, NEW a \in Addrs
             PROVE  /\ AgeOf(m, a) \in 0..Expired
                    /\ \A i \in 1..Len(obs) : Keyed(obs[i], m, a) => AgeOf(m, a) = obs[i].age
                    /\ (\A i \in 1..Len(obs) : ~ Keyed(obs[i], m, a)) => AgeOf(m, a) = Expired
  BY DEF AgesRead
<1>1. Expired \in Nat /\ \A i \in 1..Len(obs) : obs[i].age \in 0..Expired
  BY Numbers DEF TableOK, Obs
<1>2. CASE ObsOf(m, a) = NoSlot
  <2>1. \A i \in 1..Len(obs) : ~ Keyed(obs[i], m, a)
    BY <1>2, ObsOfSpec
  <2> QED BY <1>1, <1>2, <2>1 DEF AgeOf
<1>3. CASE ObsOf(m, a) # NoSlot
  BY <1>1, <1>3, ObsOfSpec DEF AgeOf
<1> QED BY <1>2, <1>3

(* A message makes its source young and leaves the other ages alone.       *)
LEMMA HeardAges ==
    ASSUME TableOK(obs), TableOK(obs'), AgesRead, AgesRead',
           NEW m \in Ships, NEW a \in Addrs,
           obs' = Heard(m, a), ~ Crowded(m, a)
    PROVE  \A n \in Ships, b \in Addrs :
              AgeOf(n, b)' = IF n = m /\ b = a THEN 0 ELSE AgeOf(n, b)
<1> SUFFICES ASSUME NEW n \in Ships, NEW b \in Addrs
             PROVE  AgeOf(n, b)' = IF n = m /\ b = a THEN 0 ELSE AgeOf(n, b)
  OBVIOUS
<1>1. /\ \E i \in 1..Len(obs') : obs'[i] = New(m, a)
      /\ \A i \in 1..Len(obs') :
            \/ obs'[i] = New(m, a)
            \/ \E j \in 1..Len(obs) : obs'[i] = obs[j] /\ ~ Keyed(obs[j], m, a)
      /\ \A j \in 1..Len(obs) : Live(obs[j]) /\ ~ Keyed(obs[j], m, a)
            => \E i \in 1..Len(obs') : obs'[i] = obs[j]
  BY HeardSpec
<1>2. /\ \A i \in 1..Len(obs') : Keyed(obs'[i], n, b) => AgeOf(n, b)' = obs'[i].age
      /\ (\A i \in 1..Len(obs') : ~ Keyed(obs'[i], n, b)) => AgeOf(n, b)' = Expired
  BY DEF AgesRead, Keyed, Expired
<1>3. /\ \A i \in 1..Len(obs) : Keyed(obs[i], n, b) => AgeOf(n, b) = obs[i].age
      /\ (\A i \in 1..Len(obs) : ~ Keyed(obs[i], n, b)) => AgeOf(n, b) = Expired
  BY DEF AgesRead
<1>4. CASE n = m /\ b = a
  BY <1>1, <1>2, <1>4 DEF New, Keyed
<1>5. CASE ~ (n = m /\ b = a)
  <2>1. CASE \E i \in 1..Len(obs') : Keyed(obs'[i], n, b)
    <3>1. PICK i \in 1..Len(obs') : Keyed(obs'[i], n, b)
      BY <2>1
    <3>2. obs'[i] # New(m, a)
      BY <1>5, <3>1 DEF New, Keyed
    <3>3. PICK j \in 1..Len(obs) : obs'[i] = obs[j]
      BY <1>1, <3>2
    <3>4. AgeOf(n, b)' = obs'[i].age /\ AgeOf(n, b) = obs[j].age
      BY <1>2, <1>3, <3>1, <3>3
    <3> QED BY <1>5, <3>3, <3>4
  <2>2. CASE \A i \in 1..Len(obs') : ~ Keyed(obs'[i], n, b)
    <3>1. AgeOf(n, b)' = Expired
      BY <1>2, <2>2
    <3>2. ASSUME NEW j \in 1..Len(obs), Keyed(obs[j], n, b) PROVE obs[j].age = Expired
      <4>1. ~ Keyed(obs[j], m, a)
        BY <1>5, <3>2 DEF Keyed
      <4>2. ~ Live(obs[j])
        BY <1>1, <2>2, <3>2, <4>1
      <4> QED BY <4>2, Numbers DEF TableOK
    <3>3. AgeOf(n, b) = Expired
      BY <1>3, <3>2
    <3> QED BY <1>5, <3>1, <3>3
  <2> QED BY <2>1, <2>2
<1> QED BY <1>4, <1>5

-----------------------------------------------------------------------------
LEMMA InitAInv == AInit => AInv
<1> SUFFICES ASSUME AInit PROVE AInv
  OBVIOUS
<1>1. cfg \in Configs /\ obs = <<>> /\ voice = [m \in Ships |-> NoVoice]
  BY DEF AInit
<1>2. TableOK(obs)
  BY <1>1, Numbers DEF TableOK
<1> QED BY <1>1, <1>2 DEF AInv, VoiceAhead, NoVoice

LEMMA AcceptAInv ==
    ASSUME AInv, RankedAlike, NEW a \in Addrs, NEW m \in Ships, NEW pgn \in AisPgns,
           Accept(a, m, pgn)
    PROVE  AInv'
<1>1. /\ obs' = Heard(m, a) /\ UNCHANGED <<cfg, ident>> /\ cfg' = cfg
      /\ cfg \in Configs /\ cfg' \in Configs
  BY DEF AInv, Accept
<1>2. /\ TableOK(obs) /\ TableOK(obs')
      /\ \A i \in 1..Len(obs') : obs'[i] = New(m, a) \/ \E j \in 1..Len(obs) : obs'[i] = obs[j]
      /\ DOMAIN obs' = 1..Len(obs')
  BY <1>1, HeardSpec DEF AInv, TableOK
<1>3. /\ None \notin Addrs
      /\ \A p \in AisPgns, b \in Addrs : RankOf(p, b) \in Nat /\ RankOf(p, b) = RankOf(pgn, b)
  BY <1>1, RankSpec, ConfigAssumption
<1>4. \A p \in AisPgns, b, c \in Addrs :
         RankOf(p, b)' = RankOf(p, b) /\ Ahead(p, b, c)' = Ahead(p, b, c)
  BY <1>1, RankSame
<1>5. \A i \in 1..Len(obs') : obs'[i].src \in Addrs
  BY <1>2 DEF TableOK, Obs
<1> DEFINE R == Retained(obs', pgn, m, a)
<1>6. /\ Crowded(m, a) => voice' = Silent
      /\ ~ Crowded(m, a) /\ R => voice' = [voice EXCEPT ![m] = [src |-> a, rank |-> RankOf(pgn, a)]]
      /\ ~ Crowded(m, a) /\ ~ R => voice' = voice
  BY <1>1 DEF Accept
<1>7. R <=> \A i \in 1..Len(obs') : obs'[i].mmsi = m /\ Live(obs'[i])
                                      => Ahead(pgn, a, obs'[i].src)
  BY <1>2 DEF Retained, Ahead
<1> HIDE DEF R
<1>8. voice' \in [Ships -> [src : Addrs \cup {None}, rank : Nat]]
  BY <1>3, <1>6 DEF AInv, Silent, NoVoice
<1>9. ASSUME NEW n \in Ships, voice'[n] # NoVoice, NEW p \in AisPgns
      PROVE  /\ voice'[n].src \in Addrs
             /\ voice'[n].rank = RankOf(p, voice'[n].src)
             /\ \A i \in 1..Len(obs') : obs'[i].mmsi = n /\ Live(obs'[i])
                                          => Ahead(p, voice'[n].src, obs'[i].src)
  <2>1. ~ Crowded(m, a)
    BY <1>6, <1>9 DEF Silent
  <2>2. CASE R /\ n = m
    <3>1. voice'[n] = [src |-> a, rank |-> RankOf(pgn, a)]
      BY <1>6, <2>1, <2>2 DEF AInv
    <3> QED BY <1>3, <1>5, <1>7, <2>2, <3>1 DEF Ahead
  <2>3. CASE ~ (R /\ n = m)
    <3>1. voice'[n] = voice[n]
      BY <1>6, <2>1, <2>3 DEF AInv
    <3>2. /\ voice[n] # NoVoice /\ voice[n].src \in Addrs
          /\ voice[n].rank = RankOf(p, voice[n].src)
          /\ \A q \in AisPgns : \A j \in 1..Len(obs) :
                obs[j].mmsi = n /\ Live(obs[j]) => Ahead(q, voice[n].src, obs[j].src)
      BY <1>9, <3>1 DEF AInv, VoiceAhead, AheadOf
    <3>3. ASSUME NEW i \in 1..Len(obs'), obs'[i].mmsi = n, Live(obs'[i])
          PROVE  Ahead(p, voice[n].src, obs'[i].src)
      <4>1. CASE \E j \in 1..Len(obs) : obs'[i] = obs[j]
        BY <3>2, <3>3, <4>1
      <4>2. CASE obs'[i] = New(m, a)
        <5>1. n = m /\ ~ R /\ obs'[i].src = a
          BY <2>3, <3>3, <4>2 DEF New
        <5>2. PICK k \in 1..Len(obs') : /\ obs'[k].mmsi = m /\ Live(obs'[k])
                                        /\ ~ Ahead(pgn, a, obs'[k].src)
          BY <1>7, <5>1
        <5>3. obs'[k] # New(m, a)
          BY <5>2, Numbers DEF New, Ahead
        <5>4. PICK j \in 1..Len(obs) : obs'[k] = obs[j]
          BY <1>2, <5>3
        <5> DEFINE v == voice[n].src
                   c == obs'[k].src
        <5>5. Ahead(p, v, c) /\ ~ Ahead(pgn, a, c) /\ v \in Addrs /\ c \in Addrs
          BY <1>5, <3>2, <5>1, <5>2, <5>4
        <5> HIDE DEF v, c
        <5>6. /\ RankOf(p, v) \in Nat /\ RankOf(p, c) \in Nat /\ RankOf(p, a) \in Nat
              /\ RankOf(pgn, c) = RankOf(p, c) /\ RankOf(pgn, a) = RankOf(p, a)
              /\ v \in Nat /\ c \in Nat /\ a \in Nat
          BY <1>3, <5>5, Numbers
        <5>7. Ahead(p, v, a)
          BY <5>5, <5>6 DEF Ahead
        <5> QED BY <5>1, <5>7 DEF v
      <4> QED BY <1>2, <4>1, <4>2
    <3> QED BY <3>1, <3>2, <3>3
  <2> QED BY <2>2, <2>3
<1>10. VoiceAhead'
  <2>1. ASSUME NEW n \in Ships, voice'[n] # NoVoice, NEW p \in AisPgns PROVE AheadOf(n, p)'
    <3>1. TableOK(obs)'
      BY <1>2 DEF TableOK, Keyed, Obs, Expired, Ships
    <3> QED BY <1>1, <1>9, <2>1, <3>1, AheadNext
  <2> QED BY <1>9, <2>1 DEF VoiceAhead, NoVoice
<1> QED BY <1>1, <1>2, <1>8, <1>10 DEF AInv

LEMMA TickAInv == ASSUME AInv, ATick PROVE AInv'
<1>1. /\ obs' = [i \in 1..Len(obs) |->
                   [obs[i] EXCEPT !.age = IF @ < Expired THEN @ + 1 ELSE Expired]]
      /\ UNCHANGED <<cfg, ident, voice>>
      /\ TableOK(obs) /\ VoiceAhead /\ Len(obs) \in Nat
  BY DEF ATick, AInv, TableOK
<1>2. \A i \in 1..Len(obs) : /\ obs[i] \in Obs /\ obs'[i] \in Obs
                             /\ obs'[i].mmsi = obs[i].mmsi /\ obs'[i].src = obs[i].src
                             /\ Live(obs'[i]) => Live(obs[i])
  <2> SUFFICES ASSUME NEW i \in 1..Len(obs)
               PROVE  /\ obs[i] \in Obs /\ obs'[i] \in Obs
                      /\ obs'[i].mmsi = obs[i].mmsi /\ obs'[i].src = obs[i].src
                      /\ Live(obs'[i]) => Live(obs[i])
    OBVIOUS
  <2>1. obs[i] \in Obs /\ obs[i].age \in 0..Expired /\ Expired \in Nat
        /\ Timeout \in Nat /\ Expired = Timeout + 1
    BY <1>1, Numbers DEF TableOK, Obs
  <2>2. obs'[i] = [obs[i] EXCEPT !.age = IF @ < Expired THEN @ + 1 ELSE Expired]
    BY <1>1
  <2>3. /\ obs'[i] \in Obs /\ obs'[i].mmsi = obs[i].mmsi /\ obs'[i].src = obs[i].src
        /\ obs'[i].age = IF obs[i].age < Expired THEN obs[i].age + 1 ELSE Expired
    BY <2>1, <2>2 DEF Obs
  <2> QED BY <2>1, <2>3 DEF Live
<1>3. obs' \in Seq(Obs) /\ Len(obs') = Len(obs)
  BY <1>1, <1>2
<1>4. TableOK(obs')
  BY <1>1, <1>2, <1>3 DEF TableOK, Keyed
<1>5. VoiceAhead'
  <2>1. ASSUME NEW n \in Ships, voice'[n] # NoVoice, NEW p \in AisPgns PROVE AheadOf(n, p)'
    <3>1. AheadOf(n, p) /\ voice' = voice /\ cfg' = cfg /\ ident' = ident
      BY <1>1, <2>1 DEF VoiceAhead
    <3>2. ASSUME NEW i \in 1..Len(obs), obs'[i].mmsi = n, Live(obs'[i])
          PROVE  Ahead(p, voice[n].src, obs'[i].src)
      BY <1>2, <3>1, <3>2 DEF AheadOf
    <3>3. voice[n].src \in Addrs /\ voice[n].rank = RankOf(p, voice[n].src)
      BY <1>1, <2>1, <3>1 DEF VoiceAhead, AheadOf
    <3>4. TableOK(obs)'
      BY <1>4 DEF TableOK, Keyed, Obs, Expired, Ships
    <3> QED BY <1>2, <1>3, <3>1, <3>2, <3>3, <3>4, AheadNext
  <2> QED BY <1>1, <2>1 DEF VoiceAhead, NoVoice
<1> QED BY <1>1, <1>4, <1>5 DEF AInv

LEMMA SilentAInv ==
    ASSUME AInv, voice' = Silent, cfg' \in Configs, obs' \in {obs, <<>>}
    PROVE  AInv'
<1>1. TableOK(<<>>)
  BY Numbers DEF TableOK
<1>2. TableOK(obs')
  BY <1>1 DEF AInv
<1> QED BY <1>2 DEF AInv, VoiceAhead, Silent, NoVoice

LEMMA SameAInv ==
    ASSUME AInv, UNCHANGED <<cfg, ident, obs, voice>>
    PROVE  AInv'
<1>1. cfg' = cfg /\ ident' = ident /\ obs' = obs /\ voice' = voice
  OBVIOUS
<1>2. TableOK(obs)'
  BY <1>1 DEF AInv, TableOK, Keyed, Obs, Expired, Ships
<1>3. ASSUME NEW n \in Ships, NEW p \in AisPgns, AheadOf(n, p), voice[n].src \in Addrs
      PROVE  AheadOf(n, p)'
  BY <1>1, <1>2, <1>3, AheadNext DEF AheadOf
<1> QED BY <1>1, <1>2, <1>3 DEF AInv, VoiceAhead, NoVoice

(* What a step is, as far as the promise is concerned.                     *)
Accepted ==
    \E a \in Addrs, m \in Ships, p \in AisPgns : Accept(a, m, p)

Forgotten == voice' = Silent /\ cfg' \in Configs /\ obs' \in {obs, <<>>}

LEMMA Steps ==
    ASSUME AInv, [ANext]_avars
    PROVE  Accepted \/ ATick \/ Forgotten \/ UNCHANGED <<cfg, ident, obs, voice>>
<1>1. ASSUME NEW r \in Reach, NEW p \in AisPgns, Accept(r[1], r[2], p) PROVE Accepted
  <2>1. r[1] \in Addrs /\ r[2] \in Ships
    BY AisDedupAssumption DEF Ships
  <2> QED BY <1>1, <2>1 DEF Accepted
<1>2. ASSUME NEW r \in Reach, NEW p \in AisPgns, Drop(r[1], r[2], p)
      PROVE  UNCHANGED <<cfg, ident, obs, voice>>
  BY <1>2 DEF Drop
<1>3. AReload => Forgotten \/ UNCHANGED <<cfg, ident, obs, voice>>
  BY DEF AReload, Forgotten
<1>4. ASSUME NEW a \in Addrs, ALearn(a) PROVE Forgotten
  BY <1>4 DEF ALearn, Forgotten, AInv
<1>5. Moves \/ UNCHANGED avars => UNCHANGED <<cfg, ident, obs, voice>>
  BY DEF Moves, avars
<1> QED BY <1>1, <1>2, <1>3, <1>4, <1>5 DEF ANext

LEMMA NextAInv == RankedAlike /\ AInv /\ [ANext]_avars => AInv'
<1> SUFFICES ASSUME RankedAlike, AInv, [ANext]_avars PROVE AInv'
  OBVIOUS
<1> QED BY Steps, AcceptAInv, TickAInv, SilentAInv, SameAInv DEF Accepted, Forgotten

-----------------------------------------------------------------------------
(* The promise.                                                            *)

Holder == [m \in Ships |-> voice[m].rank]

LEMMA SilenceIs ==
    Silence = [m \in Ships |-> IF voice[m] = NoVoice THEN Expired
                               ELSE AgeOf(m, voice[m].src)]
BY DEF Silence, AgeOf

LEMMA AcceptKeepsPromise ==
    ASSUME AInv, AInv', RankedAlike, NEW a \in Addrs, NEW m \in Ships, NEW pgn \in AisPgns,
           Accept(a, m, pgn)
    PROVE  Promise!HNext \/ UNCHANGED Promise!hvars
<1> DEFINE R == Retained(obs', pgn, m, a)
<1>1. /\ obs' = Heard(m, a) /\ cfg \in Configs
      /\ TableOK(obs) /\ TableOK(obs') /\ VoiceAhead /\ VoiceAhead'
      /\ voice \in [Ships -> [src : Addrs \cup {None}, rank : Nat]]
      /\ voice' \in [Ships -> [src : Addrs \cup {None}, rank : Nat]]
      /\ DOMAIN obs' = 1..Len(obs')
      /\ None \notin Addrs
  BY ConfigAssumption DEF AInv, Accept, TableOK
<1>2. /\ Crowded(m, a) => voice' = Silent
      /\ ~ Crowded(m, a) /\ R => voice' = [voice EXCEPT ![m] = [src |-> a, rank |-> RankOf(pgn, a)]]
      /\ ~ Crowded(m, a) /\ ~ R => voice' = voice
  BY <1>1 DEF Accept
<1>3. R <=> \A i \in 1..Len(obs') : obs'[i].mmsi = m /\ Live(obs'[i])
                                      => Ahead(pgn, a, obs'[i].src)
  BY <1>1 DEF Retained, Ahead
<1> HIDE DEF R
<1>4. AgesRead /\ AgesRead'
  <2>1. TableOK(obs)' => AgesRead'
    BY AgeSpec, PTL
  <2>2. TableOK(obs)'
    BY DEF AInv
  <2> QED BY <1>1, <2>1, <2>2, AgeSpec
<1>5. /\ Holder = [n \in Ships |-> voice[n].rank]
      /\ Holder' = [n \in Ships |-> voice'[n].rank]
      /\ Silence = [n \in Ships |-> IF voice[n] = NoVoice THEN Expired
                                    ELSE AgeOf(n, voice[n].src)]
  BY SilenceIs DEF Holder
<1>6. CASE Crowded(m, a)
  <2>1. Holder' = [n \in Ships |-> 0] /\ Silence' = [n \in Ships |-> Expired]
    BY <1>2, <1>6 DEF Holder, Silence, Silent, NoVoice, Expired
  <2> QED BY <2>1 DEF Promise!HNext, Promise!Restart, Promise!Rules, Promise!Long,
                      Holder, Ships, Expired
<1>7. CASE ~ Crowded(m, a)
  <2>1. \A n \in Ships, b \in Addrs :
           AgeOf(n, b)' = IF n = m /\ b = a THEN 0 ELSE AgeOf(n, b)
    BY <1>1, <1>4, <1>7, HeardAges
  <2>2. \A n \in Ships : voice[n] # NoVoice => voice[n].src \in Addrs
    BY <1>1 DEF VoiceAhead
  <2>3. ASSUME NEW n \in Ships, NEW b \in Addrs, voice'[n] # NoVoice, voice'[n].src = b
        PROVE  Silence'[n] = IF n = m /\ b = a THEN 0 ELSE AgeOf(n, b)
    <3>1. Silence'[n] = AgeOf(n, b)'
      BY <2>3 DEF Silence, AgeOf, ObsOf, NoVoice, Expired
    <3> QED BY <2>1, <3>1
  <2>4. \A n \in Ships : voice'[n] = NoVoice => Silence'[n] = Expired
    BY DEF Silence, NoVoice, Expired
  <2>5. CASE R
    <3> DEFINE s == RankOf(pgn, a)
    <3>1. /\ voice' = [voice EXCEPT ![m] = [src |-> a, rank |-> s]]
          /\ s \in Nat /\ s # 0 /\ s <= Unranked + a
      BY <1>1, <1>2, <1>7, <2>5, RankSpec
    <3> HIDE DEF s
    <3>2. Holder' = [Holder EXCEPT ![m] = s]
      BY <1>1, <1>5, <3>1
    <3>3. \A n \in Ships : Silence'[n] = IF n = m THEN 0 ELSE Silence[n]
      <4> SUFFICES ASSUME NEW n \in Ships PROVE Silence'[n] = IF n = m THEN 0 ELSE Silence[n]
        OBVIOUS
      <4>1. CASE n = m
        <5>1. voice'[n] # NoVoice /\ voice'[n].src = a
          BY <1>1, <3>1, <4>1 DEF NoVoice
        <5> QED BY <2>3, <4>1, <5>1
      <4>2. CASE n # m
        <5>1. voice'[n] = voice[n]
          BY <1>1, <3>1, <4>2
        <5> QED BY <1>5, <2>2, <2>3, <2>4, <4>2, <5>1
      <4> QED BY <4>1, <4>2
    <3>4. Silence' = [Silence EXCEPT ![m] = 0]
      <4>1. Silence' = [n \in Ships |-> Silence'[n]] /\ Silence = [n \in Ships |-> Silence[n]]
        BY DEF Silence
      <4> QED BY <3>3, <4>1
    <3>5. Promise!MayRetain(m, s)
      <4> SUFFICES ASSUME Holder[m] # 0, ~ (s <= Holder[m]) PROVE Silence[m] > Timeout
        BY DEF Promise!MayRetain, Holder
      <4>0. voice[m] # NoVoice
        BY <1>5 DEF NoVoice
      <4>9. PICK v \in Addrs : v = voice[m].src
        BY <2>2, <4>0
      <4>1. Holder[m] = RankOf(pgn, v) /\ Silence[m] = AgeOf(m, v)
        BY <1>1, <1>5, <4>0, <4>9 DEF VoiceAhead, AheadOf
      <4>2. RankOf(pgn, v) \in Nat
        BY <1>1, RankSpec
      <4>3. \A i \in 1..Len(obs') : Keyed(obs'[i], m, v) => ~ Live(obs'[i])
        <5> SUFFICES ASSUME NEW i \in 1..Len(obs'), Keyed(obs'[i], m, v), Live(obs'[i])
                     PROVE  FALSE
          OBVIOUS
        <5>1. RankOf(pgn, a) <= RankOf(pgn, v)
          BY <1>3, <2>5, <4>2, <3>1 DEF Keyed, Ahead, s
        <5> QED BY <4>1, <5>1 DEF s
      <4>4. v # a
        BY <3>1, <4>1 DEF s
      <4>5. AgeOf(m, v)' = AgeOf(m, v)
        BY <2>1, <4>1, <4>4
      <4>6. AgeOf(m, v)' = Expired
        <5>1. /\ \A i \in 1..Len(obs') : Keyed(obs'[i], m, v) => AgeOf(m, v)' = obs'[i].age
              /\ (\A i \in 1..Len(obs') : ~ Keyed(obs'[i], m, v)) => AgeOf(m, v)' = Expired
          BY <1>4, <4>1 DEF AgesRead, Keyed, Expired
        <5>2. \A i \in 1..Len(obs') : ~ Live(obs'[i]) => obs'[i].age = Expired
          BY <1>1, Numbers DEF TableOK
        <5> QED BY <4>3, <5>1, <5>2
      <4> QED BY <4>1, <4>5, <4>6, Numbers
    <3>6. s \in 1..(Unranked + Max(Addrs))
      <4>1. PICK top \in Addrs : \A b \in Addrs : b <= top
        BY AisDedupAssumption
      <4>2. Max(Addrs) \in Addrs /\ \A b \in Addrs : b <= Max(Addrs)
        BY <4>1, Numbers DEF Max
      <4>3. a \in Nat /\ Max(Addrs) \in Nat /\ a <= Max(Addrs) /\ Unranked \in Nat
        BY <4>2, Numbers, AisDedupAssumption
      <4>4. PICK t \in Nat : t = Max(Addrs) /\ a <= t
        BY <4>3
      <4> HIDE DEF s
      <4>5. s \in 1..(Unranked + t)
        BY <3>1, <4>3, <4>4
      <4>6. t = Max(Addrs)
        BY <4>4
      <4> HIDE DEF Max
      <4> QED BY <4>5, <4>6, Zenon
    <3>7. PICK t \in 1..(Unranked + Max(Addrs)) : t = s
      BY <3>6, Zenon
    <3>8. Promise!Retain(m, t)
      BY <3>2, <3>4, <3>5, <3>7 DEF Promise!Retain, Promise!MayRetain, Holder
    <3>9. m \in Promise!Rules
      BY DEF Promise!Rules, Ships
    <3> HIDE DEF Max
    <3> QED BY <3>8, <3>9, Zenon DEF Promise!HNext
  <2>6. CASE ~ R
    <3>1. voice' = voice
      BY <1>2, <1>7, <2>6
    <3>2. voice[m] # NoVoice => voice[m].src # a
      <4>0. SUFFICES ASSUME voice[m] # NoVoice, voice[m].src = a PROVE FALSE
        OBVIOUS
      <4>1. \A i \in 1..Len(obs') : obs'[i].mmsi = m /\ Live(obs'[i])
                                      => Ahead(pgn, a, obs'[i].src)
        <5>1. AheadOf(m, pgn)'
          BY <1>1, <3>1, <4>0 DEF VoiceAhead, NoVoice
        <5>2. cfg' = cfg /\ ident' = ident /\ voice'[m].src = a
          BY <3>1, <4>0 DEF Accept
        <5>3. TableOK(obs)'
          BY <1>1 DEF TableOK, Keyed, Obs, Expired, Ships
        <5> QED BY <5>1, <5>2, <5>3, AheadNext
      <4> QED BY <1>3, <2>6, <4>1
    <3>3. \A n \in Ships : Silence'[n] = Silence[n]
      BY <1>5, <2>2, <2>3, <2>4, <3>1, <3>2
    <3>4. Silence' = Silence
      <4>1. Silence' = [n \in Ships |-> Silence'[n]] /\ Silence = [n \in Ships |-> Silence[n]]
        BY DEF Silence
      <4> QED BY <3>3, <4>1
    <3> QED BY <3>1, <3>4 DEF Promise!hvars
  <2> QED BY <2>5, <2>6
<1> QED BY <1>6, <1>7

LEMMA TickKeepsPromise ==
    ASSUME AInv, AInv', ATick
    PROVE  Promise!Wait
<1>1. /\ obs' = [i \in 1..Len(obs) |->
                   [obs[i] EXCEPT !.age = IF @ < Expired THEN @ + 1 ELSE Expired]]
      /\ voice' = voice /\ TableOK(obs) /\ Len(obs) \in Nat /\ VoiceAhead
      /\ Expired \in Nat /\ Expired = Timeout + 1
  BY Numbers DEF ATick, AInv, TableOK
<1>2. AgesRead /\ AgesRead'
  <2>1. TableOK(obs)' => AgesRead'
    BY AgeSpec, PTL
  <2>2. TableOK(obs)'
    BY DEF AInv
  <2> QED BY <1>1, <2>1, <2>2, AgeSpec
<1>3. Len(obs') = Len(obs) /\
      \A i \in 1..Len(obs) :
         /\ obs'[i].mmsi = obs[i].mmsi /\ obs'[i].src = obs[i].src
         /\ obs'[i].age = IF obs[i].age < Expired THEN obs[i].age + 1 ELSE Expired
  <2>1. \A i \in 1..Len(obs) : obs[i] \in Obs
    BY <1>1 DEF TableOK
  <2> QED BY <1>1, <2>1 DEF Obs
<1>4. ASSUME NEW n \in Ships, NEW b \in Addrs
      PROVE  AgeOf(n, b)' = IF AgeOf(n, b) < Expired THEN AgeOf(n, b) + 1 ELSE Expired
  <2>1. /\ \A i \in 1..Len(obs') : Keyed(obs'[i], n, b) => AgeOf(n, b)' = obs'[i].age
        /\ (\A i \in 1..Len(obs') : ~ Keyed(obs'[i], n, b)) => AgeOf(n, b)' = Expired
    BY <1>2 DEF AgesRead, Keyed, Expired
  <2>2. /\ \A i \in 1..Len(obs) : Keyed(obs[i], n, b) => AgeOf(n, b) = obs[i].age
        /\ (\A i \in 1..Len(obs) : ~ Keyed(obs[i], n, b)) => AgeOf(n, b) = Expired
    BY <1>2 DEF AgesRead
  <2>3. \A i \in 1..Len(obs) : Keyed(obs'[i], n, b) <=> Keyed(obs[i], n, b)
    BY <1>3 DEF Keyed
  <2>4. CASE \E i \in 1..Len(obs) : Keyed(obs[i], n, b)
    BY <1>3, <2>1, <2>2, <2>3, <2>4
  <2>5. CASE \A i \in 1..Len(obs) : ~ Keyed(obs[i], n, b)
    <3>1. AgeOf(n, b)' = Expired /\ AgeOf(n, b) = Expired
      BY <1>3, <2>1, <2>2, <2>3, <2>5
    <3> QED BY <1>1, <3>1
  <2> QED BY <2>4, <2>5
<1>5. ASSUME NEW n \in Ships
      PROVE  Silence'[n] = IF Silence[n] < Expired THEN Silence[n] + 1 ELSE Expired
  <2>1. CASE voice[n] = NoVoice
    <3>1. Silence[n] = Expired
      BY <2>1 DEF Silence
    <3>2. Silence'[n] = Expired
      BY <1>1, <2>1 DEF Silence, NoVoice, Expired
    <3> QED BY <1>1, <3>1, <3>2
  <2>2. CASE voice[n] # NoVoice
    <3>1. PICK v \in Addrs : v = voice[n].src
      BY <1>1, <2>2 DEF VoiceAhead
    <3>2. Silence[n] = AgeOf(n, v)
      BY <2>2, <3>1 DEF Silence, AgeOf
    <3>3. Silence'[n] = AgeOf(n, v)'
      <4>1. voice'[n] # NoVoice /\ voice'[n].src = v
        BY <1>1, <2>2, <3>1 DEF NoVoice
      <4> QED BY <4>1 DEF Silence, AgeOf, ObsOf, NoVoice, Expired
    <3> QED BY <1>4, <3>2, <3>3
  <2> QED BY <2>1, <2>2
<1>6. Silence' = [n \in Ships |-> IF Silence[n] < Expired THEN Silence[n] + 1 ELSE Expired]
  <2>1. Silence' = [n \in Ships |-> Silence'[n]]
    BY DEF Silence
  <2> QED BY <1>5, <2>1
<1>7. Holder' = Holder
  BY <1>1 DEF Holder
<1> QED BY <1>1, <1>6, <1>7 DEF Promise!Wait, Promise!Long, Promise!Rules, Holder, Ships

LEMMA ForgottenKeepsPromise ==
    ASSUME voice' = Silent
    PROVE  Promise!Restart
<1>1. Holder' = [n \in Ships |-> 0] /\ Silence' = [n \in Ships |-> Expired]
  BY DEF Holder, Silence, Silent, NoVoice, Expired
<1> QED BY <1>1 DEF Promise!Restart, Promise!Rules, Promise!Long, Holder, Ships, Expired

LEMMA SameKeepsPromise ==
    ASSUME UNCHANGED <<obs, voice>>
    PROVE  UNCHANGED Promise!hvars
<1>1. Silence' = Silence
  BY DEF Silence, ObsOf
<1> QED BY <1>1 DEF Promise!hvars

LEMMA InitHandover == AInit => Promise!HInit
<1> SUFFICES ASSUME AInit PROVE Promise!HInit
  OBVIOUS
<1>1. \A n \in Ships : voice[n] = NoVoice
  BY DEF AInit
<1>2. Holder = [n \in Ships |-> 0] /\ Silence = [n \in Ships |-> Expired]
  BY <1>1 DEF Holder, Silence, NoVoice
<1> QED BY <1>2 DEF Promise!HInit, Promise!Rules, Promise!Long, Holder, Ships, Expired

LEMMA NextHandover ==
    RankedAlike /\ AInv /\ AInv' /\ [ANext]_avars => [Promise!HNext]_(Promise!hvars)
<1> SUFFICES ASSUME RankedAlike, AInv, AInv', [ANext]_avars
             PROVE  Promise!HNext \/ UNCHANGED Promise!hvars
  OBVIOUS
<1>1. CASE Accepted
  BY <1>1, AcceptKeepsPromise DEF Accepted
<1>2. CASE ATick
  BY <1>2, TickKeepsPromise DEF Promise!HNext
<1>3. CASE Forgotten
  BY <1>3, ForgottenKeepsPromise DEF Forgotten, Promise!HNext
<1>4. CASE UNCHANGED <<cfg, ident, obs, voice>>
  BY <1>4, SameKeepsPromise
<1> QED BY <1>1, <1>2, <1>3, <1>4, Steps

(* aisdedup.h: the receiver of lower priority takes over when the better   *)
(* one falls silent, and not before.  Whatever ships come, whatever        *)
(* receivers are learnt and whatever is reloaded, the hand-overs are those *)
(* Handover allows, if the rules rank the receivers alike for every PGN:   *)
(* otherwise a ship has a voice for each PGN.                              *)
THEOREM AisImplementsHandover == ASSUME RankedAlike PROVE ASpec => OneVoice
<1>1. AInv /\ [ANext]_avars => AInv'
  BY NextAInv
<1>2. AInv /\ AInv' /\ [ANext]_avars => [Promise!HNext]_(Promise!hvars)
  BY NextHandover
<1> QED
  BY <1>1, <1>2, InitAInv, InitHandover, PTL DEF ASpec, OneVoice, Promise!HSpec

-----------------------------------------------------------------------------
(* No ship is lost.  What keeps a ship from being passed on is an entry    *)
(* that still counts of a receiver that hears it no more: it lasts at most *)
(* Expired ticks, and only a change makes one.  A delay of d ticks is all  *)
(* there is to wait for the ship and the PGN if by then no such entry is   *)
(* left; without one, the best receiver in reach is passed on whenever it  *)
(* is heard.                                                               *)

MostQuiet(changes) == 1 + changes * Expired

Patient == MaxQuiet >= MostQuiet(MaxChurn)

Gone(m, d) ==
    \A i \in 1..Len(obs) :
       obs[i].mmsi = m /\ <<obs[i].src, m>> \notin reach => obs[i].age + d >= Expired

Best(a, m, p) ==
    <<a, m>> \in reach /\ \A b \in Addrs : <<b, m>> \in reach => Ahead(p, a, b)

BestPasses(m, p) ==
    \A a \in Addrs :
       p \notin cfg.no0183 /\ Best(a, m, p) /\ <<a, m, p>> \in told => quiet[m][p] = 0

Waits(m, p, d) ==
    /\ Gone(m, d)
    /\ d = 0 => BestPasses(m, p)
    /\ quiet[m][p] + d <= MostQuiet(churn)

QInv ==
    /\ cfg \in Configs /\ TableOK(obs) /\ reach \subseteq Addrs \X Ships
    /\ quiet \in [Ships -> [AisPgns -> Nat]]
    /\ churn \in 0..MaxChurn
    /\ \A m \in Ships, p \in AisPgns : \E d \in 0..Expired : Waits(m, p, d)

LEMMA MostQuietGrows ==
    /\ \A c \in Nat : /\ MostQuiet(c) \in Nat /\ MostQuiet(c) >= 1
                      /\ MostQuiet(c + 1) = MostQuiet(c) + Expired
    /\ \A b, c \in Nat : b <= c => MostQuiet(b) <= MostQuiet(c)
<1>1. Expired \in Nat
  BY Numbers
<1>2. ASSUME NEW c \in Nat
      PROVE  /\ MostQuiet(c) \in Nat /\ MostQuiet(c) >= 1
             /\ MostQuiet(c + 1) = MostQuiet(c) + Expired
  <2>1. c * Expired \in Nat /\ (c + 1) * Expired = c * Expired + Expired
    BY <1>1
  <2> QED BY <1>1, <2>1 DEF MostQuiet
<1>3. ASSUME NEW b \in Nat, NEW c \in Nat, b <= c PROVE MostQuiet(b) <= MostQuiet(c)
  <2>1. b * Expired \in Nat /\ (c - b) * Expired \in Nat
        /\ c * Expired = b * Expired + (c - b) * Expired
    BY <1>1, <1>3
  <2> QED BY <2>1 DEF MostQuiet
<1> QED BY <1>2, <1>3

LEMMA RankNat ==
    ASSUME cfg \in Configs, NEW p
    PROVE  \A a \in Addrs : RankOf(p, a) \in Nat
<1> SUFFICES ASSUME NEW a \in Addrs PROVE RankOf(p, a) \in Nat
  OBVIOUS
<1>1. PlaceOf(p, a) \in 0..MaxPrio /\ MaxPrio \in Nat /\ Unranked \in Nat /\ a \in Nat
  BY PlaceSpec, ConfigAssumption, AisDedupAssumption
<1> QED BY <1>1 DEF RankOf

(* Of the receivers that hear a ship one is the best for the PGN.          *)
LEMMA BestExists ==
    ASSUME cfg \in Configs, NEW m, NEW p, InReach(m)
    PROVE  \E a \in Addrs : Best(a, m, p)
<1> DEFINE In == {a \in Addrs : <<a, m>> \in reach}
           Ranks == {RankOf(p, a) : a \in In}
<1>1. \A a \in Addrs : RankOf(p, a) \in Nat /\ a \in Nat
  BY RankNat, Numbers
<1>2. Ranks \in SUBSET Nat /\ Ranks # {}
  BY <1>1 DEF InReach
<1> HIDE DEF Ranks
<1>3. PICK least \in Ranks : \A r \in Ranks : least =< r
  BY <1>2, LeastExists
<1> DEFINE First == {a \in In : RankOf(p, a) = least}
<1>4. First \in SUBSET Nat /\ First # {}
  BY <1>1, <1>3 DEF Ranks
<1> HIDE DEF First
<1>5. PICK a \in First : \A b \in First : a =< b
  BY <1>4, LeastExists
<1>6. ASSUME NEW b \in In PROVE Ahead(p, a, b)
  <2>1. RankOf(p, a) = least /\ least =< RankOf(p, b) /\ RankOf(p, b) \in Nat /\ least \in Nat
    BY <1>1, <1>2, <1>3 DEF First, Ranks
  <2>2. RankOf(p, b) = least => a <= b
    BY <1>5 DEF First
  <2> QED BY <2>1, <2>2 DEF Ahead
<1> QED BY <1>6 DEF Best, First

LEMMA InitQInv == AInit => QInv
<1> SUFFICES ASSUME AInit PROVE QInv
  OBVIOUS
<1>1. /\ cfg \in Configs /\ obs = <<>> /\ reach \subseteq Reach /\ told = {}
      /\ quiet = [m \in Ships |-> [p \in AisPgns |-> 0]] /\ churn = 0
  BY DEF AInit
<1>2. TableOK(obs) /\ Len(obs) = 0
  BY <1>1, Numbers DEF TableOK
<1>3. churn \in 0..MaxChurn /\ reach \subseteq Addrs \X Ships
  BY <1>1, AisDedupAssumption DEF Ships
<1>4. ASSUME NEW m \in Ships, NEW p \in AisPgns PROVE Waits(m, p, 0)
  BY <1>1, <1>2, MostQuietGrows DEF Waits, Gone, BestPasses
<1>5. 0 \in 0..Expired
  BY Numbers
<1> QED BY <1>1, <1>2, <1>3, <1>4, <1>5 DEF QInv

(* A line that is dropped tells of a PGN that is not waited for.           *)
LEMMA DropQInv ==
    ASSUME QInv, NEW a \in Addrs, NEW n \in Ships, NEW q \in AisPgns, Drop(a, n, q)
    PROVE  QInv'
<1>1. /\ UNCHANGED <<cfg, ident, obs, reach, voice, quiet, churn>>
      /\ q \in cfg.no0183 /\ told' = told \cup {<<a, n, q>>}
  BY DEF Drop
<1>2. TableOK(obs)'
  BY <1>1 DEF QInv, TableOK, Keyed, Obs, Expired, Ships
<1>3. ASSUME NEW m \in Ships, NEW p \in AisPgns, NEW d \in 0..Expired, Waits(m, p, d)
      PROVE  Waits(m, p, d)'
  <2>1. Gone(m, d)' /\ (quiet[m][p] + d <= MostQuiet(churn))'
    BY <1>1, <1>3 DEF Waits, Gone, MostQuiet, Expired
  <2>2. \A b \in Addrs : Best(b, m, p)' <=> Best(b, m, p)
    BY <1>1, RankSame DEF Best
  <2>3. ASSUME d = 0 PROVE BestPasses(m, p)'
    BY <1>1, <1>3, <2>2, <2>3 DEF Waits, BestPasses
  <2> QED BY <2>1, <2>3 DEF Waits
<1> QED BY <1>1, <1>2, <1>3 DEF QInv, Expired, Ships

LEMMA AcceptQInv ==
    ASSUME QInv, NEW a \in Addrs, NEW n \in Ships, NEW q \in AisPgns, Accept(a, n, q)
    PROVE  QInv'
<1> DEFINE T == Heard(n, a)
           passed == Retained(T, q, n, a)
<1>1. /\ cfg' = cfg /\ ident' = ident /\ reach' = reach /\ churn' = churn
      /\ <<a, n>> \in reach /\ q \notin cfg.no0183
      /\ told' = told \cup {<<a, n, q>>}
      /\ obs' = T
      /\ passed => quiet' = [quiet EXCEPT ![n][q] = 0]
      /\ ~ passed => quiet' = quiet
  BY DEF Accept
<1>2. /\ TableOK(T)
      /\ \A i \in 1..Len(T) : T[i] = New(n, a) \/ \E j \in 1..Len(obs) : T[i] = obs[j]
      /\ DOMAIN T = 1..Len(T)
  BY HeardSpec DEF QInv, TableOK
<1> HIDE DEF T, passed
<1>3. TableOK(obs)'
  BY <1>1, <1>2 DEF TableOK, Keyed, Obs, Expired, Ships
<1>4. \A m \in Ships, p \in AisPgns :
         /\ quiet'[m][p] = IF passed /\ m = n /\ p = q THEN 0 ELSE quiet[m][p]
         /\ quiet[m][p] \in Nat
  BY <1>1 DEF QInv
<1>5. quiet' \in [Ships -> [AisPgns -> Nat]]
  BY <1>1 DEF QInv
<1>6. ASSUME NEW m \in Ships, NEW p \in AisPgns, NEW d \in 0..Expired, Waits(m, p, d)
      PROVE  Waits(m, p, d)'
  <2>1. ASSUME NEW i \in 1..Len(T), T[i].mmsi = m, <<T[i].src, m>> \notin reach
        PROVE  T[i].age + d >= Expired
    <3>1. T[i] # New(n, a)
      BY <1>1, <2>1 DEF New
    <3> QED BY <1>2, <1>6, <2>1, <3>1 DEF Waits, Gone
  <2>2. Gone(m, d)'
    BY <1>1, <2>1 DEF Gone, Expired
  <2>3. MostQuiet(churn)' = MostQuiet(churn) /\ MostQuiet(churn) \in Nat
    BY <1>1, MostQuietGrows DEF MostQuiet, Expired, QInv
  <2>4. (quiet[m][p] + d <= MostQuiet(churn))'
    BY <1>4, <1>6, <2>3 DEF Waits
  <2>5. \A b \in Addrs : Best(b, m, p)' <=> Best(b, m, p)
    BY <1>1, RankSame DEF Best
  <2>6. ASSUME d = 0, NEW b \in Addrs, p \notin cfg.no0183, Best(b, m, p), <<b, m, p>> \in told'
        PROVE  quiet'[m][p] = 0
    <3>1. CASE <<b, m, p>> \in told
      BY <1>4, <1>6, <2>6, <3>1 DEF Waits, BestPasses
    <3>2. CASE b = a /\ m = n /\ p = q
      <4>1. ASSUME NEW i \in 1..Len(T), T[i].mmsi = n, Live(T[i])
            PROVE  Ahead(q, a, T[i].src)
        <5>1. CASE T[i] = New(n, a)
          BY <5>1, Numbers DEF New, Ahead
        <5>2. CASE T[i] # New(n, a)
          <6>1. PICK j \in 1..Len(obs) : T[i] = obs[j]
            BY <1>2, <5>2
          <6>2. T[i] \in Obs /\ T[i].src \in Addrs /\ T[i].age < Expired /\ T[i].age \in Nat
            BY <1>2, <4>1, Numbers DEF TableOK, Obs
          <6>3. ~ (T[i].age + d >= Expired)
            BY <2>6, <6>2, Numbers
          <6>4. <<T[i].src, n>> \in reach
            BY <2>1, <3>2, <4>1, <6>3
          <6> QED BY <2>6, <3>2, <6>2, <6>4 DEF Best
        <5> QED BY <5>1, <5>2
      <4>2. passed
        BY <1>2, <4>1 DEF passed, Retained, Ahead
      <4> QED BY <1>4, <3>2, <4>2
    <3> QED BY <1>1, <2>6, <3>1, <3>2
  <2>7. d = 0 => BestPasses(m, p)'
    BY <1>1, <2>5, <2>6 DEF BestPasses
  <2> QED BY <2>2, <2>4, <2>7 DEF Waits
<1> QED BY <1>1, <1>3, <1>5, <1>6 DEF QInv, Expired, Ships

(* In a tick everybody is heard: if nothing was in the way of the best     *)
(* receiver, the ship has just been passed on.                             *)
LEMMA TickQInv == ASSUME QInv, ATick PROVE QInv'
<1>1. /\ obs' = [i \in 1..Len(obs) |->
                   [obs[i] EXCEPT !.age = IF @ < Expired THEN @ + 1 ELSE Expired]]
      /\ cfg' = cfg /\ ident' = ident /\ reach' = reach /\ churn' = churn /\ told' = {}
      /\ \A r \in reach, p \in AisPgns : <<r[1], r[2], p>> \in told
      /\ quiet' = [m \in Ships |-> [p \in AisPgns |->
                     IF ~ InReach(m) \/ p \in cfg.no0183 THEN 0
                     ELSE IF quiet[m][p] <= MaxQuiet THEN quiet[m][p] + 1
                     ELSE quiet[m][p]]]
      /\ cfg \in Configs /\ TableOK(obs) /\ Len(obs) \in Nat
  BY DEF ATick, QInv, TableOK
<1>2. \A i \in 1..Len(obs) :
         /\ obs'[i] \in Obs
         /\ obs'[i].mmsi = obs[i].mmsi /\ obs'[i].src = obs[i].src
         /\ obs[i].age \in 0..Expired
         /\ obs'[i].age = IF obs[i].age < Expired THEN obs[i].age + 1 ELSE Expired
  <2> SUFFICES ASSUME NEW i \in 1..Len(obs)
               PROVE  /\ obs'[i] \in Obs
                      /\ obs'[i].mmsi = obs[i].mmsi /\ obs'[i].src = obs[i].src
                      /\ obs[i].age \in 0..Expired
                      /\ obs'[i].age = IF obs[i].age < Expired THEN obs[i].age + 1 ELSE Expired
    OBVIOUS
  <2>1. obs[i] \in Obs /\ obs[i].age \in 0..Expired /\ Expired \in Nat
    BY <1>1, Numbers DEF TableOK, Obs
  <2>2. obs'[i] = [obs[i] EXCEPT !.age = IF @ < Expired THEN @ + 1 ELSE Expired]
    BY <1>1
  <2> QED BY <2>1, <2>2 DEF Obs
<1>3. obs' \in Seq(Obs) /\ Len(obs') = Len(obs)
  BY <1>1, <1>2
<1>4. TableOK(obs)'
  <2>1. TableOK(obs')
    <3>1. /\ Len(obs) \in Nat /\ Len(obs) <= MaxObs
          /\ \A i, j \in 1..Len(obs) : Keyed(obs[i], obs[j].mmsi, obs[j].src) => i = j
      BY <1>1 DEF TableOK
    <3>2. \A i, j \in 1..Len(obs) : Keyed(obs'[i], obs'[j].mmsi, obs'[j].src) => i = j
      BY <1>2, <3>1 DEF Keyed
    <3> QED BY <1>2, <1>3, <3>1, <3>2 DEF TableOK
  <2> QED BY <2>1 DEF TableOK, Keyed, Obs, Expired, Ships
<1>5. \A m \in Ships, p \in AisPgns :
         /\ quiet[m][p] \in Nat
         /\ quiet'[m][p] \in Nat /\ quiet'[m][p] <= quiet[m][p] + 1
         /\ ~ InReach(m) \/ p \in cfg.no0183 => quiet'[m][p] = 0
  BY <1>1 DEF QInv
<1>6. quiet' \in [Ships -> [AisPgns -> Nat]]
  BY <1>1 DEF QInv
<1>7. MostQuiet(churn)' = MostQuiet(churn) /\ MostQuiet(churn) \in Nat /\ MostQuiet(churn) >= 1
  BY <1>1, MostQuietGrows DEF MostQuiet, Expired, QInv
<1>8. ASSUME NEW m \in Ships, NEW p \in AisPgns, NEW d \in 0..Expired, Waits(m, p, d)
      PROVE  \E e \in 0..Expired : Waits(m, p, e)'
  <2>1. BestPasses(m, p)'
    BY <1>1 DEF BestPasses
  <2>2. CASE d > 0
    <3>1. d - 1 \in 0..Expired /\ d \in Nat
      BY <2>2, Numbers
    <3>2. ASSUME NEW i \in 1..Len(obs), obs[i].age + d >= Expired
          PROVE  obs'[i].age + (d - 1) >= Expired
      BY <1>2, <2>2, <3>1, <3>2, Numbers
    <3>3. Gone(m, d - 1)'
      BY <1>1, <1>2, <1>3, <1>8, <3>2 DEF Waits, Gone, Expired
    <3>4. quiet'[m][p] + (d - 1) <= MostQuiet(churn)
      BY <1>5, <1>7, <1>8, <3>1 DEF Waits
    <3> QED BY <1>7, <2>1, <3>1, <3>3, <3>4 DEF Waits, Expired
  <2>3. CASE d = 0
    <3>1. ASSUME InReach(m), p \notin cfg.no0183 PROVE quiet[m][p] = 0
      <4>1. PICK a \in Addrs : Best(a, m, p)
        BY <1>1, <3>1, BestExists
      <4>2. <<a, m, p>> \in told
        BY <1>1, <4>1 DEF Best
      <4> QED BY <1>8, <2>3, <3>1, <4>1, <4>2 DEF Waits, BestPasses
    <3>2. quiet'[m][p] <= 1
      BY <1>5, <3>1
    <3>3. \A i \in 1..Len(obs) : obs[i].age + 0 >= Expired => obs'[i].age + 0 >= Expired
      BY <1>2, Numbers
    <3>4. Gone(m, 0)'
      BY <1>1, <1>2, <1>3, <1>8, <2>3, <3>3 DEF Waits, Gone, Expired
    <3>5. (quiet[m][p] + 0 <= MostQuiet(churn))'
      BY <1>5, <1>7, <3>2
    <3>6. 0 \in 0..Expired
      BY Numbers
    <3> QED BY <2>1, <3>4, <3>5, <3>6 DEF Waits
  <2> QED BY <2>2, <2>3, Numbers
<1> QED BY <1>1, <1>4, <1>6, <1>8 DEF QInv, Expired, Ships

(* A change of any kind costs the time of one entry.                       *)
Changed ==
    /\ Churn
    /\ cfg' \in Configs /\ obs' \in {obs, <<>>} /\ reach' \subseteq Addrs \X Ships
    /\ UNCHANGED quiet

LEMMA ChangeQInv == ASSUME QInv, Changed PROVE QInv'
<1>1. /\ cfg' \in Configs /\ obs' \in {obs, <<>>} /\ reach' \subseteq Addrs \X Ships
      /\ quiet' = quiet /\ churn' = churn + 1 /\ churn \in Nat /\ churn' \in 0..MaxChurn
  BY AisDedupAssumption DEF Changed, Churn, QInv
<1>2. TableOK(obs') /\ TableOK(obs)'
  <2>1. TableOK(<<>>)
    BY Numbers DEF TableOK
  <2>2. TableOK(obs')
    BY <1>1, <2>1 DEF QInv
  <2> QED BY <2>2 DEF TableOK, Keyed, Obs, Expired, Ships
<1>3. Expired \in Nat /\ Expired # 0 /\ Expired \in 0..Expired
  BY Numbers
<1>4. ASSUME NEW m \in Ships, NEW p \in AisPgns PROVE Waits(m, p, Expired)'
  <2>1. \A i \in 1..Len(obs') : obs'[i].age + Expired >= Expired
    BY <1>2, <1>3, Numbers DEF TableOK
  <2>2. Gone(m, Expired)'
    BY <2>1 DEF Gone, Expired
  <2>3. PICK d \in 0..Expired : quiet[m][p] + d <= MostQuiet(churn)
    BY DEF QInv, Waits
  <2>4. quiet[m][p] + Expired <= MostQuiet(churn) + Expired
    <3>1. quiet[m][p] \in Nat /\ MostQuiet(churn) \in Nat
      BY <1>1, MostQuietGrows DEF QInv
    <3> QED BY <1>3, <2>3, <3>1
  <2>5. MostQuiet(churn') = MostQuiet(churn) + Expired
    BY <1>1, MostQuietGrows
  <2>6. (quiet[m][p] + Expired <= MostQuiet(churn))'
    BY <1>1, <2>4, <2>5 DEF MostQuiet, Expired
  <2> QED BY <1>3, <2>2, <2>6 DEF Waits, Expired
<1> QED BY <1>1, <1>2, <1>3, <1>4 DEF QInv, Expired, Ships

LEMMA StutterQInv == ASSUME QInv, UNCHANGED avars PROVE QInv'
<1>1. /\ cfg' = cfg /\ ident' = ident /\ obs' = obs /\ reach' = reach /\ told' = told
      /\ quiet' = quiet /\ churn' = churn
  BY DEF avars
<1>2. TableOK(obs)'
  BY <1>1 DEF QInv, TableOK, Keyed, Obs, Expired, Ships
<1>3. ASSUME NEW m \in Ships, NEW p \in AisPgns, NEW d \in 0..Expired, Waits(m, p, d)
      PROVE  Waits(m, p, d)'
  <2>1. \A b \in Addrs : Best(b, m, p)' <=> Best(b, m, p)
    BY <1>1, RankSame DEF Best
  <2> QED BY <1>1, <1>3, <2>1 DEF Waits, Gone, BestPasses, MostQuiet, Expired
<1> QED BY <1>1, <1>2, <1>3 DEF QInv, Expired, Ships

LEMMA NextQInv == QInv /\ [ANext]_avars => QInv'
<1> SUFFICES ASSUME QInv, [ANext]_avars PROVE QInv'
  OBVIOUS
<1>1. \A r \in Reach : r[1] \in Addrs /\ r[2] \in Ships
  BY AisDedupAssumption DEF Ships
<1>2. ASSUME NEW r \in Reach, NEW p \in AisPgns,
             Drop(r[1], r[2], p) \/ Accept(r[1], r[2], p)
      PROVE  QInv'
  BY <1>1, <1>2, DropQInv, AcceptQInv
<1>3. CASE ATick
  BY <1>3, TickQInv
<1>4. CASE AReload
  BY <1>4, ChangeQInv DEF AReload, Changed, QInv
<1>5. ASSUME NEW a \in Addrs, ALearn(a) PROVE QInv'
  BY <1>5, ChangeQInv DEF ALearn, Changed, QInv
<1>6. CASE Moves
  <2>1. Reach \subseteq Addrs \X Ships /\ reach \subseteq Addrs \X Ships
    BY AisDedupAssumption DEF Ships, QInv
  <2>2. reach' \subseteq Addrs \X Ships
    BY <1>6, <2>1 DEF Moves
  <2> QED BY <1>6, <2>2, ChangeQInv DEF Moves, Changed, QInv
<1>7. CASE UNCHANGED avars
  BY <1>7, StutterQInv
<1> QED BY <1>2, <1>3, <1>4, <1>5, <1>6, <1>7 DEF ANext

(* aisdedup.h: the receiver of lower priority takes over when the better   *)
(* one falls silent.  For any number of receivers, ships and places in the *)
(* table, and rules that need not agree between PGNs: a ship that is in    *)
(* reach of some receiver is missing for at most the timeout and a tick    *)
(* per change, and a tick.                                                 *)
THEOREM NoShipIsLost == ASSUME Patient PROVE ASpec => []NoShipLost
<1>1. QInv => NoShipLost
  <2> SUFFICES ASSUME QInv, NEW m \in Ships, NEW p \in AisPgns PROVE quiet[m][p] <= MaxQuiet
    BY DEF NoShipLost
  <2>1. PICK d \in 0..Expired : quiet[m][p] + d <= MostQuiet(churn)
    BY DEF QInv, Waits
  <2>2. churn \in Nat /\ MaxChurn \in Nat /\ churn <= MaxChurn /\ quiet[m][p] \in Nat
    BY AisDedupAssumption DEF QInv
  <2>3. /\ MostQuiet(churn) <= MostQuiet(MaxChurn)
        /\ MostQuiet(churn) \in Nat /\ MostQuiet(MaxChurn) \in Nat
    BY <2>2, MostQuietGrows
  <2>4. MostQuiet(MaxChurn) <= MaxQuiet /\ MaxQuiet \in Nat
    BY AisDedupAssumption DEF Patient
  <2> QED BY <2>1, <2>2, <2>3, <2>4
<1> QED BY <1>1, InitQInv, NextQInv, PTL DEF ASpec

=============================================================================

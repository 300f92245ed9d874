----------------------------- MODULE ChainProofs ----------------------------
(***************************************************************************)
(* Proofs about the chain from a message to a dropped frame: the           *)
(* arbitration, the list of losers, and n2k-filter behind them.            *)
(*                                                                         *)
(* The arbitration, for any configuration, any timeout and any behaviour   *)
(* of the sources: what it promises (Handover) is what it does.  The       *)
(* invariant behind it is HolderOnTop; that only rules in priority mode    *)
(* have a holder, and that only configured slots are alive, make it        *)
(* inductive.                                                              *)
(*                                                                         *)
(* The list, for any messages and verdicts: RInv, which says of each entry *)
(* that it is the last verdict on its key, and of each verdict that it has *)
(* an entry where one is due.                                              *)
(*                                                                         *)
(* The chain, for any configurations, any sources and whatever happens to  *)
(* either process: ChainInv follows a change of the bus down the chain.    *)
(* calm seconds after it, the verdicts are right (VerdictsRight), and then *)
(* the table (TableInv), the file (an interval later), what n2k-filter has *)
(* loaded, and the frames it lets through (FollowInv).                     *)
(***************************************************************************)
EXTENDS FilterChain, Losers, ScanProofs

HolderByPriority ==
    \A r \in RuleIds : holder[r] # 0 =>
        /\ r <= Len(cfg.rules)
        /\ ModeEffective(cfg.rules[r].pgn, cfg.rules[r].pick) = "priority"

IInv == TypeOK /\ HolderOnTop /\ HolderByPriority

-----------------------------------------------------------------------------
LEMMA ConfigurationShape ==
    ASSUME NEW c \in Configs
    PROVE  /\ c.rules \in Seq(Rule)
           /\ Len(c.rules) \in Nat /\ Len(c.rules) <= MaxRules
           /\ \A r \in 1..Len(c.rules) :
                /\ c.rules[r] \in Rule
                /\ c.rules[r].sources \in Seq(Names)
                /\ Len(c.rules[r].sources) \in Nat
                /\ Len(c.rules[r].sources) <= MaxPrio
           /\ c.nameOf \in [Idents -> Names \cup {None}]
<1>1. c \in Configuration
  BY ConfigAssumption, ArbiterAssumption
<1>2. /\ c.rules \in Seq(Rule) /\ Len(c.rules) <= MaxRules
      /\ \A i \in 1..Len(c.rules) : Len(c.rules[i].sources) <= MaxPrio
      /\ c.nameOf \in [Idents -> Names \cup {None}]
  BY <1>1 DEF Configuration
<1>3. \A r \in 1..Len(c.rules) : c.rules[r] \in Rule
  BY <1>2
<1> QED
  BY <1>2, <1>3 DEF Rule

(* A rule that is found is one of the configuration, for that PGN.         *)
LEMMA RuleForSpec ==
    ASSUME cfg \in Configs, NEW m, RuleFor(m) # NoSlot
    PROVE  /\ RuleFor(m) \in 1..Len(cfg.rules)
           /\ RuleFor(m) \in RuleIds
           /\ cfg.rules[RuleFor(m)].pgn = m.pgn
<1> DEFINE disc == DiscriminantOf(m)
           applies == {i \in 1..Len(cfg.rules) :
                         /\ cfg.rules[i].pgn = m.pgn
                         /\ StartsWith(disc, cfg.rules[i].disc)}
           S == {i \in applies : \A j \in applies :
                   Len(cfg.rules[i].disc) >= Len(cfg.rules[j].disc)}
<1>1. RuleFor(m) = FirstOr0(S)
  BY DEF RuleFor, ConfigRule
<1>2. Len(cfg.rules) \in Nat /\ Len(cfg.rules) <= MaxRules
  BY ConfigurationShape
<1>3. /\ S \in SUBSET (Nat \ {0})
      /\ \A i \in S : i \in 1..Len(cfg.rules) /\ cfg.rules[i].pgn = m.pgn
  BY <1>2
<1> HIDE DEF S
<1>4. FirstOr0(S) \in S
  BY <1>1, <1>3, FirstOr0Scan
<1>5. RuleFor(m) \in S
  BY <1>1, <1>4
<1>6. RuleFor(m) \in 1..Len(cfg.rules) /\ cfg.rules[RuleFor(m)].pgn = m.pgn
  BY <1>3, <1>5
<1>7. 1..Len(cfg.rules) \subseteq RuleIds
  BY <1>2, ConfigAssumption, ArbiterAssumption DEF RuleIds
<1> QED
  BY <1>6, <1>7

(* A message that competes does so for a configured slot.                  *)
LEMMA CompetingSpec ==
    ASSUME cfg \in Configs, NEW m, Result(m) \in Competing
    PROVE  /\ RuleFor(m) \in 1..Len(cfg.rules) /\ RuleFor(m) \in RuleIds
           /\ SlotFor(m) \in 1..Len(cfg.rules[RuleFor(m)].sources)
           /\ SlotFor(m) \in SlotIds
           /\ cfg.rules[RuleFor(m)].pgn = m.pgn
<1>1. RuleFor(m) # NoSlot /\ SlotFor(m) # NoSlot
  BY DEF Result, Competing
<1>2. /\ RuleFor(m) \in 1..Len(cfg.rules) /\ RuleFor(m) \in RuleIds
      /\ cfg.rules[RuleFor(m)].pgn = m.pgn
  BY <1>1, RuleForSpec
<1> DEFINE sources == cfg.rules[RuleFor(m)].sources
           S == {i \in 1..Len(sources) : sources[i] = NameFor(m)}
<1>3. Len(sources) \in Nat /\ Len(sources) <= MaxPrio
  BY <1>2, ConfigurationShape
<1>4. SlotFor(m) = FirstOr0(S)
  BY DEF SlotFor, SlotOfName
<1>5. S \in SUBSET (Nat \ {0}) /\ S \subseteq 1..Len(sources)
  BY <1>3
<1> HIDE DEF S
<1>6. FirstOr0(S) \in S
  BY <1>1, <1>4, <1>5, FirstOr0Scan
<1>7. SlotFor(m) \in 1..Len(sources)
  BY <1>4, <1>5, <1>6
<1>8. 1..Len(sources) \subseteq SlotIds
  BY <1>3, ConfigAssumption, ArbiterAssumption DEF SlotIds
<1>9. SlotFor(m) \in SlotIds
  BY <1>7, <1>8
<1> QED
  BY <1>2, <1>7, <1>9

LEMMA ResultSpec ==
    ASSUME NEW m
    PROVE  /\ Result(m) \in Results
           /\ Result(m) = "ACCEPT" /\ ModeFor(m) = "priority"
                => ~ Supplanted(RuleFor(m), SlotFor(m))
           /\ Result(m) = "REJECT_PRIORITY"
                => /\ ModeFor(m) = "priority"
                   /\ Supplanted(RuleFor(m), SlotFor(m))
BY DEF Result, Results

(* The two ways arbiter_decide ends: an early return or a verdict.         *)
LEMMA DecideCases ==
    ASSUME NEW m, Decide(m)
    PROVE  /\ last' = [msg |-> m, result |-> Result(m)]
           /\ UNCHANGED <<cfg, ident, up, churn>>
           /\ \/ Result(m) \notin Competing /\ UNCHANGED <<age, holder>>
              \/ /\ Result(m) \in Competing
                 /\ age' = [age EXCEPT ![RuleFor(m)][SlotFor(m)] = 0]
                 /\ holder' = IF Result(m) = "ACCEPT" /\ ModeFor(m) = "priority"
                              THEN [holder EXCEPT ![RuleFor(m)] = SlotFor(m)]
                              ELSE holder
BY DEF Decide

LEMMA InitIInv == Init => IInv
<1> SUFFICES ASSUME Init PROVE IInv
  OBVIOUS
<1>1. \A r \in RuleIds, s \in SlotIds : ~ Live(r, s)
  BY ConfigAssumption, ArbiterAssumption DEF Init, NoAges, Live, Expired
<1>2. TypeOK
  BY <1>1, ConfigAssumption, ArbiterAssumption DEF Init, TypeOK, NoAges, Expired, Message, NoMessage, Results
<1>3. HolderOnTop /\ HolderByPriority
  BY DEF Init, HolderOnTop, HolderByPriority
<1> QED
  BY <1>2, <1>3 DEF IInv

LEMMA DecideStep ==
    ASSUME IInv, NEW m \in Message, Decide(m)
    PROVE  IInv'
<1>1. /\ cfg \in Configs /\ cfg' = cfg /\ ident' = ident /\ up' = up
      /\ churn' = churn
      /\ last' = [msg |-> m, result |-> Result(m)]
      /\ age \in [RuleIds -> [SlotIds -> 0..Expired]]
      /\ holder \in [RuleIds -> 0..MaxPrio]
  BY DecideCases DEF IInv, TypeOK
<1>2. last'.msg \in Message /\ last'.result \in Results
  BY <1>1, ResultSpec
<1>3. CASE UNCHANGED <<age, holder>>
  <2>1. TypeOK'
    BY <1>1, <1>2, <1>3 DEF IInv, TypeOK, Live
  <2>2. HolderOnTop' /\ HolderByPriority'
    BY <1>1, <1>3 DEF IInv, HolderOnTop, HolderByPriority, Live
  <2> QED
    BY <2>1, <2>2 DEF IInv
<1>4. CASE Result(m) \in Competing
  <2> DEFINE r == RuleFor(m)
             s == SlotFor(m)
  <2>1. /\ r \in 1..Len(cfg.rules) /\ r \in RuleIds
        /\ s \in 1..Len(cfg.rules[r].sources) /\ s \in SlotIds
        /\ cfg.rules[r].pgn = m.pgn
    BY <1>1, <1>4, CompetingSpec
  <2>2. /\ age' = [age EXCEPT ![r][s] = 0]
        /\ holder' = IF Result(m) = "ACCEPT" /\ ModeFor(m) = "priority"
                     THEN [holder EXCEPT ![r] = s] ELSE holder
    BY <1>4, DecideCases
  <2>3. ModeFor(m) = ModeEffective(cfg.rules[r].pgn, cfg.rules[r].pick)
    BY <2>1 DEF ModeFor
  <2>4. /\ Result(m) = "ACCEPT" /\ ModeFor(m) = "priority" => ~ Supplanted(r, s)
        /\ Result(m) = "REJECT_PRIORITY"
             => ModeFor(m) = "priority" /\ Supplanted(r, s)
        /\ Result(m) \in {"ACCEPT", "REJECT_PRIORITY"}
    BY <1>4, ResultSpec DEF Competing
  <2>5. Len(cfg.rules) \in Nat /\ Len(cfg.rules[r].sources) \in Nat
    BY <1>1, <2>1, ConfigurationShape
  <2> HIDE DEF r, s
  <2>6. /\ age' \in [RuleIds -> [SlotIds -> 0..Expired]]
        /\ \A q \in RuleIds, t \in SlotIds :
             age'[q][t] = IF q = r /\ t = s THEN 0 ELSE age[q][t]
    BY <1>1, <2>1, <2>2, ConfigAssumption, ArbiterAssumption DEF Expired
  <2>7. /\ holder' \in [RuleIds -> 0..MaxPrio]
        /\ \A q \in RuleIds : q # r => holder'[q] = holder[q]
        /\ holder'[r] = IF Result(m) = "ACCEPT" /\ ModeFor(m) = "priority"
                        THEN s ELSE holder[r]
    BY <1>1, <2>1, <2>2 DEF SlotIds
  <2>8. \A q \in RuleIds, t \in SlotIds :
          Live(q, t)' => Live(q, t) \/ (q = r /\ t = s)
    BY <2>6 DEF Live
  <2>9. TypeOK'
    <3>1. ASSUME NEW q \in RuleIds, NEW t \in SlotIds, Live(q, t)'
          PROVE  q <= Len(cfg.rules) /\ t <= Len(cfg.rules[q].sources)
      BY <2>1, <2>5, <2>8, <3>1 DEF IInv, TypeOK
    <3> QED
      BY <1>1, <1>2, <2>6, <2>7, <3>1 DEF IInv, TypeOK
  <2>10. HolderOnTop'
    <3> SUFFICES ASSUME NEW q \in RuleIds, NEW t \in SlotIds,
                        holder'[q] # 0, t < holder'[q]
                 PROVE  ~ Live(q, t)'
      BY DEF HolderOnTop
    <3>1. CASE q # r
      BY <2>7, <2>8, <3>1 DEF IInv, HolderOnTop
    <3>2. CASE q = r /\ Result(m) = "ACCEPT" /\ ModeFor(m) = "priority"
      BY <2>1, <2>4, <2>7, <2>8, <3>2 DEF Supplanted, SlotIds
    <3>3. CASE q = r /\ ~ (Result(m) = "ACCEPT" /\ ModeFor(m) = "priority")
      <4>1. holder'[r] = holder[r]
        BY <2>7, <3>3
      <4>2. ~ Live(r, t)
        BY <2>1, <3>3, <4>1 DEF IInv, HolderOnTop
      <4>3. t # s
        <5>1. Result(m) = "REJECT_PRIORITY"
          BY <2>1, <2>3, <2>4, <3>3, <4>1 DEF IInv, HolderByPriority
        <5>2. PICK u \in SlotIds : u < s /\ Live(r, u)
          BY <2>4, <5>1 DEF Supplanted
        <5>3. ~ (u < holder[r])
          BY <1>1, <2>1, <3>3, <4>1, <5>2 DEF IInv, HolderOnTop
        <5>4. u \in Nat /\ t \in Nat /\ holder[r] \in Nat /\ t < holder[r]
          BY <1>1, <2>1, <3>3, <4>1, ConfigAssumption DEF IInv, TypeOK, SlotIds
        <5> QED
          BY <5>2, <5>3, <5>4
      <4> QED
        BY <2>1, <2>8, <3>3, <4>2, <4>3
    <3> QED
      BY <3>1, <3>2, <3>3
  <2>11. HolderByPriority'
    <3> SUFFICES ASSUME NEW q \in RuleIds, holder'[q] # 0
                 PROVE  /\ q <= Len(cfg.rules)
                        /\ ModeEffective(cfg.rules[q].pgn, cfg.rules[q].pick)
                             = "priority"
      BY <1>1 DEF HolderByPriority
    <3>1. CASE holder[q] # 0
      BY <3>1 DEF IInv, HolderByPriority
    <3>2. CASE holder[q] = 0
      <4>1. q = r /\ ModeFor(m) = "priority"
        BY <2>7, <3>2
      <4>2. r <= Len(cfg.rules)
        BY <2>1, <2>5
      <4> QED
        BY <2>3, <4>1, <4>2
    <3> QED
      BY <3>1, <3>2
  <2> QED
    BY <2>9, <2>10, <2>11 DEF IInv
<1> QED
  BY <1>3, <1>4, DecideCases

LEMMA TickStep ==
    ASSUME IInv, Tick
    PROVE  IInv'
<1>1. /\ UNCHANGED <<cfg, ident, up, last, holder, churn>>
      /\ age \in [RuleIds -> [SlotIds -> 0..Expired]]
      /\ Expired \in Nat /\ Timeout \in Nat /\ Expired = Timeout + 1
  BY ConfigAssumption, ArbiterAssumption DEF IInv, TypeOK, Tick, Expired
<1>2. age' = [r \in RuleIds |-> [s \in SlotIds |->
                IF age[r][s] < Expired THEN age[r][s] + 1 ELSE Expired]]
  BY DEF Tick
<1>3. /\ age' \in [RuleIds -> [SlotIds -> 0..Expired]]
      /\ \A r \in RuleIds, s \in SlotIds : age'[r][s] >= age[r][s]
  BY <1>1, <1>2
<1>4. \A r \in RuleIds, s \in SlotIds : Live(r, s)' => Live(r, s)
  BY <1>1, <1>3 DEF Live
<1>5. TypeOK'
  BY <1>1, <1>3, <1>4 DEF IInv, TypeOK
<1>6. HolderOnTop' /\ HolderByPriority'
  BY <1>1, <1>4 DEF IInv, HolderOnTop, HolderByPriority
<1> QED
  BY <1>5, <1>6 DEF IInv

(* A step that leaves the arbiter and the configuration alone.             *)
LEMMA OutsideStep ==
    ASSUME IInv, UNCHANGED <<cfg, last, age, holder>>,
           ident' \in [Addrs -> Idents \cup {None}],
           up' \subseteq Addrs, churn' \in 0..MaxChurn
    PROVE  IInv'
<1>1. TypeOK'
  BY DEF IInv, TypeOK, Live
<1>2. HolderOnTop' /\ HolderByPriority'
  BY DEF IInv, HolderOnTop, HolderByPriority, Live
<1> QED
  BY <1>1, <1>2 DEF IInv

LEMMA ArbiterInitStep ==
    ASSUME IInv, cfg' \in Configs, ArbiterInit, UNCHANGED <<ident, up, last>>,
           churn' \in 0..MaxChurn
    PROVE  IInv'
<1>1. age' = NoAges /\ holder' = [r \in RuleIds |-> 0]
  BY DEF ArbiterInit
<1>2. \A r \in RuleIds, s \in SlotIds : ~ Live(r, s)'
  BY <1>1, ConfigAssumption, ArbiterAssumption DEF NoAges, Live, Expired
<1>3. age' \in [RuleIds -> [SlotIds -> 0..Expired]]
  BY <1>1, ConfigAssumption, ArbiterAssumption DEF NoAges, Expired
<1>4. TypeOK'
  BY <1>1, <1>2, <1>3, ConfigAssumption, ArbiterAssumption DEF IInv, TypeOK
<1>5. HolderOnTop' /\ HolderByPriority'
  BY <1>1 DEF HolderOnTop, HolderByPriority
<1> QED
  BY <1>4, <1>5 DEF IInv

LEMMA HearMessage ==
    ASSUME NEW a \in Addrs, NEW d \in Emits[a]
    PROVE  Datum(a, d) \in Message
<1>1. d \in Pgns \X Seq(Words)
  BY ConfigAssumption, ArbiterAssumption
<1> QED
  BY <1>1 DEF Datum, Message

LEMMA NextIInv == IInv /\ [Next]_vars => IInv'
<1> SUFFICES ASSUME IInv, [Next]_vars PROVE IInv'
  OBVIOUS
<1>1. /\ ident \in [Addrs -> Idents \cup {None}] /\ up \subseteq Addrs
      /\ churn \in 0..MaxChurn /\ cfg \in Configs
  BY DEF IInv, TypeOK
<1>2. Churn => churn' \in 0..MaxChurn
  BY <1>1, ConfigAssumption, ArbiterAssumption DEF Churn
<1>3. ASSUME NEW a \in Addrs, NEW d \in Emits[a], Hear(a, d) PROVE IInv'
  BY <1>3, HearMessage, DecideStep DEF Hear
<1>4. CASE Decide(NoMessage)
  <2>1. NoMessage \in Message
    BY DEF NoMessage, Message
  <2> QED
    BY <1>4, <2>1, DecideStep
<1>5. CASE Tick
  BY <1>5, TickStep
<1>6. CASE Reload
  <2>1. CASE cfg' \in Configs /\ ArbiterInit
    BY <1>2, <1>6, <2>1, ArbiterInitStep DEF Reload
  <2>2. CASE UNCHANGED <<cfg, age, holder>>
    BY <1>1, <1>2, <1>6, <2>2, OutsideStep DEF Reload
  <2> QED
    BY <1>6, <2>1, <2>2 DEF Reload
<1>7. ASSUME NEW a \in Addrs, Learn(a) PROVE IInv'
  <2>1. ident' \in [Addrs -> Idents \cup {None}]
    BY <1>1, <1>7 DEF Learn
  <2>2. churn' \in 0..MaxChurn
    BY <1>1, <1>2, <1>7 DEF Learn
  <2> QED
    BY <1>1, <1>7, <2>1, <2>2, OutsideStep DEF Learn
<1>8. ASSUME NEW a \in Addrs, Switch(a) PROVE IInv'
  <2>1. up' \subseteq Addrs
    BY <1>1, <1>8 DEF Switch
  <2> QED
    BY <1>1, <1>2, <1>8, <2>1, OutsideStep DEF Switch
<1>9. CASE UNCHANGED vars
  BY <1>1, <1>9, OutsideStep DEF vars
<1> QED
  BY <1>3, <1>4, <1>5, <1>6, <1>7, <1>8, <1>9 DEF Next

LEMMA IInvAlways == Spec => []IInv
<1> QED
  BY InitIInv, NextIInv, PTL DEF Spec

-----------------------------------------------------------------------------
(* Whatever is reloaded and however often, the liveness table only shows   *)
(* as alive the slots that the configuration in force lists.               *)
THEOREM ArbiterTypeCorrect == Spec => []TypeOK
<1>1. IInv => TypeOK
  BY DEF IInv
<1> QED
  BY <1>1, IInvAlways, PTL

(* arbiter_decide retains a source only while every source with a higher   *)
(* priority is silent.                                                     *)
THEOREM HolderStaysOnTop == Spec => []HolderOnTop
<1>1. IInv => HolderOnTop
  BY DEF IInv
<1> QED
  BY <1>1, IInvAlways, PTL

-----------------------------------------------------------------------------
(* Every step of the arbitration is one Handover allows, or one it does    *)
(* not see.                                                                *)

LEMMA SilenceSame ==
    ASSUME UNCHANGED <<age, holder>>
    PROVE  UNCHANGED Promise!hvars
BY DEF Promise!hvars, Silence

LEMMA InitHandover == Init => Promise!HInit
<1> SUFFICES ASSUME Init PROVE Promise!HInit
  OBVIOUS
<1>1. holder = [r \in RuleIds |-> 0]
  BY DEF Init
<1>2. Silence = [r \in RuleIds |-> Expired]
  BY <1>1 DEF Silence
<1> QED
  BY <1>1, <1>2 DEF Promise!HInit, Promise!Rules, Promise!Long, RuleIds, Expired

LEMMA DecideHandover ==
    ASSUME IInv, NEW m \in Message, Decide(m)
    PROVE  Promise!HNext \/ UNCHANGED Promise!hvars
<1>1. CASE UNCHANGED <<age, holder>>
  BY <1>1, SilenceSame
<1>2. CASE Result(m) \in Competing
  <2> DEFINE r == RuleFor(m)
             s == SlotFor(m)
  <2>1. /\ cfg \in Configs
        /\ age \in [RuleIds -> [SlotIds -> 0..Expired]]
        /\ holder \in [RuleIds -> 0..MaxPrio]
    BY DEF IInv, TypeOK
  <2>2. /\ r \in RuleIds /\ s \in SlotIds
        /\ ModeFor(m) = ModeEffective(cfg.rules[r].pgn, cfg.rules[r].pick)
    BY <1>2, <2>1, CompetingSpec DEF ModeFor
  <2>3. /\ age' = [age EXCEPT ![r][s] = 0]
        /\ holder' = IF Result(m) = "ACCEPT" /\ ModeFor(m) = "priority"
                     THEN [holder EXCEPT ![r] = s] ELSE holder
    BY <1>2, DecideCases
  <2>4. /\ Result(m) = "ACCEPT" /\ ModeFor(m) = "priority" => ~ Supplanted(r, s)
        /\ Result(m) = "REJECT_PRIORITY" => Supplanted(r, s)
        /\ Result(m) \in {"ACCEPT", "REJECT_PRIORITY"}
    BY <1>2, ResultSpec DEF Competing
  <2> HIDE DEF r, s
  <2>5. \A q \in RuleIds, t \in SlotIds :
          age'[q][t] = IF q = r /\ t = s THEN 0 ELSE age[q][t]
    BY <2>1, <2>2, <2>3
  <2>6. s \in Nat /\ s # 0
    BY <2>2 DEF SlotIds
  <2>7. CASE Result(m) = "ACCEPT" /\ ModeFor(m) = "priority"
    <3>1. holder' = [holder EXCEPT ![r] = s]
      BY <2>3, <2>7
    <3>2. Promise!MayRetain(r, s)
      <4> SUFFICES ASSUME holder[r] # 0, ~ (s <= holder[r])
                   PROVE  Silence[r] > Timeout
        BY DEF Promise!MayRetain
      <4>1. holder[r] \in SlotIds /\ holder[r] < s
        BY <2>1, <2>2, <2>6 DEF SlotIds
      <4>2. ~ Live(r, holder[r])
        BY <2>4, <2>7, <4>1 DEF Supplanted
      <4>3. age[r][holder[r]] \in Nat
        BY <2>1, <2>2, <4>1 DEF Expired
      <4>4. age[r][holder[r]] > Timeout
        BY <4>2, <4>3, ConfigAssumption, ArbiterAssumption DEF Live
      <4>5. Silence[r] = age[r][holder[r]]
        BY <2>2 DEF Silence
      <4> QED
        BY <4>4, <4>5
    <3>3. Silence' = [Silence EXCEPT ![r] = 0]
      <4>1. \A q \in RuleIds : holder'[q] = IF q = r THEN s ELSE holder[q]
        BY <2>1, <2>2, <3>1
      <4>2. \A q \in RuleIds : Silence'[q] = IF q = r THEN 0 ELSE Silence[q]
        <5> SUFFICES ASSUME NEW q \in RuleIds
                     PROVE  Silence'[q] = IF q = r THEN 0 ELSE Silence[q]
          OBVIOUS
        <5>1. Silence'[q] = IF holder'[q] = 0 THEN Expired
                            ELSE age'[q][holder'[q]]
          BY DEF Silence, Expired
        <5>2. Silence[q] = IF holder[q] = 0 THEN Expired
                           ELSE age[q][holder[q]]
          BY DEF Silence
        <5>3. CASE q = r
          BY <2>2, <2>5, <2>6, <4>1, <5>1, <5>3
        <5>4. CASE q # r
          <6>1. holder[q] # 0 => holder[q] \in SlotIds
            BY <2>1 DEF SlotIds
          <6> QED
            BY <2>5, <4>1, <5>1, <5>2, <5>4, <6>1
        <5> QED
          BY <5>3, <5>4
      <4> QED
        BY <2>2, <4>2 DEF Silence
    <3>4. Promise!Retain(r, s)
      BY <3>1, <3>2, <3>3 DEF Promise!Retain
    <3> QED
      BY <2>2, <3>4 DEF Promise!HNext, Promise!Rules, RuleIds, SlotIds
  <2>8. CASE ~ (Result(m) = "ACCEPT" /\ ModeFor(m) = "priority")
    <3>1. holder' = holder
      BY <2>3, <2>8
    <3>2. holder[r] = 0 \/ holder[r] # s
      <4> SUFFICES ASSUME holder[r] # 0, holder[r] = s PROVE FALSE
        OBVIOUS
      <4>1. ModeFor(m) = "priority"
        BY <2>2 DEF IInv, HolderByPriority
      <4>2. PICK u \in SlotIds : u < s /\ Live(r, u)
        BY <2>4, <2>8, <4>1 DEF Supplanted
      <4> QED
        BY <2>2, <4>2 DEF IInv, HolderOnTop
    <3>3. Silence' = Silence
      <4>1. ASSUME NEW q \in RuleIds, holder[q] # 0
            PROVE  age'[q][holder[q]] = age[q][holder[q]]
        <5>1. holder[q] \in SlotIds
          BY <2>1, <4>1 DEF SlotIds
        <5> QED
          BY <2>5, <3>2, <4>1, <5>1
      <4> QED
        BY <3>1, <4>1 DEF Silence, Expired
    <3> QED
      BY <3>1, <3>3 DEF Promise!hvars
  <2> QED
    BY <2>7, <2>8
<1> QED
  BY <1>1, <1>2, DecideCases

LEMMA TickHandover ==
    ASSUME IInv, Tick
    PROVE  Promise!Wait
<1>1. /\ age \in [RuleIds -> [SlotIds -> 0..Expired]]
      /\ holder \in [RuleIds -> 0..MaxPrio]
      /\ holder' = holder
      /\ Expired = Timeout + 1 /\ Timeout \in Nat
  BY ConfigAssumption, ArbiterAssumption DEF IInv, TypeOK, Tick, Expired
<1>2. \A q \in RuleIds, t \in SlotIds :
        age'[q][t] = IF age[q][t] < Expired THEN age[q][t] + 1 ELSE Expired
  BY DEF Tick
<1>3. ASSUME NEW q \in RuleIds
      PROVE  Silence'[q] = IF Silence[q] < Expired
                           THEN Silence[q] + 1 ELSE Expired
  <2>1. Silence[q] = IF holder[q] = 0 THEN Expired ELSE age[q][holder[q]]
    BY DEF Silence
  <2>2. Silence'[q] = IF holder[q] = 0 THEN Expired ELSE age'[q][holder[q]]
    BY <1>1 DEF Silence, Expired
  <2>3. holder[q] # 0 => holder[q] \in SlotIds
    BY <1>1 DEF SlotIds
  <2> QED
    BY <1>1, <1>2, <2>1, <2>2, <2>3
<1>4. Silence' = [q \in RuleIds |-> IF Silence[q] < Expired
                                    THEN Silence[q] + 1 ELSE Expired]
  BY <1>3 DEF Silence
<1> QED
  BY <1>1, <1>4 DEF Promise!Wait, Promise!Long, Promise!Rules, RuleIds

LEMMA RestartHandover ==
    ASSUME ArbiterInit
    PROVE  Promise!Restart
<1>1. holder' = [r \in RuleIds |-> 0]
  BY DEF ArbiterInit
<1>2. Silence' = [r \in RuleIds |-> Expired]
  BY <1>1 DEF Silence, Expired
<1> QED
  BY <1>1, <1>2 DEF Promise!Restart, Promise!Rules, Promise!Long, RuleIds, Expired

LEMMA NextHandover ==
    IInv /\ [Next]_vars => [Promise!HNext]_(Promise!hvars)
<1> SUFFICES ASSUME IInv, [Next]_vars
             PROVE  Promise!HNext \/ UNCHANGED Promise!hvars
  OBVIOUS
<1>1. ASSUME NEW a \in Addrs, NEW d \in Emits[a], Hear(a, d)
      PROVE  Promise!HNext \/ UNCHANGED Promise!hvars
  BY <1>1, HearMessage, DecideHandover DEF Hear
<1>2. CASE Decide(NoMessage)
  <2>1. NoMessage \in Message
    BY DEF NoMessage, Message
  <2> QED
    BY <1>2, <2>1, DecideHandover
<1>3. CASE Tick
  BY <1>3, TickHandover DEF Promise!HNext
<1>4. CASE Reload
  <2>1. CASE ArbiterInit
    BY <2>1, RestartHandover DEF Promise!HNext
  <2>2. CASE UNCHANGED <<age, holder>>
    BY <2>2, SilenceSame
  <2> QED
    BY <1>4, <2>1, <2>2 DEF Reload
<1>5. ASSUME NEW a \in Addrs, Learn(a) \/ Switch(a)
      PROVE  UNCHANGED Promise!hvars
  BY <1>5, SilenceSame DEF Learn, Switch
<1>6. CASE UNCHANGED vars
  BY <1>6, SilenceSame DEF vars
<1> QED
  BY <1>1, <1>2, <1>3, <1>4, <1>5, <1>6 DEF Next

(* The arbitration implements Handover: whatever is reloaded, learnt or    *)
(* switched on and off, a rule goes to a source of lower priority only     *)
(* after the one it had was silent for longer than the timeout.            *)
THEOREM ArbiterImplementsHandover == Spec => HandsOver
<1> QED
  BY InitHandover, NextHandover, IInvAlways, PTL
     DEF Spec, HandsOver, Promise!HSpec

-----------------------------------------------------------------------------
(* The list of losers, for any number of flows, discriminants and places   *)
(* in the table.  An entry of the table is the last verdict on its flow    *)
(* and discriminant, of its age, and no two entries are of the same.  What *)
(* is published is derived from the entries alone, so that this ties a     *)
(* publication to the verdicts.  That nothing is missing from it takes a   *)
(* table in which no entry gives way to another one.                       *)

KeyOf(e) == <<FlowOf(e), e.disc>>

(* The entries on the keys <<<<pgn, src>>, discriminant>> of K.            *)
Entry(K) ==
    [pgn : {k[1][1] : k \in K}, src : {k[1][2] : k \in K}, disc : {k[2] : k \in K},
     loser : BOOLEAN, age : Nat]

TableOK(es, K) ==
    /\ es \in Seq(Entry(K)) /\ Len(es) \in Nat
    /\ \A i \in 1..Len(es) : es[i] \in Entry(K) /\ KeyOf(es[i]) \in K
    /\ \A i, j \in 1..Len(es) : KeyOf(es[i]) = KeyOf(es[j]) => i = j

-----------------------------------------------------------------------------
(* What the purge leaves.                                                  *)
LEMMA PurgedSpec ==
    ASSUME NEW K, NEW es, TableOK(es, K)
    PROVE  /\ TableOK(Purged(es), K)
           /\ \A k \in 1..Len(Purged(es)) :
                 \E i \in 1..Len(es) : Purged(es)[k] = es[i] /\ Current(es[i])
           /\ \A i \in 1..Len(es) : Current(es[i])
                 => \E k \in 1..Len(Purged(es)) : Purged(es)[k] = es[i]
<1> DEFINE I == {i \in 1..Len(es) : Current(es[i])}
           P == Purged(es)
           n == Cardinality(I)
<1>0. \A i \in 1..Len(es) : i \in I <=> Current(es[i])
  OBVIOUS
<1>1. es \in Seq(Entry(K)) /\ I \in SUBSET (1..Len(es)) /\ P = Selected(es, I)
  <2>1. es \in Seq(Entry(K)) /\ DOMAIN es = 1..Len(es)
    BY DEF TableOK
  <2> QED BY <2>1, Zenon DEF Purged
<1> HIDE DEF I, P
<1>2. P \in Seq(Entry(K)) /\ Len(P) = n /\ n \in Nat
  BY <1>1, SelectedSpec
<1>3. PICK f \in [1..n -> I] :
         /\ \A k \in 1..n : P[k] = es[f[k]]
         /\ \A i \in I : \E k \in 1..n : f[k] = i
         /\ \A k, l \in 1..n : k < l => f[k] < f[l]
  BY <1>1, SelectedSpec
<1>4. \A k \in 1..n : f[k] \in 1..Len(es) /\ f[k] \in I
  BY <1>1, <1>3
<1> HIDE DEF n
<1>5. ASSUME NEW k \in 1..n, NEW l \in 1..n, KeyOf(P[k]) = KeyOf(P[l]) PROVE k = l
  <2>1. f[k] = f[l]
    BY <1>3, <1>4, <1>5 DEF TableOK
  <2>2. Len(es) \in Nat
    BY DEF TableOK
  <2>3. ~ (k < l) /\ ~ (l < k)
    BY <1>2, <1>3, <1>4, <2>1, <2>2
  <2> QED BY <1>2, <2>3
<1>6. \A k \in 1..n : P[k] \in Entry(K) /\ KeyOf(P[k]) \in K
  BY <1>3, <1>4 DEF TableOK
<1>7. TableOK(P, K)
  BY <1>2, <1>5, <1>6 DEF TableOK
<1>8. ASSUME NEW k \in 1..n PROVE \E i \in 1..Len(es) : P[k] = es[i] /\ Current(es[i])
  BY <1>0, <1>3, <1>4
<1>9. ASSUME NEW i \in 1..Len(es), Current(es[i]) PROVE \E k \in 1..n : P[k] = es[i]
  BY <1>0, <1>3, <1>9
<1> QED BY <1>2, <1>7, <1>8, <1>9 DEF P

LEMMA PurgedHere ==
    ASSUME NEW K, TableOK(drop, K), drop' = Purged(drop)
    PROVE  /\ TableOK(drop', K)
           /\ \A k \in 1..Len(drop') :
                 \E i \in 1..Len(drop) : drop'[k] = drop[i] /\ Current(drop[i])
           /\ \A i \in 1..Len(drop) : Current(drop[i])
                 => \E k \in 1..Len(drop') : drop'[k] = drop[i]
<1> DEFINE P == Purged(drop)
<1>1. /\ TableOK(P, K)
      /\ \A k \in 1..Len(P) : \E i \in 1..Len(drop) : P[k] = drop[i] /\ Current(drop[i])
      /\ \A i \in 1..Len(drop) : Current(drop[i]) => \E k \in 1..Len(P) : P[k] = drop[i]
  BY PurgedSpec
<1>2. drop' = P
  OBVIOUS
<1> HIDE DEF P
<1> QED BY <1>1, <1>2 DEF TableOK, Current

(* A flow is on the list if it has an entry, and only losing ones.         *)
LEMMA LoserLinesSpec ==
    ASSUME NEW K, NEW es, TableOK(es, K)
    PROVE  /\ LoserLines(es) \in Seq({k[1] : k \in K})
           /\ \A x : (\E k \in 1..Len(LoserLines(es)) : LoserLines(es)[k] = x)
                 <=> /\ \E i \in 1..Len(es) : FlowOf(es[i]) = x
                     /\ \A i \in 1..Len(es) : FlowOf(es[i]) = x => es[i].loser
<1> DEFINE I == {i \in 1..Len(es) : Listed(es, i)}
           S == Selected(es, I)
           n == Cardinality(I)
           L == LoserLines(es)
<1>1. es \in Seq(Entry(K)) /\ I \in SUBSET (1..Len(es)) /\ DOMAIN es = 1..Len(es)
      /\ \A i \in 1..Len(es) : es[i] \in Entry(K)
  BY DEF TableOK
<1>2. \A i \in I : /\ i \in 1..Len(es)
                   /\ \A j \in 1..Len(es) : FlowOf(es[j]) = FlowOf(es[i]) => es[j].loser
  BY <1>1 DEF Listed
<1>3. L = [k \in DOMAIN S |-> FlowOf(S[k])]
  BY <1>1 DEF LoserLines
<1>4. ASSUME NEW i \in 1..Len(es), \A j \in 1..Len(es) : FlowOf(es[j]) = FlowOf(es[i]) => es[j].loser
      PROVE  \E j \in I : FlowOf(es[j]) = FlowOf(es[i])
  <2> DEFINE Same == {j \in 1..Len(es) : FlowOf(es[j]) = FlowOf(es[i])}
  <2>1. Len(es) \in Nat /\ Same \in SUBSET Nat /\ Same # {}
    BY DEF TableOK
  <2>2. \E j \in Same : \A l \in Same : j =< l
    <3> HIDE DEF Same
    <3> QED BY <2>1, LeastExists
  <2>3. PICK j \in 1..Len(es) : /\ FlowOf(es[j]) = FlowOf(es[i])
                                /\ \A l \in 1..Len(es) : FlowOf(es[l]) = FlowOf(es[i]) => j =< l
    BY <2>2
  <2>4. \A l \in 1..(j - 1) : FlowOf(es[l]) # FlowOf(es[j])
    BY <2>1, <2>3
  <2>5. Listed(es, j)
    BY <1>1, <1>4, <2>3, <2>4 DEF Listed
  <2> QED BY <2>3, <2>5
<1> HIDE DEF I, S, L
<1>5. S \in Seq(Entry(K)) /\ Len(S) = n /\ n \in Nat
  BY <1>1, SelectedSpec DEF S
<1>6. PICK f \in [1..n -> I] :
         /\ \A k \in 1..n : S[k] = es[f[k]]
         /\ \A i \in I : \E k \in 1..n : f[k] = i
  BY <1>1, SelectedSpec DEF S
<1> HIDE DEF n
<1>7. L = [k \in 1..n |-> FlowOf(S[k])] /\ \A k \in 1..n : S[k] \in Entry(K)
  BY <1>3, <1>5
<1>8. L \in Seq({k[1] : k \in K}) /\ Len(L) = n
  <2>1. \A k \in 1..n : KeyOf(S[k]) \in K /\ KeyOf(S[k])[1] = FlowOf(S[k])
    BY <1>2, <1>6 DEF TableOK, KeyOf
  <2> QED BY <1>5, <1>7, <2>1
<1>9. ASSUME NEW k \in 1..n
      PROVE  /\ \E i \in 1..Len(es) : FlowOf(es[i]) = L[k]
             /\ \A i \in 1..Len(es) : FlowOf(es[i]) = L[k] => es[i].loser
  BY <1>2, <1>6, <1>7
<1>10. ASSUME NEW x, NEW i \in 1..Len(es), FlowOf(es[i]) = x,
              \A j \in 1..Len(es) : FlowOf(es[j]) = x => es[j].loser
       PROVE  \E k \in 1..n : L[k] = x
  <2>1. PICK j \in I : FlowOf(es[j]) = x
    BY <1>4, <1>10
  <2> QED BY <1>6, <1>7, <2>1
<1> QED BY <1>8, <1>9, <1>10 DEF L

-----------------------------------------------------------------------------
(* A verdict on key k.  Holds(k): the table has an entry of it.            *)
Holds(k) == \E i \in 1..Len(drop) : KeyOf(drop[i]) = k

New(f, d, r) ==
    [pgn |-> f[1], src |-> f[2], disc |-> d, loser |-> r \in LosingResults, age |-> 0]

LEMMA EntryForSpec ==
    ASSUME NEW K, TableOK(drop, K), NEW f, NEW d, f = <<f[1], f[2]>>
    PROVE  \/ EntryFor(f[1], f[2], d) = NoSlot /\ ~ Holds(<<f, d>>)
           \/ /\ EntryFor(f[1], f[2], d) # NoSlot /\ EntryFor(f[1], f[2], d) \in 1..Len(drop)
              /\ KeyOf(drop[EntryFor(f[1], f[2], d)]) = <<f, d>>
<1> DEFINE S == {i \in 1..Len(drop) : /\ FlowOf(drop[i]) = <<f[1], f[2]>>
                                      /\ drop[i].disc = d}
<1>1. DOMAIN drop = 1..Len(drop) /\ Len(drop) \in Nat
  BY DEF TableOK
<1>2. f = <<f[1], f[2]>>
  OBVIOUS
<1>3. EntryFor(f[1], f[2], d) = FirstOr0(S) /\ S \in SUBSET (Nat \ {0})
  BY <1>1 DEF EntryFor
<1>4. \A i \in 1..Len(drop) : i \in S <=> KeyOf(drop[i]) = <<f, d>>
  BY <1>2 DEF KeyOf
<1> HIDE DEF S
<1>5. S = {} \/ FirstOr0(S) \in S
  BY <1>3, FirstOr0Scan
<1>6. CASE S = {}
  BY <1>3, <1>4, <1>6 DEF FirstOr0, Holds
<1>7. CASE S # {}
  <2>1. FirstOr0(S) \in S /\ FirstOr0(S) # NoSlot /\ S \subseteq 1..Len(drop)
    BY <1>3, <1>7, FirstOr0Scan DEF S
  <2> QED BY <1>3, <1>4, <2>1
<1> QED BY <1>6, <1>7

(* The table after a verdict: the entry of the key, if there is one, is    *)
(* that verdict; every other entry was there before.  An entry is lost     *)
(* only if the table was full, and the verdict is remembered if it loses   *)
(* or if the flow has an entry.                                            *)
LEMMA ObserveSpec ==
    ASSUME NEW K, TableOK(drop, K), NEW f, NEW d, <<f, d>> \in K, f = <<f[1], f[2]>>,
           NEW r, Observe(f[1], f[2], d, r)
    PROVE  /\ TableOK(drop', K)
           /\ KeyOf(New(f, d, r)) = <<f, d>> /\ New(f, d, r) \in Entry(K)
           /\ \A i \in 1..Len(drop') :
                 \/ drop'[i] = New(f, d, r)
                 \/ \E j \in 1..Len(drop) : drop'[i] = drop[j] /\ KeyOf(drop[j]) # <<f, d>>
           /\ Len(drop) < DropMax \/ Holds(<<f, d>>) =>
                 /\ \A j \in 1..Len(drop) : KeyOf(drop[j]) # <<f, d>>
                       => \E i \in 1..Len(drop') : drop'[i] = drop[j]
                 /\ (r \in LosingResults \/ \E j \in 1..Len(drop) : FlowOf(drop[j]) = f)
                       => \E i \in 1..Len(drop') : drop'[i] = New(f, d, r)
<1> DEFINE e == New(f, d, r)
           x == EntryFor(f[1], f[2], d)
<1>1. /\ drop \in Seq(Entry(K)) /\ Len(drop) \in Nat /\ DOMAIN drop = 1..Len(drop)
      /\ \A i \in 1..Len(drop) : drop[i] \in Entry(K) /\ KeyOf(drop[i]) \in K
      /\ \A i, j \in 1..Len(drop) : KeyOf(drop[i]) = KeyOf(drop[j]) => i = j
  BY DEF TableOK
<1>2. /\ f = <<f[1], f[2]>> /\ e \in Entry(K) /\ KeyOf(e) = <<f, d>> /\ KeyOf(e) \in K
      /\ e.loser <=> r \in LosingResults
  <2>1. /\ f[1] \in {k[1][1] : k \in K} /\ f[2] \in {k[1][2] : k \in K}
        /\ d \in {k[2] : k \in K} /\ <<f, d>>[1] = f /\ <<f, d>>[2] = d
    OBVIOUS
  <2>2. (r \in LosingResults) \in BOOLEAN
    OBVIOUS
  <2>3. e \in Entry(K)
    BY <2>1, <2>2 DEF New, Entry
  <2>4. e.pgn = f[1] /\ e.src = f[2] /\ e.disc = d /\ (e.loser <=> r \in LosingResults)
    BY DEF New
  <2> QED BY <2>1, <2>3, <2>4 DEF KeyOf, FlowOf
<1>3. \/ x # NoSlot /\ drop' = [drop EXCEPT ![x] = e]
      \/ x = NoSlot /\ ~ Memorable(f[1], f[2], e.loser) /\ drop' = drop
      \/ x = NoSlot /\ Len(drop) < DropMax /\ drop' = Append(drop, e)
      \/ x = NoSlot /\ ~ (Len(drop) < DropMax) /\ drop' = [drop EXCEPT ![Oldest] = e]
  BY DEF Observe, New
<1>4. ~ Memorable(f[1], f[2], e.loser)
         => ~ (r \in LosingResults \/ \E j \in 1..Len(drop) : FlowOf(drop[j]) = f)
  BY <1>1, <1>2 DEF Memorable
<1>5. \/ x = NoSlot /\ ~ Holds(<<f, d>>)
      \/ x # NoSlot /\ x \in 1..Len(drop) /\ KeyOf(drop[x]) = <<f, d>>
  BY EntryForSpec
<1> HIDE DEF e, x
<1>6. CASE x # NoSlot
  <2>1. Len(drop') = Len(drop) /\ drop' \in Seq(Entry(K))
    <3>1. drop' = [drop EXCEPT ![x] = e] /\ x \in 1..Len(drop)
      BY <1>3, <1>5, <1>6
    <3>2. drop' \in [1..Len(drop) -> Entry(K)]
      BY <1>1, <1>2, <3>1
    <3> QED BY <1>1, <3>2
  <2>2. \A i \in 1..Len(drop) : drop'[i] = IF i = x THEN e ELSE drop[i]
    BY <1>1, <1>3, <1>6
  <2>3. TableOK(drop', K)
    BY <1>1, <1>2, <1>5, <1>6, <2>1, <2>2 DEF TableOK
  <2>4. \A i \in 1..Len(drop') :
           drop'[i] = e \/ \E j \in 1..Len(drop) : drop'[i] = drop[j] /\ KeyOf(drop[j]) # <<f, d>>
    BY <1>1, <1>5, <1>6, <2>1, <2>2
  <2>5. \A j \in 1..Len(drop) : KeyOf(drop[j]) # <<f, d>> => drop'[j] = drop[j]
    BY <1>5, <1>6, <2>2
  <2>6. x \in 1..Len(drop') /\ drop'[x] = e
    BY <1>5, <1>6, <2>1, <2>2
  <2> QED BY <1>2, <2>1, <2>3, <2>4, <2>5, <2>6 DEF e
<1>7. CASE x = NoSlot /\ ~ Memorable(f[1], f[2], e.loser) /\ drop' = drop
  BY <1>1, <1>2, <1>4, <1>5, <1>7 DEF TableOK, Holds, e
<1>8. CASE x = NoSlot /\ Len(drop) < DropMax /\ drop' = Append(drop, e)
  <2>1. Len(drop') = Len(drop) + 1 /\ drop' \in Seq(Entry(K))
    BY <1>1, <1>2, <1>8
  <2>2. /\ \A i \in 1..Len(drop) : i \in 1..Len(drop') /\ drop'[i] = drop[i]
        /\ drop'[Len(drop')] = e /\ Len(drop') \in 1..Len(drop')
        /\ \A i \in 1..Len(drop') : i \notin 1..Len(drop) => i = Len(drop')
    BY <1>1, <1>2, <1>8, <2>1
  <2>3. \A i \in 1..Len(drop) : KeyOf(drop[i]) # <<f, d>>
    BY <1>5, <1>8 DEF Holds
  <2>4. TableOK(drop', K)
    <3>1. \A i, j \in 1..Len(drop') : KeyOf(drop'[i]) = KeyOf(drop'[j]) => i = j
      BY <1>1, <1>2, <2>2, <2>3
    <3>2. \A i \in 1..Len(drop') : drop'[i] \in Entry(K) /\ KeyOf(drop'[i]) \in K
      BY <1>1, <1>2, <2>2
    <3> QED BY <1>1, <2>1, <3>1, <3>2 DEF TableOK
  <2> QED BY <1>2, <2>2, <2>3, <2>4 DEF e
<1>9. CASE x = NoSlot /\ ~ (Len(drop) < DropMax) /\ drop' = [drop EXCEPT ![Oldest] = e]
  <2>1. Len(drop') = Len(drop) /\ drop' \in Seq(Entry(K))
    <3>1. CASE Oldest \in 1..Len(drop)
      BY <1>1, <1>2, <1>9, <3>1
    <3>2. CASE Oldest \notin 1..Len(drop)
      <4>1. drop' = drop
        BY <1>1, <1>9, <3>2
      <4> QED BY <1>1, <4>1
    <3> QED BY <3>1, <3>2
  <2>2. \A i \in 1..Len(drop) : drop'[i] = IF i = Oldest THEN e ELSE drop[i]
    BY <1>1, <1>9
  <2>3. \A i \in 1..Len(drop) : KeyOf(drop[i]) # <<f, d>>
    BY <1>5, <1>9 DEF Holds
  <2>4. TableOK(drop', K)
    BY <1>1, <1>2, <2>1, <2>2, <2>3 DEF TableOK
  <2> QED BY <1>2, <1>9, <2>1, <2>2, <2>3, <2>4 DEF e, Holds
<1> QED BY <1>3, <1>6, <1>7, <1>8, <1>9

LEMMA TickTable ==
    ASSUME NEW K, TableOK(drop, K), DTick
    PROVE  /\ TableOK(drop', K) /\ Len(drop') = Len(drop)
           /\ \A i \in 1..Len(drop) :
                 /\ KeyOf(drop'[i]) = KeyOf(drop[i])
                 /\ FlowOf(drop'[i]) = FlowOf(drop[i])
                 /\ drop'[i].loser = drop[i].loser
                 /\ drop[i].age \in Nat /\ drop'[i].age = drop[i].age + 1
<1>1. /\ drop \in Seq(Entry(K)) /\ Len(drop) \in Nat /\ DOMAIN drop = 1..Len(drop)
      /\ \A i \in 1..Len(drop) : drop[i] \in Entry(K)
      /\ drop' = [i \in DOMAIN drop |-> [drop[i] EXCEPT !.age = @ + 1]]
  BY DEF TableOK, DTick
<1>2. ASSUME NEW i \in 1..Len(drop)
      PROVE  /\ drop'[i] \in Entry(K)
             /\ KeyOf(drop'[i]) = KeyOf(drop[i])
             /\ FlowOf(drop'[i]) = FlowOf(drop[i])
             /\ drop'[i].loser = drop[i].loser
             /\ drop[i].age \in Nat /\ drop'[i].age = drop[i].age + 1
  <2>1. drop[i] \in Entry(K) /\ drop'[i] = [drop[i] EXCEPT !.age = @ + 1]
    BY <1>1
  <2>2. /\ drop'[i].pgn = drop[i].pgn /\ drop'[i].src = drop[i].src
        /\ drop'[i].disc = drop[i].disc /\ drop'[i].loser = drop[i].loser
        /\ drop[i].age \in Nat /\ drop'[i].age = drop[i].age + 1 /\ drop'[i] \in Entry(K)
    BY <2>1 DEF Entry
  <2> QED BY <2>2 DEF KeyOf, FlowOf
<1>3. drop' \in Seq(Entry(K)) /\ Len(drop') = Len(drop)
  <2>1. drop' \in [1..Len(drop) -> Entry(K)]
    BY <1>1, <1>2
  <2> QED BY <1>1, <2>1
<1>4. TableOK(drop', K)
  BY <1>1, <1>2, <1>3 DEF TableOK
<1> QED BY <1>2, <1>3, <1>4

(* A place for every key: no entry ever gives way to another one.          *)
RoomFor(K) == IsFiniteSet(K) /\ Cardinality(K) <= DropMax

(* The keys of the entries are as many as the entries.                     *)
LEMMA RoomLeft ==
    ASSUME NEW K, RoomFor(K), TableOK(drop, K), NEW k \in K, ~ Holds(k)
    PROVE  Len(drop) < DropMax
<1> DEFINE n == Len(drop)
           f == [i \in 1..n |-> KeyOf(drop[i])]
           T == K \ {k}
<1>1. n \in Nat /\ \A i \in 1..n : KeyOf(drop[i]) \in T
  BY DEF TableOK, Holds
<1>2. f \in Injection(1..n, T)
  <2>1. \A i, j \in 1..n : f[i] = f[j] => i = j
    BY DEF TableOK
  <2>2. f \in [1..n -> T]
    BY <1>1
  <2> HIDE DEF f, n, T
  <2> QED BY <2>1, <2>2 DEF Injection, IsInjective
<1>3. IsFiniteSet(T) /\ Cardinality(T) = Cardinality(K) - 1
  BY FS_RemoveElement DEF RoomFor
<1>4. Cardinality(1..n) = n
  <2> HIDE DEF n
  <2>1. n \in Int /\ 1 \in Int /\ (1 > n => n = 0) /\ n - 1 + 1 = n
    BY <1>1
  <2> QED BY <2>1, FS_Interval
<1>5. Cardinality(1..n) <= Cardinality(T)
  <2> HIDE DEF f, n, T
  <2> QED BY <1>2, <1>3, FS_Injection
<1>6. Cardinality(K) \in Nat /\ Cardinality(K) <= DropMax /\ DropMax \in Nat
  BY FS_CardinalityType, DropSetAssumption DEF RoomFor
<1> QED BY <1>1, <1>3, <1>4, <1>5, <1>6

-----------------------------------------------------------------------------
(* Under any verdicts.                                                     *)

Keys == Flows \X Discs

LEMMA KeysAre == \A f \in Flows, d \in Discs : <<f, d>> \in Keys /\ f = <<f[1], f[2]>>
BY LosersAssumption DEF Keys

LEMMA EntryIs ==
    ASSUME NEW es, TableOK(es, Keys), NEW i \in 1..Len(es)
    PROVE  /\ FlowOf(es[i]) \in Flows /\ es[i].disc \in Discs
           /\ KeyOf(es[i]) = <<FlowOf(es[i]), es[i].disc>> /\ KeyOf(es[i]) \in Keys
           /\ es[i].loser \in BOOLEAN /\ es[i].age \in Nat
BY DEF TableOK, Entry, KeyOf, Keys

(* The last verdict on the key of an entry is the one the entry holds.     *)
Agrees(e) ==
    /\ judged[KeyOf(e)].loser = e.loser
    /\ judged[KeyOf(e)].age = IF e.age <= DropTimeout THEN e.age ELSE Forgotten

LInv ==
    /\ TableOK(drop, Keys)
    /\ judged \in [Keys -> [loser : BOOLEAN, age : 0..Forgotten]]
    /\ listed \subseteq Flows
    /\ \A i \in 1..Len(drop) : Agrees(drop[i])

LEMMA LosersNumbers ==
    /\ DropMax \in Nat \ {0} /\ DropTimeout \in Nat /\ Interval \in Nat \ {0}
    /\ Forgotten \in Nat /\ Forgotten = DropTimeout + 1
BY DropSetAssumption DEF Forgotten

(* The entries stay true to the verdicts.                                  *)

LEMMA InitLInv == LInit => LInv
<1> SUFFICES ASSUME LInit PROVE LInv
  OBVIOUS
<1>1. /\ drop = <<>> /\ judged = [k \in Keys |-> Never] /\ listed = {}
  BY DEF LInit, DInit, Keys
<1>2. TableOK(drop, Keys) /\ Len(drop) = 0
  BY <1>1 DEF TableOK
<1>3. judged \in [Keys -> [loser : BOOLEAN, age : 0..Forgotten]]
  BY <1>1, LosersNumbers DEF Never
<1> QED BY <1>1, <1>2, <1>3 DEF LInv

(* What a verdict does to the history.                                     *)
LEMMA VerdictJudged ==
    ASSUME LInv, NEW f \in Flows, NEW d \in Discs, NEW r, Verdict(f, d, r)
    PROVE  /\ judged' \in [Keys -> [loser : BOOLEAN, age : 0..Forgotten]]
           /\ \A k \in Keys :
                 judged'[k] = IF k = <<f, d>> THEN [loser |-> r \in LosingResults, age |-> 0]
                              ELSE judged[k]
<1>1. judged' = [judged EXCEPT ![<<f, d>>] = [loser |-> r \in LosingResults, age |-> 0]]
  BY DEF Verdict
<1>2. judged \in [Keys -> [loser : BOOLEAN, age : 0..Forgotten]] /\ 0 \in 0..Forgotten
  BY LosersNumbers DEF LInv
<1>3. [loser |-> r \in LosingResults, age |-> 0] \in [loser : BOOLEAN, age : 0..Forgotten]
  BY <1>2
<1> QED BY <1>1, <1>2, <1>3

LEMMA VerdictLInv ==
    ASSUME LInv, NEW f \in Flows, NEW d \in Discs, NEW r, Verdict(f, d, r)
    PROVE  LInv'
<1> DEFINE e == New(f, d, r)
<1>1. Observe(f[1], f[2], d, r) /\ listed' = listed /\ TableOK(drop, Keys)
  BY DEF Verdict, LInv
<1>2. /\ judged' \in [Keys -> [loser : BOOLEAN, age : 0..Forgotten]]
      /\ \A k \in Keys : judged'[k] = IF k = <<f, d>> THEN [loser |-> r \in LosingResults, age |-> 0]
                                      ELSE judged[k]
  BY VerdictJudged
<1>3. /\ TableOK(drop', Keys) /\ KeyOf(e) = <<f, d>>
      /\ \A i \in 1..Len(drop') :
            \/ drop'[i] = e
            \/ \E j \in 1..Len(drop) : drop'[i] = drop[j] /\ KeyOf(drop[j]) # <<f, d>>
  <2>1. f = <<f[1], f[2]>> /\ <<f, d>> \in Keys
    BY KeysAre
  <2> HIDE DEF e
  <2> QED BY <1>1, <2>1, ObserveSpec DEF e
<1>4. e.age = 0 /\ (e.loser <=> r \in LosingResults) /\ <<f, d>> \in Keys
  BY DEF New, Keys
<1> HIDE DEF e
<1>5. ASSUME NEW i \in 1..Len(drop') PROVE Agrees(drop[i])'
  <2>1. CASE drop'[i] = e
    BY <1>2, <1>3, <1>4, <2>1, LosersNumbers DEF Agrees, e, New, KeyOf, FlowOf, Forgotten
  <2>2. CASE drop'[i] # e
    <3>1. PICK j \in 1..Len(drop) : drop'[i] = drop[j] /\ KeyOf(drop[j]) # <<f, d>>
      BY <1>3, <2>2
    <3>2. KeyOf(drop[j]) \in Keys /\ Agrees(drop[j])
      BY DEF LInv, TableOK
    <3>3. judged'[KeyOf(drop[j])] = judged[KeyOf(drop[j])]
      BY <1>2, <3>1, <3>2
    <3> QED BY <3>1, <3>2, <3>3 DEF Agrees, KeyOf, FlowOf, Forgotten
  <2> QED BY <2>1, <2>2
<1>6. TableOK(drop, Keys)'
  BY <1>3 DEF TableOK, KeyOf, FlowOf, Keys, Entry
<1> QED BY <1>1, <1>2, <1>5, <1>6 DEF LInv, Keys, Forgotten

LEMMA PublishLInv == ASSUME LInv, LPublish PROVE LInv'
<1>1. drop' = Purged(drop) /\ judged' = judged /\ listed' \subseteq Flows /\ TableOK(drop, Keys)
  BY DEF LPublish, ListWritten, Publish, Write, LInv
<1>2. /\ TableOK(drop', Keys)
      /\ \A k \in 1..Len(drop') : \E i \in 1..Len(drop) : drop'[k] = drop[i]
  BY <1>1, PurgedHere
<1>3. ASSUME NEW i \in 1..Len(drop') PROVE Agrees(drop[i])'
  BY <1>1, <1>2 DEF LInv, Agrees, KeyOf, FlowOf, Forgotten
<1>4. TableOK(drop, Keys)'
  BY <1>2 DEF TableOK, KeyOf, FlowOf, Keys, Entry
<1> QED BY <1>1, <1>3, <1>4 DEF LInv, Keys, Forgotten

LEMMA TickJudged ==
    ASSUME LInv, LTick
    PROVE  /\ judged' \in [Keys -> [loser : BOOLEAN, age : 0..Forgotten]]
           /\ \A k \in Keys :
                 /\ judged'[k].loser = judged[k].loser
                 /\ judged[k].age \in 0..Forgotten
                 /\ judged'[k].age = IF judged[k].age < Forgotten THEN judged[k].age + 1
                                     ELSE judged[k].age
<1>1. judged' = [k \in Keys |->
                   [judged[k] EXCEPT !.age = IF @ < Forgotten THEN @ + 1 ELSE @]]
  BY DEF LTick, Keys
<1>2. ASSUME NEW k \in Keys
      PROVE  /\ judged'[k] \in [loser : BOOLEAN, age : 0..Forgotten]
             /\ judged'[k].loser = judged[k].loser
             /\ judged[k].age \in 0..Forgotten
             /\ judged'[k].age = IF judged[k].age < Forgotten THEN judged[k].age + 1
                                 ELSE judged[k].age
  <2>1. judged[k] \in [loser : BOOLEAN, age : 0..Forgotten] /\ Forgotten \in Nat
    BY LosersNumbers DEF LInv
  <2>2. judged'[k] = [judged[k] EXCEPT !.age = IF @ < Forgotten THEN @ + 1 ELSE @]
    BY <1>1
  <2> QED BY <2>1, <2>2
<1>3. judged' \in [Keys -> [loser : BOOLEAN, age : 0..Forgotten]]
  BY <1>1, <1>2
<1> QED BY <1>2, <1>3

LEMMA TickLInv == ASSUME LInv, LTick PROVE LInv'
<1>1. DTick /\ listed' = listed /\ TableOK(drop, Keys)
  BY DEF LTick, LInv
<1>2. ASSUME NEW i \in 1..Len(drop') PROVE Agrees(drop[i])'
  <2>1. /\ i \in 1..Len(drop) /\ KeyOf(drop'[i]) = KeyOf(drop[i]) /\ KeyOf(drop[i]) \in Keys
        /\ drop'[i].loser = drop[i].loser
        /\ drop[i].age \in Nat /\ drop'[i].age = drop[i].age + 1 /\ Agrees(drop[i])
    BY <1>1, TickTable DEF LInv, TableOK
  <2> DEFINE k == KeyOf(drop[i])
  <2>2. /\ judged'[k].loser = judged[k].loser
        /\ judged'[k].age = IF judged[k].age < Forgotten THEN judged[k].age + 1 ELSE judged[k].age
    BY <2>1, TickJudged
  <2>3. /\ judged[k].loser = drop[i].loser
        /\ judged[k].age = IF drop[i].age <= DropTimeout THEN drop[i].age ELSE Forgotten
    BY <2>1 DEF Agrees
  <2>4. judged'[k].age = IF drop'[i].age <= DropTimeout THEN drop'[i].age ELSE Forgotten
    BY <2>1, <2>2, <2>3, LosersNumbers
  <2> QED BY <2>1, <2>2, <2>3, <2>4 DEF Agrees, KeyOf, FlowOf, Forgotten
<1>3. TableOK(drop, Keys)' /\ listed' \subseteq Flows
  BY <1>1, TickTable DEF LInv
<1>4. judged' \in [Keys -> [loser : BOOLEAN, age : 0..Forgotten]]
  BY TickJudged
<1> QED BY <1>2, <1>3, <1>4 DEF LInv, Keys, Forgotten

LEMMA NextLInv == LInv /\ [LNext]_lvars => LInv'
<1> SUFFICES ASSUME LInv, [LNext]_lvars PROVE LInv'
  OBVIOUS
<1>1. ASSUME NEW f \in Flows, NEW d \in Discs, NEW r \in Verdicts, Verdict(f, d, r)
      PROVE  LInv'
  BY <1>1, VerdictLInv
<1>2. CASE UNCHANGED lvars
  BY <1>2 DEF lvars, LInv, TableOK, Agrees, KeyOf, FlowOf, Keys, Entry, Forgotten
<1> QED BY <1>1, <1>2, PublishLInv, TickLInv DEF LNext

(* A publication speaks of the entries that are left, and for all sources  *)
(* of the PGNs that are cut.                                               *)
LEMMA ListedSpec ==
    ASSUME LInv, ListWritten
    PROVE  /\ listed' \subseteq Flows
           /\ \A k \in 1..Len(drop') :
                 \E i \in 1..Len(drop) : drop'[k] = drop[i] /\ Current(drop[i])
           /\ \A i \in 1..Len(drop) : Current(drop[i])
                 => \E k \in 1..Len(drop') : drop'[k] = drop[i]
           /\ \A f \in Flows :
                 f \in listed' <=>
                    /\ \E i \in 1..Len(drop') : FlowOf(drop'[i]) = f
                    /\ \A i \in 1..Len(drop') : FlowOf(drop'[i]) = f => drop'[i].loser
<1> DEFINE L == LoserLines(drop')
           C == CutLines(NoN2k)
<1>1. /\ drop' = Purged(drop) /\ file' = L \o C
      /\ listed' = {f \in Flows : \E i \in DOMAIN file' : file'[i] = f}
  BY DEF ListWritten, Publish, Write
<1>2. /\ TableOK(drop', Keys)
      /\ \A k \in 1..Len(drop') :
            \E i \in 1..Len(drop) : drop'[k] = drop[i] /\ Current(drop[i])
      /\ \A i \in 1..Len(drop) : Current(drop[i])
            => \E k \in 1..Len(drop') : drop'[k] = drop[i]
  <2>1. TableOK(drop, Keys)
    BY DEF LInv
  <2> QED BY <1>1, <2>1, PurgedHere
<1>3. /\ L \in Seq({k[1] : k \in Keys})
      /\ \A f : (\E k \in 1..Len(L) : L[k] = f)
                  <=> /\ \E i \in 1..Len(drop') : FlowOf(drop'[i]) = f
                      /\ \A i \in 1..Len(drop') : FlowOf(drop'[i]) = f => drop'[i].loser
  BY <1>2, LoserLinesSpec
<1> HIDE DEF L
<1>4. /\ NoN2k \in Seq({NoN2k[i] : i \in DOMAIN NoN2k}) /\ Len(NoN2k) \in Nat
      /\ C = [i \in 1..Len(NoN2k) |-> <<NoN2k[i], AnySrc>>]
  BY LosersAssumption DEF CutLines
<1>5. C \in Seq({NoN2k[i] : i \in DOMAIN NoN2k} \X {AnySrc}) /\ \A i \in 1..Len(C) : C[i] = <<NoN2k[i], AnySrc>>
  BY <1>4
<1> HIDE DEF C
<1>6. ASSUME NEW f \in Flows
      PROVE  (\E i \in DOMAIN (L \o C) : (L \o C)[i] = f) <=> \E k \in 1..Len(L) : L[k] = f
  <2>1. f # <<f[1], AnySrc>> /\ \A i \in 1..Len(C) : C[i] # f
    <3>1. f = <<f[1], f[2]>> /\ f[2] # AnySrc
      BY LosersAssumption
    <3> QED BY <1>5, <3>1
  <2>2. /\ Len(L) \in Nat /\ Len(C) \in Nat /\ DOMAIN (L \o C) = 1..(Len(L) + Len(C))
        /\ \A i \in 1..(Len(L) + Len(C)) :
              (L \o C)[i] = IF i <= Len(L) THEN L[i] ELSE C[i - Len(L)]
    BY <1>3, <1>5
  <2>3. ASSUME NEW i \in 1..(Len(L) + Len(C)), (L \o C)[i] = f
        PROVE  i \in 1..Len(L) /\ L[i] = f
    <3>1. CASE i <= Len(L)
      BY <2>2, <2>3, <3>1
    <3>2. CASE ~ (i <= Len(L))
      <4>1. i - Len(L) \in 1..Len(C)
        BY <2>2, <3>2
      <4> QED BY <2>1, <2>2, <2>3, <3>2, <4>1
    <3> QED BY <3>1, <3>2
  <2>4. ASSUME NEW k \in 1..Len(L), L[k] = f
        PROVE  k \in 1..(Len(L) + Len(C)) /\ (L \o C)[k] = f
    BY <2>2, <2>4
  <2> QED BY <2>2, <2>3, <2>4
<1> HIDE DEF C
<1>7. \A f \in Flows : f \in listed' <=> \E k \in 1..Len(L) : L[k] = f
  BY <1>1, <1>6
<1>8. listed' \subseteq Flows
  BY <1>1
<1> QED BY <1>2, <1>3, <1>7, <1>8

(* n2k-filter.h: the filter drops what it was told to, and forwards the    *)
(* rest.  Fail-open, for any sizes, whatever entries gave way to others    *)
(* and whatever files could not be written: a flow is listed only on the   *)
(* strength of a losing verdict that is not forgotten (dropset_write).     *)
THEOREM OnlyLosersListed == LSpec => ListedHasLost
<1>1. ASSUME LInv, ListWritten, NEW f \in listed' PROVE \E d \in Discs : Lost(f, d)
  <2>1. PICK i \in 1..Len(drop') : FlowOf(drop'[i]) = f /\ drop'[i].loser
    BY <1>1, ListedSpec
  <2>2. PICK j \in 1..Len(drop) : drop'[i] = drop[j] /\ Current(drop[j])
    BY <1>1, ListedSpec
  <2>3. drop[j].disc \in Discs /\ Agrees(drop[j]) /\ KeyOf(drop[j]) = <<f, drop[j].disc>>
    BY <1>1, <2>1, <2>2, EntryIs DEF LInv
  <2> QED BY <2>1, <2>2, <2>3 DEF Agrees, Lost, Recent, Current
<1>2. LInv /\ [LNext]_lvars
         => (ListWritten => \A f \in listed' : \E d \in Discs : Lost(f, d))
  BY <1>1
<1> QED BY <1>2, InitLInv, NextLInv, PTL DEF LSpec, ListedHasLost

-----------------------------------------------------------------------------
(* With a place for every flow and discriminant no entry ever gives way,   *)
(* and a flow that is on the list has entries until it leaves it.          *)

RoomForAll == RoomFor(Keys)

LosersKept ==
    \A k \in Keys : judged[k].loser /\ judged[k].age <= DropTimeout => Holds(k)

ListedKept == \A f \in listed : \E i \in 1..Len(drop) : FlowOf(drop[i]) = f

PassedKept ==
    \A k \in passed : k[1] \in listed =>
       \E i \in 1..Len(drop) :
          KeyOf(drop[i]) = k /\ ~ drop[i].loser /\ drop[i].age <= since

RInv ==
    /\ LInv
    /\ since \in 0..Interval
    /\ passed \subseteq Keys
    /\ LosersKept
    /\ ListedKept
    /\ PassedKept

LEMMA InitRInv == LInit => RInv
<1> SUFFICES ASSUME LInit PROVE RInv
  OBVIOUS
<1>1. /\ drop = <<>> /\ judged = [k \in Keys |-> Never] /\ listed = {} /\ passed = {}
      /\ since = Interval
  BY DEF LInit, DInit, Keys
<1>2. LInv
  BY InitLInv
<1> QED BY <1>1, <1>2, LosersNumbers
        DEF RInv, LosersKept, ListedKept, PassedKept, Never

LEMMA VerdictRInv ==
    ASSUME RoomForAll, RInv, NEW f \in Flows, NEW d \in Discs, NEW r \in Verdicts,
           Verdict(f, d, r)
    PROVE  RInv'
<1> DEFINE e == New(f, d, r)
           key == <<f, d>>
<1>1. /\ Observe(f[1], f[2], d, r) /\ listed' = listed /\ since' = since
      /\ passed' = IF r \in LosingResults THEN passed \ {key} ELSE passed \cup {key}
      /\ TableOK(drop, Keys) /\ LInv /\ key \in Keys
  BY DEF Verdict, Observe, RInv, LInv, Keys
<1>2. LInv'
  BY <1>1, VerdictLInv
<1>3. \A k \in Keys : judged'[k] = IF k = key THEN [loser |-> r \in LosingResults, age |-> 0]
                                   ELSE judged[k]
  BY <1>1, VerdictJudged
<1>4. /\ \A i \in 1..Len(drop') :
            \/ drop'[i] = e
            \/ \E j \in 1..Len(drop) : drop'[i] = drop[j] /\ KeyOf(drop[j]) # key
      /\ KeyOf(e) = key /\ FlowOf(e) = f
      /\ \A j \in 1..Len(drop) : KeyOf(drop[j]) # key
            => \E i \in 1..Len(drop') : drop'[i] = drop[j]
      /\ (r \in LosingResults \/ \E j \in 1..Len(drop) : FlowOf(drop[j]) = f)
            => \E i \in 1..Len(drop') : drop'[i] = e
  <2>1. Len(drop) < DropMax \/ Holds(key)
    <3>1. RoomFor(Keys) /\ key \in Keys /\ TableOK(drop, Keys)
      BY <1>1 DEF RoomForAll
    <3> HIDE DEF key
    <3> QED BY <3>1, RoomLeft
  <2>0. f = <<f[1], f[2]>> /\ <<f, d>> \in Keys
    BY KeysAre
  <2> HIDE DEF e, key
  <2>2. KeyOf(e) = key
    BY <1>1, <2>0, ObserveSpec DEF e, key
  <2>3. FlowOf(e) = f
    BY <2>2 DEF KeyOf, key
  <2>4. /\ \A i \in 1..Len(drop') :
              \/ drop'[i] = New(f, d, r)
              \/ \E j \in 1..Len(drop) : drop'[i] = drop[j] /\ KeyOf(drop[j]) # <<f, d>>
        /\ \A j \in 1..Len(drop) : KeyOf(drop[j]) # <<f, d>>
              => \E i \in 1..Len(drop') : drop'[i] = drop[j]
        /\ (r \in LosingResults \/ \E j \in 1..Len(drop) : FlowOf(drop[j]) = f)
              => \E i \in 1..Len(drop') : drop'[i] = New(f, d, r)
    <3>1. Len(drop) < DropMax \/ Holds(<<f, d>>)
      BY <2>1 DEF key
    <3>2. /\ TableOK(drop', Keys)
          /\ KeyOf(New(f, d, r)) = <<f, d>> /\ New(f, d, r) \in Entry(Keys)
          /\ \A i \in 1..Len(drop') :
                \/ drop'[i] = New(f, d, r)
                \/ \E j \in 1..Len(drop) : drop'[i] = drop[j] /\ KeyOf(drop[j]) # <<f, d>>
          /\ Len(drop) < DropMax \/ Holds(<<f, d>>) =>
                /\ \A j \in 1..Len(drop) : KeyOf(drop[j]) # <<f, d>>
                      => \E i \in 1..Len(drop') : drop'[i] = drop[j]
                /\ (r \in LosingResults \/ \E j \in 1..Len(drop) : FlowOf(drop[j]) = f)
                      => \E i \in 1..Len(drop') : drop'[i] = New(f, d, r)
      <4>1. /\ Observe(f[1], f[2], d, r) /\ TableOK(drop, Keys)
            /\ f = <<f[1], f[2]>> /\ <<f, d>> \in Keys
        BY <1>1, <2>0
      <4> QED BY <4>1, ObserveSpec
    <3> QED BY <3>1, <3>2
  <2> QED BY <2>2, <2>3, <2>4 DEF e, key
<1>5. e.age = 0 /\ (e.loser <=> r \in LosingResults)
  BY DEF New
<1> HIDE DEF e
<1>6. ASSUME NEW k \in Keys, judged'[k].loser, judged'[k].age <= DropTimeout
      PROVE  \E i \in 1..Len(drop') : KeyOf(drop'[i]) = k
  <2>1. CASE k = key
    <3>1. r \in LosingResults
      <4>1. judged'[k] = [loser |-> r \in LosingResults, age |-> 0]
        BY <1>3, <2>1
      <4>2. [loser |-> r \in LosingResults, age |-> 0].loser <=> r \in LosingResults
        OBVIOUS
      <4> QED BY <1>6, <4>1, <4>2
    <3> QED BY <1>4, <2>1, <3>1
  <2>2. CASE k # key
    <3>1. judged[k].loser /\ judged[k].age <= DropTimeout
      BY <1>3, <1>6, <2>2
    <3>2. PICK j \in 1..Len(drop) : KeyOf(drop[j]) = k
      BY <3>1 DEF RInv, LosersKept, Holds
    <3> QED BY <1>4, <2>2, <3>2
  <2> QED BY <2>1, <2>2
<1>7. ASSUME NEW g \in listed PROVE \E i \in 1..Len(drop') : FlowOf(drop'[i]) = g
  <2>1. PICK j \in 1..Len(drop) : FlowOf(drop[j]) = g
    BY DEF RInv, ListedKept
  <2>2. CASE KeyOf(drop[j]) # key
    BY <1>4, <2>1, <2>2
  <2>3. CASE KeyOf(drop[j]) = key
    <3>1. g = f
      BY <2>1, <2>3 DEF KeyOf
    <3> QED BY <1>4, <2>1, <3>1
  <2> QED BY <2>2, <2>3
<1>8. ASSUME NEW k \in passed', k[1] \in listed
      PROVE  \E i \in 1..Len(drop') :
                KeyOf(drop'[i]) = k /\ ~ drop'[i].loser /\ drop'[i].age <= since
  <2>1. CASE k = key
    <3>1. r \notin LosingResults /\ f \in listed
      BY <1>1, <1>8, <2>1
    <3>2. PICK j \in 1..Len(drop) : FlowOf(drop[j]) = f
      BY <3>1 DEF RInv, ListedKept
    <3>3. PICK i \in 1..Len(drop') : drop'[i] = e
      BY <1>4, <3>2
    <3>4. e.age <= since
      BY <1>5 DEF RInv
    <3>5. KeyOf(drop'[i]) = k /\ ~ drop'[i].loser
      BY <1>4, <1>5, <2>1, <3>1, <3>3
    <3> QED BY <3>3, <3>4, <3>5
  <2>2. CASE k # key
    <3>1. k \in passed
      BY <1>1, <1>8, <2>2
    <3>2. PICK j \in 1..Len(drop) :
             KeyOf(drop[j]) = k /\ ~ drop[j].loser /\ drop[j].age <= since
      BY <1>8, <3>1 DEF RInv, PassedKept
    <3> QED BY <1>4, <2>2, <3>2
  <2> QED BY <2>1, <2>2
<1>9. passed' \subseteq Keys /\ since' \in 0..Interval
  BY <1>1 DEF RInv
<1> QED BY <1>1, <1>2, <1>6, <1>7, <1>8, <1>9
        DEF RInv, LosersKept, ListedKept, PassedKept, Holds, KeyOf, FlowOf, Keys

LEMMA PublishRInv == ASSUME RInv, LPublish PROVE RInv'
<1>1. /\ drop' = Purged(drop) /\ judged' = judged /\ TableOK(drop, Keys) /\ LInv
      /\ passed' = {} /\ since' = 0 /\ (ListWritten \/ listed' = {})
  BY DEF LPublish, ListWritten, Publish, Write, LInv, RInv
<1>2. \A i \in 1..Len(drop) : Current(drop[i])
         => \E k \in 1..Len(drop') : drop'[k] = drop[i]
  BY <1>1, PurgedSpec
<1>3. LInv'
  BY PublishLInv DEF RInv
<1>4. ASSUME NEW k \in Keys, judged[k].loser, judged[k].age <= DropTimeout
      PROVE  \E i \in 1..Len(drop') : KeyOf(drop'[i]) = k
  <2>1. PICK j \in 1..Len(drop) : KeyOf(drop[j]) = k
    BY <1>4 DEF RInv, LosersKept, Holds
  <2>2. drop[j].age <= DropTimeout
    <3>1. Agrees(drop[j]) /\ drop[j].age \in Nat
      BY <1>1 DEF LInv, TableOK, Entry
    <3> QED BY <1>4, <2>1, <3>1, LosersNumbers DEF Agrees
  <2> QED BY <1>2, <2>1, <2>2 DEF Current
<1>5. \A f \in listed' : \E i \in 1..Len(drop') : FlowOf(drop'[i]) = f
  BY <1>1, ListedSpec
<1>6. since' \in 0..Interval
  BY <1>1, LosersNumbers
<1> QED BY <1>1, <1>3, <1>4, <1>5, <1>6
        DEF RInv, LosersKept, ListedKept, PassedKept, Holds, KeyOf, FlowOf, Keys

LEMMA TickRInv == ASSUME RInv, LTick PROVE RInv'
<1>1. /\ DTick /\ listed' = listed /\ passed' = passed /\ TableOK(drop, Keys) /\ LInv
      /\ since < Interval /\ since' = since + 1 /\ since \in 0..Interval
  BY DEF LTick, DTick, RInv, LInv
<1>2. /\ Len(drop') = Len(drop)
      /\ \A i \in 1..Len(drop) :
            /\ KeyOf(drop'[i]) = KeyOf(drop[i]) /\ FlowOf(drop'[i]) = FlowOf(drop[i])
            /\ drop'[i].loser = drop[i].loser
            /\ drop[i].age \in Nat /\ drop'[i].age = drop[i].age + 1
  BY <1>1, TickTable
<1>3. LInv'
  BY TickLInv DEF RInv
<1>4. ASSUME NEW k \in Keys, judged'[k].loser, judged'[k].age <= DropTimeout
      PROVE  \E i \in 1..Len(drop') : KeyOf(drop'[i]) = k
  <2>1. judged[k].loser /\ judged[k].age <= DropTimeout
    BY <1>1, <1>4, TickJudged, LosersNumbers
  <2> QED BY <1>2, <2>1 DEF RInv, LosersKept, Holds
<1>5. ASSUME NEW k \in passed, k[1] \in listed
      PROVE  \E i \in 1..Len(drop') :
                KeyOf(drop'[i]) = k /\ ~ drop'[i].loser /\ drop'[i].age <= since'
  <2>1. PICK i \in 1..Len(drop) :
           KeyOf(drop[i]) = k /\ ~ drop[i].loser /\ drop[i].age <= since
    BY <1>5 DEF RInv, PassedKept
  <2>2. drop'[i].age <= since'
    BY <1>1, <1>2, <2>1
  <2> QED BY <1>2, <2>1, <2>2
<1>6. since' \in 0..Interval
  BY <1>1, LosersNumbers
<1>7. \A f \in listed' : \E i \in 1..Len(drop') : FlowOf(drop'[i]) = f
  BY <1>1, <1>2 DEF RInv, ListedKept
<1> QED BY <1>1, <1>3, <1>4, <1>5, <1>6, <1>7
        DEF RInv, LosersKept, ListedKept, PassedKept, Holds, KeyOf, FlowOf, Keys

LEMMA NextRInv == ASSUME RoomForAll PROVE RInv /\ [LNext]_lvars => RInv'
<1> SUFFICES ASSUME RInv, [LNext]_lvars PROVE RInv'
  OBVIOUS
<1>1. ASSUME NEW f \in Flows, NEW d \in Discs, NEW r \in Verdicts, Verdict(f, d, r)
      PROVE  RInv'
  BY <1>1, VerdictRInv
<1>2. CASE UNCHANGED lvars
  <2>1. LInv'
    BY NextLInv DEF RInv
  <2> QED BY <1>2, <2>1 DEF lvars, RInv, LosersKept, ListedKept, PassedKept, Holds,
                            KeyOf, FlowOf, Keys
<1> QED BY <1>1, <1>2, PublishRInv, TickRInv DEF LNext

(* A flow that loses for every discriminant heard lately is on the next    *)
(* list that is written (dropset_update, dropset_write), for any number of *)
(* flows the table has room for.                                           *)
THEOREM EveryLoserListed == ASSUME RoomForAll PROVE LSpec => LoserIsListed
<1>1. ASSUME RInv, ListWritten, NEW f \in Flows, NEW d \in Discs, Recent(f, d),
             \A c \in Discs : Recent(f, c) => Lost(f, c)
      PROVE  f \in listed'
  <2>0. LInv
    BY <1>1 DEF RInv
  <2>1. PICK j \in 1..Len(drop) : KeyOf(drop[j]) = <<f, d>>
    BY <1>1 DEF RInv, LosersKept, Holds, Lost, Recent, Keys
  <2>2. Current(drop[j])
    <3>1. Agrees(drop[j]) /\ drop[j].age \in Nat
      BY <1>1 DEF RInv, LInv, TableOK, Entry
    <3> QED BY <1>1, <2>1, <3>1, LosersNumbers DEF Agrees, Recent, Current
  <2>3. /\ \A i \in 1..Len(drop) : Current(drop[i])
              => \E k \in 1..Len(drop') : drop'[k] = drop[i]
        /\ \A k \in 1..Len(drop') :
              \E i \in 1..Len(drop) : drop'[k] = drop[i] /\ Current(drop[i])
    BY <1>1, <2>0, ListedSpec
  <2>4. \E k \in 1..Len(drop') : FlowOf(drop'[k]) = f
    BY <2>1, <2>2, <2>3 DEF KeyOf
  <2>5. ASSUME NEW k \in 1..Len(drop'), FlowOf(drop'[k]) = f PROVE drop'[k].loser
    <3>1. PICK i \in 1..Len(drop) : drop'[k] = drop[i] /\ Current(drop[i])
      BY <2>3
    <3>2. /\ drop[i].disc \in Discs /\ Agrees(drop[i])
          /\ KeyOf(drop[i]) = <<f, drop[i].disc>>
      BY <1>1, <2>5, <3>1, EntryIs DEF RInv, LInv
    <3>3. Lost(f, drop[i].disc)
      BY <1>1, <3>1, <3>2 DEF Agrees, Recent, Current
    <3> QED BY <3>1, <3>2, <3>3 DEF Agrees, Lost
  <2> QED BY <1>1, <2>0, <2>4, <2>5, ListedSpec
<1>2. RInv /\ [LNext]_lvars
         => (ListWritten => \A f \in Flows :
                /\ \E d \in Discs : Recent(f, d)
                /\ \A d \in Discs : Recent(f, d) => Lost(f, d)
                => f \in listed')
  BY <1>1
<1> QED BY <1>2, InitRInv, NextRInv, PTL DEF LSpec, LoserIsListed

(* A winner that was published by mistake is released at the next list     *)
(* that is written (dropset_update keeps the verdict that passes as soon   *)
(* as the flow has an entry), if the list is written more often than       *)
(* entries are forgotten, as it is by default.                             *)
THEOREM WinnerReleased ==
    ASSUME RoomForAll, Interval <= DropTimeout
    PROVE  LSpec => WinnerIsReleased
<1>1. ASSUME RInv, ListWritten, NEW f \in listed \cap listed', NEW d \in Discs,
             <<f, d>> \in passed
      PROVE  FALSE
  <2>0. LInv
    BY <1>1 DEF RInv
  <2>1. PICK i \in 1..Len(drop) :
           KeyOf(drop[i]) = <<f, d>> /\ ~ drop[i].loser /\ drop[i].age <= since
    BY <1>1 DEF RInv, PassedKept
  <2>2. Current(drop[i]) /\ FlowOf(drop[i]) = f
    <3>1. drop[i].age \in Nat /\ since \in 0..Interval
      BY <1>1 DEF RInv, LInv, TableOK, Entry
    <3> QED BY <2>1, <3>1, LosersNumbers DEF Current, KeyOf
  <2>3. PICK k \in 1..Len(drop') : drop'[k] = drop[i]
    BY <1>1, <2>2, ListedSpec, PurgedSpec DEF RInv, LInv
  <2> QED BY <1>1, <2>1, <2>2, <2>0, <2>3, ListedSpec
<1>2. RInv /\ [LNext]_lvars
         => (ListWritten => \A f \in listed \cap listed', d \in Discs : <<f, d>> \notin passed)
  BY <1>1
<1> QED BY <1>2, InitRInv, NextRInv, PTL DEF LSpec, WinnerIsReleased

-----------------------------------------------------------------------------
(* The chain.  A verdict is kept under the flow and the discriminant of    *)
(* the datum, or under the flow alone if the datum is ignored.             *)
FlowX(x) == <<x[2][1], x[1]>>

Msg(x) == Datum(x[1], x[2])

KeptDisc(x) == IF Ignored(Msg(x)) THEN <<>> ELSE DiscriminantOf(Msg(x))

Key(x) == <<FlowX(x), KeptDisc(x)>>

ChainKeys ==
    UNION {UNION {{<<<<d[1], a>>, <<>>>>, <<<<d[1], a>>, d[2]>>} : d \in Emits[a]}
             : a \in Addrs}

Lines == {k[1] : k \in ChainKeys} \cup (Pgns \X {AnySrc})

ChainTypes ==
    /\ cfg \in Configs
    /\ ident \in [Addrs -> Idents \cup {None}]
    /\ up \subseteq Addrs
    /\ age \in [RuleIds -> [SlotIds -> 0..Expired]]
    /\ TableOK(drop, ChainKeys)
    /\ file \in Seq(Lines)
    /\ since \in Nat /\ since <= Interval
    /\ calm \in Nat /\ calm <= Settle

LEMMA ChainNumbers ==
    /\ DropMax \in Nat \ {0} /\ DropTimeout \in Nat /\ Interval \in Nat \ {0}
    /\ Timeout \in Nat /\ Expired \in Nat /\ Expired = Timeout + 1
    /\ FDropMax \in Nat /\ Settle \in Nat /\ AnySrc \notin Addrs
BY DropSetAssumption, ArbiterAssumption, FilterChainAssumption DEF Expired

LEMMA SentAre ==
    ASSUME up \subseteq Addrs
    PROVE  /\ \A x : x \in Sent => /\ x = <<x[1], x[2]>> /\ x[1] \in up /\ x[1] \in Addrs
                                   /\ x[2] \in Emits[x[1]]
           /\ \A a \in up : \A d \in Emits[a] : <<a, d>> \in Sent
<1>1. ASSUME NEW x \in Sent
      PROVE  /\ x = <<x[1], x[2]>> /\ x[1] \in up /\ x[1] \in Addrs /\ x[2] \in Emits[x[1]]
  <2>1. PICK a \in up : x \in {<<a, d>> : d \in Emits[a]}
    BY DEF Sent
  <2>2. PICK d \in Emits[a] : x = <<a, d>>
    BY <2>1
  <2> QED BY <2>2
<1>2. ASSUME NEW a \in up, NEW d \in Emits[a] PROVE <<a, d>> \in Sent
  BY DEF Sent
<1> QED BY <1>1, <1>2

LEMMA KeyKnown ==
    ASSUME NEW a \in Addrs, NEW d \in Emits[a]
    PROVE  /\ Key(<<a, d>>) \in ChainKeys /\ FlowX(<<a, d>>) = <<d[1], a>>
           /\ Key(<<a, d>>)[1] = <<d[1], a>>
           /\ d[1] \in Pgns /\ d[2] \in Seq(Words) /\ d = <<d[1], d[2]>>
<1>1. d \in Pgns \X Seq(Words)
  BY ArbiterAssumption
<1>2. KeptDisc(<<a, d>>) \in {<<>>, d[2]}
  BY DEF KeptDisc, Msg, Datum, DiscriminantOf
<1>3. FlowX(<<a, d>>) = <<d[1], a>>
  BY DEF FlowX
<1>4. Key(<<a, d>>) \in {<<<<d[1], a>>, <<>>>>, <<<<d[1], a>>, d[2]>>}
  BY <1>2, <1>3 DEF Key
<1>5. Key(<<a, d>>) \in ChainKeys
  BY <1>4 DEF ChainKeys
<1> QED BY <1>1, <1>3, <1>5 DEF Key

(* The flows of the table are those of data that sources may send.         *)
LEMMA KeysKnown ==
    ASSUME NEW k \in ChainKeys
    PROVE  \E a \in Addrs : \E d \in Emits[a] :
              k[1] = <<d[1], a>> /\ k[2] \in {<<>>, d[2]} /\ k = <<k[1], k[2]>>
<1>1. PICK a \in Addrs : \E d \in Emits[a] :
         k \in {<<<<d[1], a>>, <<>>>>, <<<<d[1], a>>, d[2]>>}
  BY DEF ChainKeys
<1> QED BY <1>1

LEMMA LinesAre ==
    ASSUME NEW c \in Configs, NEW es, TableOK(es, ChainKeys)
    PROVE  LoserLines(es) \o CutLines(c.noN2k) \in Seq(Lines)
<1>1. LoserLines(es) \in Seq({k[1] : k \in ChainKeys})
  BY LoserLinesSpec
<1>2. c.noN2k \in Seq(Pgns)
  BY ArbiterAssumption DEF Configuration
<1>3. CutLines(c.noN2k) \in Seq(Pgns \X {AnySrc})
  BY <1>2 DEF CutLines
<1> QED BY <1>1, <1>3 DEF Lines

-----------------------------------------------------------------------------
(* The steps of the chain, as far as the proofs tell them apart.           *)

Published ==
    /\ Publish(cfg.noN2k, TRUE) /\ F!Replaced
    /\ UNCHANGED <<arbiter, heard, sorted, calm>>

(* The entries that are left were there before.                            *)
Fewer == \A k \in 1..Len(drop') : \E i \in 1..Len(drop) : drop'[k] = drop[i]

Disturbed ==
    /\ calm' = 0 /\ Fewer /\ cfg' \in Configs
    /\ at' = "boot" \/ UNCHANGED <<at, checked>>

FilterSteps ==
    /\ \/ \E flow \in FlowsSent : F!Read(flow)
       \/ F!Boot \/ F!BootStat \/ F!Load \/ F!Sort
       \/ UNCHANGED filter
    /\ UNCHANGED <<arbiter, dropset, heard, calm>>

LEMMA PurgedTypes ==
    ASSUME TableOK(drop, ChainKeys), drop' = Purged(drop)
    PROVE  TableOK(drop', ChainKeys) /\ Fewer
BY PurgedHere DEF Fewer

LEMMA InitTypes == CInit => ChainTypes
<1> SUFFICES ASSUME CInit PROVE ChainTypes
  OBVIOUS
<1>1. drop = <<>> /\ file = <<>> /\ since = Interval /\ calm = 0
      /\ cfg \in Configs /\ ident = [a \in Addrs |-> None] /\ up = Addrs /\ age = NoAges
  BY DEF CInit, DInit, Init
<1>2. TableOK(drop, ChainKeys)
  BY <1>1 DEF TableOK
<1>3. age \in [RuleIds -> [SlotIds -> 0..Expired]]
  BY <1>1, ChainNumbers DEF NoAges
<1> QED BY <1>1, <1>2, <1>3, ChainNumbers DEF ChainTypes

LEMMA HearsTypes ==
    ASSUME ChainTypes, NEW a \in Addrs, NEW d \in Emits[a], DaemonHears(a, d)
    PROVE  ChainTypes'
<1>1. /\ Decide(Datum(a, d)) /\ cfg \in Configs
      /\ Observe(d[1], a, KeptDisc(<<a, d>>), last'.result)
      /\ UNCHANGED <<file, since, calm, up, cfg, ident>>
  BY DEF DaemonHears, Hear, Observe, KeptDisc, Msg, Decide, ChainTypes
<1>2. TableOK(drop', ChainKeys)
  <2>1. Key(<<a, d>>) \in ChainKeys /\ FlowX(<<a, d>>) = <<d[1], a>>
    BY KeyKnown
  <2> DEFINE f == <<d[1], a>>
  <2>2. /\ f[1] = d[1] /\ f[2] = a /\ f = <<f[1], f[2]>>
        /\ <<f, KeptDisc(<<a, d>>)>> \in ChainKeys
    BY <2>1 DEF Key
  <2>3. Observe(f[1], f[2], KeptDisc(<<a, d>>), last'.result)
    BY <1>1
  <2>4. TableOK(drop, ChainKeys)
    BY DEF ChainTypes
  <2> HIDE DEF f
  <2> QED BY <2>2, <2>3, <2>4, ObserveSpec
<1>3. age' \in [RuleIds -> [SlotIds -> 0..Expired]]
  <2> DEFINE m == Datum(a, d)
  <2>1. CASE Result(m) \in Competing
    <3>1. RuleFor(m) \in RuleIds /\ SlotFor(m) \in SlotIds
      BY <1>1, <2>1, CompetingSpec
    <3>2. age' = [age EXCEPT ![RuleFor(m)][SlotFor(m)] = 0]
      BY <1>1, <2>1, DecideCases
    <3> QED BY <3>1, <3>2, ChainNumbers DEF ChainTypes
  <2>2. CASE Result(m) \notin Competing
    <3>1. age' = age
      BY <1>1, <2>2, DecideCases
    <3> QED BY <3>1, ChainNumbers DEF ChainTypes
  <2> QED BY <2>1, <2>2
<1> QED BY <1>1, <1>2, <1>3 DEF ChainTypes

LEMMA PublishTypes ==
    ASSUME ChainTypes, NEW w \in BOOLEAN, Publish(cfg.noN2k, w),
           UNCHANGED <<cfg, ident, up, age>>, calm' \in {0, calm}
    PROVE  ChainTypes' /\ Fewer
<1>1. /\ drop' = Purged(drop) /\ since' = 0
      /\ file' = IF w THEN LoserLines(drop') \o CutLines(cfg.noN2k) ELSE file
  BY DEF Publish, Write
<1>2. TableOK(drop', ChainKeys) /\ Fewer
  BY <1>1, PurgedTypes DEF ChainTypes
<1>3. file' \in Seq(Lines)
  BY <1>1, <1>2, LinesAre DEF ChainTypes
<1> QED BY <1>1, <1>2, <1>3, ChainNumbers DEF ChainTypes

LEMMA RestartTypes == ASSUME ChainTypes, ChainRestarts PROVE ChainTypes' /\ Disturbed
<1>1. /\ drop' = <<>> /\ since' = Interval /\ calm' = 0 /\ cfg' \in Configs
      /\ ident' = [a \in Addrs |-> None] /\ age' = NoAges /\ up' = up
      /\ file' \in {<<>>, file, FinalLines(cfg.noN2k)} /\ at' = "boot"
  BY DEF ChainRestarts, Restart, Disturb, ArbiterInit, F!FRestart
<1>2. TableOK(Purged(drop), ChainKeys)
  BY PurgedSpec DEF ChainTypes
<1>3. file' \in Seq(Lines)
  <2>1. cfg \in Configs /\ file \in Seq(Lines) /\ <<>> \in Seq(Lines)
    BY DEF ChainTypes
  <2>2. FinalLines(cfg.noN2k) \in Seq(Lines)
    BY <1>2, <2>1, LinesAre DEF FinalLines
  <2> QED BY <1>1, <2>1, <2>2
<1>4. age' \in [RuleIds -> [SlotIds -> 0..Expired]]
  BY <1>1, ChainNumbers DEF NoAges
<1>5. TableOK(drop', ChainKeys) /\ Fewer
  BY <1>1 DEF TableOK, Fewer
<1> QED BY <1>1, <1>3, <1>4, <1>5, ChainNumbers DEF ChainTypes, Disturbed

LEMMA SecondTypes == ASSUME ChainTypes, Second PROVE ChainTypes'
<1>1. /\ Tick /\ DTick
      /\ calm' = IF calm < Settle THEN calm + 1 ELSE Settle
  BY DEF Second
<1>2. TableOK(drop', ChainKeys)
  BY <1>1, TickTable DEF ChainTypes
<1>3. age' \in [RuleIds -> [SlotIds -> 0..Expired]]
  BY <1>1, ChainNumbers DEF Tick, ChainTypes
<1>4. since' \in Nat /\ since' <= Interval /\ file' = file
  BY <1>1, ChainNumbers DEF DTick, ChainTypes
<1>5. cfg' = cfg /\ ident' = ident /\ up' = up
  BY <1>1 DEF Tick
<1>6. calm' \in Nat /\ calm' <= Settle
  BY <1>1, ChainNumbers DEF ChainTypes
<1> QED BY <1>2, <1>3, <1>4, <1>5, <1>6 DEF ChainTypes

LEMMA ChainStep ==
    ASSUME ChainTypes, [CNext]_cvars
    PROVE  /\ ChainTypes'
           /\ \/ \E a \in Addrs : \E d \in Emits[a] : DaemonHears(a, d)
              \/ Published
              \/ Disturbed
              \/ FilterSteps
              \/ Second
<1>1. CASE \E a \in Addrs : \E d \in Emits[a] : DaemonHears(a, d)
  BY <1>1, HearsTypes
<1>2. CASE DaemonPublishes
  <2>1. CASE Publish(cfg.noN2k, TRUE) /\ F!Replaced /\ UNCHANGED <<churn, calm>>
    <3>1. Published
      BY <1>2, <2>1 DEF DaemonPublishes, Published, arbiter
    <3> QED BY <3>1, PublishTypes DEF Published, arbiter
  <2>2. CASE Publish(cfg.noN2k, FALSE) /\ Churn /\ Disturb /\ UNCHANGED filter
    <3>1. ChainTypes' /\ Fewer /\ calm' = 0 /\ UNCHANGED <<cfg, at, checked>>
      BY <1>2, <2>2, PublishTypes DEF DaemonPublishes, Disturb, filter
    <3> QED BY <3>1 DEF Disturbed, ChainTypes
  <2> QED BY <1>2, <2>1, <2>2 DEF DaemonPublishes
<1>3. CASE DaemonReloads
  <2>1. UNCHANGED <<ident, up, drop, file, since, at, checked>> /\ calm' = 0
    BY <1>3 DEF DaemonReloads, Reload, Disturb, dropset, filter
  <2>2. cfg' \in Configs /\ age' \in [RuleIds -> [SlotIds -> 0..Expired]]
    BY <1>3, ChainNumbers DEF DaemonReloads, Reload, ArbiterInit, NoAges, ChainTypes
  <2>3. Fewer /\ TableOK(drop', ChainKeys)
    BY <2>1 DEF Fewer, ChainTypes
  <2> QED BY <2>1, <2>2, <2>3, ChainNumbers DEF ChainTypes, Disturbed
<1>4. CASE ChainRestarts
  BY <1>4, RestartTypes
<1>5. ASSUME NEW a \in Addrs, DaemonLearns(a) \/ SourceSwitched(a)
      PROVE  ChainTypes' /\ Disturbed
  <2>1. UNCHANGED <<cfg, age, drop, file, since, at, checked>> /\ calm' = 0
    BY <1>5 DEF DaemonLearns, SourceSwitched, Learn, Switch, Disturb, dropset, filter
  <2>2. ident' \in [Addrs -> Idents \cup {None}] /\ up' \subseteq Addrs
    BY <1>5 DEF DaemonLearns, SourceSwitched, Learn, Switch, ChainTypes
  <2>3. Fewer /\ TableOK(drop', ChainKeys)
    BY <2>1 DEF Fewer, ChainTypes
  <2> QED BY <2>1, <2>2, <2>3, ChainNumbers DEF ChainTypes, Disturbed
<1>6. ASSUME \/ \E flow \in Pgns \X Addrs : FilterReads(flow)
             \/ FilterWorks
             \/ UNCHANGED cvars
      PROVE  ChainTypes' /\ FilterSteps
  <2>1. FilterSteps
    BY <1>6 DEF FilterReads, FilterWorks, cvars, FilterSteps
  <2>2. UNCHANGED <<cfg, ident, up, age, drop, file, since, calm>>
    BY <2>1 DEF FilterSteps, arbiter, dropset
  <2> QED BY <2>1, <2>2 DEF ChainTypes
<1>7. CASE Second
  BY <1>7, SecondTypes
<1> QED BY <1>1, <1>2, <1>3, <1>4, <1>5, <1>6, <1>7 DEF CNext

-----------------------------------------------------------------------------
(* From the file to vcan0.  What n2k-filter has loaded is the file, unless *)
(* the file was published less than since seconds ago: a file replaced     *)
(* twice within a second, whose second version it would not see, is one    *)
(* published after a disturbance.                                          *)
LookInv ==
    /\ young /\ since >= Interval => calm = 0
    /\ at \in {"boot", "stat"} => calm = 0
    /\ at \in {"load", "drop"} => checked /\ (calm > 0 => frame \in FlowsSent)
    /\ calm <= since \/ (known /\ at # "load" => list = F!DropLoad)

Hits(l, flow) ==
    \E i \in DOMAIN l : l[i][1] = flow[1] /\ l[i][2] \in {flow[2], AnySrc}

(* What the lines l are to say, for each of the three things asked of the  *)
(* chain.                                                                  *)
Says(l, what) ==
    /\ what = "cut" => \A i \in DOMAIN cfg.noN2k :
                          \E j \in DOMAIN l : l[j] = <<cfg.noN2k[i], AnySrc>>
    /\ what = "echo" => \A f \in FlowsSent : Loses(f) => Hits(l, f)
    /\ what = "gap" => \A f \in FlowsSent : ~ Loses(f) /\ ~ Cut(f) => ~ Hits(l, f)

Obeyed(what) ==
    \A f : out.flow = f =>
        /\ what = "cut" /\ Cut(f) => ~ out.passed
        /\ what = "echo" /\ Loses(f) => ~ out.passed
        /\ what = "gap" /\ ~ Loses(f) /\ ~ Cut(f) => out.passed

(* It is said once the bus has been quiet for t seconds and a publication  *)
(* more, loaded an interval later, and obeyed from then on.                *)
FollowInv(what, t) ==
    /\ calm > t + since => Says(file, what)
    /\ calm > t + Interval /\ checked /\ at # "load" => Says(list, what)
    /\ calm > t + Interval /\ out # F!NoFrame => Obeyed(what)

(* All the lines of the file are read.                                     *)
Fits == Len(file) <= FDropMax

LEMMA CompetesSame ==
    ASSUME UNCHANGED <<cfg, ident>>, NEW m
    PROVE  /\ (Result(m) \in Competing)' <=> Result(m) \in Competing
           /\ (Result(m) = "REJECT_NOT_IN_RULE")' <=> Result(m) = "REJECT_NOT_IN_RULE"
           /\ RuleFor(m)' = RuleFor(m) /\ SlotFor(m)' = SlotFor(m)
           /\ ModeFor(m)' = ModeFor(m) /\ Ignored(m)' = Ignored(m)
<1>1. RuleFor(m)' = RuleFor(m) /\ NameFor(m)' = NameFor(m) /\ Ignored(m)' = Ignored(m)
  BY DEF RuleFor, NameFor, Ignored
<1>2. SlotFor(m)' = SlotFor(m) /\ ModeFor(m)' = ModeFor(m)
  BY <1>1 DEF SlotFor, ModeFor
<1> QED BY <1>1, <1>2 DEF Result, Competing

LEMMA WantsSame ==
    ASSUME UNCHANGED <<cfg, ident, up>>
    PROVE  /\ Sent' = Sent /\ FlowsSent' = FlowsSent
           /\ \A a, d : Unwanted(a, d)' <=> Unwanted(a, d)
           /\ \A f : (Loses(f)' <=> Loses(f)) /\ (Cut(f)' <=> Cut(f))
<1>1. Sent' = Sent /\ FlowsSent' = FlowsSent
  BY DEF Sent, FlowsSent
<1>2. ASSUME NEW a, NEW d PROVE Unwanted(a, d)' <=> Unwanted(a, d)
  <2>1. Outranked(a, d)' <=> Outranked(a, d)
    BY CompetesSame DEF Outranked
  <2> QED BY <2>1, CompetesSame DEF Unwanted
<1>3. ASSUME NEW f PROVE (Loses(f)' <=> Loses(f)) /\ (Cut(f)' <=> Cut(f))
  BY <1>2 DEF Loses, Cut, DataOf
<1> QED BY <1>1, <1>2, <1>3

LEMMA SaysSame ==
    ASSUME UNCHANGED <<cfg, ident, up>>, NEW what
    PROVE  /\ file' = file => (Says(file, what)' <=> Says(file, what))
           /\ \A l : list' = l => (Says(list, what)' <=> Says(l, what))
           /\ out' = out => (Obeyed(what)' <=> Obeyed(what))
BY WantsSame DEF Says, Obeyed, Hits

(* What n2k-filter loads is the beginning of the file.                     *)
LEMMA LoadIs ==
    ASSUME ChainTypes
    PROVE  /\ \A i \in DOMAIN F!DropLoad : i \in DOMAIN file /\ F!DropLoad[i] = file[i]
           /\ Fits => F!DropLoad = file
<1>1. file \in Seq(Lines) /\ Len(file) \in Nat /\ FDropMax \in Nat
  BY ChainNumbers DEF ChainTypes
<1>2. CASE Len(file) < FDropMax
  <2>1. F!DropLoad = file
    BY <1>1, <1>2 DEF F!DropLoad
  <2> QED BY <2>1
<1>3. CASE ~ (Len(file) < FDropMax)
  <2>1. F!DropLoad = SubSeq(file, 1, FDropMax) /\ FDropMax <= Len(file)
    BY <1>1, <1>3 DEF F!DropLoad
  <2>2. \A i \in DOMAIN F!DropLoad : i \in DOMAIN file /\ F!DropLoad[i] = file[i]
    BY <1>1, <2>1
  <2>3. Fits => F!DropLoad = file
    BY <1>1, <2>1 DEF Fits
  <2> QED BY <2>2, <2>3
<1> QED BY <1>2, <1>3

LEMMA LoadSays ==
    ASSUME ChainTypes, NEW what, what = "gap" \/ Fits, Says(file, what)
    PROVE  Says(F!DropLoad, what)
<1>1. CASE Fits
  BY <1>1, LoadIs
<1>2. CASE what = "gap"
  BY <1>2, LoadIs DEF Says, Hits
<1> QED BY <1>1, <1>2

LEMMA InitFollow == CInit => LookInv /\ \A what : \A t \in Nat : FollowInv(what, t)
<1> SUFFICES ASSUME CInit PROVE LookInv /\ \A what : \A t \in Nat : FollowInv(what, t)
  OBVIOUS
<1>1. calm = 0 /\ since = Interval /\ young = FALSE /\ at = "boot" /\ Interval \in Nat
  BY ChainNumbers DEF CInit, DInit, F!FInit
<1> QED BY <1>1 DEF LookInv, FollowInv

LEMMA LookStep == ASSUME ChainTypes, ChainTypes', LookInv, [CNext]_cvars PROVE LookInv'
<1>0. /\ calm \in Nat /\ since \in Nat /\ since <= Interval /\ calm' \in Nat
      /\ since' \in Nat /\ Interval \in Nat \ {0}
  BY ChainNumbers DEF ChainTypes
<1>1. ASSUME NEW a \in Addrs, NEW d \in Emits[a], DaemonHears(a, d) PROVE LookInv'
  <2>1. UNCHANGED <<cfg, ident, up, file, since, calm, filter>>
    BY <1>1 DEF DaemonHears, Hear, Decide, Observe
  <2> QED BY <2>1, WantsSame DEF LookInv, filter, F!DropLoad
<1>2. CASE Published
  <2>1. /\ known' = (known /\ young) /\ young' = TRUE /\ since' = 0 /\ since >= Interval
        /\ UNCHANGED <<cfg, ident, up, calm, list, checked, at, frame>>
    BY <1>2 DEF Published, Publish, F!Replaced, arbiter
  <2>2. FlowsSent' = FlowsSent
    BY <2>1, WantsSame
  <2>3. calm <= 0 \/ ~ known'
    <3>1. known' => young
      BY <2>1, Zenon
    <3> QED BY <1>0, <2>1, <3>1 DEF LookInv
  <2> QED BY <1>0, <2>1, <2>2, <2>3 DEF LookInv
<1>3. CASE Disturbed
  <2>1. at' \in {"load", "drop"} => checked'
    BY <1>3 DEF LookInv, Disturbed
  <2>2. calm' = 0
    BY <1>3 DEF Disturbed
  <2> QED BY <1>0, <2>1, <2>2 DEF LookInv
<1>4. CASE FilterSteps
  <2>1. UNCHANGED <<cfg, ident, up, file, since, calm>>
    BY <1>4 DEF FilterSteps, arbiter, dropset
  <2>2. FlowsSent' = FlowsSent /\ (F!DropLoad)' = F!DropLoad
    BY <2>1, WantsSame DEF F!DropLoad
  <2>3. ASSUME NEW flow \in FlowsSent, F!Read(flow) PROVE LookInv'
    BY <2>1, <2>2, <2>3 DEF LookInv, F!Read
  <2>4. CASE F!Boot \/ F!BootStat
    BY <1>0, <2>1, <2>4 DEF LookInv, F!Boot, F!BootStat
  <2>5. CASE F!Load \/ F!Sort
    BY <2>1, <2>2, <2>5 DEF LookInv, F!Load, F!Sort
  <2>6. CASE UNCHANGED filter
    BY <2>1, <2>2, <2>6 DEF LookInv, filter
  <2> QED BY <1>4, <2>3, <2>4, <2>5, <2>6 DEF FilterSteps
<1>5. CASE Second
  <2>1. /\ UNCHANGED <<cfg, ident, up, file, list, known, at, frame>>
        /\ young' = FALSE /\ at = "read" /\ since' = since + 1
        /\ calm' = IF calm < Settle THEN calm + 1 ELSE Settle
    BY <1>5 DEF Second, Tick, DTick, F!FTick
  <2>2. calm <= since => calm' <= since'
    BY <1>0, <2>1, ChainNumbers DEF ChainTypes
  <2>3. (F!DropLoad)' = F!DropLoad
    BY <2>1 DEF F!DropLoad
  <2> QED BY <2>1, <2>2, <2>3 DEF LookInv
<1> QED BY <1>1, <1>2, <1>3, <1>4, <1>5, ChainStep

(* The verdict of n2k-filter on a frame that waits.                        *)
LEMMA SortObeys ==
    ASSUME F!Sort, frame \in FlowsSent, NEW what, Says(list, what),
           UNCHANGED <<cfg, ident, up>>
    PROVE  Obeyed(what)'
<1>1. out' = [flow |-> frame, passed |-> ~ F!DropHas(frame)]
  BY DEF F!Sort
<1>2. out'.flow = frame /\ (out'.passed <=> ~ Hits(list, frame))
  BY <1>1 DEF F!DropHas, Hits
<1>3. ASSUME NEW f, f = frame
      PROVE  /\ what = "cut" /\ Cut(f) => Hits(list, f)
             /\ what = "echo" /\ Loses(f) => Hits(list, f)
             /\ what = "gap" /\ ~ Loses(f) /\ ~ Cut(f) => ~ Hits(list, f)
  <2>1. what = "cut" /\ Cut(f) => Hits(list, f)
    BY DEF Says, Cut, Hits
  <2> QED BY <1>3, <2>1 DEF Says
<1>4. \A f : (Loses(f)' <=> Loses(f)) /\ (Cut(f)' <=> Cut(f))
  BY WantsSame
<1> QED BY <1>2, <1>3, <1>4 DEF Obeyed

(* Once a publication is right, what follows from it is.                   *)
LEMMA FollowStep ==
    ASSUME ChainTypes, LookInv, [CNext]_cvars,
           NEW what, NEW t \in Nat, FollowInv(what, t),
           what = "gap" \/ Fits,
           Published /\ calm > t => Says(file, what)'
    PROVE  FollowInv(what, t)'
<1>0. /\ calm \in Nat /\ since \in Nat /\ since <= Interval /\ Interval \in Nat
  BY ChainNumbers DEF ChainTypes
<1>1. ASSUME NEW a \in Addrs, NEW d \in Emits[a], DaemonHears(a, d)
      PROVE  FollowInv(what, t)'
  <2>1. UNCHANGED <<cfg, ident, up, file, since, calm, list, checked, at, out>>
    BY <1>1 DEF DaemonHears, Hear, Decide, Observe, filter
  <2>2. /\ (Says(file, what)' <=> Says(file, what)) /\ (Says(list, what)' <=> Says(list, what))
        /\ Obeyed(what)' <=> Obeyed(what)
    BY <2>1, SaysSame
  <2> QED BY <2>1, <2>2 DEF FollowInv, F!NoFrame
<1>2. CASE Published
  <2>1. /\ since' = 0
        /\ UNCHANGED <<cfg, ident, up, calm, list, checked, at, out>>
    BY <1>2 DEF Published, Publish, F!Replaced, arbiter
  <2>2. (Says(list, what)' <=> Says(list, what)) /\ (Obeyed(what)' <=> Obeyed(what))
    BY <2>1, SaysSame
  <2> QED BY <1>0, <1>2, <2>1, <2>2 DEF FollowInv, F!NoFrame
<1>3. CASE Disturbed
  <2>1. calm' = 0 /\ since' \in Nat
    BY <1>3, ChainStep DEF Disturbed, ChainTypes
  <2>2. ~ (calm' > t + since') /\ ~ (calm' > t + Interval)
    <3>1. PICK s \in Nat : since' = s
      BY <2>1
    <3> QED BY <1>0, <2>1, <3>1
  <2> QED BY <1>0, <2>2 DEF FollowInv
<1>4. CASE FilterSteps
  <2>1. UNCHANGED <<cfg, ident, up, file, since, calm>>
    BY <1>4 DEF FilterSteps, arbiter, dropset
  <2>2. /\ Says(file, what)' <=> Says(file, what)
        /\ list' = list => (Says(list, what)' <=> Says(list, what))
        /\ list' = F!DropLoad => (Says(list, what)' <=> Says(F!DropLoad, what))
        /\ out' = out => (Obeyed(what)' <=> Obeyed(what))
    BY <2>1, SaysSame
  <2>3. calm > t + Interval => calm > t + since /\ ~ (calm <= since) /\ calm # 0
    BY <1>0
  <2>4. calm > t + Interval => Says(F!DropLoad, what)
    BY <2>3, LoadSays DEF FollowInv
  <2>5. ASSUME NEW flow \in FlowsSent, F!Read(flow) PROVE FollowInv(what, t)'
    <3>1. /\ list' = list /\ out' = out /\ checked' = TRUE /\ at = "read"
          /\ IF ~ checked /\ ~ known THEN at' = "load" ELSE at' = "drop"
      BY <2>5 DEF F!Read
    <3>2. ~ checked /\ known /\ calm > t + Interval => list = F!DropLoad
      BY <2>3, <3>1 DEF LookInv
    <3>3. calm > t + Interval /\ at' # "load" => Says(list, what)
      BY <2>4, <3>1, <3>2 DEF FollowInv
    <3> QED BY <2>1, <2>2, <3>1, <3>3 DEF FollowInv, F!NoFrame
  <2>6. CASE F!Boot \/ F!BootStat
    <3>1. calm = 0
      BY <2>6 DEF LookInv, F!Boot, F!BootStat
    <3> QED BY <1>0, <2>1, <3>1 DEF FollowInv
  <2>7. CASE F!Load
    BY <2>1, <2>2, <2>4, <2>7 DEF FollowInv, F!Load, F!NoFrame
  <2>8. CASE F!Sort
    <3>1. list' = list /\ checked' = checked /\ at = "drop"
      BY <2>8 DEF F!Sort
    <3>2. calm > t + Interval => Says(list, what) /\ frame \in FlowsSent
      BY <2>3, <3>1, <1>0 DEF FollowInv, LookInv
    <3>3. calm > t + Interval => Obeyed(what)'
      BY <2>1, <2>8, <3>2, SortObeys
    <3> QED BY <2>1, <2>2, <3>1, <3>2, <3>3 DEF FollowInv
  <2>9. CASE UNCHANGED filter
    BY <2>1, <2>2, <2>9 DEF FollowInv, filter, F!NoFrame
  <2> QED BY <1>4, <2>5, <2>6, <2>7, <2>8, <2>9 DEF FilterSteps
<1>5. CASE Second
  <2>1. /\ UNCHANGED <<cfg, ident, up, file, list>> /\ checked' = FALSE
        /\ since' = since + 1 /\ out' = F!NoFrame
        /\ calm' = IF calm < Settle THEN calm + 1 ELSE Settle
    BY <1>5 DEF Second, Tick, DTick, F!FTick
  <2>2. Says(file, what)' <=> Says(file, what)
    BY <2>1, SaysSame
  <2>3. calm' > t + since' => calm > t + since
    BY <1>0, <2>1, ChainNumbers DEF ChainTypes
  <2>4. out' = F!NoFrame'
    BY <2>1 DEF F!NoFrame
  <2> QED BY <2>1, <2>2, <2>3, <2>4 DEF FollowInv
<1> QED BY <1>1, <1>2, <1>3, <1>4, <1>5, ChainStep

-----------------------------------------------------------------------------
CutInv == ChainTypes /\ LookInv /\ FollowInv("cut", 0)

LEMMA PublishedCut ==
    ASSUME ChainTypes, Published
    PROVE  Says(file, "cut")'
<1> DEFINE L == LoserLines(drop')
           n == Len(L)
<1>1. /\ drop' = Purged(drop) /\ file' = L \o CutLines(cfg.noN2k) /\ cfg' = cfg
  BY DEF Published, Publish, Write, arbiter
<1>2. L \in Seq({k[1] : k \in ChainKeys}) /\ n \in Nat
  BY <1>1, PurgedTypes, LoserLinesSpec DEF ChainTypes
<1>3. cfg.noN2k \in Seq(Pgns)
  BY ArbiterAssumption DEF ChainTypes, Configuration
<1>4. ASSUME NEW i \in DOMAIN cfg.noN2k
      PROVE  \E j \in DOMAIN file' : file'[j] = <<cfg.noN2k[i], AnySrc>>
  <2> DEFINE C == CutLines(cfg.noN2k)
  <2>1. C \in Seq(Pgns \X {AnySrc}) /\ Len(C) = Len(cfg.noN2k)
        /\ C[i] = <<cfg.noN2k[i], AnySrc>> /\ i \in 1..Len(C)
    BY <1>3 DEF CutLines
  <2> HIDE DEF L, C
  <2>2. (L \o C)[n + i] = C[i] /\ n + i \in DOMAIN (L \o C)
    BY <1>2, <2>1
  <2> QED BY <1>1, <2>1, <2>2 DEF C
<1> QED BY <1>1, <1>4 DEF Says

(* config.h:116-118: for any configuration, any sources and whatever       *)
(* happens to either process, a PGN of no_n2k is no longer sent on, from   *)
(* an interval after the last change, if n2k-filter reads the whole file.  *)
THEOREM CutStaysCut ==
    ASSUME Interval < Settle
    PROVE  CSpec /\ []Fits => []CutIsCut
<1>1. CInit => CutInv
  BY InitTypes, InitFollow DEF CutInv
<1>2. CutInv /\ Fits /\ [CNext]_cvars => CutInv'
  <2> SUFFICES ASSUME CutInv, Fits, [CNext]_cvars PROVE CutInv'
    OBVIOUS
  <2>1. ChainTypes' /\ LookInv'
    BY ChainStep, LookStep DEF CutInv
  <2>2. FollowInv("cut", 0)'
    BY FollowStep, PublishedCut DEF CutInv
  <2> QED BY <2>1, <2>2 DEF CutInv
<1>3. CutInv => CutIsCut
  BY ChainNumbers DEF CutInv, CutIsCut, Settled, FollowInv, Obeyed
<1> QED BY <1>1, <1>2, <1>3, PTL DEF CSpec

-----------------------------------------------------------------------------
(* From the sources to the verdicts.  A source that was switched off, or   *)
(* lost its slot, has been silent for as long as the bus has been calm;    *)
(* one that sends was heard this second or the one before.                 *)
Competes(x) == Result(Msg(x)) \in Competing
RuleOf(x) == RuleFor(Msg(x))
SlotOf(x) == SlotFor(Msg(x))

Speaks(r, s) == \E x \in Sent : Competes(x) /\ RuleOf(x) = r /\ SlotOf(x) = s

AgeInv ==
    /\ \A r \in RuleIds, s \in SlotIds :
          age[r][s] >= calm \/ age[r][s] = Expired \/ Speaks(r, s)
    /\ \A x \in Sent : Competes(x) =>
          /\ calm >= 2 => age[RuleOf(x)][SlotOf(x)] <= 1
          /\ calm >= 1 /\ x \in heard => age[RuleOf(x)][SlotOf(x)] = 0

(* Sources send more often than the arbitration, and the list, forget.     *)
Timely == Timeout >= 1 /\ DropTimeout >= 1

LEMMA SpeaksSame ==
    ASSUME UNCHANGED <<cfg, ident, up>>
    PROVE  /\ \A x : /\ Competes(x)' <=> Competes(x)
                     /\ RuleOf(x)' = RuleOf(x) /\ SlotOf(x)' = SlotOf(x)
                     /\ Key(x)' = Key(x) /\ Ignored(Msg(x))' = Ignored(Msg(x))
           /\ \A r, s : Speaks(r, s)' <=> Speaks(r, s)
<1>1. ASSUME NEW x
      PROVE  /\ Competes(x)' <=> Competes(x)
             /\ RuleOf(x)' = RuleOf(x) /\ SlotOf(x)' = SlotOf(x)
             /\ Key(x)' = Key(x) /\ Ignored(Msg(x))' = Ignored(Msg(x))
  <2>1. Ignored(Msg(x))' = Ignored(Msg(x)) /\ RuleFor(Msg(x))' = RuleFor(Msg(x))
        /\ SlotFor(Msg(x))' = SlotFor(Msg(x)) /\ (Competes(x)' <=> Competes(x))
    BY CompetesSame DEF Competes
  <2> QED BY <2>1 DEF RuleOf, SlotOf, Key, KeptDisc
<1>2. ASSUME NEW r, NEW s PROVE Speaks(r, s)' <=> Speaks(r, s)
  BY <1>1, WantsSame DEF Speaks
<1> QED BY <1>1, <1>2

LEMMA CompetesSlot ==
    ASSUME ChainTypes, NEW x, Competes(x)
    PROVE  /\ RuleOf(x) \in RuleIds /\ SlotOf(x) \in SlotIds
           /\ age[RuleOf(x)][SlotOf(x)] \in Nat
BY CompetingSpec, ChainNumbers DEF Competes, RuleOf, SlotOf, ChainTypes

(* The daemon hears a datum that is sent.                                  *)
LEMMA HearsIs ==
    ASSUME ChainTypes, NEW a \in Addrs, NEW d \in Emits[a], DaemonHears(a, d),
           NEW z, z = <<a, d>>
    PROVE  /\ z \in Sent /\ heard' = heard \cup {z}
           /\ UNCHANGED <<cfg, ident, up, file, since, calm>>
           /\ Observe(FlowX(z)[1], FlowX(z)[2], KeptDisc(z), Result(Msg(z)))
           /\ FlowX(z) = <<FlowX(z)[1], FlowX(z)[2]>>
           /\ \/ ~ Competes(z) /\ age' = age
              \/ Competes(z) /\ age' = [age EXCEPT ![RuleOf(z)][SlotOf(z)] = 0]
<1>1. /\ z[1] = a /\ z[2] = d /\ a \in up /\ up \subseteq Addrs
      /\ Decide(Msg(z)) /\ heard' = heard \cup {z}
      /\ Observe(d[1], a, KeptDisc(z), last'.result)
      /\ UNCHANGED <<file, since, calm>>
  BY DEF DaemonHears, Hear, Observe, KeptDisc, Msg, ChainTypes
<1>2. /\ last'.result = Result(Msg(z)) /\ UNCHANGED <<cfg, ident, up>>
      /\ \/ ~ Competes(z) /\ age' = age
         \/ Competes(z) /\ age' = [age EXCEPT ![RuleOf(z)][SlotOf(z)] = 0]
  BY <1>1, DecideCases DEF Competes, RuleOf, SlotOf
<1>3. z \in Sent
  BY <1>1, SentAre
<1>4. FlowX(z)[1] = d[1] /\ FlowX(z)[2] = a
  BY <1>1 DEF FlowX
<1> QED BY <1>1, <1>2, <1>3, <1>4 DEF FlowX

LEMMA InitAge == CInit => AgeInv
<1> SUFFICES ASSUME CInit PROVE AgeInv
  OBVIOUS
<1>1. calm = 0 /\ age = NoAges
  BY DEF CInit, Init
<1>2. \A r \in RuleIds, s \in SlotIds : age[r][s] = Expired
  BY <1>1 DEF NoAges
<1> QED BY <1>1, <1>2 DEF AgeInv

LEMMA AgeStep == ASSUME ChainTypes, AgeInv, Timely, [CNext]_cvars PROVE AgeInv'
<1>0. /\ calm \in Nat /\ \A r \in RuleIds, s \in SlotIds : age[r][s] \in Nat /\ age[r][s] <= Expired
      /\ Expired \in Nat /\ Expired >= 2
  BY ChainNumbers DEF ChainTypes, Timely
<1>1. ASSUME NEW a \in Addrs, NEW d \in Emits[a], DaemonHears(a, d) PROVE AgeInv'
  <2>1. PICK z : z = <<a, d>>
    OBVIOUS
  <2>2. /\ z \in Sent /\ heard' = heard \cup {z}
        /\ UNCHANGED <<cfg, ident, up, calm>>
        /\ \/ ~ Competes(z) /\ age' = age
           \/ Competes(z) /\ age' = [age EXCEPT ![RuleOf(z)][SlotOf(z)] = 0]
    BY <1>1, <2>1, HearsIs
  <2>3. \A r \in RuleIds, s \in SlotIds :
           \/ age'[r][s] = age[r][s]
           \/ age'[r][s] = 0 /\ Speaks(r, s)
    <3>1. age \in [RuleIds -> [SlotIds -> 0..Expired]]
      BY DEF ChainTypes
    <3>2. CASE ~ Competes(z)
      BY <2>2, <3>2
    <3>3. CASE Competes(z)
      <4>1. RuleOf(z) \in RuleIds /\ SlotOf(z) \in SlotIds /\ Speaks(RuleOf(z), SlotOf(z))
        BY <2>2, <3>3, CompetesSlot DEF Speaks
      <4> QED BY <2>2, <3>1, <3>3, <4>1
    <3> QED BY <3>2, <3>3
  <2>4. Competes(z) => age'[RuleOf(z)][SlotOf(z)] = 0
    BY <2>2, CompetesSlot DEF ChainTypes
  <2>5. \A r \in RuleIds, s \in SlotIds :
           age'[r][s] >= calm \/ age'[r][s] = Expired \/ Speaks(r, s)
    BY <2>3 DEF AgeInv
  <2>6. ASSUME NEW x \in Sent, Competes(x)
        PROVE  /\ calm >= 2 => age'[RuleOf(x)][SlotOf(x)] <= 1
               /\ calm >= 1 /\ x \in heard' => age'[RuleOf(x)][SlotOf(x)] = 0
    <3>1. RuleOf(x) \in RuleIds /\ SlotOf(x) \in SlotIds
      BY <2>6, CompetesSlot
    <3> QED BY <2>2, <2>3, <2>4, <2>6, <3>1 DEF AgeInv
  <2>7. Sent' = Sent
    BY <2>2, WantsSame
  <2> QED BY <2>2, <2>5, <2>6, <2>7, SpeaksSame DEF AgeInv, Expired
<1>2. CASE Published \/ FilterSteps
  <2>1. UNCHANGED <<cfg, ident, up, age, calm, heard>>
    BY <1>2 DEF Published, FilterSteps, arbiter
  <2> QED BY <2>1, WantsSame, SpeaksSame DEF AgeInv, Expired
<1>3. CASE Disturbed
  <2>1. calm' = 0 /\ \A r \in RuleIds, s \in SlotIds : age'[r][s] \in Nat
    BY <1>3, <1>0, ChainStep, ChainNumbers DEF Disturbed, ChainTypes, Expired
  <2>2. \A r \in RuleIds, s \in SlotIds : age'[r][s] >= 0
    <3> SUFFICES ASSUME NEW r \in RuleIds, NEW s \in SlotIds PROVE age'[r][s] >= 0
      OBVIOUS
    <3>1. PICK n \in Nat : age'[r][s] = n
      BY <2>1
    <3> QED BY <3>1
  <2> QED BY <2>1, <2>2 DEF AgeInv, RuleIds, SlotIds
<1>4. CASE Second
  <2>1. /\ UNCHANGED <<cfg, ident, up>> /\ heard' = {} /\ Sent \subseteq heard
        /\ calm' = IF calm < Settle THEN calm + 1 ELSE Settle
        /\ \A r \in RuleIds, s \in SlotIds :
              age'[r][s] = IF age[r][s] < Expired THEN age[r][s] + 1 ELSE Expired
    BY <1>4 DEF Second, Tick
  <2>2. PICK c \in Nat : calm' = c /\ c <= calm + 1 /\ calm <= Settle
                         /\ (c >= 2 => calm >= 1)
    BY <1>0, <2>1, ChainNumbers DEF ChainTypes
  <2>3. \A r \in RuleIds, s \in SlotIds :
           age'[r][s] >= c \/ age'[r][s] = Expired \/ Speaks(r, s)
    BY <1>0, <2>1, <2>2 DEF AgeInv
  <2>4. ASSUME NEW x \in Sent, Competes(x), c >= 2
        PROVE  age'[RuleOf(x)][SlotOf(x)] <= 1
    <3>1. RuleOf(x) \in RuleIds /\ SlotOf(x) \in SlotIds
      BY <2>4, CompetesSlot
    <3>2. age[RuleOf(x)][SlotOf(x)] = 0
      BY <2>1, <2>2, <2>4 DEF AgeInv
    <3> QED BY <1>0, <2>1, <3>1, <3>2
  <2>5. Sent' = Sent
    BY <2>1, WantsSame
  <2> QED BY <2>1, <2>2, <2>3, <2>4, <2>5, SpeaksSame DEF AgeInv, Expired
<1> QED BY <1>1, <1>2, <1>3, <1>4, ChainStep

(* As soon as the timeout has run out on a calm bus, a verdict loses just  *)
(* when the datum is not wanted.                                           *)
LEMMA VerdictsRight ==
    ASSUME ChainTypes, AgeInv, Timely, calm > Timeout, NEW x \in Sent
    PROVE  Result(Msg(x)) \in LosingResults <=> Unwanted(x[1], x[2])
<1> DEFINE m == Msg(x)
<1>0. /\ calm \in Nat /\ calm >= 2 /\ Timeout \in Nat /\ Expired = Timeout + 1
      /\ \A r \in RuleIds, s \in SlotIds : age[r][s] \in Nat
  BY ChainNumbers DEF ChainTypes, Timely
<1>1. Competes(x) => (Supplanted(RuleFor(m), SlotFor(m))
         <=> \E y \in Sent : /\ Competes(y) /\ RuleOf(y) = RuleFor(m)
                             /\ SlotOf(y) < SlotFor(m))
  <2> SUFFICES ASSUME Competes(x)
               PROVE  Supplanted(RuleFor(m), SlotFor(m))
                        <=> \E y \in Sent : /\ Competes(y) /\ RuleOf(y) = RuleFor(m)
                                            /\ SlotOf(y) < SlotFor(m)
    OBVIOUS
  <2>1. RuleFor(m) \in RuleIds /\ SlotFor(m) \in SlotIds
    BY CompetesSlot DEF RuleOf, SlotOf
  <2>2. ASSUME NEW t \in SlotIds, t < SlotFor(m), Live(RuleFor(m), t)
        PROVE  Speaks(RuleFor(m), t)
    <3>1. age[RuleFor(m)][t] \in Nat /\ age[RuleFor(m)][t] <= Timeout
      BY <1>0, <2>1, <2>2 DEF Live
    <3>2. ~ (age[RuleFor(m)][t] >= calm) /\ age[RuleFor(m)][t] # Expired
      BY <1>0, <3>1
    <3> QED BY <2>1, <3>2 DEF AgeInv
  <2>3. ASSUME NEW y \in Sent, Competes(y)
        PROVE  SlotOf(y) \in SlotIds /\ Live(RuleOf(y), SlotOf(y))
    <3>1. age[RuleOf(y)][SlotOf(y)] <= 1 /\ age[RuleOf(y)][SlotOf(y)] \in Nat
      BY <1>0, <2>3, CompetesSlot DEF AgeInv
    <3> QED BY <1>0, <2>3, <3>1, CompetesSlot DEF Live, Timely
  <2> QED BY <2>2, <2>3 DEF Supplanted, Speaks
<1>2. Outranked(x[1], x[2])
         <=> /\ Competes(x) /\ ModeFor(m) = "priority"
             /\ \E y \in Sent : /\ Competes(y) /\ RuleOf(y) = RuleFor(m)
                                /\ SlotOf(y) < SlotFor(m)
  <2>1. up \subseteq Addrs
    BY DEF ChainTypes
  <2>2. ASSUME NEW b \in up, NEW e \in Emits[b]
        PROVE  <<b, e>> \in Sent /\ Msg(<<b, e>>) = Datum(b, e)
    BY <2>1, SentAre DEF Msg
  <2>3. ASSUME NEW y \in Sent PROVE y[1] \in up /\ y[2] \in Emits[y[1]]
    BY <2>1, SentAre
  <2> QED BY <2>2, <2>3 DEF Outranked, Competes, RuleOf, SlotOf, Msg
<1>3. Result(m) = "REJECT_PRIORITY"
         <=> Competes(x) /\ ModeFor(m) = "priority" /\ Supplanted(RuleFor(m), SlotFor(m))
  BY DEF Result, Competes, Competing
<1>4. Unwanted(x[1], x[2]) <=> Outranked(x[1], x[2]) \/ Result(m) = "REJECT_NOT_IN_RULE"
  BY DEF Unwanted, Msg
<1> QED BY <1>1, <1>2, <1>3, <1>4 DEF LosingResults

(* What the list keeps apart is wanted or not as a whole.                  *)
LEMMA SameKeySameWish ==
    ASSUME NEW x, NEW y, Key(x) = Key(y)
    PROVE  Unwanted(x[1], x[2]) <=> Unwanted(y[1], y[2])
<1> DEFINE m == Msg(x)
           n == Msg(y)
<1>1. FlowX(x) = FlowX(y) /\ KeptDisc(x) = KeptDisc(y)
  BY DEF Key
<1>2. m.pgn = n.pgn /\ m.src = n.src /\ m = Datum(x[1], x[2]) /\ n = Datum(y[1], y[2])
  BY <1>1 DEF FlowX, Msg, Datum
<1>3. Ignored(m) <=> Ignored(n)
  BY <1>2 DEF Ignored
<1>4. CASE Ignored(m)
  <2>1. Result(m) = "IGNORED" /\ Result(n) = "IGNORED"
    BY <1>3, <1>4 DEF Result
  <2> QED BY <1>2, <2>1 DEF Unwanted, Outranked, Competing
<1>5. CASE ~ Ignored(m)
  <2>1. DiscriminantOf(m) = DiscriminantOf(n)
    BY <1>1, <1>3, <1>5 DEF KeptDisc
  <2>2. RuleFor(m) = RuleFor(n) /\ NameFor(m) = NameFor(n)
    BY <1>2, <2>1 DEF RuleFor, NameFor
  <2>3. SlotFor(m) = SlotFor(n) /\ ModeFor(m) = ModeFor(n)
    BY <1>2, <2>2 DEF SlotFor, ModeFor
  <2>4. Result(m) = Result(n)
    BY <1>2, <1>3, <2>2, <2>3 DEF Result
  <2> QED BY <1>2, <2>2, <2>3, <2>4 DEF Unwanted, Outranked
<1> QED BY <1>4, <1>5

-----------------------------------------------------------------------------
(* From the verdicts to the list.                                          *)

Settling == Timeout + 1

(* No source sends two data in one PGN.                                    *)
OneDatum == \A a \in Addrs : \A d, e \in Emits[a] : d[1] = e[1] => d = e

NothingIgnored == \A c \in Configs : c.ignoreSrc = {} /\ c.ignorePgn = {}

(* A winner is back this long after the last change: with several data in  *)
(* a flow, the one that is heard first after the verdicts have settled may *)
(* be the only one of them on the list, until the others are heard again.  *)
GapTime == IF OneDatum THEN Settling ELSE Settling + 1

(* A loser is gone after this long: where data are ignored, the verdict on *)
(* what is no longer told apart has to be forgotten first.                 *)
EchoTime == IF NothingIgnored \/ DropTimeout <= Settling THEN Settling
            ELSE DropTimeout

Within(es, k, n) == \E i \in 1..Len(es) : KeyOf(es[i]) = k /\ es[i].age <= n

HasFlow(es, f) == \E i \in 1..Len(es) : FlowOf(es[i]) = f

(* An entry says what is wanted of its datum.                              *)
EntriesRight ==
    \A x \in Sent : calm > Settling \/ (calm >= Settling /\ x \in heard) =>
        \A i \in 1..Len(drop) :
           KeyOf(drop[i]) = Key(x) => (drop[i].loser <=> Unwanted(x[1], x[2]))

(* What is not wanted has an entry.                                        *)
LosersHeld ==
    \A x \in Sent : Unwanted(x[1], x[2]) =>
        /\ calm > Settling => Within(drop, Key(x), 1)
        /\ calm >= Settling /\ x \in heard => Within(drop, Key(x), 0)

(* What is no longer sent is no longer heard.                              *)
OthersOld ==
    \A i \in 1..Len(drop) :
        drop[i].age >= calm \/ \E x \in Sent : KeyOf(drop[i]) = Key(x)

(* If a flow has an entry, each of its data has one.                       *)
WinnersHeld ==
    \A x \in Sent : HasFlow(drop, FlowX(x)) =>
        /\ calm > GapTime => Within(drop, Key(x), 1)
        /\ calm >= GapTime /\ x \in heard => Within(drop, Key(x), 0)

(* If nothing is ignored, an entry is of a datum.                          *)
KeysOfData ==
    NothingIgnored =>
        \A i \in 1..Len(drop) :
           \E a \in Addrs : \E d \in Emits[a] : KeyOf(drop[i]) = Key(<<a, d>>)

TableInv == EntriesRight /\ LosersHeld /\ OthersOld /\ WinnersHeld /\ KeysOfData

LEMMA SettlingNumbers ==
    /\ Settling \in Nat /\ Settling = Timeout + 1 /\ Timeout \in Nat
    /\ GapTime \in Nat /\ GapTime \in {Settling, Settling + 1}
    /\ EchoTime \in Nat /\ EchoTime >= Settling
    /\ ~ NothingIgnored => EchoTime >= DropTimeout
    /\ DropTimeout \in Nat
BY ChainNumbers DEF Settling, GapTime, EchoTime

LEMMA EntryAges ==
    ASSUME ChainTypes, NEW i \in 1..Len(drop)
    PROVE  /\ drop[i].age \in Nat /\ drop[i].loser \in BOOLEAN
           /\ KeyOf(drop[i]) \in ChainKeys /\ KeyOf(drop[i])[1] = FlowOf(drop[i])
BY DEF ChainTypes, TableOK, Entry, KeyOf

(* A verdict that passes is not remembered of a flow that has no entry.    *)
LEMMA NotRemembered ==
    ASSUME ChainTypes, NEW z, Observe(FlowX(z)[1], FlowX(z)[2], KeptDisc(z), Result(Msg(z))),
           FlowX(z) = <<FlowX(z)[1], FlowX(z)[2]>>,
           Result(Msg(z)) \notin LosingResults, ~ HasFlow(drop, FlowX(z))
    PROVE  drop' = drop
<1> DEFINE f == FlowX(z)
           c == KeptDisc(z)
           r == Result(Msg(z))
<1>1. /\ Observe(f[1], f[2], c, r) /\ f = <<f[1], f[2]>> /\ TableOK(drop, ChainKeys)
      /\ r \notin LosingResults /\ ~ HasFlow(drop, f)
  BY DEF ChainTypes
<1> HIDE DEF f, c, r
<1>2. EntryFor(f[1], f[2], c) = NoSlot
  BY <1>1, EntryForSpec DEF HasFlow, KeyOf
<1>3. ~ Memorable(f[1], f[2], r \in LosingResults)
  <2>1. DOMAIN drop = 1..Len(drop)
    BY <1>1 DEF TableOK
  <2> QED BY <1>1, <2>1 DEF Memorable, HasFlow
<1> QED BY <1>1, <1>2, <1>3 DEF Observe

(* What a verdict does to the table, if it has room.                       *)
LEMMA HearsTable ==
    ASSUME ChainTypes, RoomFor(ChainKeys),
           NEW a \in Addrs, NEW d \in Emits[a], DaemonHears(a, d), NEW z, z = <<a, d>>
    PROVE  \E e :
              /\ KeyOf(e) = Key(z) /\ FlowOf(e) = FlowX(z) /\ e.age = 0
              /\ e.loser <=> Result(Msg(z)) \in LosingResults
              /\ \A i \in 1..Len(drop') :
                    \/ drop'[i] = e
                    \/ \E j \in 1..Len(drop) :
                          drop'[i] = drop[j] /\ KeyOf(drop[j]) # Key(z)
              /\ \A j \in 1..Len(drop) : KeyOf(drop[j]) # Key(z)
                    => \E i \in 1..Len(drop') : drop'[i] = drop[j]
              /\ Result(Msg(z)) \in LosingResults \/ HasFlow(drop, FlowX(z))
                    => \E i \in 1..Len(drop') : drop'[i] = e
<1> DEFINE f == FlowX(z)
           c == KeptDisc(z)
           r == Result(Msg(z))
           e == New(f, c, r)
<1>1. Observe(f[1], f[2], c, r) /\ f = <<f[1], f[2]>> /\ TableOK(drop, ChainKeys)
  BY HearsIs DEF ChainTypes
<1>2. <<f, c>> = Key(z) /\ <<f, c>> \in ChainKeys
  BY KeyKnown DEF Key
<1>3. e.age = 0 /\ (e.loser <=> r \in LosingResults)
  BY DEF New
<1> HIDE DEF f, c, r
<1>4. /\ TableOK(drop', ChainKeys)
      /\ KeyOf(e) = <<f, c>> /\ e \in Entry(ChainKeys)
      /\ \A i \in 1..Len(drop') :
            \/ drop'[i] = e
            \/ \E j \in 1..Len(drop) : drop'[i] = drop[j] /\ KeyOf(drop[j]) # <<f, c>>
      /\ Len(drop) < DropMax \/ Holds(<<f, c>>) =>
            /\ \A j \in 1..Len(drop) : KeyOf(drop[j]) # <<f, c>>
                  => \E i \in 1..Len(drop') : drop'[i] = drop[j]
            /\ (r \in LosingResults \/ \E j \in 1..Len(drop) : FlowOf(drop[j]) = f)
                  => \E i \in 1..Len(drop') : drop'[i] = e
  BY <1>1, <1>2, ObserveSpec
<1>5. Len(drop) < DropMax \/ Holds(<<f, c>>)
  BY <1>1, <1>2, RoomLeft
<1>6. FlowOf(e) = f
  BY <1>4 DEF KeyOf
<1> HIDE DEF e
<1> QED BY <1>2, <1>3, <1>4, <1>5, <1>6 DEF HasFlow, f, r

LEMMA HearsTableInv ==
    ASSUME ChainTypes, AgeInv, Timely, RoomFor(ChainKeys), TableInv,
           NEW a \in Addrs, NEW d \in Emits[a], DaemonHears(a, d)
    PROVE  TableInv'
<1>1. PICK z : z = <<a, d>>
  OBVIOUS
<1>2. /\ z \in Sent /\ heard' = heard \cup {z} /\ UNCHANGED <<cfg, ident, up, calm>>
  BY <1>1, HearsIs
<1>3. PICK e :
        /\ KeyOf(e) = Key(z) /\ FlowOf(e) = FlowX(z) /\ e.age = 0
        /\ e.loser <=> Result(Msg(z)) \in LosingResults
        /\ \A i \in 1..Len(drop') :
              \/ drop'[i] = e
              \/ \E j \in 1..Len(drop) :
                    drop'[i] = drop[j] /\ KeyOf(drop[j]) # Key(z)
        /\ \A j \in 1..Len(drop) : KeyOf(drop[j]) # Key(z)
              => \E i \in 1..Len(drop') : drop'[i] = drop[j]
        /\ Result(Msg(z)) \in LosingResults \/ HasFlow(drop, FlowX(z))
              => \E i \in 1..Len(drop') : drop'[i] = e
  BY <1>1, HearsTable
<1>4. calm >= Settling => (Result(Msg(z)) \in LosingResults <=> Unwanted(z[1], z[2]))
  <2>1. calm >= Settling => calm > Timeout
    BY SettlingNumbers DEF ChainTypes
  <2> QED BY <1>2, <2>1, VerdictsRight
<1>5. /\ Sent' = Sent /\ \A x : Key(x)' = Key(x)
      /\ \A b, c : Unwanted(b, c)' <=> Unwanted(b, c)
  BY <1>2, WantsSame, SpeaksSame
<1>6. \A x : Key(x) = Key(z) =>
         /\ Unwanted(x[1], x[2]) <=> Unwanted(z[1], z[2])
         /\ FlowX(x) = FlowX(z)
  BY SameKeySameWish DEF Key
<1>7. ASSUME NEW k, NEW n \in Nat, k # Key(z), Within(drop, k, n)
      PROVE  Within(drop', k, n)
  BY <1>3, <1>7 DEF Within
<1>8. ASSUME NEW n \in Nat,
             Result(Msg(z)) \in LosingResults \/ HasFlow(drop, FlowX(z))
      PROVE  Within(drop', Key(z), n)
  BY <1>3, <1>8 DEF Within
<1>9. calm \in Nat /\ Settling \in Nat /\ GapTime \in {Settling, Settling + 1}
  BY SettlingNumbers DEF ChainTypes
<1>10. ASSUME NEW x \in Sent, calm > Settling \/ (calm >= Settling /\ x \in heard'),
              NEW i \in 1..Len(drop'), KeyOf(drop'[i]) = Key(x)
       PROVE  drop'[i].loser <=> Unwanted(x[1], x[2])
  <2>1. CASE Key(x) = Key(z)
    <3>1. drop'[i] = e
      BY <1>3, <1>10, <2>1
    <3> QED BY <1>3, <1>4, <1>6, <1>9, <1>10, <2>1, <3>1
  <2>2. CASE Key(x) # Key(z)
    <3>1. PICK j \in 1..Len(drop) : drop'[i] = drop[j]
      BY <1>3, <1>10, <2>2
    <3> QED BY <1>2, <1>10, <2>2, <3>1 DEF TableInv, EntriesRight
  <2> QED BY <2>1, <2>2
<1>11. ASSUME NEW x \in Sent, Unwanted(x[1], x[2])
       PROVE  /\ calm > Settling => Within(drop', Key(x), 1)
              /\ calm >= Settling /\ x \in heard' => Within(drop', Key(x), 0)
  <2>1. CASE Key(x) = Key(z)
    BY <1>4, <1>6, <1>8, <1>9, <1>11, <2>1
  <2>2. CASE Key(x) # Key(z)
    BY <1>2, <1>7, <1>11, <2>2 DEF TableInv, LosersHeld
  <2> QED BY <2>1, <2>2
<1>12. ASSUME NEW i \in 1..Len(drop')
       PROVE  drop'[i].age >= calm \/ \E x \in Sent : KeyOf(drop'[i]) = Key(x)
  BY <1>2, <1>3 DEF TableInv, OthersOld
<1>13. ASSUME NEW x \in Sent, HasFlow(drop', FlowX(x))
       PROVE  /\ calm > GapTime => Within(drop', Key(x), 1)
              /\ calm >= GapTime /\ x \in heard' => Within(drop', Key(x), 0)
  <2>1. HasFlow(drop, FlowX(x))
          \/ (FlowX(x) = FlowX(z) /\ \E i \in 1..Len(drop') : drop'[i] = e)
    BY <1>3, <1>13 DEF HasFlow
  <2>2. CASE Key(x) = Key(z)
    <3>1. Within(drop', Key(z), 0) /\ Within(drop', Key(z), 1)
      BY <1>3, <1>6, <1>8, <2>1, <2>2 DEF Within
    <3> QED BY <2>2, <3>1
  <2>3. CASE Key(x) # Key(z) /\ HasFlow(drop, FlowX(x))
    BY <1>2, <1>7, <2>3 DEF TableInv, WinnersHeld
  <2>4. CASE Key(x) # Key(z) /\ ~ HasFlow(drop, FlowX(x))
    <3>1. FlowX(x) = FlowX(z) /\ x # z
      BY <2>1, <2>4
    <3>2. ~ OneDatum
      <4>1. x = <<x[1], x[2]>> /\ x[1] \in Addrs /\ x[2] \in Emits[x[1]]
        BY SentAre DEF ChainTypes
      <4>2. z[1] = a /\ z[2] = d /\ z = <<z[1], z[2]>>
        BY <1>1
      <4>3. x[1] = a /\ x[2][1] = d[1] /\ x[2] # d
        BY <3>1, <4>1, <4>2 DEF FlowX
      <4> QED BY <4>1, <4>3 DEF OneDatum
    <3>3. GapTime = Settling + 1
      BY <3>2 DEF GapTime
    <3>4. ASSUME calm > Settling PROVE FALSE
      <4>1. Result(Msg(z)) \in LosingResults
        <5>1. ~ HasFlow(drop, FlowX(z)) /\ HasFlow(drop', FlowX(z))
          BY <1>13, <2>4, <3>1
        <5>2. drop' # drop
          BY <5>1
        <5> QED BY <1>1, <5>1, <5>2, HearsIs, NotRemembered
      <4>2. Unwanted(z[1], z[2])
        BY <1>4, <1>9, <3>4, <4>1
      <4>3. Within(drop, Key(z), 1)
        BY <1>2, <3>4, <4>2 DEF TableInv, LosersHeld
      <4>4. HasFlow(drop, FlowX(z))
        BY <4>3, EntryAges DEF Within, HasFlow, Key
      <4> QED BY <2>4, <3>1, <4>4
    <3> QED BY <1>9, <3>3, <3>4
  <2> QED BY <2>2, <2>3, <2>4
<1>14. ASSUME NothingIgnored, NEW i \in 1..Len(drop')
       PROVE  \E b \in Addrs : \E c \in Emits[b] : KeyOf(drop'[i]) = Key(<<b, c>>)
  <2>1. CASE drop'[i] = e
    <3>1. KeyOf(drop'[i]) = Key(<<a, d>>)
      BY <1>1, <1>3, <2>1
    <3> QED BY <3>1
  <2>2. CASE drop'[i] # e
    <3>1. PICK j \in 1..Len(drop) : drop'[i] = drop[j]
      BY <1>3, <2>2
    <3> QED BY <1>14, <3>1 DEF TableInv, KeysOfData
  <2> QED BY <2>1, <2>2
<1>15. EntriesRight'
  BY <1>2, <1>5, <1>10 DEF EntriesRight, KeyOf, FlowOf, Settling
<1>16. LosersHeld'
  BY <1>2, <1>5, <1>11 DEF LosersHeld, Within, KeyOf, FlowOf, Settling
<1>17. OthersOld'
  BY <1>2, <1>5, <1>12 DEF OthersOld, KeyOf, FlowOf
<1>18. WinnersHeld'
  BY <1>2, <1>5, <1>13
     DEF WinnersHeld, Within, HasFlow, KeyOf, FlowOf, FlowX, GapTime, Settling, OneDatum
<1>19. KeysOfData'
  BY <1>5, <1>14 DEF KeysOfData, KeyOf, FlowOf, NothingIgnored
<1> QED BY <1>15, <1>16, <1>17, <1>18, <1>19 DEF TableInv

LEMMA InitTable == CInit => TableInv
<1> SUFFICES ASSUME CInit PROVE TableInv
  OBVIOUS
<1>1. drop = <<>> /\ Len(drop) = 0 /\ calm = 0 /\ Settling \in Nat /\ Settling # 0
      /\ GapTime \in {Settling, Settling + 1}
  BY SettlingNumbers DEF CInit, DInit
<1> QED BY <1>1 DEF TableInv, EntriesRight, LosersHeld, OthersOld, WinnersHeld,
                    KeysOfData, HasFlow

LEMMA PublishTableInv ==
    ASSUME ChainTypes, Timely, TableInv, Published
    PROVE  TableInv'
<1>1. /\ drop' = Purged(drop) /\ UNCHANGED <<cfg, ident, up, calm, heard>>
  BY DEF Published, Publish, Write, arbiter
<1>2. /\ \A k \in 1..Len(drop') : \E i \in 1..Len(drop) : drop'[k] = drop[i]
      /\ \A i \in 1..Len(drop) : Current(drop[i])
            => \E k \in 1..Len(drop') : drop'[k] = drop[i]
  BY <1>1, PurgedHere DEF ChainTypes
<1>3. /\ Sent' = Sent /\ \A x : Key(x)' = Key(x)
      /\ \A b, c : Unwanted(b, c)' <=> Unwanted(b, c)
  BY <1>1, WantsSame, SpeaksSame
<1>4. ASSUME NEW k, NEW n \in {0, 1}, Within(drop, k, n) PROVE Within(drop', k, n)
  <2>1. PICK i \in 1..Len(drop) : KeyOf(drop[i]) = k /\ drop[i].age <= n
    BY <1>4 DEF Within
  <2>2. Current(drop[i])
    BY <1>4, <2>1, EntryAges, SettlingNumbers DEF Current, Timely
  <2> QED BY <1>2, <2>1, <2>2 DEF Within
<1>5. ASSUME NEW f, HasFlow(drop', f) PROVE HasFlow(drop, f)
  BY <1>2, <1>5 DEF HasFlow
<1>6. EntriesRight'
  BY <1>1, <1>2, <1>3 DEF TableInv, EntriesRight, KeyOf, FlowOf, Settling
<1>7. LosersHeld'
  <2>1. \A x \in Sent : Unwanted(x[1], x[2]) =>
           /\ calm > Settling => Within(drop', Key(x), 1)
           /\ calm >= Settling /\ x \in heard => Within(drop', Key(x), 0)
    BY <1>4 DEF TableInv, LosersHeld
  <2> QED BY <1>1, <1>3, <2>1 DEF LosersHeld, Within, KeyOf, FlowOf, Settling
<1>8. OthersOld'
  <2>1. \A i \in 1..Len(drop') :
           drop'[i].age >= calm \/ \E x \in Sent : KeyOf(drop'[i]) = Key(x)
    BY <1>2 DEF TableInv, OthersOld
  <2> QED BY <1>1, <1>3, <2>1 DEF OthersOld, KeyOf, FlowOf
<1>9. WinnersHeld'
  <2>1. \A x \in Sent : HasFlow(drop', FlowX(x)) =>
           /\ calm > GapTime => Within(drop', Key(x), 1)
           /\ calm >= GapTime /\ x \in heard => Within(drop', Key(x), 0)
    BY <1>4, <1>5 DEF TableInv, WinnersHeld
  <2> QED BY <1>1, <1>3, <2>1
          DEF WinnersHeld, Within, HasFlow, KeyOf, FlowOf, FlowX, GapTime, Settling, OneDatum
<1>10. KeysOfData'
  <2>1. NothingIgnored =>
           \A i \in 1..Len(drop') :
              \E a \in Addrs : \E d \in Emits[a] : KeyOf(drop'[i]) = Key(<<a, d>>)
    <3> SUFFICES ASSUME NothingIgnored, NEW k \in 1..Len(drop')
                 PROVE  \E a \in Addrs : \E d \in Emits[a] :
                           KeyOf(drop'[k]) = Key(<<a, d>>)
      OBVIOUS
    <3>1. PICK i \in 1..Len(drop) : drop'[k] = drop[i]
      BY <1>2
    <3> QED BY <3>1 DEF TableInv, KeysOfData
  <2> QED BY <1>3, <2>1 DEF KeysOfData, KeyOf, FlowOf, NothingIgnored
<1> QED BY <1>6, <1>7, <1>8, <1>9, <1>10 DEF TableInv

LEMMA SecondTableInv ==
    ASSUME ChainTypes, Timely, TableInv, Second
    PROVE  TableInv'
<1>1. /\ UNCHANGED <<cfg, ident, up>> /\ heard' = {} /\ Sent \subseteq heard
      /\ calm' = IF calm < Settle THEN calm + 1 ELSE Settle
  BY DEF Second, Tick
<1>2. /\ Len(drop') = Len(drop) /\ Len(drop) \in Nat
      /\ \A i \in 1..Len(drop) :
            /\ KeyOf(drop'[i]) = KeyOf(drop[i]) /\ FlowOf(drop'[i]) = FlowOf(drop[i])
            /\ drop'[i].loser = drop[i].loser
            /\ drop[i].age \in Nat /\ drop'[i].age = drop[i].age + 1
  BY TickTable DEF Second, ChainTypes, TableOK
<1>3. /\ Sent' = Sent /\ \A x : Key(x)' = Key(x)
      /\ \A b, c : Unwanted(b, c)' <=> Unwanted(b, c)
  BY <1>1, WantsSame, SpeaksSame
<1>4. PICK c \in Nat : /\ calm' = c /\ c <= calm + 1
                       /\ \A n \in Nat : c > n => calm >= n
  <2>1. calm \in Nat /\ calm <= Settle /\ Settle \in Nat
    BY ChainNumbers DEF ChainTypes
  <2>2. CASE calm < Settle
    BY <1>1, <2>1, <2>2
  <2>3. CASE ~ (calm < Settle)
    BY <1>1, <2>1, <2>3
  <2> QED BY <2>2, <2>3
<1>5. ASSUME NEW k, Within(drop, k, 0) PROVE Within(drop', k, 1)
  <2>1. PICK i \in 1..Len(drop) : KeyOf(drop[i]) = k /\ drop[i].age <= 0
    BY <1>5 DEF Within
  <2>2. drop'[i].age <= 1
    BY <1>2, <2>1
  <2> QED BY <1>2, <2>1, <2>2 DEF Within
<1>6. ASSUME NEW f, HasFlow(drop', f) PROVE HasFlow(drop, f)
  BY <1>2, <1>6 DEF HasFlow
<1>7. Settling \in Nat /\ GapTime \in Nat
  BY SettlingNumbers
<1>8. EntriesRight'
  <2>1. ASSUME NEW x \in Sent, c > Settling, NEW i \in 1..Len(drop'), KeyOf(drop'[i]) = Key(x)
        PROVE  drop'[i].loser <=> Unwanted(x[1], x[2])
    BY <1>1, <1>2, <1>4, <1>7, <2>1 DEF TableInv, EntriesRight
  <2> QED BY <1>1, <1>3, <1>4, <2>1 DEF EntriesRight, KeyOf, FlowOf, Settling
<1>9. LosersHeld'
  <2>1. \A x \in Sent : Unwanted(x[1], x[2]) /\ c > Settling => Within(drop', Key(x), 1)
    BY <1>1, <1>4, <1>5, <1>7 DEF TableInv, LosersHeld
  <2> QED BY <1>1, <1>3, <1>4, <2>1 DEF LosersHeld, Within, KeyOf, FlowOf, Settling
<1>10. OthersOld'
  <2>1. ASSUME NEW i \in 1..Len(drop')
        PROVE  drop'[i].age >= c \/ \E x \in Sent : KeyOf(drop'[i]) = Key(x)
    <3>1. calm \in Nat /\ drop[i].age \in Nat /\ drop'[i].age = drop[i].age + 1
          /\ KeyOf(drop'[i]) = KeyOf(drop[i]) /\ i \in 1..Len(drop)
      BY <1>2 DEF ChainTypes
    <3> QED BY <1>4, <3>1 DEF TableInv, OthersOld
  <2> QED BY <1>3, <1>4, <2>1 DEF OthersOld, KeyOf, FlowOf
<1>11. WinnersHeld'
  <2>1. \A x \in Sent : HasFlow(drop', FlowX(x)) /\ c > GapTime => Within(drop', Key(x), 1)
    BY <1>1, <1>4, <1>5, <1>6, <1>7 DEF TableInv, WinnersHeld
  <2> QED BY <1>1, <1>3, <1>4, <2>1
          DEF WinnersHeld, Within, HasFlow, KeyOf, FlowOf, FlowX, GapTime, Settling, OneDatum
<1>12. KeysOfData'
  <2>1. NothingIgnored =>
           \A i \in 1..Len(drop') :
              \E a \in Addrs : \E d \in Emits[a] : KeyOf(drop'[i]) = Key(<<a, d>>)
    BY <1>2 DEF TableInv, KeysOfData
  <2> QED BY <1>3, <2>1 DEF KeysOfData, KeyOf, FlowOf, NothingIgnored
<1> QED BY <1>8, <1>9, <1>10, <1>11, <1>12 DEF TableInv

LEMMA DisturbedTableInv ==
    ASSUME ChainTypes, ChainTypes', TableInv, Disturbed
    PROVE  TableInv'
<1>1. calm' = 0 /\ Fewer /\ cfg \in Configs /\ cfg' \in Configs
  BY DEF Disturbed, ChainTypes
<1>2. /\ Settling \in Nat /\ Settling # 0 /\ ~ (0 > Settling) /\ ~ (0 >= Settling)
      /\ ~ (0 > GapTime) /\ ~ (0 >= GapTime)
  BY SettlingNumbers
<1>3. EntriesRight' /\ LosersHeld' /\ WinnersHeld'
  BY <1>1, <1>2 DEF EntriesRight, LosersHeld, WinnersHeld, Settling, GapTime, OneDatum
<1>4. OthersOld'
  <2>1. ASSUME NEW i \in 1..Len(drop') PROVE drop'[i].age >= 0
    <3>1. PICK j \in 1..Len(drop) : drop'[i] = drop[j]
      BY <1>1 DEF Fewer
    <3> QED BY <3>1, EntryAges
  <2> QED BY <1>1, <2>1 DEF OthersOld
<1>5. KeysOfData'
  <2>1. ASSUME NothingIgnored, NEW a, NEW d PROVE Key(<<a, d>>)' = Key(<<a, d>>)
    <3>1. Ignored(Datum(a, d))' <=> Ignored(Datum(a, d))
      BY <1>1, <2>1 DEF Ignored, NothingIgnored
    <3>2. Ignored(Msg(<<a, d>>))' <=> Ignored(Msg(<<a, d>>))
      BY <3>1 DEF Msg
    <3> QED BY <3>2 DEF Key, KeptDisc
  <2>2. ASSUME NothingIgnored, NEW i \in 1..Len(drop')
        PROVE  \E a \in Addrs : \E d \in Emits[a] : KeyOf(drop'[i]) = Key(<<a, d>>)
    BY <1>1, <2>2 DEF Fewer, TableInv, KeysOfData
  <2> QED BY <2>1, <2>2 DEF KeysOfData, KeyOf, FlowOf, NothingIgnored
<1> QED BY <1>3, <1>4, <1>5 DEF TableInv

LEMMA TableStep ==
    ASSUME ChainTypes, AgeInv, Timely, RoomFor(ChainKeys), TableInv, [CNext]_cvars
    PROVE  TableInv'
<1>1. CASE FilterSteps
  <2>1. UNCHANGED <<cfg, ident, up, calm, heard, drop>>
    BY <1>1 DEF FilterSteps, arbiter, dropset
  <2>2. /\ Sent' = Sent /\ \A x : Key(x)' = Key(x)
        /\ \A b, c : Unwanted(b, c)' <=> Unwanted(b, c)
    BY <2>1, WantsSame, SpeaksSame
  <2>3. EntriesRight' /\ LosersHeld'
    BY <2>1, <2>2 DEF TableInv, EntriesRight, LosersHeld, Within, KeyOf, FlowOf, Settling
  <2>4. OthersOld' /\ KeysOfData'
    BY <2>1, <2>2 DEF TableInv, OthersOld, KeysOfData, KeyOf, FlowOf, NothingIgnored
  <2>5. WinnersHeld'
    BY <2>1, <2>2 DEF TableInv, WinnersHeld, Within, HasFlow, KeyOf, FlowOf, FlowX,
                      GapTime, Settling, OneDatum
  <2> QED BY <2>3, <2>4, <2>5 DEF TableInv
<1> QED BY <1>1, ChainStep, HearsTableInv, PublishTableInv, DisturbedTableInv, SecondTableInv

-----------------------------------------------------------------------------
(* What is published once the table has settled is right.                  *)

LEMMA FlowsAre ==
    ASSUME ChainTypes, NEW f \in FlowsSent
    PROVE  /\ f = <<f[1], f[2]>> /\ f[2] \in up /\ f[2] \in Addrs
           /\ \E x \in Sent : FlowX(x) = f
           /\ \A x \in Sent : FlowX(x) = f <=> x[1] = f[2] /\ x[2] \in DataOf(f)
<1>1. PICK x \in Sent : f = <<x[2][1], x[1]>>
  BY DEF FlowsSent
<1>2. /\ \A y \in Sent : y[1] \in up /\ y[1] \in Addrs /\ y[2] \in Emits[y[1]]
  BY SentAre DEF ChainTypes
<1>3. f = <<f[1], f[2]>> /\ f[2] \in up /\ f[2] \in Addrs /\ FlowX(x) = f
  BY <1>1, <1>2 DEF FlowX
<1>4. ASSUME NEW y \in Sent
      PROVE  FlowX(y) = f <=> y[1] = f[2] /\ y[2] \in DataOf(f)
  <2>1. y[2] \in Emits[y[1]]
    BY <1>2
  <2>2. FlowX(y) = f <=> y[1] = f[2] /\ y[2][1] = f[1]
    BY <1>3 DEF FlowX
  <2> QED BY <2>1, <2>2 DEF DataOf
<1> QED BY <1>3, <1>4

LEMMA PublishedLines ==
    ASSUME ChainTypes, Published
    PROVE  /\ \A k \in 1..Len(drop') :
                 \E i \in 1..Len(drop) : drop'[k] = drop[i] /\ Current(drop[i])
           /\ \A i \in 1..Len(drop) : Current(drop[i])
                 => \E k \in 1..Len(drop') : drop'[k] = drop[i]
           /\ \A f \in FlowsSent :
                 /\ \E k \in 1..Len(drop') : FlowOf(drop'[k]) = f
                 /\ \A k \in 1..Len(drop') : FlowOf(drop'[k]) = f => drop'[k].loser
                 => Hits(file', f)
           /\ \A f \in FlowsSent : Hits(file', f) /\ ~ Cut(f) =>
                 /\ \E k \in 1..Len(drop') : FlowOf(drop'[k]) = f
                 /\ \A k \in 1..Len(drop') : FlowOf(drop'[k]) = f => drop'[k].loser
<1> DEFINE L == LoserLines(drop')
           C == CutLines(cfg.noN2k)
           n == Len(L)
           Listed1(f) == /\ \E k \in 1..Len(drop') : FlowOf(drop'[k]) = f
                         /\ \A k \in 1..Len(drop') : FlowOf(drop'[k]) = f => drop'[k].loser
<1>1. drop' = Purged(drop) /\ file' = L \o C
  BY DEF Published, Publish, Write
<1>2. /\ TableOK(drop', ChainKeys)
      /\ \A k \in 1..Len(drop') :
            \E i \in 1..Len(drop) : drop'[k] = drop[i] /\ Current(drop[i])
      /\ \A i \in 1..Len(drop) : Current(drop[i])
            => \E k \in 1..Len(drop') : drop'[k] = drop[i]
  BY <1>1, PurgedHere DEF ChainTypes
<1>3. /\ L \in Seq({k[1] : k \in ChainKeys})
      /\ \A f : (\E k \in 1..Len(L) : L[k] = f) <=> Listed1(f)
  BY <1>2, LoserLinesSpec
<1>4. cfg.noN2k \in Seq(Pgns)
  BY ArbiterAssumption DEF ChainTypes, Configuration
<1>5. /\ C \in Seq(Pgns \X {AnySrc}) /\ DOMAIN C = DOMAIN cfg.noN2k
      /\ \A i \in DOMAIN C : C[i][1] = cfg.noN2k[i]
  BY <1>4 DEF CutLines
<1> HIDE DEF L, C, Listed1
<1>6. /\ n \in Nat /\ Len(C) \in Nat
      /\ \A k \in 1..n : k \in DOMAIN (L \o C) /\ (L \o C)[k] = L[k]
      /\ \A k \in DOMAIN (L \o C) : k \in 1..n \/ (k - n \in DOMAIN C /\ (L \o C)[k] = C[k - n])
  <2>1. n \in Nat /\ Len(C) \in Nat /\ Len(L \o C) = n + Len(C) /\ DOMAIN C = 1..Len(C)
        /\ DOMAIN (L \o C) = 1..(n + Len(C))
    BY <1>3, <1>5
  <2>2. \A k \in 1..n : k \in DOMAIN (L \o C) /\ (L \o C)[k] = L[k]
    BY <1>3, <1>5, <2>1
  <2>3. ASSUME NEW k \in 1..(n + Len(C)), k \notin 1..n
        PROVE  k - n \in 1..Len(C) /\ (L \o C)[k] = C[k - n]
    BY <1>3, <1>5, <2>1, <2>3
  <2> QED BY <2>1, <2>2, <2>3
<1>7. ASSUME NEW f \in FlowsSent, Listed1(f) PROVE Hits(file', f)
  <2>1. PICK k \in 1..n : L[k] = f
    BY <1>3, <1>7
  <2> QED BY <1>1, <1>6, <2>1 DEF Hits
<1>8. ASSUME NEW f \in FlowsSent, Hits(file', f), ~ Cut(f) PROVE Listed1(f)
  <2>1. PICK k \in DOMAIN (L \o C) : /\ (L \o C)[k][1] = f[1]
                                     /\ (L \o C)[k][2] \in {f[2], AnySrc}
    BY <1>1, <1>8 DEF Hits
  <2>2. k \in 1..n /\ (L \o C)[k] = L[k]
    BY <1>5, <1>6, <1>8, <2>1 DEF Cut
  <2>3. \E a \in Addrs : L[k] = <<L[k][1], a>>
    BY <1>3, <2>2, KeysKnown
  <2>4. L[k] = f
    BY <2>1, <2>2, <2>3, FlowsAre, ChainNumbers
  <2> QED BY <1>3, <2>2, <2>4
<1> QED BY <1>2, <1>7, <1>8 DEF Listed1

LEMMA PublishedEcho ==
    ASSUME ChainTypes, Timely, TableInv, Published, calm > EchoTime
    PROVE  Says(file, "echo")'
<1>0. calm \in Nat /\ calm > Settling
  BY SettlingNumbers DEF ChainTypes
<1>1. ASSUME NEW f \in FlowsSent, Loses(f) PROVE Hits(file', f)
  <2>1. PICK x \in Sent : FlowX(x) = f
    BY FlowsAre
  <2>2. \A y \in Sent : FlowX(y) = f => Unwanted(y[1], y[2])
    BY <1>1, FlowsAre DEF Loses
  <2>3. PICK i \in 1..Len(drop) : KeyOf(drop[i]) = Key(x) /\ drop[i].age <= 1
    BY <1>0, <2>1, <2>2 DEF TableInv, LosersHeld, Within
  <2>4. Current(drop[i])
    BY <2>3, EntryAges, SettlingNumbers DEF Current, Timely
  <2>5. FlowOf(drop[i]) = f
    BY <2>1, <2>3, EntryAges DEF Key
  <2>6. \E k \in 1..Len(drop') : FlowOf(drop'[k]) = f
    BY <2>4, <2>5, PublishedLines
  <2>7. ASSUME NEW k \in 1..Len(drop'), FlowOf(drop'[k]) = f PROVE drop'[k].loser
    <3>1. PICK j \in 1..Len(drop) : drop'[k] = drop[j] /\ Current(drop[j])
      BY PublishedLines
    <3>2. \E y \in Sent : KeyOf(drop[j]) = Key(y)
      <4>1. CASE NothingIgnored
        <5>0. PICK a \in Addrs : \E d \in Emits[a] : KeyOf(drop[j]) = Key(<<a, d>>)
          BY <4>1 DEF TableInv, KeysOfData
        <5>1. PICK d \in Emits[a] : KeyOf(drop[j]) = Key(<<a, d>>)
          BY <5>0
        <5>2. <<d[1], a>> = f
          BY <2>7, <3>1, <5>1, KeyKnown, EntryAges
        <5>3. a \in up
          BY <5>2, FlowsAre
        <5> QED BY <5>1, <5>3, SentAre DEF ChainTypes
      <4>2. CASE ~ NothingIgnored
        <5>1. drop[j].age <= DropTimeout /\ drop[j].age \in Nat
          BY <3>1, EntryAges DEF Current
        <5>2. ~ (drop[j].age >= calm)
          BY <1>0, <4>2, <5>1, SettlingNumbers
        <5> QED BY <5>2 DEF TableInv, OthersOld
      <4> QED BY <4>1, <4>2
    <3>3. PICK y \in Sent : KeyOf(drop[j]) = Key(y)
      BY <3>2
    <3>4. FlowX(y) = f
      BY <2>7, <3>1, <3>3, EntryAges DEF Key
    <3>5. drop[j].loser
      BY <1>0, <2>2, <3>3, <3>4 DEF TableInv, EntriesRight
    <3> QED BY <3>1, <3>5
  <2> QED BY <2>6, <2>7, PublishedLines
<1>2. UNCHANGED <<cfg, ident, up>>
  BY DEF Published, arbiter
<1> QED BY <1>1, <1>2, WantsSame DEF Says, Hits

LEMMA PublishedGap ==
    ASSUME ChainTypes, Timely, TableInv, Published, calm > GapTime
    PROVE  Says(file, "gap")'
<1>0. calm \in Nat /\ calm > Settling
  BY SettlingNumbers DEF ChainTypes
<1>1. ASSUME NEW f \in FlowsSent, ~ Loses(f), ~ Cut(f), Hits(file', f) PROVE FALSE
  <2>1. /\ \E k \in 1..Len(drop') : FlowOf(drop'[k]) = f
        /\ \A k \in 1..Len(drop') : FlowOf(drop'[k]) = f => drop'[k].loser
    BY <1>1, PublishedLines
  <2>2. PICK d \in DataOf(f) : ~ Unwanted(f[2], d)
    BY <1>1 DEF Loses
  <2>3. PICK x : x = <<f[2], d>>
    OBVIOUS
  <2>4. x \in Sent /\ FlowX(x) = f /\ ~ Unwanted(x[1], x[2])
    <3>1. f[2] \in up /\ d \in Emits[f[2]] /\ up \subseteq Addrs
      BY FlowsAre DEF DataOf, ChainTypes
    <3>2. x \in Sent /\ x[1] = f[2] /\ x[2] = d
      BY <2>3, <3>1, SentAre
    <3> QED BY <2>2, <3>2, FlowsAre
  <2>5. HasFlow(drop, f)
    BY <2>1, PublishedLines DEF HasFlow
  <2>6. PICK i \in 1..Len(drop) : KeyOf(drop[i]) = Key(x) /\ drop[i].age <= 1
    BY <2>4, <2>5 DEF TableInv, WinnersHeld, Within
  <2>7. Current(drop[i])
    BY <2>6, EntryAges, SettlingNumbers DEF Current, Timely
  <2>8. FlowOf(drop[i]) = f
    BY <2>4, <2>6, EntryAges DEF Key
  <2>9. drop[i].loser
    BY <2>1, <2>7, <2>8, PublishedLines
  <2>10. ~ drop[i].loser
    BY <1>0, <2>4, <2>6 DEF TableInv, EntriesRight
  <2> QED BY <2>9, <2>10
<1>2. UNCHANGED <<cfg, ident, up>>
  BY DEF Published, arbiter
<1> QED BY <1>1, <1>2, WantsSame DEF Says, Hits

-----------------------------------------------------------------------------
(* The three together: the sources, the list, the filter.                  *)
ChainInv == ChainTypes /\ AgeInv /\ TableInv /\ LookInv

LEMMA InitChain == CInit => ChainInv
BY InitTypes, InitAge, InitTable, InitFollow DEF ChainInv

LEMMA NextChain ==
    ASSUME Timely, RoomFor(ChainKeys)
    PROVE  ChainInv /\ [CNext]_cvars => ChainInv'
BY ChainStep, AgeStep, TableStep, LookStep DEF ChainInv

(* No echo: for any configuration, any sources and whatever happens to     *)
(* either process, a frame all of whose data are rejected is no longer     *)
(* sent on, from an interval after the verdicts have settled, if the list  *)
(* has room for the verdicts and n2k-filter reads the whole file.          *)
THEOREM EchoStops ==
    ASSUME Timely, RoomFor(ChainKeys), EchoTime + Interval < Settle
    PROVE  CSpec /\ []Fits => []NoEcho
<1> DEFINE Inv == ChainInv /\ FollowInv("echo", EchoTime)
<1>1. CInit => Inv
  BY InitChain, InitFollow, SettlingNumbers
<1>2. Inv /\ Fits /\ [CNext]_cvars => Inv'
  <2> SUFFICES ASSUME ChainInv, FollowInv("echo", EchoTime), Fits, [CNext]_cvars
               PROVE  ChainInv' /\ FollowInv("echo", EchoTime)'
    OBVIOUS
  <2>1. ChainInv'
    BY NextChain
  <2>2. FollowInv("echo", EchoTime)'
    BY FollowStep, PublishedEcho, SettlingNumbers DEF ChainInv
  <2> QED BY <2>1, <2>2
<1>3. Inv => NoEcho
  BY ChainNumbers, SettlingNumbers DEF NoEcho, Settled, FollowInv, Obeyed
<1> HIDE DEF Inv
<1> QED BY <1>1, <1>2, <1>3, PTL DEF CSpec

(* No gap: nor, from then on, is a frame missing that carries a datum the  *)
(* configuration retains, if the list has room for the verdicts.           *)
THEOREM GapCloses ==
    ASSUME Timely, RoomFor(ChainKeys), GapTime + Interval < Settle
    PROVE  CSpec => []NoGap
<1> DEFINE Inv == ChainInv /\ FollowInv("gap", GapTime)
<1>1. CInit => Inv
  BY InitChain, InitFollow, SettlingNumbers
<1>2. Inv /\ [CNext]_cvars => Inv'
  <2> SUFFICES ASSUME ChainInv, FollowInv("gap", GapTime), [CNext]_cvars
               PROVE  ChainInv' /\ FollowInv("gap", GapTime)'
    OBVIOUS
  <2>1. ChainInv'
    BY NextChain
  <2>2. FollowInv("gap", GapTime)'
    BY FollowStep, PublishedGap, SettlingNumbers DEF ChainInv
  <2> QED BY <2>1, <2>2
<1>3. Inv => NoGap
  BY ChainNumbers, SettlingNumbers DEF NoGap, Settled, FollowInv, Obeyed
<1> HIDE DEF Inv
<1> QED BY <1>1, <1>2, <1>3, PTL DEF CSpec

=============================================================================

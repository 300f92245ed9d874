------------------------------ MODULE Arbiter ------------------------------
(***************************************************************************)
(* The arbitration core of n2k-mux (src/arbiter.c): for each decoded       *)
(* message, exclusions, rule, identity, name, slot of the source in the    *)
(* rule, and the verdict of the rule's mode, with the liveness of every    *)
(* (rule, slot) for the failover.                                          *)
(*                                                                         *)
(* age[r][s] is now - last_seen[r][s], capped at Expired, which also       *)
(* stands for seen[r][s] = false: beyond the timeout the code cannot tell  *)
(* them apart.  ident is what the registry resolves an address to; here it *)
(* changes freely, as do the configuration in force and the set of sources *)
(* that are switched on, up to MaxChurn times.                             *)
(***************************************************************************)
EXTENDS Config

CONSTANTS
    Configs,      \* configurations the daemon may be given
    DiscPgns,     \* PGNs that carry a discriminant
    ControlPgns,  \* PGNs >= 262144
    Emits,        \* what each address may send: sets of <<pgn, field>>
    Timeout,      \* timeout_ms, in ticks
    MaxChurn      \* bound on reloads, identity changes, switches on and off

ASSUME ArbiterAssumption ==
    /\ Configs \subseteq Configuration
    /\ DiscPgns \subseteq Pgns
    /\ ControlPgns \subseteq Pgns
    /\ Emits \in [Addrs -> SUBSET (Pgns \X Seq(Words))]
    /\ Timeout \in Nat
    /\ MaxChurn \in Nat

VARIABLES
    cfg,      \* the configuration in force
    ident,    \* registry_ident of each address
    up,       \* the addresses that send
    age,      \* arbiter_t.last_seen and seen
    last,     \* the last decision taken
    holder,   \* history: the slot each rule retained last, 0 after a reload
    churn

vars == <<cfg, ident, up, age, last, holder, churn>>

RuleIds == 1..MaxRules
SlotIds == 1..MaxPrio
Expired == Timeout + 1

Results == {"ACCEPT", "REJECT_PRIORITY", "REJECT_NO_RULE",
            "REJECT_UNCONFIGURED", "REJECT_NOT_IN_RULE",
            "REJECT_UNKNOWN_SRC", "IGNORED"}

NoAges == [r \in RuleIds |-> [s \in SlotIds |-> Expired]]

-----------------------------------------------------------------------------
(* The decision on message m.                                              *)

Ignored(m) ==
    \/ m.pgn = None
    \/ m.src = None
    \/ m.pgn \in ControlPgns
    \/ m.src \in cfg.ignoreSrc
    \/ m.pgn \in cfg.ignorePgn

DiscriminantOf(m) == IF m.pgn \in DiscPgns THEN m.field ELSE <<>>

RuleFor(m) == ConfigRule(cfg.rules, m.pgn, DiscriminantOf(m))

NameFor(m) == IF ident[m.src] = None THEN None ELSE cfg.nameOf[ident[m.src]]

SlotFor(m) == SlotOfName(cfg.rules[RuleFor(m)], NameFor(m))

ModeFor(m) == ModeEffective(m.pgn, cfg.rules[RuleFor(m)].pick)

M_LiveBelowTimeout(r, s) == age[r][s] < Timeout
Live(r, s) == age[r][s] <= Timeout

M_SupplantedFromBelow(r, s) == \E t \in SlotIds : t > s /\ Live(r, t)

(* Slot s, just heard, is not the first live slot of rule r.               *)
Supplanted(r, s) == \E t \in SlotIds : t < s /\ Live(r, t)

(* The early returns of arbiter_decide, in order, then the verdict.        *)
Result(m) ==
    IF Ignored(m)                    THEN "IGNORED"
    ELSE IF RuleFor(m) = NoSlot      THEN "REJECT_NO_RULE"
    ELSE IF ident[m.src] = None      THEN "REJECT_UNKNOWN_SRC"
    ELSE IF NameFor(m) = None        THEN "REJECT_UNCONFIGURED"
    ELSE IF SlotFor(m) = NoSlot      THEN "REJECT_NOT_IN_RULE"
    ELSE IF /\ ModeFor(m) = "priority"
            /\ Supplanted(RuleFor(m), SlotFor(m))
         THEN "REJECT_PRIORITY"
         ELSE "ACCEPT"

Competing == {"ACCEPT", "REJECT_PRIORITY"}

Message == [pgn : Pgns \cup {None}, src : Addrs \cup {None},
            field : Seq(Words)]

NoMessage == [pgn |-> None, src |-> None, field |-> <<>>]

Datum(a, d) == [pgn |-> d[1], src |-> a, field |-> d[2]]

-----------------------------------------------------------------------------
Init ==
    /\ cfg \in Configs
    /\ ident = [a \in Addrs |-> None]
    /\ up = Addrs
    /\ age = NoAges
    /\ last = [msg |-> NoMessage, result |-> "IGNORED"]
    /\ holder = [r \in RuleIds |-> 0]
    /\ churn = 0

(* arbiter_decide: a message that competes for a rule shows that its slot  *)
(* is alive, whatever the verdict; an early return leaves no trace.        *)
Decide(m) ==
    \E result \in {Result(m)} :
       /\ last' = [msg |-> m, result |-> result]
       /\ IF result \in Competing
          THEN \E r \in {RuleFor(m)}, s \in {SlotFor(m)} :
                 /\ age' = [age EXCEPT ![r][s] = 0]
                 /\ holder' = IF result = "ACCEPT" /\ ModeFor(m) = "priority"
                              THEN [holder EXCEPT ![r] = s] ELSE holder
          ELSE UNCHANGED <<age, holder>>
       /\ UNCHANGED <<cfg, ident, up, churn>>

Hear(a, d) == a \in up /\ Decide(Datum(a, d))

Tick ==
    /\ age' = [r \in RuleIds |-> [s \in SlotIds |->
                 IF age[r][s] < Expired THEN age[r][s] + 1 ELSE Expired]]
    /\ UNCHANGED <<cfg, ident, up, last, holder, churn>>

M_InitKeepsAges == UNCHANGED age /\ holder' = [r \in RuleIds |-> 0]

(* arbiter_init forgets who was alive.                                     *)
ArbiterInit == age' = NoAges /\ holder' = [r \in RuleIds |-> 0]

Churn == churn < MaxChurn /\ churn' = churn + 1

(* SIGHUP: a configuration that parses replaces the old one and the        *)
(* arbiter is initialised anew; one that does not parse changes nothing.   *)
Reload ==
    /\ Churn
    /\ \/ cfg' \in Configs /\ ArbiterInit
       \/ UNCHANGED <<cfg, age, holder>>
    /\ UNCHANGED <<ident, up, last>>

(* The registry resolves an address for the first time, or to another      *)
(* device than before, or to nothing.                                      *)
Learn(a) ==
    /\ IF ident[a] = None THEN UNCHANGED churn ELSE Churn
    /\ \E i \in Idents \cup {None} : ident' = [ident EXCEPT ![a] = i]
    /\ UNCHANGED <<cfg, up, age, last, holder>>

Switch(a) ==
    /\ Churn
    /\ up' = IF a \in up THEN up \ {a} ELSE up \cup {a}
    /\ UNCHANGED <<cfg, ident, age, last, holder>>

Next ==
    \/ \E a \in Addrs : \E d \in Emits[a] : Hear(a, d)
    \/ Decide(NoMessage)
    \/ Tick
    \/ Reload
    \/ \E a \in Addrs : Learn(a) \/ Switch(a)

Spec == Init /\ [][Next]_vars

-----------------------------------------------------------------------------
(* Only slots the configuration in force lists are ever alive, and only    *)
(* they are retained.                                                      *)
TypeOK ==
    /\ cfg \in Configs
    /\ ident \in [Addrs -> Idents \cup {None}]
    /\ up \subseteq Addrs
    /\ age \in [RuleIds -> [SlotIds -> 0..Expired]]
    /\ last.msg \in Message /\ last.result \in Results
    /\ holder \in [RuleIds -> 0..MaxPrio]
    /\ churn \in 0..MaxChurn
    /\ \A r \in RuleIds, s \in SlotIds :
         Live(r, s) => r <= Len(cfg.rules) /\ s <= Len(cfg.rules[r].sources)

(* As long as nobody took over from it, every source with a higher         *)
(* priority than the one retained last is silent: the moment one of them   *)
(* is heard again, it is the one retained (automatic failover AND return). *)
HolderOnTop ==
    \A r \in RuleIds, s \in SlotIds :
        holder[r] # 0 /\ s < holder[r] => ~ Live(r, s)

(* The arbitration hands a rule over as Handover allows: downwards only    *)
(* after the retained source was silent for more than the timeout.         *)
Silence == [r \in RuleIds |-> IF holder[r] = 0 THEN Expired
                              ELSE age[r][holder[r]]]

Promise == INSTANCE Handover WITH silence <- Silence

HandsOver == Promise!HSpec

=============================================================================

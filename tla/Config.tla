------------------------------- MODULE Config -------------------------------
(***************************************************************************)
(* What the rest of the daemon asks of a loaded configuration              *)
(* (src/config.c): which rule applies to a message, how its sources are    *)
(* picked, under which name a device is known, what is ignored.            *)
(*                                                                         *)
(* A discriminant ("Sea", "Sea Temperature") is the sequence of its words, *)
(* case folded; <<>> is the empty string: no discriminant.                 *)
(***************************************************************************)
EXTENDS Scan, Sequences

CONSTANTS
    Pgns,
    DepthPgn,     \* 128267, the only PGN the min mode means anything for
    LogPgn,       \* 128275, the only one for max
    AisPgns,      \* AIS PGNs, the only ones for fusion
    Words,        \* words of discriminants
    Names,        \* logical names of sources
    Idents,       \* stable identities
    Addrs,        \* source addresses
    MaxRules,     \* CFG_MAX_RULES
    MaxPrio,      \* CFG_MAX_PRIO
    None

ASSUME ConfigAssumption ==
    /\ MaxRules \in Nat
    /\ MaxPrio \in Nat
    /\ None \notin Pgns \cup Names \cup Idents \cup Addrs

Picks == {"priority", "min", "max", "fusion"}

Rule == [pgn : Pgns, disc : Seq(Words), pick : Picks, sources : Seq(Names)]

Configuration ==
    [rules     : {rs \in Seq(Rule) :
                    /\ Len(rs) <= MaxRules
                    /\ \A i \in 1..Len(rs) : Len(rs[i].sources) <= MaxPrio},
     nameOf    : [Idents -> Names \cup {None}],
     ignoreSrc : SUBSET Addrs,
     ignorePgn : SUBSET Pgns,
     noN2k     : Seq(Pgns),
     no0183    : SUBSET Pgns]

-----------------------------------------------------------------------------
StartsWith(disc, prefix) ==
    Len(prefix) <= Len(disc) /\ SubSeq(disc, 1, Len(prefix)) = prefix

(* config_rule: among the rules of the PGN, the first of those with the    *)
(* longest discriminant that the observed one starts with.  A rule without *)
(* discriminant is the shortest of all: it applies when no other does.     *)
ConfigRule(rules, pgn, disc) ==
    LET applies == {i \in 1..Len(rules) : /\ rules[i].pgn = pgn
                                          /\ StartsWith(disc, rules[i].disc)}
    IN FirstOr0({i \in applies : \A j \in applies :
                   Len(rules[i].disc) >= Len(rules[j].disc)})

(* config_mode_effective: a mode that means nothing for the PGN is read as *)
(* priority.                                                               *)
ModeEffective(pgn, pick) ==
    IF \/ pick = "min" /\ pgn = DepthPgn
       \/ pick = "max" /\ pgn = LogPgn
       \/ pick = "fusion" /\ pgn \in AisPgns
    THEN pick ELSE "priority"

(* Position of a source in the list of a rule.                             *)
SlotOfName(rule, name) ==
    FirstOr0({i \in 1..Len(rule.sources) : rule.sources[i] = name})

=============================================================================

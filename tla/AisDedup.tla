------------------------------ MODULE AisDedup ------------------------------
(***************************************************************************)
(* n2k-mux --ais-json (src/aisdedup.c and run_ais_json of src/daemon.c):   *)
(* several AIS receivers hear the same ships; of the messages on a ship    *)
(* only those of one receiver are passed on to n2kd, the one of the best   *)
(* rank among those that heard the ship lately.                            *)
(*                                                                         *)
(* obs is aisdedup_t.obs without the unused slots, which are taken in      *)
(* order and never given back; age is now - t, capped at Expired.  A tick  *)
(* is a part of the ten minutes of the timeout, in which every receiver    *)
(* that is within reach of a ship hears it at least once on every PGN.     *)
(* Messages without MMSI or source are passed on and leave no trace: they  *)
(* are left out, as are those of the other PGNs, which are not.            *)
(***************************************************************************)
EXTENDS Config

CONSTANTS
    Configs,      \* configurations the process may be given
    MaxShips,     \* the ships, as 1..MaxShips
    Reach,        \* the <<address, ship>> pairs that may be within reach
    MaxObs,       \* AIS_MAX_OBS
    Unranked,     \* the 1000 that precedes the addresses of unranked sources
    Timeout,      \* timeout_ms, in ticks
    MaxQuiet,     \* the longest a ship in reach of some receiver is missing
    MaxChurn      \* bound on changes of reach, identity and configuration

ASSUME AisDedupAssumption ==
    /\ Configs \subseteq Configuration
    /\ Addrs \subseteq Nat /\ \E top \in Addrs : \A a \in Addrs : a <= top
    /\ MaxShips \in Nat
    /\ Reach \subseteq Addrs \X (1..MaxShips)
    /\ MaxObs \in Nat \ {0}
    /\ Unranked \in Nat /\ Unranked > MaxPrio
    /\ Timeout \in Nat
    /\ MaxQuiet \in Nat
    /\ MaxChurn \in Nat

VARIABLES
    cfg,      \* the configuration in force
    ident,    \* registry_ident of each address
    obs,
    reach,    \* the pairs within reach
    told,     \* the <<address, ship, pgn>> heard since the last tick
    voice,    \* history: the source passed on last for each ship, and its rank
    quiet,    \* history: ticks since a ship in reach was passed on, by PGN
    churn

avars == <<cfg, ident, obs, reach, told, voice, quiet, churn>>

Ships == 1..MaxShips

Expired == Timeout + 1

NoVoice == [src |-> None, rank |-> 0]

-----------------------------------------------------------------------------
(* The look-ups of aisdedup_accept.                                        *)

ObsOf(m, a) == FirstOr0({i \in DOMAIN obs : obs[i].mmsi = m /\ obs[i].src = a})

OldestObs == FirstOr0({i \in DOMAIN obs :
                         \A j \in DOMAIN obs : obs[j].age <= obs[i].age})

NameOf(a) == IF ident[a] = None THEN None ELSE cfg.nameOf[ident[a]]

(* rank_of: the place in the rule of the PGN if that is a fusion, else     *)
(* behind, by address.                                                     *)
FusionRule(pgn) ==
    LET r == ConfigRule(cfg.rules, pgn, <<>>) IN
    IF r # NoSlot /\ cfg.rules[r].pick = "fusion" THEN r ELSE NoSlot

PlaceOf(pgn, a) ==
    IF FusionRule(pgn) = NoSlot \/ NameOf(a) = None THEN NoSlot
    ELSE SlotOfName(cfg.rules[FusionRule(pgn)], NameOf(a))

RankOf(pgn, a) ==
    IF PlaceOf(pgn, a) # NoSlot THEN PlaceOf(pgn, a) ELSE Unranked + a

(* The table once (m, a) has been heard: its entry, a free one, or the     *)
(* oldest of all.                                                          *)
SlotFor(m, a) ==
    IF ObsOf(m, a) # NoSlot THEN ObsOf(m, a)
    ELSE IF Len(obs) < MaxObs THEN Len(obs) + 1
    ELSE OldestObs

Heard(m, a) ==
    LET s == SlotFor(m, a) IN
    [i \in 1..(IF s > Len(obs) THEN s ELSE Len(obs)) |->
        IF i = s THEN [mmsi |-> m, src |-> a, age |-> 0] ELSE obs[i]]

M_LiveBelow(o) == o.age < Timeout
M_LiveForever(o) == TRUE

Live(o) == o.age <= Timeout

(* Source a is the best of the live sources of ship m, the lower address   *)
(* winning a draw.                                                         *)
Retained(table, pgn, m, a) ==
    \A i \in DOMAIN table :
        table[i].mmsi = m /\ Live(table[i]) =>
            LET b == table[i].src IN
            \/ RankOf(pgn, a) < RankOf(pgn, b)
            \/ RankOf(pgn, a) = RankOf(pgn, b) /\ a <= b

(* An entry that still counts gives way to another one.                    *)
Crowded(m, a) ==
    ObsOf(m, a) = NoSlot /\ Len(obs) = MaxObs /\ Live(obs[OldestObs])

-----------------------------------------------------------------------------
AInit ==
    /\ cfg \in Configs
    /\ ident = [a \in Addrs |-> None]
    /\ obs = <<>>
    /\ reach \in SUBSET Reach
    /\ told = {}
    /\ voice = [m \in Ships |-> NoVoice]
    /\ quiet = [m \in Ships |-> [p \in AisPgns |-> 0]]
    /\ churn = 0

Silent == [m \in Ships |-> NoVoice]

(* The PGN is cut from the 0183 output: the line is dropped before the     *)
(* deduplication sees it.                                                  *)
Drop(a, m, pgn) ==
    /\ <<a, m>> \in reach
    /\ pgn \in cfg.no0183
    /\ told' = told \cup {<<a, m, pgn>>}
    /\ UNCHANGED <<cfg, ident, obs, reach, voice, quiet, churn>>

(* aisdedup_accept on a message of the receiver at a on ship m.            *)
Accept(a, m, pgn) ==
    /\ <<a, m>> \in reach
    /\ pgn \notin cfg.no0183
    /\ told' = told \cup {<<a, m, pgn>>}
    /\ obs' = Heard(m, a)
    /\ IF Retained(Heard(m, a), pgn, m, a)
       THEN /\ voice' = IF Crowded(m, a) THEN Silent
                        ELSE [voice EXCEPT ![m] =
                                [src |-> a, rank |-> RankOf(pgn, a)]]
            /\ quiet' = [quiet EXCEPT ![m][pgn] = 0]
       ELSE /\ voice' = IF Crowded(m, a) THEN Silent ELSE voice
            /\ UNCHANGED quiet
    /\ UNCHANGED <<cfg, ident, reach, churn>>

(* Time passes once every receiver was heard on every ship in its reach.   *)
InReach(m) == \E a \in Addrs : <<a, m>> \in reach

ATick ==
    /\ \A r \in reach, p \in AisPgns : <<r[1], r[2], p>> \in told
    /\ told' = {}
    /\ obs' = [i \in DOMAIN obs |->
                 [obs[i] EXCEPT !.age = IF @ < Expired THEN @ + 1 ELSE Expired]]
    /\ quiet' = [m \in Ships |-> [p \in AisPgns |->
                   IF ~ InReach(m) \/ p \in cfg.no0183 THEN 0
                   ELSE IF quiet[m][p] <= MaxQuiet THEN quiet[m][p] + 1
                   ELSE quiet[m][p]]]
    /\ UNCHANGED <<cfg, ident, reach, voice, churn>>

Churn == churn < MaxChurn /\ churn' = churn + 1

(* SIGHUP: a configuration that parses empties the table, one that does    *)
(* not changes nothing.                                                    *)
AReload ==
    /\ Churn
    /\ \/ cfg' \in Configs /\ obs' = <<>> /\ voice' = Silent
       \/ UNCHANGED <<cfg, obs, voice>>
    /\ UNCHANGED <<ident, reach, told, quiet>>

(* The registry resolves an address to another device, or to none.         *)
ALearn(a) ==
    /\ Churn
    /\ \E i \in Idents \cup {None} : ident' = [ident EXCEPT ![a] = i]
    /\ voice' = Silent
    /\ UNCHANGED <<cfg, obs, reach, told, quiet>>

(* A ship comes into, or leaves, the reach of the receiver at an address,  *)
(* or the receiver itself takes another address.                           *)
Moves ==
    /\ Churn
    /\ \/ \E r \in Reach : reach' = IF r \in reach THEN reach \ {r}
                                    ELSE reach \cup {r}
       \/ \E a, b \in Addrs :
             /\ \A r \in reach : r[1] # b
             /\ reach' = {r \in reach : r[1] # a}
                           \cup {r \in Reach : r[1] = b /\ <<a, r[2]>> \in reach}
    /\ UNCHANGED <<cfg, ident, obs, told, voice, quiet>>

ANext ==
    \/ \E r \in Reach, p \in AisPgns : Drop(r[1], r[2], p) \/ Accept(r[1], r[2], p)
    \/ ATick
    \/ AReload
    \/ \E a \in Addrs : ALearn(a)
    \/ Moves

ASpec == AInit /\ [][ANext]_avars

-----------------------------------------------------------------------------
(* One voice per ship: as long as the receivers keep their ranks and no    *)
(* live entry gives way to another ship's, the ships are handed over as    *)
(* Handover allows: to a worse receiver only after the one passed on so    *)
(* far did not hear the ship for more than the timeout.                    *)
Silence ==
    [m \in Ships |->
        IF voice[m] = NoVoice \/ ObsOf(m, voice[m].src) = NoSlot THEN Expired
        ELSE obs[ObsOf(m, voice[m].src)].age]

Promise == INSTANCE Handover WITH
    MaxRules <- MaxShips, MaxPrio <- Unranked + Max(Addrs),
    holder <- [m \in Ships |-> voice[m].rank], silence <- Silence

OneVoice == Promise!HSpec

(* aisdedup.h: if the better receiver falls silent, the other one takes    *)
(* over.  Whatever happens - receivers that come, go, are taken for one    *)
(* another or change address, a table too small -, a ship that is in reach *)
(* of some receiver is missing for at most MaxQuiet.                       *)
NoShipLost == \A m \in Ships, p \in AisPgns : quiet[m][p] <= MaxQuiet

=============================================================================

---------------------------- MODULE BusIdentity ----------------------------
(***************************************************************************)
(* The address table of n2k-mux listening to real equipment.  Units claim  *)
(* addresses, lose them to one another (ISO 11783 address claim), send     *)
(* their product information and their data; every message goes through    *)
(* registry_observe, except the ones the daemon misses because it was not  *)
(* started yet or its socket overran.  The question is the one the         *)
(* arbitration depends on: is the identity that an address resolves to the *)
(* identity of the unit that speaks from it?                               *)
(*                                                                         *)
(* The units are the outside world.  As ISO 11783 has it, a unit uses an   *)
(* address only after it sent a claim for it, and the loser of a contested *)
(* address is silent from the claim that defeats it on.                    *)
(***************************************************************************)
EXTENDS Registry

CONSTANTS
    Units,        \* pieces of equipment
    UniqueOf,     \* the Unique Number of each
    SerialOf,     \* its Model Serial Code, None if it has none
    DataPgn,      \* the data it sends
    MaxMoves,     \* bound: how many times an address is taken
    MaxMissed     \* bound: how many messages the daemon misses

ASSUME UnitsAssumption ==
    /\ UniqueOf \in [Units -> Uniques]
    /\ SerialOf \in [Units -> Serials \cup {None}]
    /\ \A d, e \in Units : UniqueOf[d] = UniqueOf[e] => d = e
    /\ \A d, e \in Units : SerialOf[d] = SerialOf[e] /\ SerialOf[d] # None
                              => d = e
    /\ DataPgn \in Pgns \ {ClaimPgn, ProductPgn}
    /\ MaxMoves \in Nat /\ MaxMissed \in Nat

VARIABLES
    at,        \* the address each unit uses, None when it has none
    speaker,   \* the unit that sent the last message heard, with its address
    moves,
    missed

bvars == <<n, dev, at, speaker, moves, missed>>

Nobody == [unit |-> None, src |-> None]

BInit ==
    /\ Init
    /\ at = [d \in Units |-> None]
    /\ speaker = Nobody
    /\ moves = 0
    /\ missed = 0

(* The message of unit d at address a reaches registry_observe, or not.    *)
Deliver(d, m) ==
    \/ /\ Observe(m)
       /\ speaker' = [unit |-> d, src |-> m.src]
       /\ UNCHANGED missed
    \/ /\ missed < MaxMissed
       /\ missed' = missed + 1
       /\ speaker' = Nobody
       /\ UNCHANGED vars

ClaimOf(d, a) == [pgn |-> ClaimPgn, src |-> a,
                  unique |-> UniqueOf[d], serial |-> None]

ProductOf(d) == [pgn |-> ProductPgn, src |-> at[d],
                 unique |-> None, serial |-> SerialOf[d]]

DataOf(d) == [pgn |-> DataPgn, src |-> at[d],
              unique |-> None, serial |-> None]

(* Unit d takes address a; a unit that was there loses it.                 *)
TakeAddress(d, a) ==
    /\ moves < MaxMoves
    /\ at[d] # a
    /\ moves' = moves + 1
    /\ at' = [e \in Units |-> IF e = d THEN a
                              ELSE IF at[e] = a THEN None ELSE at[e]]
    /\ Deliver(d, ClaimOf(d, a))

(* Unit d answers the daemon's ISO request for PGN 60928 ...               *)
RepeatClaim(d) ==
    /\ at[d] # None
    /\ Deliver(d, ClaimOf(d, at[d]))
    /\ UNCHANGED <<at, moves>>

(* ... or for PGN 126996, which it also sends unasked.                     *)
SendProduct(d) ==
    /\ at[d] # None
    /\ Deliver(d, ProductOf(d))
    /\ UNCHANGED <<at, moves>>

SendData(d) ==
    /\ at[d] # None
    /\ Deliver(d, DataOf(d))
    /\ UNCHANGED <<at, moves>>

BNext ==
    \E d \in Units :
       \/ \E a \in Addrs : TakeAddress(d, a)
       \/ RepeatClaim(d)
       \/ SendProduct(d)
       \/ SendData(d)

(* The daemon asks every unit for its claim and its product information at *)
(* start and every tx_interval seconds, so units keep sending both.        *)
BFairness ==
    \A d \in Units : WF_bvars(RepeatClaim(d)) /\ WF_bvars(SendProduct(d))

BSpec == BInit /\ [][BNext]_bvars /\ BFairness

-----------------------------------------------------------------------------
Own(d) == {UniqueOf[d], SerialOf[d]}

(* As long as the daemon hears everything, what the last message is        *)
(* credited to is the unit that sent it: the daemon never takes one unit   *)
(* for another (registry_observe of src/registry.c).                       *)
HeardIsTruthful ==
    (missed = 0 /\ speaker # Nobody) =>
        IdentAt(speaker.src) \in Own(speaker.unit) \cup {None}

(* However often units change address, the table holds at most one record  *)
(* per unit as long as everything is heard: moving about does not use up   *)
(* its slots.                                                              *)
OneRecordPerUnit ==
    missed = 0 => n <= Cardinality({d \in Units : \E i \in 1..n :
                                       dev[i].unique = UniqueOf[d]})

(* Once no unit moves and no message is missed any more, the daemon's      *)
(* requests lead to the address of every unit that has a serial number     *)
(* resolving to that number, whatever the table believed before.           *)
Heals ==
    <>[](\A d \in Units : at[d] # None /\ SerialOf[d] # None
                            => IdentAt(at[d]) = SerialOf[d])

=============================================================================

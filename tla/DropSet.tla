------------------------------ MODULE DropSet ------------------------------
(***************************************************************************)
(* The list of losers that n2k-mux publishes for n2k-filter                *)
(* (src/daemon.c, dropset_t): a table of the last verdict of each          *)
(* (pgn, src, discriminant), written to a file every Interval.             *)
(*                                                                         *)
(* drop is the array dropset_t.e, without the unused slots; an entry's age *)
(* is now - last.  Time is in ticks.  file holds the lines of the last     *)
(* publication, each a pair <<pgn, src>>, src = AnySrc (-1) for a PGN that *)
(* [output] no_n2k cuts.  A tick is much longer than the 200 ms within     *)
(* which the main loop comes back to its periodic tasks, so no tick passes *)
(* while a publication is due.                                             *)
(***************************************************************************)
EXTENDS Scan, Sequences

CONSTANTS
    AnySrc,         \* the source -1 of a cut PGN
    DropMax,        \* DROP_MAX
    DropTimeout,    \* DROP_TIMEOUT_MS, in ticks
    Interval        \* sources_interval, in ticks

ASSUME DropSetAssumption ==
    /\ DropMax \in Nat \ {0}
    /\ DropTimeout \in Nat
    /\ Interval \in Nat \ {0}

VARIABLES
    drop,
    file,
    since    \* now - last_sources

dvars == <<drop, file, since>>

M_LosingSupplanted == {"REJECT_PRIORITY"}

LosingResults == {"REJECT_PRIORITY", "REJECT_NOT_IN_RULE"}

FlowOf(e) == <<e.pgn, e.src>>

EntryFor(pgn, src, disc) ==
    FirstOr0({i \in DOMAIN drop : /\ FlowOf(drop[i]) = <<pgn, src>>
                                  /\ drop[i].disc = disc})

Oldest == FirstOr0({i \in DOMAIN drop :
                      \A j \in DOMAIN drop : drop[i].age >= drop[j].age})

(* A new verdict is kept if it loses, or if the flow has one already.      *)
M_MemorableLosers(pgn, src, loser) == loser

Memorable(pgn, src, loser) ==
    loser \/ \E i \in DOMAIN drop : FlowOf(drop[i]) = <<pgn, src>>

M_CurrentForever(e) == TRUE
M_CurrentBelow(e) == e.age < DropTimeout

Current(e) == e.age <= DropTimeout

(* The entries that the purge leaves, moved up in their order.             *)
Purged(es) == Selected(es, {i \in DOMAIN es : Current(es[i])})

(* The flows all of whose remembered verdicts lose, each once.             *)
Listed(es, i) ==
    /\ \A j \in 1..(i - 1) : FlowOf(es[j]) # FlowOf(es[i])
    /\ \A j \in DOMAIN es : FlowOf(es[j]) = FlowOf(es[i]) => es[j].loser

LoserLines(es) ==
    LET listed == Selected(es, {i \in DOMAIN es : Listed(es, i)})
    IN [k \in DOMAIN listed |-> FlowOf(listed[k])]

CutLines(noN2k) == [i \in DOMAIN noN2k |-> <<noN2k[i], AnySrc>>]

-----------------------------------------------------------------------------
DInit == drop = <<>> /\ file = <<>> /\ since = Interval

(* dropset_update, for the verdict of arbiter_decide on a message.         *)
Observe(pgn, src, disc, result) ==
    LET i == EntryFor(pgn, src, disc)
        e == [pgn |-> pgn, src |-> src, disc |-> disc,
              loser |-> result \in LosingResults, age |-> 0]
    IN
    /\ \/ i # NoSlot /\ drop' = [drop EXCEPT ![i] = e]
       \/ i = NoSlot /\ ~ Memorable(pgn, src, e.loser) /\ UNCHANGED drop
       \/ /\ i = NoSlot /\ Memorable(pgn, src, e.loser)
          /\ drop' = IF Len(drop) < DropMax THEN Append(drop, e)
                     ELSE [drop EXCEPT ![Oldest] = e]
    /\ UNCHANGED <<file, since>>

(* dropset_write: the purge takes place whether or not the file can be     *)
(* written; when it can, a rename replaces the previous one at once.       *)
Write(noN2k, written) ==
    /\ drop' = Purged(drop)
    /\ file' = IF written THEN LoserLines(drop') \o CutLines(noN2k) ELSE file

Publish(noN2k, written) ==
    /\ since >= Interval
    /\ Write(noN2k, written)
    /\ since' = 0

(* The daemon ends, writing the list a last time unless it is killed, and  *)
(* is started anew: it knows no loser, and publishes at once.  The file is *)
(* removed in between with the runtime directory of the service, or found  *)
(* again if there is no service.                                           *)
FinalLines(noN2k) == LoserLines(Purged(drop)) \o CutLines(noN2k)

Restart(noN2k) ==
    /\ file' \in {<<>>, file, FinalLines(noN2k)}
    /\ drop' = <<>>
    /\ since' = Interval

DTick ==
    /\ since < Interval
    /\ since' = since + 1
    /\ drop' = [i \in DOMAIN drop |-> [drop[i] EXCEPT !.age = @ + 1]]
    /\ UNCHANGED file

=============================================================================

------------------------------- MODULE Losers -------------------------------
(***************************************************************************)
(* The list of losers under any sequence of verdicts: what a publication   *)
(* says of the verdicts that were given (judged, a history of the last one *)
(* of each (pgn, src, discriminant)), however they were remembered.        *)
(***************************************************************************)
EXTENDS DropSet

CONSTANTS
    Flows,     \* the <<pgn, src>> that are arbitrated
    Discs,     \* their discriminants, "" included
    NoN2k      \* [output] no_n2k

ASSUME LosersAssumption ==
    /\ \A f \in Flows : f = <<f[1], f[2]>> /\ f[2] # AnySrc
    /\ NoN2k \in Seq({NoN2k[i] : i \in DOMAIN NoN2k})

VARIABLES
    judged,    \* the last verdict on each <<flow, discriminant>> and its age
    passed,    \* the ones whose last verdict passes and was given since the
               \* last publication was due
    listed     \* the flows that this publication lists, none if it failed

lvars == <<drop, file, since, judged, passed, listed>>

Verdicts == {"ACCEPT", "REJECT_PRIORITY", "REJECT_NOT_IN_RULE", "REJECT_NO_RULE"}

Forgotten == DropTimeout + 1

Never == [loser |-> FALSE, age |-> Forgotten]

LInit ==
    /\ DInit
    /\ judged = [k \in Flows \X Discs |-> Never]
    /\ passed = {}
    /\ listed = {}

Verdict(f, d, result) ==
    /\ Observe(f[1], f[2], d, result)
    /\ judged' = [judged EXCEPT ![<<f, d>>] =
                  [loser |-> result \in LosingResults, age |-> 0]]
    /\ passed' = IF result \in LosingResults
                 THEN passed \ {<<f, d>>} ELSE passed \cup {<<f, d>>}
    /\ UNCHANGED listed

ListWritten ==
    /\ Publish(NoN2k, TRUE)
    /\ listed' = {f \in Flows : \E i \in DOMAIN file' : file'[i] = f}

LPublish ==
    /\ ListWritten \/ (Publish(NoN2k, FALSE) /\ listed' = {})
    /\ passed' = {}
    /\ UNCHANGED judged

LTick ==
    /\ DTick
    /\ judged' = [k \in Flows \X Discs |->
                  [judged[k] EXCEPT !.age = IF @ < Forgotten THEN @ + 1 ELSE @]]
    /\ UNCHANGED <<passed, listed>>

LNext ==
    \/ \E f \in Flows, d \in Discs, r \in Verdicts : Verdict(f, d, r)
    \/ LPublish
    \/ LTick

LSpec == LInit /\ [][LNext]_lvars

-----------------------------------------------------------------------------
Recent(f, d) == judged[<<f, d>>].age <= DropTimeout

Lost(f, d) == Recent(f, d) /\ judged[<<f, d>>].loser

(* Fail-open: n2k-filter is told to drop a flow only on the strength of a  *)
(* losing verdict younger than DropTimeout.                                *)
ListedHasLost ==
    [][ListWritten => \A f \in listed' : \E d \in Discs : Lost(f, d)]_lvars

(* A flow that loses for every discriminant heard lately is published.     *)
LoserIsListed ==
    [][ListWritten => \A f \in Flows :
         /\ \E d \in Discs : Recent(f, d)
         /\ \A d \in Discs : Recent(f, d) => Lost(f, d)
         => f \in listed']_lvars

(* A flow that was published, and then let through for a discriminant that *)
(* it has not lost for since, is not published an interval later: a winner *)
(* dropped by mistake is dropped for one interval at most, when the file   *)
(* can be written.                                                         *)
WinnerIsReleased ==
    [][ListWritten => \A f \in listed \cap listed', d \in Discs :
         <<f, d>> \notin passed]_lvars

(* daemon.c:211: "Un (pgn, src) n'est donc publie perdant que si TOUS ses  *)
(* discriminants recents le sont."                                         *)
OnlyIfAllLose ==
    [][ListWritten => \A f \in listed', d \in Discs :
         Recent(f, d) => Lost(f, d)]_lvars

=============================================================================

------------------------------ MODULE Handover ------------------------------
(***************************************************************************)
(* What the arbitration promises, without saying how: for each rule at     *)
(* most one source is retained at a time.  A source takes over from the    *)
(* one retained so far at once if it has a higher priority (a lower slot), *)
(* and otherwise only after the other has been silent for more than        *)
(* Timeout.  A restart of the arbitration forgets who was retained.        *)
(***************************************************************************)
EXTENDS Naturals

CONSTANTS MaxRules, MaxPrio, Timeout

VARIABLES
    holder,    \* the slot retained last by each rule, 0 when none is
    silence    \* how long that source has been silent, capped

hvars == <<holder, silence>>

Rules == 1..MaxRules

Long == Timeout + 1

HInit ==
    /\ holder = [r \in Rules |-> 0]
    /\ silence = [r \in Rules |-> Long]

MayRetain(r, s) == holder[r] = 0 \/ s <= holder[r] \/ silence[r] > Timeout

Retain(r, s) ==
    /\ MayRetain(r, s)
    /\ holder' = [holder EXCEPT ![r] = s]
    /\ silence' = [silence EXCEPT ![r] = 0]

Wait ==
    /\ silence' = [r \in Rules |-> IF silence[r] < Long
                                   THEN silence[r] + 1 ELSE Long]
    /\ UNCHANGED holder

Restart ==
    /\ holder' = [r \in Rules |-> 0]
    /\ silence' = [r \in Rules |-> Long]

HNext == (\E r \in Rules, s \in 1..MaxPrio : Retain(r, s)) \/ Wait \/ Restart

HSpec == HInit /\ [][HNext]_hvars

=============================================================================

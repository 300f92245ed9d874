------------------------------ MODULE Throttle ------------------------------
(***************************************************************************)
(* Which of the sentences of a message reach the standard output           *)
(* (src/daemon.c): those of a type that the PGN may yield ([sentence]),    *)
(* and of a limited type ([rate]) only when the interval since the last    *)
(* one is over.  The sentences of one message pass or fall together, type  *)
(* by type: the pages of a GSV are not torn apart.  Of the configuration,  *)
(* out holds what that takes, and the PGNs that are not converted at all   *)
(* (no_0183).                                                              *)
(*                                                                         *)
(* thr tells for each type how long ago it was let through, capped at      *)
(* LongAgo; a type that was not yet, or has no limit, is that old.  (The   *)
(* mapper yields fewer types than throttle_t has entries.)                 *)
(***************************************************************************)
EXTENDS Scan, Sequences

CONSTANTS
    Types,         \* the types that some configuration limits
    LongAgo        \* no interval is longer

ASSUME ThrottleAssumption == Types \subseteq STRING /\ LongAgo \in Nat

ThrottleInit == [t \in Types |-> LongAgo]

Rate(out, type) == IF type \in Types THEN out.rate[type] ELSE 0

(* config_sentence_ok: a PGN without a list may yield anything.            *)
SentenceOk(out, pgn, type) ==
    <<pgn, type>> \in out.sentence \/ \A p \in out.sentence : p[1] # pgn

Later(thr) == [t \in Types |-> IF thr[t] < LongAgo THEN thr[t] + 1 ELSE LongAgo]

-----------------------------------------------------------------------------
GateOpen(out, thr, type) ==
    Rate(out, type) = 0 \/ thr[type] >= Rate(out, type)

Passes(out, thr, pgn, s) ==
    SentenceOk(out, pgn, s.type) /\ GateOpen(out, thr, s.type)

(* The first sentence of a type lets the others of the burst through.      *)
M_Written(out, thr, pgn, burst) ==
    LET kept == Selected(burst, {i \in DOMAIN burst : Passes(out, thr, pgn, burst[i])})
    IN IF kept # <<>> /\ Rate(out, Head(kept).type) > 0 THEN <<Head(kept)>> ELSE kept

Written(out, thr, pgn, burst) ==
    Selected(burst, {i \in DOMAIN burst : Passes(out, thr, pgn, burst[i])})

M_Gated(out, thr, written) == thr

Gated(out, thr, written) ==
    [t \in Types |-> IF /\ out.rate[t] > 0
                        /\ \E i \in DOMAIN written : written[i].type = t
                     THEN 0 ELSE thr[t]]

=============================================================================

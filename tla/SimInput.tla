------------------------------ MODULE SimInput ------------------------------
(***************************************************************************)
(* An input of the simulator (autoin_t and input_value of                  *)
(* src/simulator.c): it has the value that was set, or, in auto, varies    *)
(* about the value that was set last.                                      *)
(***************************************************************************)
EXTENDS Integers, FiniteSets

CONSTANTS
    Wave,          \* the sine, step by step, times its amplitude
    Default,       \* the centre when none was ever set
    NoValue        \* NAN

ASSUME SimInputAssumption ==
    /\ IsFiniteSet(DOMAIN Wave) /\ DOMAIN Wave = 0..(Cardinality(DOMAIN Wave) - 1)
    /\ Wave[0] = 0
    /\ Default \in Int /\ NoValue \notin Int

(* t counts the steps since the switch to auto.                            *)
InputInit == [last |-> NoValue, center |-> 0, t |-> 0, auto |-> FALSE]

(* What the input remembers once it was asked for its value.               *)
M_InputAfter(a, manual, fileCenter) ==
    IF manual # NoValue THEN [a EXCEPT !.last = manual]
    ELSE IF a.auto THEN a
    ELSE [a EXCEPT !.auto = TRUE, !.t = 0,
                   !.center = IF a.last # NoValue THEN a.last
                              ELSE IF fileCenter # NoValue THEN fileCenter ELSE Default]

InputAfter(a, manual, fileCenter) ==
    IF manual # NoValue THEN [a EXCEPT !.last = manual, !.auto = FALSE]
    ELSE IF a.auto THEN a
    ELSE [a EXCEPT !.auto = TRUE, !.t = 0,
                   !.center = IF a.last # NoValue THEN a.last
                              ELSE IF fileCenter # NoValue THEN fileCenter ELSE Default]

(* The value it then has.                                                  *)
InputValue(a) == IF a.auto THEN a.center + Wave[a.t] ELSE a.last

(* (t - t0) / period goes on as time passes.                               *)
InputAged(a) == IF a.auto THEN [a EXCEPT !.t = (@ + 1) % Cardinality(DOMAIN Wave)] ELSE a

=============================================================================

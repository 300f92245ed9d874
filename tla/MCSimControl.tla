---------------------------- MODULE MCSimControl ----------------------------
(* The page with one simulator, in five uses of it.                        *)
EXTENDS SimControl, TLC

MCPeriod == "fast" :> 4 @@ "slow" :> 6

MCWave == 0 :> 0 @@ 1 :> 2 @@ 2 :> 0 @@ 3 :> -2

(* Angles with a repeated row, winds, an empty cell and a row of text.     *)
MCPolarFile ==
    "boat" :> <<<<Blank, 6, 10, 20, Blank>>,
                <<0, 0, 0, 0>>, <<4, 3, Blank, 6>>, <<4, 4, 5, 7>>, <<Blank, 1>>, <<8, 5, 6, 9>>>>
    @@ "waves" :> <<<<Blank, 10, 6>>, <<0, 1, 2>>>>

MCSeaWinds ==
    {[twa |-> a, tws |-> w] : a \in {0, 4, 14}, w \in {10, 15}}
        \cup {[twa |-> 8, tws |-> 24]}

Set(n) == [enabled |-> TRUE, auto |-> FALSE, num |-> n, sp |-> FALSE, polar |-> NoPolar]

Bounds(moves, fails, ends) == [moves |-> moves, fails |-> fails, ends |-> ends]

(* The settings, with a file that fails to be written and a simulator that *)
(* ends; the polars, and the automatic mode behind them; the simulator     *)
(* that is silenced; the switch to the simulated chain and back; a switch  *)
(* with a request that is refused or fails.                                *)
MCScenarios ==
    <<[run |-> "sim", start |-> FALSE, stop |-> FALSE, msgs |-> {},
       set |-> CtlInit, gestures |-> {"drag", "auto", "reload"}, bounds |-> Bounds(3, 1, 1)],
      [run |-> "sim", start |-> FALSE, stop |-> FALSE, msgs |-> {},
       set |-> [Set(4) EXCEPT !.polar = "boat", !.sp = TRUE],
       gestures |-> {"polar", "auto", "drag"}, bounds |-> Bounds(3, 0, 0)],
      [run |-> "sim", start |-> FALSE, stop |-> FALSE, msgs |-> DOMAIN Period,
       set |-> Set(4), gestures |-> {"box"}, bounds |-> Bounds(2, 0, 0)],
      [run |-> "real", start |-> TRUE, stop |-> TRUE, msgs |-> {},
       set |-> Set(4), gestures |-> {"box", "drag", "reload"}, bounds |-> Bounds(4, 0, 0)],
      [run |-> "sim", start |-> TRUE, stop |-> TRUE, msgs |-> {},
       set |-> Set(4), gestures |-> {"box", "polar", "reload"}, bounds |-> Bounds(3, 1, 0)]>>

=============================================================================

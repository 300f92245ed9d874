------------------------------- MODULE MCBridge -----------------------------
(* A PGN of each format, at the boundary between them, and of each data    *)
(* page; messages of one frame, of full ones and of one byte more.         *)
EXTENDS Bridge

Sent(prio, pgn, src, dst, len) ==
    [prio |-> prio, pgn |-> pgn, src |-> src, dst |-> dst, len |-> len]

MCMessages ==
    {Sent(6, 59904, 254, 255, 3), Sent(7, 61184, 1, 35, 8),
     Sent(3, 126992, 7, 255, 13), Sent(2, 129029, 0, 255, 14)}

=============================================================================

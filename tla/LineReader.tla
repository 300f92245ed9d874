----------------------------- MODULE LineReader -----------------------------
(***************************************************************************)
(* How the main loop of n2k-mux cuts its standard input into lines         *)
(* (linereader_t of src/daemon.c), without stdio, so that poll sees all    *)
(* that is waiting: a buffer that read() fills as far as there is room,    *)
(* and lines taken from its front.                                         *)
(***************************************************************************)
EXTENDS Scan, Sequences

CONSTANTS
    LrBuf,         \* LR_BUF: symbols the buffer holds
    LineMax        \* sizeof line - 1: symbols of a line that are handed on

ASSUME LineReaderAssumption == LrBuf \in Nat \ {0} /\ LineMax \in Nat \ {0}

Newline == "\n"

ReaderInit == [buf |-> <<>>, eof |-> FALSE]

-----------------------------------------------------------------------------
(* lr_fill.  pipe is what the upstream has written and nobody has read     *)
(* yet; read() returns 0 once it is empty and its writer has gone.         *)

Room(lr) == LrBuf - Len(lr.buf)

ReadCount(lr, pipe) == IF Len(pipe) < Room(lr) THEN Len(pipe) ELSE Room(lr)

M_FilledOver(lr, pipe, open) ==
    IF pipe = <<>> /\ ~ open THEN [lr EXCEPT !.eof = TRUE]
    ELSE [lr EXCEPT !.buf = SubSeq(pipe, 1, ReadCount(lr, pipe))]

Filled(lr, pipe, open) ==
    IF Room(lr) > 0 /\ pipe = <<>> /\ ~ open THEN [lr EXCEPT !.eof = TRUE]
    ELSE [lr EXCEPT !.buf = @ \o SubSeq(pipe, 1, ReadCount(lr, pipe))]

LeftIn(lr, pipe) == SubSeq(pipe, ReadCount(lr, pipe) + 1, Len(pipe))

-----------------------------------------------------------------------------
(* lr_line: how much of the buffer the next line takes, 0 if none is ready *)
(* yet.  A line that fills the buffer is cut there, and what is left when  *)
(* the stream ends is a line of its own.                                   *)
Take(lr) ==
    LET nl == FirstOr0({i \in DOMAIN lr.buf : lr.buf[i] = Newline})
    IN IF nl # NoSlot THEN nl
       ELSE IF Len(lr.buf) >= LrBuf \/ lr.eof THEN Len(lr.buf) ELSE 0

LineReady(lr) == Take(lr) > 0

(* What is handed on: the rest of a line longer than LineMax is lost.      *)
LineOf(lr) == SubSeq(lr.buf, 1, IF Take(lr) < LineMax THEN Take(lr) ELSE LineMax)

WithoutLine(lr) == [lr EXCEPT !.buf = SubSeq(@, Take(lr) + 1, Len(@))]

=============================================================================

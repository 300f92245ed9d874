-------------------------------- MODULE NetOut ------------------------------
(***************************************************************************)
(* src/netout.c: the lines of n2k-filter and of ydraw-bridge go to every   *)
(* TCP client.  The sockets do not block: a client that has no room for    *)
(* the first byte of a line is skipped; once a byte is sent the rest must  *)
(* follow, with a bounded number of short waits, or the client is closed.  *)
(*                                                                         *)
(* A line is Units units 1..Units, the last one its end.  wire[c] is what  *)
(* was sent to c and not read yet, in the buffers of the two kernels, and  *)
(* half[c] the line that the reader of c is in.                            *)
(***************************************************************************)
EXTENDS Naturals, Sequences, FiniteSets, SequencesExt

CONSTANTS
    Conns,         \* connections
    MaxClients,    \* NETOUT_MAX_CLIENTS
    Units,         \* units of a line
    Room,          \* units that fit in the buffers of a connection
    MaxWaits       \* NETOUT_PARTIAL_WAITS

ASSUME NetOutAssumption ==
    /\ MaxClients \in Nat \ {0}
    /\ Units \in Nat \ {0}
    /\ Room \in Nat \ {0}
    /\ MaxWaits \in Nat

VARIABLES
    clients,       \* clients: a sequence of connections
    backlog,       \* connections not accepted yet
    gone,          \* connections that the other side has ended
    wire,
    half,
    turn,          \* the client of netout_broadcast, 0 outside it
    off,           \* what send_all has sent to it
    waits,         \* and how often it has waited
    passed,        \* the clients that this broadcast has dealt with
    torn           \* somebody has read a line that was not sent

nvars == <<clients, backlog, gone, wire, half, turn, off, waits, passed, torn>>

Line == [i \in 1..Units |-> i]

Served == ToSet(clients)

NInit ==
    /\ clients = <<>>
    /\ backlog = {}
    /\ gone = {}
    /\ wire = [c \in Conns |-> <<>>]
    /\ half = [c \in Conns |-> <<>>]
    /\ turn = 0 /\ off = 0 /\ waits = 0
    /\ passed = {}
    /\ torn = FALSE

-----------------------------------------------------------------------------
(* netout_accept: all that wait, in the order of the backlog; those that   *)
(* do not fit are closed.                                                  *)
Accept ==
    \E order \in SetToSeqs(backlog) :
       LET taken == SubSeq(order, 1, IF Len(clients) + Len(order) <= MaxClients
                                     THEN Len(order) ELSE MaxClients - Len(clients))
       IN clients' = clients \o taken

(* netout_broadcast begins with the first client, if any.                  *)
BeginBroadcast ==
    /\ turn' = IF clients' = <<>> THEN 0 ELSE 1
    /\ off' = 0 /\ waits' = 0
    /\ passed' = {}

NoBroadcast == UNCHANGED <<turn, off, waits, passed>>

Idle == turn = 0

(* accept and what the caller does next, in the same turn of its loop.     *)
AcceptAll ==
    /\ Idle
    /\ Accept
    /\ backlog' = {}
    /\ gone' = gone \ (backlog \ ToSet(clients'))
    /\ UNCHANGED <<wire, half, torn>>

AcceptNone ==
    /\ Idle
    /\ UNCHANGED <<clients, backlog, gone, wire, half, torn>>

-----------------------------------------------------------------------------
Turn == clients[turn]

(* The next client, with the table that the step leaves.                   *)
NextTurn(i) ==
    /\ turn' = IF i <= Len(clients') THEN i ELSE 0
    /\ off' = 0 /\ waits' = 0
    /\ passed' = passed \cup {Turn}

Left == Room - Len(wire[Turn])

(* A send that takes what there is room for, or less.  What the other side *)
(* has ended may still take something, until its reset arrives.            *)
SendSome ==
    /\ ~Idle
    /\ \E n \in 1..(Units - off) :
          /\ n <= Left
          /\ wire' = [wire EXCEPT ![Turn] = @ \o SubSeq(Line, off + 1, off + n)]
          /\ UNCHANGED clients
          /\ IF off + n = Units THEN NextTurn(turn + 1)
             ELSE off' = off + n /\ UNCHANGED <<turn, waits, passed>>
    /\ UNCHANGED <<backlog, gone, half, torn>>

(* EAGAIN before the first unit: the client misses the line.               *)
M_Skipped == TRUE

Skipped == off = 0

Skip ==
    /\ ~Idle /\ Left = 0 /\ Skipped
    /\ UNCHANGED <<clients, backlog, gone, wire, half, torn>>
    /\ NextTurn(turn + 1)

(* EAGAIN in the middle of the line: a wait, a bounded number of times.    *)
M_Patient == TRUE

Patient == waits < MaxWaits

Wait ==
    /\ ~Idle /\ Left = 0 /\ ~Skipped /\ Patient
    /\ waits' = IF waits < MaxWaits THEN waits + 1 ELSE waits
    /\ UNCHANGED <<clients, backlog, gone, wire, half, turn, off, passed, torn>>

(* The last client takes the place of the one that is closed, and its turn *)
(* comes next.                                                             *)
Without(i) == SubSeq([clients EXCEPT ![i] = Last(clients)], 1, Len(clients) - 1)

M_NextOfClosed == turn + 1

NextOfClosed == turn

(* close(2): what is in the buffers still reaches the reader, then the end *)
(* of the stream; the connection is over for both sides.                   *)
Close ==
    /\ ~Idle
    /\ Turn \in gone \/ (Left = 0 /\ ~Skipped /\ ~Patient)
    /\ clients' = Without(turn)
    /\ NextTurn(NextOfClosed)
    /\ gone' = gone \ {Turn}
    /\ wire' = [wire EXCEPT ![Turn] = <<>>]
    /\ half' = [half EXCEPT ![Turn] = <<>>]
    /\ UNCHANGED <<backlog, torn>>

Send == SendSome \/ Skip \/ Wait \/ Close

-----------------------------------------------------------------------------
(* The other side.                                                         *)

Connect(c) ==
    /\ c \notin Served \cup backlog
    /\ backlog' = backlog \cup {c}
    /\ UNCHANGED <<clients, gone, wire, half, turn, off, waits, passed, torn>>

Hangup(c) ==
    /\ c \in (Served \cup backlog) \ gone
    /\ gone' = gone \cup {c}
    /\ UNCHANGED <<clients, backlog, wire, half, turn, off, waits, passed, torn>>

(* The reader takes a unit; a line is complete at its end.                 *)
ReadUnit(c) ==
    /\ wire[c] # <<>> /\ c \notin gone
    /\ wire' = [wire EXCEPT ![c] = Tail(@)]
    /\ LET line == Append(half[c], Head(wire[c]))
           ends == Head(wire[c]) = Units
       IN /\ half' = [half EXCEPT ![c] = IF ends THEN <<>> ELSE line]
          /\ torn' = (torn \/ (ends /\ line # Line))
    /\ UNCHANGED <<clients, backlog, gone, turn, off, waits, passed>>

=============================================================================

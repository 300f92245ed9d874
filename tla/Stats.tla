-------------------------------- MODULE Stats -------------------------------
(***************************************************************************)
(* The traffic statistics of n2k-mux (src/stats.c): what was counted since *)
(* the window began, totals that outlive the window, and the age of the    *)
(* last message.  Rates and loads are quotients of these that the page     *)
(* shows; what the window counted and how long it lasted stands for them.  *)
(* Ages, the length of the window included, are counted from the present.  *)
(***************************************************************************)
EXTENDS Scan, Sequences, SequencesExt

CONSTANTS
    MaxPgns,       \* STATS_MAX_PGNS
    MaxTypes,      \* STATS_MAX_TYPES
    FastBytes,     \* FASTPACKET: the PGNs that take several frames -> their bytes
    MaxAge         \* no age is told apart from a greater one

ASSUME StatsAssumption ==
    /\ MaxPgns \in Nat /\ MaxTypes \in Nat /\ MaxAge \in Nat
    /\ \A p \in DOMAIN FastBytes : p \in Nat /\ FastBytes[p] \in Nat

(* stats_frames_for: 6 bytes in the first frame, 7 in each of the others.  *)
FramesOf(bytes) == IF bytes <= 8 THEN 1 ELSE 1 + ((bytes - 6 + 6) \div 7)

FramesFor(pgn) == IF pgn \in DOMAIN FastBytes THEN FramesOf(FastBytes[pgn]) ELSE 1

StatsInit ==
    [window |-> 0, have |-> FALSE, ago |-> 0, msgs |-> 0, frames |-> 0,
     measured |-> 0, sent |-> 0, pgns |-> <<>>, types |-> <<>>]

(* The row of key counts one more, in the window and for ever; a new one   *)
(* is added while there is room.                                           *)
RowOf(table, key) == FirstOr0({i \in DOMAIN table : table[i].key = key})

Bumped(table, key, max) ==
    LET i == RowOf(table, key)
    IN IF i # NoSlot THEN [table EXCEPT ![i].count = @ + 1, ![i].total = @ + 1]
       ELSE IF Len(table) < max THEN Append(table, [key |-> key, count |-> 1, total |-> 1])
       ELSE table

-----------------------------------------------------------------------------
(* A message; a frame read on the socketcan socket; the sentences that are *)
(* written for a message: they count once per type, the further pages as   *)
(* bytes only.                                                             *)

Counted(st, pgn) ==
    [st EXCEPT !.msgs = @ + 1, !.have = TRUE, !.ago = 0,
               !.frames = @ + FramesFor(pgn),
               !.pgns = Bumped(@, pgn, MaxPgns)]

FramesSeen(st, n) == [st EXCEPT !.measured = @ + n]

SentAll(st, types) ==
    LET Tally(table, i) ==
            IF \E j \in 1..(i - 1) : types[j] = types[i] THEN table
            ELSE Bumped(table, types[i], MaxTypes)
    IN [st EXCEPT !.sent = @ + Len(types), !.types = FoldLeftDomain(Tally, @, types)]

(* stats_reset: a new window; the totals and the last message stay.        *)
NewWindow(st) ==
    LET Zeroed(table) == [i \in DOMAIN table |-> [table[i] EXCEPT !.count = 0]]
    IN [st EXCEPT !.window = 0, !.msgs = 0, !.frames = 0, !.measured = 0,
                  !.sent = 0, !.pgns = Zeroed(@), !.types = Zeroed(@)]

(* stats_write: the window begins anew only when the file was replaced.    *)
M_Reported(st, ok) == NewWindow(st)

Reported(st, ok) == IF ok THEN NewWindow(st) ELSE st

Aged(st) ==
    [st EXCEPT !.window = @ + 1,
               !.ago = IF st.have /\ st.ago < MaxAge THEN @ + 1 ELSE @]

=============================================================================

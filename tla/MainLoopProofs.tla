--------------------------- MODULE MainLoopProofs ---------------------------
(***************************************************************************)
(* What n2k-mux reports is true, for any input, cut up in any way, any     *)
(* decisions of the arbitration and any reports that fail: the counts, the *)
(* banner of a dead stream, the lines and the map of the bus.  And what    *)
(* the page promises of a configuration that it had n2k-mux load.          *)
(***************************************************************************)
EXTENDS MainLoop, ConfigSave, ScanProofs

(* The records keep their fields.                                          *)
StRec(w, h, g, m, f, x, o, p, t) ==
    [window |-> w, have |-> h, ago |-> g, msgs |-> m, frames |-> f,
     measured |-> x, sent |-> o, pgns |-> p, types |-> t]

StShape(s) == \E w, h, g, m, f, x, o, p, t : s = StRec(w, h, g, m, f, x, o, p, t)

CountRec(m, f, x, o, p) ==
    [msgs |-> m, frames |-> f, measured |-> x, sent |-> o, pgns |-> p]

CountShape(a) == \E m, f, x, o, p : a = CountRec(m, f, x, o, p)

LEMMA StShapeFields ==
    ASSUME NEW s, StShape(s)
    PROVE  s = StRec(s.window, s.have, s.ago, s.msgs, s.frames, s.measured, s.sent, s.pgns, s.types)
<1>1. PICK w, h, g, m, f, x, o, p, t : s = StRec(w, h, g, m, f, x, o, p, t)
  BY DEF StShape
<1> QED BY <1>1 DEF StRec

LEMMA CountShapeFields ==
    ASSUME NEW a, CountShape(a)
    PROVE  a = CountRec(a.msgs, a.frames, a.measured, a.sent, a.pgns)
<1>1. PICK m, f, x, o, p : a = CountRec(m, f, x, o, p)
  BY DEF CountShape
<1> QED BY <1>1 DEF CountRec

LEMMA FramesSeenShape ==
    ASSUME NEW s, NEW n, StShape(s)
    PROVE  FramesSeen(s, n) =
              StRec(s.window, s.have, s.ago, s.msgs, s.frames, s.measured + n, s.sent,
                    s.pgns, s.types)
<1>1. PICK w, h, g, m, f, x, o, p, t : s = StRec(w, h, g, m, f, x, o, p, t)
  BY DEF StShape
<1> QED BY <1>1 DEF StRec, FramesSeen

LEMMA CountedShape ==
    ASSUME NEW s, NEW pgn, StShape(s)
    PROVE  Counted(s, pgn) =
              StRec(s.window, TRUE, 0, s.msgs + 1, s.frames + FramesFor(pgn), s.measured,
                    s.sent, Bumped(s.pgns, pgn, MaxPgns), s.types)
<1>1. PICK w, h, g, m, f, x, o, p, t : s = StRec(w, h, g, m, f, x, o, p, t)
  BY DEF StShape
<1>2. /\ s.window = w /\ s.have = h /\ s.ago = g /\ s.msgs = m /\ s.frames = f
      /\ s.measured = x /\ s.sent = o /\ s.pgns = p /\ s.types = t
  BY <1>1 DEF StRec
<1> DEFINE rows == Bumped(s.pgns, pgn, MaxPgns)
<1>3. Counted(s, pgn) = [s EXCEPT !.msgs = @ + 1, !.have = TRUE, !.ago = 0,
                                  !.frames = @ + FramesFor(pgn), !.pgns = rows]
  BY DEF Counted
<1> HIDE DEF rows
<1>4. Counted(s, pgn) = StRec(w, TRUE, 0, m + 1, f + FramesFor(pgn), x, o, rows, t)
  BY <1>1, <1>2, <1>3 DEF StRec
<1> QED BY <1>2, <1>4 DEF rows

LEMMA SentAllShape ==
    ASSUME NEW s, NEW types, StShape(s)
    PROVE  \E tally : SentAll(s, types) =
              StRec(s.window, s.have, s.ago, s.msgs, s.frames, s.measured,
                    s.sent + Len(types), s.pgns, tally)
<1>1. PICK w, h, g, m, f, x, o, p, t : s = StRec(w, h, g, m, f, x, o, p, t)
  BY DEF StShape
<1>2. /\ s.window = w /\ s.have = h /\ s.ago = g /\ s.msgs = m /\ s.frames = f
      /\ s.measured = x /\ s.sent = o /\ s.pgns = p /\ s.types = t
  BY <1>1 DEF StRec
<1>3. \E tally : SentAll(s, types) = [s EXCEPT !.sent = @ + Len(types), !.types = tally]
  BY DEF SentAll
<1>4. PICK tally : SentAll(s, types) = [s EXCEPT !.sent = @ + Len(types), !.types = tally]
  BY <1>3
<1>5. SentAll(s, types) = StRec(w, h, g, m, f, x, o + Len(types), p, tally)
  BY <1>1, <1>2, <1>4 DEF StRec
<1> QED BY <1>2, <1>5

ZeroedRows(table) == [i \in DOMAIN table |-> [table[i] EXCEPT !.count = 0]]

LEMMA NewWindowShape ==
    ASSUME NEW s, StShape(s)
    PROVE  NewWindow(s) =
              StRec(0, s.have, s.ago, 0, 0, 0, 0, ZeroedRows(s.pgns), ZeroedRows(s.types))
<1>1. PICK w, h, g, m, f, x, o, p, t : s = StRec(w, h, g, m, f, x, o, p, t)
  BY DEF StShape
<1>2. /\ s.window = w /\ s.have = h /\ s.ago = g /\ s.msgs = m /\ s.frames = f
      /\ s.measured = x /\ s.sent = o /\ s.pgns = p /\ s.types = t
  BY <1>1 DEF StRec
<1> DEFINE zp == ZeroedRows(s.pgns)
           zt == ZeroedRows(s.types)
<1>3. NewWindow(s) = [s EXCEPT !.window = 0, !.msgs = 0, !.frames = 0, !.measured = 0,
                               !.sent = 0, !.pgns = zp, !.types = zt]
  BY DEF NewWindow, ZeroedRows
<1> HIDE DEF zp, zt
<1>4. NewWindow(s) = StRec(0, h, g, 0, 0, 0, 0, zp, zt)
  BY <1>1, <1>3 DEF StRec
<1> QED BY <1>2, <1>4 DEF zp, zt

LEMMA AgedShape ==
    ASSUME NEW s, StShape(s)
    PROVE  Aged(s) =
              StRec(s.window + 1, s.have, IF s.have /\ s.ago < MaxAge THEN s.ago + 1 ELSE s.ago,
                    s.msgs, s.frames, s.measured, s.sent, s.pgns, s.types)
<1>1. PICK w, h, g, m, f, x, o, p, t : s = StRec(w, h, g, m, f, x, o, p, t)
  BY DEF StShape
<1>2. /\ s.window = w /\ s.have = h /\ s.ago = g /\ s.msgs = m /\ s.frames = f
      /\ s.measured = x /\ s.sent = o /\ s.pgns = p /\ s.types = t
  BY <1>1 DEF StRec
<1> DEFINE older == IF s.have /\ s.ago < MaxAge THEN s.ago + 1 ELSE s.ago
<1>3. Aged(s) = [s EXCEPT !.window = @ + 1, !.ago = older]
  BY DEF Aged
<1> HIDE DEF older
<1>4. Aged(s) = StRec(w + 1, h, older, m, f, x, o, p, t)
  BY <1>1, <1>2, <1>3 DEF StRec
<1> QED BY <1>2, <1>4 DEF older

-----------------------------------------------------------------------------
(* The counts.  A table has one row for each of its keys, and new keys as  *)
(* long as there is room.                                                  *)
RowSet(K) == [key : K, count : Nat, total : Nat]

Rows(table) ==
    /\ \E K : table \in Seq(RowSet(K))
    /\ \A i, j \in DOMAIN table : table[i].key = table[j].key => i = j

Counts(a) == \A p \in DOMAIN a : a[p] \in Nat

(* The table, what was told before of each key, and all that was counted.  *)
RowsAdd(table, t, a) ==
    /\ Rows(table) /\ Counts(t) /\ Counts(a)
    /\ \A i \in DOMAIN table :
          /\ CountOf(t, table[i].key) + table[i].count = CountOf(a, table[i].key)
          /\ table[i].total = CountOf(a, table[i].key)
    /\ \A p \in DOMAIN t : \E i \in DOMAIN table : table[i].key = p
    /\ Len(table) < MaxPgns => \A p \in DOMAIN a : \E i \in DOMAIN table : table[i].key = p

(* What the statistics s and the reports before them, t over the time tt,  *)
(* have together is all that was counted, a, until c.                      *)
Adds(s, t, tt, a, c) ==
    /\ StShape(s) /\ CountShape(t) /\ CountShape(a)
    /\ s.window \in Nat /\ s.msgs \in Nat /\ s.frames \in Nat
    /\ s.measured \in Nat /\ s.sent \in Nat
    /\ t.msgs \in Nat /\ t.frames \in Nat /\ t.measured \in Nat /\ t.sent \in Nat
    /\ tt \in Nat
    /\ a.msgs = t.msgs + s.msgs /\ a.frames = t.frames + s.frames
    /\ a.measured = t.measured + s.measured /\ a.sent = t.sent + s.sent
    /\ c = tt + s.window
    /\ RowsAdd(s.pgns, t.pgns, a.pgns)

CountInv == Adds(st, told, toldTime, all, clock) /\ canq \in Nat

RowWith(row, u, v) == [row EXCEPT !.count = u, !.total = v]

LEMMA AddsParts ==
    ASSUME NEW s, NEW t, NEW tt, NEW a, NEW c, Adds(s, t, tt, a, c)
    PROVE  /\ s.window \in Nat /\ tt \in Nat /\ c = tt + s.window
           /\ s.msgs \in Nat /\ t.msgs \in Nat /\ a.msgs = t.msgs + s.msgs
           /\ s.frames \in Nat /\ t.frames \in Nat /\ a.frames = t.frames + s.frames
           /\ s.measured \in Nat /\ t.measured \in Nat /\ a.measured = t.measured + s.measured
           /\ s.sent \in Nat /\ t.sent \in Nat /\ a.sent = t.sent + s.sent
           /\ RowsAdd(s.pgns, t.pgns, a.pgns)
           /\ StShape(s) /\ CountShape(t) /\ CountShape(a)
<1> QED BY Zenon DEF Adds

LEMMA RowBumped ==
    ASSUME NEW K, NEW row \in RowSet(K), NEW u \in Nat, NEW v \in Nat
    PROVE  /\ RowWith(row, u, v) \in RowSet(K) /\ RowWith(row, u, v).key = row.key
           /\ RowWith(row, u, v).count = u /\ RowWith(row, u, v).total = v
<1>1. PICK q \in K, n \in Nat, o \in Nat : row = [key |-> q, count |-> n, total |-> o]
  BY DEF RowSet
<1> DEFINE mid == [key |-> q, count |-> u, total |-> o]
<1>2. [row EXCEPT !.count = u] = mid
  BY <1>1
<1>3. [mid EXCEPT !.total = v] = [key |-> q, count |-> u, total |-> v]
  OBVIOUS
<1> HIDE DEF mid
<1>4. [row EXCEPT !.count = u, !.total = v] = [[row EXCEPT !.count = u] EXCEPT !.total = v]
  OBVIOUS
<1>5. RowWith(row, u, v) = [key |-> q, count |-> u, total |-> v]
  BY <1>2, <1>3, <1>4 DEF RowWith
<1> QED BY <1>1, <1>5 DEF RowSet

LEMMA RowsFields ==
    ASSUME NEW table, Rows(table)
    PROVE  /\ DOMAIN table = 1..Len(table) /\ Len(table) \in Nat
           /\ \A i \in DOMAIN table : table[i].count \in Nat /\ table[i].total \in Nat
<1>1. PICK K : table \in Seq(RowSet(K))
  BY DEF Rows
<1>2. DOMAIN table = 1..Len(table) /\ Len(table) \in Nat /\ \A i \in DOMAIN table : table[i] \in RowSet(K)
  BY <1>1
<1>3. \A x \in RowSet(K) : x.count \in Nat /\ x.total \in Nat
  BY DEF RowSet
<1> QED BY <1>2, <1>3

LEMMA RowOfSpec ==
    ASSUME NEW table, Rows(table), NEW k
    PROVE  \/ RowOf(table, k) = NoSlot /\ \A i \in DOMAIN table : table[i].key # k
           \/ RowOf(table, k) \in DOMAIN table /\ RowOf(table, k) # NoSlot
              /\ table[RowOf(table, k)].key = k
<1> DEFINE S == {i \in DOMAIN table : table[i].key = k}
<1>2. DOMAIN table \subseteq Nat \ {0}
  BY RowsFields
<1>3. RowOf(table, k) = FirstOr0(S) /\ S \in SUBSET (Nat \ {0})
  BY <1>2 DEF RowOf
<1>4. \/ S = {} /\ FirstOr0(S) = NoSlot
      \/ FirstOr0(S) \in S /\ FirstOr0(S) # NoSlot
  BY <1>3, FirstOr0Scan
<1> QED BY <1>3, <1>4

(* What a key that has a row counts.                                       *)
LEMMA CountedInSpec ==
    ASSUME NEW table, Rows(table)
    PROVE  /\ \A i \in DOMAIN table : CountedIn(table, table[i].key) = table[i].count
           /\ \A k : CountedIn(table, k) \in Nat
<1>2. \A i \in DOMAIN table : table[i].count \in Nat
  BY RowsFields
<1>3. ASSUME NEW i \in DOMAIN table PROVE CountedIn(table, table[i].key) = table[i].count
  <2>1. RowOf(table, table[i].key) # NoSlot /\ RowOf(table, table[i].key) = i
    BY RowOfSpec DEF Rows
  <2> QED BY <2>1 DEF CountedIn
<1>4. ASSUME NEW k PROVE CountedIn(table, k) \in Nat
  BY <1>2, RowOfSpec DEF CountedIn
<1> QED BY <1>3, <1>4

LEMMA RowsAddBumped ==
    ASSUME NEW table, NEW t, NEW a, RowsAdd(table, t, a), NEW k
    PROVE  RowsAdd(Bumped(table, k, MaxPgns), t,
                   [p \in DOMAIN a \cup {k} |-> CountOf(a, p) + (IF p = k THEN 1 ELSE 0)])
<1> DEFINE b == [p \in DOMAIN a \cup {k} |-> CountOf(a, p) + (IF p = k THEN 1 ELSE 0)]
           i0 == RowOf(table, k)
<1>1. PICK K : table \in Seq(RowSet(K))
  BY DEF RowsAdd, Rows
<1>2. /\ \A i \in DOMAIN table : table[i].count \in Nat /\ table[i].total \in Nat
      /\ DOMAIN table = 1..Len(table) /\ Len(table) \in Nat
  BY RowsFields DEF RowsAdd
<1>3. /\ \A p : CountOf(t, p) \in Nat /\ CountOf(a, p) \in Nat
      /\ Counts(b) /\ CountOf(b, k) = CountOf(a, k) + 1 /\ k \in DOMAIN b
      /\ \A p : p # k => CountOf(b, p) = CountOf(a, p)
      /\ DOMAIN b = DOMAIN a \cup {k}
  BY DEF RowsAdd, Counts, CountOf
<1>4. \/ i0 = NoSlot /\ \A i \in DOMAIN table : table[i].key # k
      \/ i0 \in DOMAIN table /\ i0 # NoSlot /\ table[i0].key = k
  BY RowOfSpec DEF RowsAdd
<1> HIDE DEF b, i0
<1>5. CASE i0 \in DOMAIN table /\ i0 # NoSlot /\ table[i0].key = k
  <2> DEFINE new == Bumped(table, k, MaxPgns)
  <2>1. new = [table EXCEPT ![i0].count = @ + 1, ![i0].total = @ + 1]
    BY <1>5 DEF Bumped, i0
  <2>2. /\ new \in Seq(RowSet(K))
        /\ DOMAIN new = DOMAIN table /\ Len(new) = Len(table)
        /\ \A i \in DOMAIN table : new[i].key = table[i].key
        /\ \A i \in DOMAIN table : i # i0 => new[i] = table[i]
        /\ new[i0].count = table[i0].count + 1 /\ new[i0].total = table[i0].total + 1
    <3> DEFINE u == table[i0].count + 1
               v == table[i0].total + 1
               row == RowWith(table[i0], u, v)
    <3>1. new = [table EXCEPT ![i0] = row]
      BY <1>5, <2>1 DEF RowWith
    <3>2. table[i0] \in RowSet(K)
      BY <1>1, <1>5
    <3>3. u \in Nat /\ v \in Nat
      BY <1>2, <1>5
    <3> HIDE DEF u, v
    <3>4. row \in RowSet(K) /\ row.key = table[i0].key /\ row.count = u /\ row.total = v
      BY <3>2, <3>3, RowBumped
    <3>5. u = table[i0].count + 1 /\ v = table[i0].total + 1
      BY DEF u, v
    <3> HIDE DEF row, new
    <3> QED BY <1>1, <1>2, <1>5, <3>1, <3>4, <3>5
  <2> HIDE DEF new
  <2>3. Rows(new)
    BY <2>2 DEF RowsAdd, Rows
  <2>4. ASSUME NEW i \in DOMAIN new
        PROVE  /\ CountOf(t, new[i].key) + new[i].count = CountOf(b, new[i].key)
               /\ new[i].total = CountOf(b, new[i].key)
    <3>1. CASE i = i0
      <4>1. /\ CountOf(t, k) + table[i0].count = CountOf(a, k)
            /\ table[i0].total = CountOf(a, k)
        BY <1>5 DEF RowsAdd
      <4>2. new[i].key = k /\ new[i].count = table[i0].count + 1 /\ new[i].total = table[i0].total + 1
        BY <1>5, <2>2, <3>1
      <4> QED BY <1>2, <1>3, <1>5, <4>1, <4>2
    <3>2. CASE i # i0
      <4>1. new[i] = table[i] /\ table[i].key # k
        BY <1>5, <2>2, <3>2 DEF RowsAdd, Rows
      <4> QED BY <1>3, <2>2, <4>1 DEF RowsAdd
    <3> QED BY <3>1, <3>2
  <2>5. /\ \A p \in DOMAIN t : \E i \in DOMAIN new : new[i].key = p
        /\ Len(new) < MaxPgns => \A p \in DOMAIN b : \E i \in DOMAIN new : new[i].key = p
    BY <1>3, <1>5, <2>2 DEF RowsAdd
  <2> QED BY <1>3, <2>3, <2>4, <2>5 DEF RowsAdd, b, new
<1>6. CASE i0 = NoSlot /\ \A i \in DOMAIN table : table[i].key # k
  <2>1. CASE Len(table) < MaxPgns
    <3> DEFINE row == [key |-> k, count |-> 1, total |-> 1]
               new == Append(table, row)
    <3>1. Bumped(table, k, MaxPgns) = new
      BY <1>6, <2>1 DEF Bumped, i0
    <3>2. table \in Seq(RowSet(K \cup {k})) /\ row \in RowSet(K \cup {k})
      <4>1. RowSet(K) \subseteq RowSet(K \cup {k}) /\ row \in RowSet(K \cup {k})
        BY DEF RowSet
      <4> DEFINE A == RowSet(K)
                 B == RowSet(K \cup {k})
      <4>2. table \in Seq(A) /\ A \subseteq B /\ row \in B
        BY <1>1, <4>1
      <4> HIDE DEF row, A, B
      <4>3. table \in Seq(B) /\ row \in B
        BY <4>2
      <4> QED BY <4>3 DEF B
    <3>4. row.key = k /\ row.count = 1 /\ row.total = 1
      OBVIOUS
    <3> HIDE DEF row
    <3>3. /\ new \in Seq(RowSet(K \cup {k}))
          /\ DOMAIN new = 1..(Len(table) + 1) /\ Len(new) = Len(table) + 1
          /\ \A i \in DOMAIN table : new[i] = table[i]
          /\ new[Len(table) + 1] = row
      BY <1>2, <3>2
    <3> HIDE DEF new
    <3>5. /\ \A i \in DOMAIN new : i \in DOMAIN table \/ i = Len(table) + 1
          /\ \A i \in DOMAIN table : i \in DOMAIN new /\ i # Len(table) + 1
          /\ Len(table) + 1 \in DOMAIN new
      BY <1>2, <3>3
    <3>6. Rows(new)
      <4>1. \A i, j \in DOMAIN new : new[i].key = new[j].key => i = j
        BY <1>6, <3>3, <3>4, <3>5 DEF RowsAdd, Rows
      <4> QED BY <3>3, <4>1 DEF Rows
    <3>7. k \notin DOMAIN a /\ k \notin DOMAIN t
      BY <1>6, <2>1 DEF RowsAdd
    <3>8. CountOf(t, k) = 0 /\ CountOf(b, k) = 1
      BY <1>3, <3>7 DEF CountOf
    <3>9. ASSUME NEW i \in DOMAIN new
          PROVE  /\ CountOf(t, new[i].key) + new[i].count = CountOf(b, new[i].key)
                 /\ new[i].total = CountOf(b, new[i].key)
      <4>1. CASE i = Len(table) + 1
        BY <3>3, <3>4, <3>8, <4>1
      <4>2. CASE i \in DOMAIN table
        BY <1>3, <1>6, <3>3, <4>2 DEF RowsAdd
      <4> QED BY <3>5, <4>1, <4>2
    <3>10. \A p \in DOMAIN t : \E i \in DOMAIN new : new[i].key = p
      BY <3>3, <3>5 DEF RowsAdd
    <3>11. ASSUME NEW p \in DOMAIN b PROVE \E i \in DOMAIN new : new[i].key = p
      <4>1. CASE p = k
        BY <3>3, <3>4, <3>5, <4>1
      <4>2. CASE p # k
        <5>1. PICK i \in DOMAIN table : table[i].key = p
          BY <1>3, <2>1, <4>2 DEF RowsAdd
        <5> QED BY <3>3, <3>5, <5>1
      <4> QED BY <4>1, <4>2
    <3> QED BY <1>3, <3>1, <3>6, <3>9, <3>10, <3>11 DEF RowsAdd, b
  <2>2. CASE ~ (Len(table) < MaxPgns)
    <3>1. Bumped(table, k, MaxPgns) = table
      BY <1>6, <2>2 DEF Bumped, i0
    <3>2. \A i \in DOMAIN table : CountOf(b, table[i].key) = CountOf(a, table[i].key)
      BY <1>3, <1>6
    <3> QED BY <1>3, <2>2, <3>1, <3>2 DEF RowsAdd, b
  <2> QED BY <2>1, <2>2
<1> QED BY <1>4, <1>5, <1>6

LEMMA ZeroedRowsSpec ==
    ASSUME NEW table, Rows(table)
    PROVE  /\ Rows(ZeroedRows(table)) /\ Len(ZeroedRows(table)) = Len(table)
           /\ DOMAIN ZeroedRows(table) = DOMAIN table
           /\ \A i \in DOMAIN table : /\ ZeroedRows(table)[i].key = table[i].key
                                      /\ ZeroedRows(table)[i].count = 0
                                      /\ ZeroedRows(table)[i].total = table[i].total
<1> DEFINE zeroed == ZeroedRows(table)
<1>1. PICK K : table \in Seq(RowSet(K))
  BY DEF Rows
<1>2. ASSUME NEW x \in RowSet(K)
      PROVE  /\ [x EXCEPT !.count = 0] \in RowSet(K) /\ [x EXCEPT !.count = 0].key = x.key
             /\ [x EXCEPT !.count = 0].count = 0 /\ [x EXCEPT !.count = 0].total = x.total
  <2>1. PICK q \in K, n \in Nat, o \in Nat : x = [key |-> q, count |-> n, total |-> o]
    BY DEF RowSet
  <2>2. [x EXCEPT !.count = 0] = [key |-> q, count |-> 0, total |-> o]
    BY <2>1
  <2> QED BY <2>1, <2>2 DEF RowSet
<1>3. zeroed = [i \in DOMAIN table |-> [table[i] EXCEPT !.count = 0]]
  BY DEF ZeroedRows
<1> HIDE DEF zeroed
<1> DEFINE A == RowSet(K)
<1>4. table \in Seq(A)
  BY <1>1
<1>5. /\ \A i \in DOMAIN table : zeroed[i] \in A
      /\ \A i \in DOMAIN table : /\ zeroed[i].key = table[i].key /\ zeroed[i].count = 0
                                 /\ zeroed[i].total = table[i].total
  <2> SUFFICES ASSUME NEW i \in DOMAIN table
               PROVE  /\ zeroed[i] \in A /\ zeroed[i].key = table[i].key /\ zeroed[i].count = 0
                      /\ zeroed[i].total = table[i].total
    OBVIOUS
  <2>1. zeroed[i] = [table[i] EXCEPT !.count = 0]
    BY <1>3
  <2>2. table[i] \in RowSet(K)
    <3> HIDE DEF A
    <3>1. table[i] \in A
      BY <1>4
    <3> QED BY <3>1 DEF A
  <2> QED BY <1>2, <2>1, <2>2
<1> HIDE DEF A
<1>6. DOMAIN zeroed = DOMAIN table /\ zeroed \in Seq(A) /\ Len(zeroed) = Len(table)
  BY <1>3, <1>4, <1>5
<1>7. Rows(zeroed)
  <2>1. \A i, j \in DOMAIN zeroed : zeroed[i].key = zeroed[j].key => i = j
    BY <1>5, <1>6 DEF Rows
  <2> QED BY <1>6, <2>1 DEF Rows, A
<1> QED BY <1>5, <1>6, <1>7 DEF zeroed

PlusPgns(t, table) ==
    [p \in DOMAIN t \cup {table[i].key : i \in DOMAIN table} |-> CountOf(t, p) + CountedIn(table, p)]

LEMMA RowsAddZeroed ==
    ASSUME NEW table, NEW t, NEW a, RowsAdd(table, t, a)
    PROVE  RowsAdd(ZeroedRows(table), PlusPgns(t, table), a)
<1> DEFINE zeroed == ZeroedRows(table)
           u == PlusPgns(t, table)
<1>1. /\ Rows(zeroed) /\ Len(zeroed) = Len(table) /\ DOMAIN zeroed = DOMAIN table
      /\ \A i \in DOMAIN table : /\ zeroed[i].key = table[i].key /\ zeroed[i].count = 0
                                 /\ zeroed[i].total = table[i].total
  BY ZeroedRowsSpec DEF RowsAdd
<1>2. /\ \A i \in DOMAIN table : CountedIn(table, table[i].key) = table[i].count
      /\ \A p : CountedIn(table, p) \in Nat
      /\ \A p : CountOf(t, p) \in Nat /\ CountOf(a, p) \in Nat
  BY CountedInSpec DEF RowsAdd, Counts, CountOf
<1>3. /\ DOMAIN u = DOMAIN t \cup {table[i].key : i \in DOMAIN table}
      /\ \A p \in DOMAIN u : u[p] = CountOf(t, p) + CountedIn(table, p)
  BY DEF PlusPgns
<1> HIDE DEF zeroed, u
<1>4. Counts(u)
  BY <1>2, <1>3 DEF Counts
<1>5. ASSUME NEW i \in DOMAIN table PROVE CountOf(u, table[i].key) = CountOf(a, table[i].key)
  <2>1. CountOf(u, table[i].key) = CountOf(t, table[i].key) + table[i].count
    BY <1>2, <1>3 DEF CountOf
  <2> QED BY <2>1 DEF RowsAdd
<1>6. \A i \in DOMAIN zeroed :
         /\ CountOf(u, zeroed[i].key) + zeroed[i].count = CountOf(a, zeroed[i].key)
         /\ zeroed[i].total = CountOf(a, zeroed[i].key)
  BY <1>1, <1>2, <1>5 DEF RowsAdd
<1>7. \A p \in DOMAIN u : \E i \in DOMAIN zeroed : zeroed[i].key = p
  BY <1>1, <1>3 DEF RowsAdd
<1>8. Len(zeroed) < MaxPgns => \A p \in DOMAIN a : \E i \in DOMAIN zeroed : zeroed[i].key = p
  BY <1>1 DEF RowsAdd
<1> QED BY <1>1, <1>4, <1>6, <1>7, <1>8 DEF RowsAdd, zeroed, u

-----------------------------------------------------------------------------
(* Each of the steps that count adds the same to both sides.               *)
LEMMA AddsMeasured ==
    ASSUME NEW s, NEW t, NEW tt, NEW a, NEW c, Adds(s, t, tt, a, c), NEW n \in Nat
    PROVE  Adds(FramesSeen(s, n), t, tt,
                CountRec(a.msgs, a.frames, a.measured + n, a.sent, a.pgns), c)
<1> DEFINE b == CountRec(a.msgs, a.frames, a.measured + n, a.sent, a.pgns)
           r == FramesSeen(s, n)
<1>1. r = StRec(s.window, s.have, s.ago, s.msgs, s.frames, s.measured + n, s.sent, s.pgns, s.types)
  BY FramesSeenShape DEF Adds
<1>2. StShape(r) /\ CountShape(b)
  BY <1>1 DEF StShape, CountShape
<1>3. /\ r.window = s.window /\ r.msgs = s.msgs /\ r.frames = s.frames
      /\ r.measured = s.measured + n /\ r.sent = s.sent /\ r.pgns = s.pgns
  BY <1>1 DEF StRec
<1>4. /\ b.msgs = a.msgs /\ b.frames = a.frames /\ b.measured = a.measured + n
      /\ b.sent = a.sent /\ b.pgns = a.pgns
  BY DEF CountRec
<1> HIDE DEF r, b
<1>5. Adds(r, t, tt, b, c)
  <2>1. /\ r.window \in Nat /\ tt \in Nat /\ c = tt + r.window
        /\ r.msgs \in Nat /\ t.msgs \in Nat /\ b.msgs = t.msgs + r.msgs
    BY <1>3, <1>4, AddsParts, SMT
  <2>2. /\ r.frames \in Nat /\ t.frames \in Nat /\ b.frames = t.frames + r.frames
        /\ r.measured \in Nat /\ t.measured \in Nat /\ b.measured = t.measured + r.measured
        /\ r.sent \in Nat /\ t.sent \in Nat /\ b.sent = t.sent + r.sent
    BY <1>3, <1>4, AddsParts, SMT
  <2>3. RowsAdd(s.pgns, t.pgns, a.pgns) /\ CountShape(t)
    BY AddsParts, Zenon
  <2>4. RowsAdd(r.pgns, t.pgns, b.pgns)
    BY <1>3, <1>4, <2>3
  <2> QED BY <1>2, <2>1, <2>2, <2>3, <2>4, Zenon DEF Adds
<1> QED BY <1>5 DEF r, b

LEMMA FramesForNat == \A p : FramesFor(p) \in Nat
<1>1. ASSUME NEW n \in Nat PROVE FramesOf(n) \in Nat
  BY DEF FramesOf
<1> QED BY <1>1, StatsAssumption DEF FramesFor

LEMMA AddsCounted ==
    ASSUME NEW s, NEW t, NEW tt, NEW a, NEW c, Adds(s, t, tt, a, c), NEW k
    PROVE  Adds(Counted(s, k), t, tt,
                CountRec(a.msgs + 1, a.frames + FramesFor(k), a.measured, a.sent,
                         [p \in DOMAIN a.pgns \cup {k} |->
                            CountOf(a.pgns, p) + (IF p = k THEN 1 ELSE 0)]), c)
<1> DEFINE bp == [p \in DOMAIN a.pgns \cup {k} |-> CountOf(a.pgns, p) + (IF p = k THEN 1 ELSE 0)]
           b == CountRec(a.msgs + 1, a.frames + FramesFor(k), a.measured, a.sent, bp)
           r == Counted(s, k)
           rp == Bumped(s.pgns, k, MaxPgns)
<1>1. RowsAdd(rp, t.pgns, bp)
  <2>1. RowsAdd(s.pgns, t.pgns, a.pgns)
    BY AddsParts, Zenon
  <2> QED BY <2>1, RowsAddBumped
<1>2. r = StRec(s.window, TRUE, 0, s.msgs + 1, s.frames + FramesFor(k), s.measured, s.sent, rp, s.types)
  BY CountedShape DEF Adds
<1>3. FramesFor(k) \in Nat
  BY FramesForNat
<1> HIDE DEF bp, rp
<1>4. StShape(r) /\ CountShape(b)
  BY <1>2 DEF StShape, CountShape
<1>5. /\ r.window = s.window /\ r.msgs = s.msgs + 1 /\ r.frames = s.frames + FramesFor(k)
      /\ r.measured = s.measured /\ r.sent = s.sent /\ r.pgns = rp
  BY <1>2 DEF StRec
<1>6. /\ b.msgs = a.msgs + 1 /\ b.frames = a.frames + FramesFor(k)
      /\ b.measured = a.measured /\ b.sent = a.sent /\ b.pgns = bp
  BY DEF CountRec
<1> HIDE DEF r, b
<1>7. Adds(r, t, tt, b, c)
  <2>1. /\ r.window \in Nat /\ tt \in Nat /\ c = tt + r.window
        /\ r.msgs \in Nat /\ t.msgs \in Nat /\ b.msgs = t.msgs + r.msgs
    BY <1>3, <1>5, <1>6, AddsParts, SMT
  <2>2. /\ r.frames \in Nat /\ t.frames \in Nat /\ b.frames = t.frames + r.frames
        /\ r.measured \in Nat /\ t.measured \in Nat /\ b.measured = t.measured + r.measured
        /\ r.sent \in Nat /\ t.sent \in Nat /\ b.sent = t.sent + r.sent
    BY <1>3, <1>5, <1>6, AddsParts, SMT
  <2>3. /\ RowsAdd(r.pgns, t.pgns, b.pgns)
        /\ StShape(r) /\ CountShape(t) /\ CountShape(b)
    BY <1>1, <1>4, <1>5, <1>6, AddsParts, Zenon
  <2> QED BY <2>1, <2>2, <2>3, Zenon DEF Adds
<1> QED BY <1>7 DEF r, b, bp

LEMMA AddsSent ==
    ASSUME NEW s, NEW t, NEW tt, NEW a, NEW c, Adds(s, t, tt, a, c),
           NEW types, NEW n \in Nat, n = Len(types)
    PROVE  Adds(SentAll(s, types), t, tt,
                CountRec(a.msgs, a.frames, a.measured, a.sent + n, a.pgns), c)
<1> DEFINE b == CountRec(a.msgs, a.frames, a.measured, a.sent + n, a.pgns)
           r == SentAll(s, types)
<1>1. PICK tally : r = StRec(s.window, s.have, s.ago, s.msgs, s.frames, s.measured, s.sent + n, s.pgns, tally)
  BY SentAllShape DEF Adds
<1>2. StShape(r) /\ CountShape(b)
  BY <1>1 DEF StShape, CountShape
<1>3. /\ r.window = s.window /\ r.msgs = s.msgs /\ r.frames = s.frames
      /\ r.measured = s.measured /\ r.sent = s.sent + n /\ r.pgns = s.pgns
  BY <1>1 DEF StRec
<1>4. /\ b.msgs = a.msgs /\ b.frames = a.frames /\ b.measured = a.measured
      /\ b.sent = a.sent + n /\ b.pgns = a.pgns /\ n \in Nat
  BY DEF CountRec
<1> HIDE DEF r, b
<1>5. Adds(r, t, tt, b, c)
  <2>1. /\ r.window \in Nat /\ tt \in Nat /\ c = tt + r.window
        /\ r.msgs \in Nat /\ t.msgs \in Nat /\ b.msgs = t.msgs + r.msgs
    BY <1>3, <1>4, AddsParts, SMT
  <2>2. /\ r.frames \in Nat /\ t.frames \in Nat /\ b.frames = t.frames + r.frames
        /\ r.measured \in Nat /\ t.measured \in Nat /\ b.measured = t.measured + r.measured
        /\ r.sent \in Nat /\ t.sent \in Nat /\ b.sent = t.sent + r.sent
    BY <1>3, <1>4, AddsParts, SMT
  <2>3. RowsAdd(s.pgns, t.pgns, a.pgns) /\ CountShape(t)
    BY AddsParts, Zenon
  <2>4. RowsAdd(r.pgns, t.pgns, b.pgns)
    BY <1>3, <1>4, <2>3
  <2> QED BY <1>2, <2>1, <2>2, <2>3, <2>4, Zenon DEF Adds
<1> QED BY <1>5 DEF r, b

LEMMA AddsReported ==
    ASSUME NEW s, NEW t, NEW tt, NEW a, NEW c, Adds(s, t, tt, a, c)
    PROVE  Adds(NewWindow(s), Plus(t, s), tt + s.window, a, c)
<1> DEFINE u == Plus(t, s)
           r == NewWindow(s)
           zp == ZeroedRows(s.pgns)
           up == PlusPgns(t.pgns, s.pgns)
<1>1. RowsAdd(zp, up, a.pgns)
  <2>1. RowsAdd(s.pgns, t.pgns, a.pgns)
    BY AddsParts, Zenon
  <2> QED BY <2>1, RowsAddZeroed
<1>2. \E zt : r = StRec(0, s.have, s.ago, 0, 0, 0, 0, zp, zt)
  BY NewWindowShape DEF Adds
<1>3. u = CountRec(t.msgs + s.msgs, t.frames + s.frames, t.measured + s.measured, t.sent + s.sent, up)
  BY DEF Plus, PlusPgns, CountRec
<1> HIDE DEF zp, up
<1>4. StShape(r) /\ CountShape(u)
  BY <1>2, <1>3 DEF StShape, CountShape
<1>5. /\ r.window = 0 /\ r.msgs = 0 /\ r.frames = 0 /\ r.measured = 0 /\ r.sent = 0 /\ r.pgns = zp
  BY <1>2 DEF StRec
<1>6. /\ u.msgs = t.msgs + s.msgs /\ u.frames = t.frames + s.frames
      /\ u.measured = t.measured + s.measured /\ u.sent = t.sent + s.sent /\ u.pgns = up
  BY <1>3 DEF CountRec
<1> HIDE DEF r, u
<1>7. Adds(r, u, tt + s.window, a, c)
  <2>1. /\ r.window \in Nat /\ (tt + s.window) \in Nat /\ c = tt + s.window + r.window
        /\ r.msgs \in Nat /\ u.msgs \in Nat /\ a.msgs = u.msgs + r.msgs
    BY <1>5, <1>6, AddsParts, SMT
  <2>2. /\ r.frames \in Nat /\ u.frames \in Nat /\ a.frames = u.frames + r.frames
        /\ r.measured \in Nat /\ u.measured \in Nat /\ a.measured = u.measured + r.measured
        /\ r.sent \in Nat /\ u.sent \in Nat /\ a.sent = u.sent + r.sent
    BY <1>5, <1>6, AddsParts, SMT
  <2>3. /\ RowsAdd(r.pgns, u.pgns, a.pgns)
        /\ StShape(r) /\ CountShape(u) /\ CountShape(a)
    BY <1>1, <1>4, <1>5, <1>6, AddsParts, Zenon
  <2> QED BY <2>1, <2>2, <2>3, Zenon DEF Adds
<1> QED BY <1>7 DEF r, u

LEMMA AddsAged ==
    ASSUME NEW s, NEW t, NEW tt, NEW a, NEW c, Adds(s, t, tt, a, c)
    PROVE  Adds(Aged(s), t, tt, a, c + 1)
<1> DEFINE r == Aged(s)
<1>1. \E g : r = StRec(s.window + 1, s.have, g, s.msgs, s.frames, s.measured, s.sent, s.pgns, s.types)
  BY AgedShape DEF Adds
<1>2. PICK g : r = StRec(s.window + 1, s.have, g, s.msgs, s.frames, s.measured, s.sent, s.pgns, s.types)
  BY <1>1
<1>3. StShape(r)
  BY <1>2 DEF StShape
<1>4. /\ r.window = s.window + 1 /\ r.msgs = s.msgs /\ r.frames = s.frames
      /\ r.measured = s.measured /\ r.sent = s.sent /\ r.pgns = s.pgns
  BY <1>2 DEF StRec
<1> HIDE DEF r
<1>5. Adds(r, t, tt, a, c + 1)
  <2>1. /\ r.window \in Nat /\ tt \in Nat /\ c + 1 = tt + r.window
        /\ r.msgs \in Nat /\ t.msgs \in Nat /\ a.msgs = t.msgs + r.msgs
    BY <1>4, AddsParts, SMT
  <2>2. /\ r.frames \in Nat /\ t.frames \in Nat /\ a.frames = t.frames + r.frames
        /\ r.measured \in Nat /\ t.measured \in Nat /\ a.measured = t.measured + r.measured
        /\ r.sent \in Nat /\ t.sent \in Nat /\ a.sent = t.sent + r.sent
    BY <1>4, AddsParts, SMT
  <2>3. /\ RowsAdd(r.pgns, t.pgns, a.pgns)
        /\ StShape(r) /\ CountShape(t) /\ CountShape(a)
    BY <1>3, <1>4, AddsParts, Zenon
  <2> QED BY <2>1, <2>2, <2>3, Zenon DEF Adds
<1> QED BY <1>5 DEF r

-----------------------------------------------------------------------------
(* What a message may yield is a list of sentences.                        *)
SentencesAreSeq == \A m : Len(Sentences(m)) \in Nat

AllMeasured == CountRec(all.msgs, all.frames, all.measured + canq, all.sent, all.pgns)

LEMMA StatsInDue == "stats" \in Due <=> StatsDue
BY DEF Due

LEMMA InitCount == Init => CountInv
<1> SUFFICES ASSUME Init PROVE CountInv
  OBVIOUS
<1>1. /\ st = StRec(0, FALSE, 0, 0, 0, 0, 0, <<>>, <<>>)
      /\ told = CountRec(0, 0, 0, 0, <<>>) /\ all = CountRec(0, 0, 0, 0, <<>>)
      /\ toldTime = 0 /\ clock = 0 /\ canq = 0
  BY DEF Init, StatsInit, NoCount, StRec, CountRec
<1>2. StShape(st) /\ CountShape(told) /\ CountShape(all)
  BY <1>1 DEF StShape, CountShape
<1>3. /\ st.window = 0 /\ st.msgs = 0 /\ st.frames = 0 /\ st.measured = 0 /\ st.sent = 0
      /\ st.pgns = <<>>
      /\ told.msgs = 0 /\ told.frames = 0 /\ told.measured = 0 /\ told.sent = 0 /\ told.pgns = <<>>
      /\ all.msgs = 0 /\ all.frames = 0 /\ all.measured = 0 /\ all.sent = 0 /\ all.pgns = <<>>
  BY <1>1 DEF StRec, CountRec
<1>4. RowsAdd(<<>>, <<>>, <<>>)
  <2>1. <<>> \in Seq(RowSet({}))
    OBVIOUS
  <2> QED BY <2>1 DEF RowsAdd, Rows, Counts
<1>5. RowsAdd(st.pgns, told.pgns, all.pgns)
  BY <1>3, <1>4
<1>6. CountInv <=> Adds(st, told, toldTime, all, clock) /\ canq \in Nat
  BY DEF CountInv
<1> HIDE DEF CountInv
<1>7. Adds(st, told, toldTime, all, clock)
  <2>0. toldTime = 0 /\ clock = 0
    BY DEF Init
  <2>1. /\ st.window \in Nat /\ st.msgs \in Nat /\ st.frames \in Nat
        /\ st.measured \in Nat /\ st.sent \in Nat /\ toldTime \in Nat
        /\ told.msgs \in Nat /\ told.frames \in Nat /\ told.measured \in Nat /\ told.sent \in Nat
    BY <1>3, <2>0
  <2>2. /\ all.msgs = told.msgs + st.msgs /\ all.frames = told.frames + st.frames
        /\ all.measured = told.measured + st.measured /\ all.sent = told.sent + st.sent
        /\ clock = toldTime + st.window
    BY <1>3, <2>0
  <2> QED BY <1>2, <1>5, <2>1, <2>2 DEF Adds
<1> QED BY <1>1, <1>6, <1>7

(* The periodic work moves the counts from the window to the reports.      *)
LEMMA PublishAdds ==
    ASSUME CountInv, NEW ok \in BOOLEAN, Publish(ok, Due)
    PROVE  Adds(StNow(ok), told', toldTime', AllMeasured, clock) /\ canq' = 0
<1>1. Adds(Measured, told, toldTime, AllMeasured, clock)
  BY AddsMeasured DEF CountInv, Measured, AllMeasured
<1>2. Measured.window = st.window
  <2>1. Measured = StRec(st.window, st.have, st.ago, st.msgs, st.frames, st.measured + canq,
                         st.sent, st.pgns, st.types)
    BY FramesSeenShape DEF CountInv, Adds, Measured
  <2> QED BY <2>1 DEF StRec
<1>3. canq' = 0
  BY DEF Publish
<1>4. CASE StatsDue /\ ok
  <2>1. told' = Plus(told, Measured) /\ toldTime' = toldTime + Measured.window
    BY <1>2, <1>4, StatsInDue DEF Publish
  <2>2. StNow(ok) = NewWindow(Measured)
    BY <1>4 DEF StNow, Reported
  <2>3. Adds(NewWindow(Measured), Plus(told, Measured), toldTime + Measured.window, AllMeasured, clock)
    BY <1>1, AddsReported
  <2> QED BY <1>3, <2>1, <2>2, <2>3
<1>5. CASE ~ (StatsDue /\ ok)
  <2>1. told' = told /\ toldTime' = toldTime
    BY <1>5, StatsInDue DEF Publish
  <2>2. StNow(ok) = Measured
    BY <1>5 DEF StNow, Reported
  <2> QED BY <1>1, <1>3, <2>1, <2>2
<1> QED BY <1>4, <1>5

LEMMA NothingHeardCount ==
    ASSUME CountInv, NEW ok \in BOOLEAN, Publish(ok, Due), NothingHeard(ok), clock' = clock
    PROVE  CountInv'
<1>1. all' = AllMeasured
  <2>1. all = CountRec(all.msgs, all.frames, all.measured, all.sent, all.pgns)
    BY CountShapeFields DEF CountInv, Adds
  <2>2. PICK m, f, x, o, p : all = CountRec(m, f, x, o, p)
    BY <2>1
  <2>3. all' = [all EXCEPT !.measured = @ + canq]
    BY DEF NothingHeard
  <2>4. all.msgs = m /\ all.frames = f /\ all.measured = x /\ all.sent = o /\ all.pgns = p
    BY <2>2 DEF CountRec
  <2>5. all' = CountRec(m, f, x + canq, o, p)
    BY <2>2, <2>3, <2>4 DEF CountRec
  <2> QED BY <2>4, <2>5 DEF AllMeasured
<1>2. st' = StNow(ok)
  BY DEF NothingHeard
<1> QED BY <1>1, <1>2, PublishAdds DEF CountInv

LEMMA HandleCount ==
    ASSUME CountInv, SentencesAreSeq, NEW ok \in BOOLEAN, Publish(ok, Due),
           NEW m, NEW d, Handle(m, d, ok), clock' = clock
    PROVE  CountInv'
<1> DEFINE types == IF d.result = "accept" THEN Sentences(m) ELSE <<>>
           k == m.pgn.num
<1>1. PICK n \in Nat : n = Len(types)
  BY DEF SentencesAreSeq
<1>2. /\ st' = SentAll(IF m.pgn.has THEN Counted(StNow(ok), k) ELSE StNow(ok), types)
      /\ all' = LET a == [all EXCEPT !.measured = @ + canq, !.sent = @ + n] IN
                IF ~ m.pgn.has THEN a
                ELSE [a EXCEPT !.msgs = @ + 1, !.frames = @ + FramesFor(k),
                               !.pgns = [p \in DOMAIN @ \cup {k} |->
                                   CountOf(@, p) + (IF p = k THEN 1 ELSE 0)]]
  BY <1>1 DEF Handle
<1> HIDE DEF types, k
<1>3. PICK ms, f, x, o, p : all = CountRec(ms, f, x, o, p)
  BY DEF CountInv, Adds, CountShape
<1>4. all.msgs = ms /\ all.frames = f /\ all.measured = x /\ all.sent = o /\ all.pgns = p
  BY <1>3 DEF CountRec
<1>5. AllMeasured = CountRec(ms, f, x + canq, o, p)
  BY <1>4 DEF AllMeasured
<1>6. Adds(StNow(ok), told', toldTime', AllMeasured, clock) /\ canq' = 0
  BY PublishAdds
<1>7. CASE ~ m.pgn.has
  <2>1. all' = CountRec(ms, f, x + canq, o + n, p)
    <3>1. all' = [all EXCEPT !.measured = @ + canq, !.sent = @ + n]
      BY <1>2, <1>7
    <3> QED BY <1>3, <1>4, <3>1 DEF CountRec
  <2>2. st' = SentAll(StNow(ok), types)
    BY <1>2, <1>7
  <2>3. AllMeasured.msgs = ms /\ AllMeasured.frames = f /\ AllMeasured.measured = x + canq
        /\ AllMeasured.sent = o /\ AllMeasured.pgns = p
    BY <1>5 DEF CountRec
  <2>4. Adds(SentAll(StNow(ok), types), told', toldTime', CountRec(ms, f, x + canq, o + n, p), clock)
    BY <1>1, <1>6, <2>3, AddsSent
  <2> QED BY <1>6, <2>1, <2>2, <2>4 DEF CountInv
<1>8. CASE m.pgn.has
  <2> DEFINE bp == [q \in DOMAIN p \cup {k} |-> CountOf(p, q) + (IF q = k THEN 1 ELSE 0)]
             fk == FramesFor(k)
             a == CountRec(ms, f, x + canq, o + n, p)
             b == CountRec(ms + 1, f + fk, x + canq, o, bp)
  <2>1. all' = CountRec(ms + 1, f + fk, x + canq, o + n, bp)
    <3>1. a = [all EXCEPT !.measured = @ + canq, !.sent = @ + n]
      <4> DEFINE u == x + canq
                 v == o + n
                 mid == CountRec(ms, f, u, o, p)
      <4> HIDE DEF u, v
      <4>0. [all EXCEPT !.measured = u] = mid /\ [mid EXCEPT !.sent = v] = CountRec(ms, f, u, v, p)
        BY <1>3 DEF CountRec
      <4> HIDE DEF mid
      <4>1. CountRec(ms, f, u, v, p) = [all EXCEPT !.measured = u, !.sent = v]
        BY <4>0
      <4> QED BY <1>4, <4>1 DEF u, v
    <3>2. a.msgs = ms /\ a.frames = f /\ a.pgns = p
      BY DEF CountRec
    <3>3. all' = [a EXCEPT !.msgs = ms + 1, !.frames = f + fk, !.pgns = bp]
      <4> HIDE DEF a, fk
      <4>1. all' = [a EXCEPT !.msgs = @ + 1, !.frames = @ + FramesFor(k),
                             !.pgns = [q \in DOMAIN @ \cup {k} |->
                                   CountOf(@, q) + (IF q = k THEN 1 ELSE 0)]]
        BY <1>2, <1>8, <3>1
      <4> QED BY <3>2, <4>1 DEF fk
    <3> HIDE DEF bp, fk
    <3> QED BY <3>3 DEF CountRec
  <2>2. st' = SentAll(Counted(StNow(ok), k), types)
    BY <1>2, <1>8
  <2>3. AllMeasured.msgs = ms /\ AllMeasured.frames = f /\ AllMeasured.measured = x + canq
        /\ AllMeasured.sent = o /\ AllMeasured.pgns = p
    BY <1>5 DEF CountRec
  <2>4. Adds(Counted(StNow(ok), k), told', toldTime', b, clock)
    <3>1. Adds(Counted(StNow(ok), k), told', toldTime',
               CountRec(AllMeasured.msgs + 1, AllMeasured.frames + FramesFor(k),
                        AllMeasured.measured, AllMeasured.sent,
                        [q \in DOMAIN AllMeasured.pgns \cup {k} |->
                            CountOf(AllMeasured.pgns, q) + (IF q = k THEN 1 ELSE 0)]), clock)
      BY <1>6, AddsCounted
    <3> QED BY <2>3, <3>1
  <2>5. b.msgs = ms + 1 /\ b.frames = f + fk /\ b.measured = x + canq /\ b.sent = o /\ b.pgns = bp
    BY DEF CountRec
  <2> HIDE DEF bp, fk, b
  <2>6. Adds(SentAll(Counted(StNow(ok), k), types), told', toldTime',
             CountRec(b.msgs, b.frames, b.measured, b.sent + n, b.pgns), clock)
    BY <1>1, <2>4, AddsSent
  <2>7. CountRec(b.msgs, b.frames, b.measured, b.sent + n, b.pgns) = all'
    BY <2>1, <2>5
  <2> QED BY <1>6, <2>2, <2>6, <2>7 DEF CountInv
<1> QED BY <1>7, <1>8

LEMMA FinishCount == ASSUME CountInv, NEW ok \in BOOLEAN, Finish(ok) PROVE CountInv'
<1>1. st' = Reported(st, ok) /\ all' = all /\ clock' = clock /\ canq' = canq
  BY DEF Finish
<1>2. CASE ok
  <2>1. told' = Plus(told, st) /\ toldTime' = toldTime + st.window /\ st' = NewWindow(st)
    BY <1>1, <1>2 DEF Finish, Reported
  <2>2. Adds(NewWindow(st), Plus(told, st), toldTime + st.window, all, clock)
    BY AddsReported DEF CountInv
  <2> QED BY <1>1, <2>1, <2>2 DEF CountInv
<1>3. CASE ~ ok
  <2>1. told' = told /\ toldTime' = toldTime /\ st' = st
    BY <1>1, <1>3 DEF Finish, Reported
  <2> QED BY <1>1, <2>1 DEF CountInv
<1> QED BY <1>2, <1>3

LEMMA NextCount == ASSUME CountInv, SentencesAreSeq, [Next]_vars PROVE CountInv'
<1>1. CASE \/ UNCHANGED vars \/ UpstreamEnds \/ ReaderLeaves
           \/ \E k \in 1..Len(FeedText) : Write(k)
  BY <1>1 DEF vars, history, UpstreamEnds, ReaderLeaves, Write, CountInv
<1>2. CASE FrameArrives
  BY <1>2 DEF FrameArrives, history, CountInv
<1>3. CASE Tick
  <2>1. st' = Aged(st) /\ clock' = clock + 1 /\ UNCHANGED <<told, toldTime, all, canq>>
    BY <1>3 DEF Tick
  <2>2. Adds(Aged(st), told, toldTime, all, clock + 1)
    BY AddsAged DEF CountInv
  <2> QED BY <2>1, <2>2 DEF CountInv
<1>4. CASE \E ok \in BOOLEAN : Finish(ok)
  BY <1>4, FinishCount
<1>5. CASE Turn
  <2>1. PICK ok \in BOOLEAN : TakeLine(ok) \/ AtEof(ok) \/ Poll(ok)
    BY <1>5 DEF Turn
  <2>2. Publish(ok, Due) /\ clock' = clock
    BY <2>1 DEF TakeLine, AtEof, Poll
  <2>3. NothingHeard(ok) \/ \E m : \E d \in Decisions(m) : Handle(m, d, ok)
    BY <2>1 DEF TakeLine, AtEof, Poll, Understood
  <2> QED BY <2>2, <2>3, NothingHeardCount, HandleCount
<1> QED BY <1>1, <1>2, <1>3, <1>4, <1>5 DEF Next

LEMMA CountInvExact == CountInv => WindowExact
<1> SUFFICES ASSUME CountInv PROVE WindowExact
  OBVIOUS
<1> DEFINE sum == Plus(told, st)
<1>1. /\ sum.msgs = told.msgs + st.msgs /\ sum.frames = told.frames + st.frames
      /\ sum.measured = told.measured + st.measured /\ sum.sent = told.sent + st.sent
      /\ sum.pgns = PlusPgns(told.pgns, st.pgns)
  BY DEF Plus, PlusPgns
<1>2. RowsAdd(ZeroedRows(st.pgns), sum.pgns, all.pgns) /\ RowsAdd(st.pgns, told.pgns, all.pgns)
  BY <1>1, RowsAddZeroed DEF CountInv, Adds
<1>3. /\ DOMAIN ZeroedRows(st.pgns) = DOMAIN st.pgns
      /\ \A i \in DOMAIN st.pgns : /\ ZeroedRows(st.pgns)[i].key = st.pgns[i].key
                                   /\ ZeroedRows(st.pgns)[i].count = 0
                                   /\ ZeroedRows(st.pgns)[i].total = st.pgns[i].total
  BY <1>2, ZeroedRowsSpec DEF RowsAdd
<1> HIDE DEF sum
<1>4. \A i \in DOMAIN st.pgns : CountOf(sum.pgns, st.pgns[i].key) = CountOf(all.pgns, st.pgns[i].key)
  <2> SUFFICES ASSUME NEW i \in DOMAIN st.pgns
               PROVE  CountOf(sum.pgns, st.pgns[i].key) = CountOf(all.pgns, st.pgns[i].key)
    OBVIOUS
  <2>1. CountOf(sum.pgns, st.pgns[i].key) + 0 = CountOf(all.pgns, st.pgns[i].key)
    BY <1>2, <1>3 DEF RowsAdd
  <2>2. CountOf(sum.pgns, st.pgns[i].key) \in Nat
    BY <1>2 DEF RowsAdd, Counts, CountOf
  <2> QED BY <2>1, <2>2
<1>5. /\ \A i \in DOMAIN st.pgns : st.pgns[i].total = CountOf(all.pgns, st.pgns[i].key)
      /\ \A p \in DOMAIN all.pgns :
            Len(st.pgns) < MaxPgns => \E i \in DOMAIN st.pgns : st.pgns[i].key = p
  BY <1>2 DEF RowsAdd
<1>6. /\ sum.msgs = all.msgs /\ sum.frames = all.frames /\ sum.measured = all.measured
      /\ sum.sent = all.sent /\ toldTime + st.window = clock
  BY <1>1 DEF CountInv, Adds
<1> QED BY <1>4, <1>5, <1>6 DEF WindowExact, sum

(* No report is lost or counted twice, message by message and PGN by PGN   *)
(* and over all of the time, whichever reports failed (stats_observe and   *)
(* stats_write of stats.c, the loop of main).                              *)
THEOREM ReportsAddUp ==
    ASSUME SentencesAreSeq
    PROVE  Spec => []WindowExact
<1>1. CountInv /\ [Next]_vars => CountInv'
  BY NextCount
<1> QED BY <1>1, InitCount, CountInvExact, PTL DEF Spec

-----------------------------------------------------------------------------
(* The banner.  What the file fs tells of the stream at a time when it was *)
(* quiet for q and loud for l, if what it tells is up to w old.            *)
Least(m, n) == IF m <= n THEN m ELSE n

Reach(fs, w, q, l) ==
    /\ (fs.have /\ fs.st.have /\ q > w)
          => (fs.st.ago \in Nat /\ fs.st.ago >= Least(q - w, MaxAge))
    /\ l > w => (fs.have /\ fs.st.have /\ fs.st.ago \in Nat /\ fs.st.ago <= DeadAge)

(* What the statistics themselves tell.                                    *)
Heard(s, msgs, q, l) ==
    /\ s.have \in BOOLEAN /\ (s.have <=> msgs > 0)
    /\ s.have => s.ago = Least(q, MaxAge)
    /\ l > 0 => (msgs > 0 /\ q <= DeadAge)

(* The time of the reports that failed, and the one since.                 *)
Behind == (late * StatsInterval) + since.stats

HearInv ==
    /\ quiet \in Nat /\ loud \in Nat /\ late \in Nat /\ since.stats \in Nat
    /\ since.stats <= StatsInterval
    /\ ran => since.stats < StatsInterval
    /\ Heard(st, all.msgs, quiet, loud)
    /\ Reach(files.stats, Behind, quiet, loud)

LEMMA Times ==
    /\ StatsInterval \in Nat
    /\ 0 * StatsInterval = 0
    /\ \A n \in Nat : /\ n * StatsInterval \in Nat
                      /\ (n + 1) * StatsInterval = (n * StatsInterval) + StatsInterval
BY MainLoopAssumption

LEMMA ReachFresh ==
    ASSUME NEW fs, NEW s, fs = [have |-> TRUE, st |-> s],
           NEW msgs, NEW w \in Nat, NEW q \in Nat, NEW l \in Nat, Heard(s, msgs, q, l)
    PROVE  Reach(fs, w, q, l)
<1>1. fs.have = TRUE /\ fs.st = s
  OBVIOUS
<1>2. MaxAge \in Nat /\ DeadAge \in Nat /\ DeadAge < MaxAge
  BY StatsAssumption, MainLoopAssumption
<1>3. ASSUME s.have, q > w PROVE s.ago \in Nat /\ s.ago >= Least(q - w, MaxAge)
  BY <1>2, <1>3 DEF Heard, Least
<1>4. ASSUME l > w PROVE s.have /\ s.ago \in Nat /\ s.ago <= DeadAge
  BY <1>2, <1>4 DEF Heard, Least
<1> QED BY <1>1, <1>3, <1>4 DEF Reach

LEMMA ReachLater ==
    ASSUME NEW fs, NEW w \in Nat, NEW v \in Nat, w <= v, NEW q \in Nat, NEW l \in Nat,
           Reach(fs, w, q, l)
    PROVE  Reach(fs, v, q, l) /\ Reach(fs, w, 0, l)
<1>1. MaxAge \in Nat
  BY StatsAssumption
<1>2. ASSUME fs.have, fs.st.have, q > v PROVE fs.st.ago \in Nat /\ fs.st.ago >= Least(q - v, MaxAge)
  BY <1>1, <1>2 DEF Reach, Least
<1>3. ASSUME l > v PROVE l > w
  BY <1>3
<1> QED BY <1>2, <1>3 DEF Reach

LEMMA ReachTick ==
    ASSUME NEW fs, NEW w \in Nat, NEW q \in Nat, NEW l \in Nat, NEW k \in {0, l + 1},
           Reach(fs, w, q, l)
    PROVE  Reach(fs, w + 1, q + 1, k)
<1>1. (q + 1) - (w + 1) = q - w /\ (q + 1 > w + 1 => q > w) /\ (k > w + 1 => l > w)
  OBVIOUS
<1> QED BY <1>1 DEF Reach

LEMMA NewWindowHeard ==
    ASSUME NEW s, StShape(s)
    PROVE  StShape(NewWindow(s)) /\ NewWindow(s).have = s.have /\ NewWindow(s).ago = s.ago
<1>1. \E zp, zt : NewWindow(s) = StRec(0, s.have, s.ago, 0, 0, 0, 0, zp, zt)
  BY NewWindowShape
<1>2. PICK r, zp, zt : r = NewWindow(s) /\ r = StRec(0, s.have, s.ago, 0, 0, 0, 0, zp, zt)
  BY <1>1
<1>3. StShape(r)
  BY <1>2 DEF StShape
<1>4. r.have = s.have /\ r.ago = s.ago
  BY <1>2 DEF StRec
<1> QED BY <1>2, <1>3, <1>4

LEMMA HeardNow ==
    ASSUME NEW s, s.have = TRUE, s.ago = 0, NEW msgs, msgs > 0, NEW l
    PROVE  Heard(s, msgs, 0, l)
<1>1. s.have \in BOOLEAN /\ s.have
  BY Zenon
<1>2. Least(0, MaxAge) = 0 /\ 0 <= DeadAge
  BY StatsAssumption, MainLoopAssumption DEF Least
<1> QED BY <1>1, <1>2 DEF Heard

LEMMA PublishHear ==
    ASSUME CountInv, HearInv, NEW ok \in BOOLEAN, Publish(ok, Due)
    PROVE  /\ late' \in Nat /\ since'.stats \in Nat /\ since'.stats < StatsInterval
           /\ Reach(files'.stats, Behind', quiet, loud)
           /\ StShape(StNow(ok)) /\ Heard(StNow(ok), all.msgs, quiet, loud)
<1>1. /\ Measured.have = st.have /\ Measured.ago = st.ago /\ StShape(Measured)
      /\ NewWindow(Measured).have = st.have /\ NewWindow(Measured).ago = st.ago
      /\ StShape(NewWindow(Measured))
  <2>1. Measured = StRec(st.window, st.have, st.ago, st.msgs, st.frames, st.measured + canq,
                         st.sent, st.pgns, st.types)
    BY FramesSeenShape DEF CountInv, Adds, Measured
  <2>2. StShape(Measured) /\ Measured.have = st.have /\ Measured.ago = st.ago
    BY <2>1 DEF StShape, StRec
  <2>3. PICK s : s = Measured
    OBVIOUS
  <2>4. StShape(NewWindow(s)) /\ NewWindow(s).have = s.have /\ NewWindow(s).ago = s.ago
    BY <2>2, <2>3, NewWindowHeard
  <2> QED BY <2>2, <2>3, <2>4
<1>2. Heard(Measured, all.msgs, quiet, loud) /\ Heard(NewWindow(Measured), all.msgs, quiet, loud)
  BY <1>1 DEF HearInv, Heard
<1>3. StShape(StNow(ok)) /\ Heard(StNow(ok), all.msgs, quiet, loud)
  BY <1>1, <1>2 DEF StNow, Reported
<1>4. /\ files'.stats = IF ok /\ StatsDue THEN [have |-> TRUE, st |-> Measured] ELSE files.stats
      /\ since'.stats = IF StatsDue THEN 0 ELSE since.stats
      /\ late' = IF ~ StatsDue THEN late ELSE IF ok THEN 0 ELSE late + 1
  BY StatsInDue DEF Publish, Published, SinceThen, Replaced
<1>5. late \in Nat /\ quiet \in Nat /\ loud \in Nat /\ since.stats \in Nat /\ since.stats <= StatsInterval
      /\ Reach(files.stats, (late * StatsInterval) + since.stats, quiet, loud)
  BY DEF HearInv, Behind
<1>6. StatsInterval \in Nat \ {0} /\ (StatsDue <=> since.stats >= StatsInterval)
  BY MainLoopAssumption DEF StatsDue
<1>7. CASE StatsDue /\ ok
  <2>1. late' = 0 /\ since'.stats = 0 /\ Behind' = 0
    BY <1>4, <1>7, Times DEF Behind
  <2>2. Reach(files'.stats, 0, quiet, loud)
    <3>1. files'.stats = [have |-> TRUE, st |-> Measured]
      BY <1>4, <1>7
    <3>2. PICK fs : fs = files'.stats
      OBVIOUS
    <3>3. Reach(fs, 0, quiet, loud)
      BY <1>2, <1>5, <3>1, <3>2, ReachFresh
    <3> QED BY <3>2, <3>3
  <2> QED BY <1>3, <1>6, <2>1, <2>2
<1>8. CASE StatsDue /\ ~ ok
  <2>1. late' = late + 1 /\ since'.stats = 0 /\ files'.stats = files.stats /\ since.stats = StatsInterval
    BY <1>4, <1>5, <1>6, <1>8
  <2>2. Behind' = ((late + 1) * StatsInterval) + 0
    BY <2>1 DEF Behind
  <2>3. Behind' = (late * StatsInterval) + since.stats
    BY <1>5, <2>1, <2>2, Times
  <2> QED BY <1>3, <1>5, <1>6, <2>1, <2>3
<1>9. CASE ~ StatsDue
  <2>1. late' = late /\ since'.stats = since.stats /\ files'.stats = files.stats
    BY <1>4, <1>9
  <2>2. Behind' = (late * StatsInterval) + since.stats
    BY <2>1 DEF Behind
  <2> QED BY <1>3, <1>5, <1>6, <1>9, <2>1, <2>2
<1> QED BY <1>7, <1>8, <1>9

LEMMA HandleHear ==
    ASSUME CountInv, HearInv, NEW ok \in BOOLEAN, Publish(ok, Due), loud' = loud,
           NEW m, NEW d, Handle(m, d, ok)
    PROVE  HearInv'
<1> DEFINE types == IF d.result = "accept" THEN Sentences(m) ELSE <<>>
           now == StNow(ok)
           counted == IF m.pgn.has THEN Counted(now, m.pgn.num) ELSE now
<1>1. /\ late' \in Nat /\ since'.stats \in Nat /\ since'.stats < StatsInterval
      /\ Reach(files'.stats, Behind', quiet, loud)
      /\ StShape(now) /\ Heard(now, all.msgs, quiet, loud)
  BY PublishHear
<1>2. quiet \in Nat /\ loud \in Nat /\ all.msgs \in Nat /\ CountShape(all)
  BY DEF HearInv, CountInv, Adds
<1>3. /\ st' = SentAll(counted, types)
      /\ quiet' = IF m.pgn.has THEN 0 ELSE quiet
      /\ all'.msgs = IF m.pgn.has THEN all.msgs + 1 ELSE all.msgs
  <2>1. PICK ms, f, x, o, p : all = CountRec(ms, f, x, o, p)
    BY <1>2 DEF CountShape
  <2>2. all'.msgs = IF m.pgn.has THEN all.msgs + 1 ELSE all.msgs
    BY <2>1 DEF Handle, CountRec
  <2> QED BY <2>2 DEF Handle
<1> HIDE DEF now, types
<1>4. /\ StShape(counted)
      /\ counted.have = (IF m.pgn.has THEN TRUE ELSE now.have)
      /\ counted.ago = (IF m.pgn.has THEN 0 ELSE now.ago)
  <2>1. CASE m.pgn.has
    <3>1. counted = StRec(now.window, TRUE, 0, now.msgs + 1, now.frames + FramesFor(m.pgn.num),
                          now.measured, now.sent, Bumped(now.pgns, m.pgn.num, MaxPgns), now.types)
      BY <1>1, <2>1, CountedShape
    <3> HIDE DEF counted
    <3> QED BY <2>1, <3>1 DEF StRec, StShape
  <2>2. CASE ~ m.pgn.has
    BY <1>1, <2>2
  <2> QED BY <2>1, <2>2
<1> HIDE DEF counted
<1>5. st'.have = counted.have /\ st'.ago = counted.ago
  <2>1. PICK tally : SentAll(counted, types) =
              StRec(counted.window, counted.have, counted.ago, counted.msgs, counted.frames,
                    counted.measured, counted.sent + Len(types), counted.pgns, tally)
    BY <1>4, SentAllShape
  <2> QED BY <1>3, <2>1 DEF StRec
<1>6. Heard(st', all'.msgs, quiet', loud')
  <2>1. MaxAge \in Nat /\ DeadAge \in Nat
    BY StatsAssumption, MainLoopAssumption
  <2>2. CASE m.pgn.has
    <3>1. st'.have = TRUE /\ st'.ago = 0 /\ quiet' = 0 /\ all'.msgs = all.msgs + 1
      BY <1>3, <1>4, <1>5, <2>2
    <3>2. all.msgs + 1 > 0
      BY <1>2
    <3>3. PICK s, l : s = st' /\ l = loud'
      OBVIOUS
    <3>4. Heard(s, all.msgs + 1, 0, l)
      BY <3>1, <3>2, <3>3, HeardNow
    <3> QED BY <3>1, <3>3, <3>4
  <2>3. CASE ~ m.pgn.has
    <3>1. st'.have = now.have /\ st'.ago = now.ago /\ quiet' = quiet /\ all'.msgs = all.msgs
      BY <1>3, <1>4, <1>5, <2>3
    <3> QED BY <1>1, <3>1 DEF Heard
  <2> QED BY <2>2, <2>3
<1>7. Reach(files'.stats, Behind', quiet', loud')
  <2>1. Behind' \in Nat
    BY <1>1, Times DEF Behind
  <2>2. PICK w, fs : w \in Nat /\ w = Behind' /\ fs = files'.stats
    BY <2>1
  <2>3. Reach(fs, w, quiet, loud) /\ w <= w
    BY <1>1, <2>2
  <2>4. Reach(fs, w, 0, loud)
    BY <1>2, <2>2, <2>3, ReachLater
  <2>5. quiet' = 0 \/ quiet' = quiet
    BY <1>3
  <2> QED BY <2>2, <2>3, <2>4, <2>5
<1>8. quiet' \in Nat /\ loud' \in Nat
  BY <1>2, <1>3
<1>9. since'.stats <= StatsInterval
  BY <1>1, Times
<1> QED BY <1>1, <1>6, <1>7, <1>8, <1>9 DEF HearInv

LEMMA NothingHear ==
    ASSUME CountInv, HearInv, NEW ok \in BOOLEAN, Publish(ok, Due), loud' = loud, NothingHeard(ok)
    PROVE  HearInv'
<1>1. /\ late' \in Nat /\ since'.stats \in Nat /\ since'.stats < StatsInterval
      /\ Reach(files'.stats, Behind', quiet, loud)
      /\ Heard(StNow(ok), all.msgs, quiet, loud)
  BY PublishHear
<1>2. st' = StNow(ok) /\ quiet' = quiet /\ all'.msgs = all.msgs
  <2>1. PICK ms, f, x, o, p : all = CountRec(ms, f, x, o, p)
    BY DEF CountInv, Adds, CountShape
  <2>2. all'.msgs = all.msgs
    BY <2>1 DEF NothingHeard, CountRec
  <2> QED BY <2>2 DEF NothingHeard
<1>3. since'.stats <= StatsInterval
  BY <1>1, Times
<1> QED BY <1>1, <1>2, <1>3 DEF HearInv

LEMMA FinishHear ==
    ASSUME CountInv, HearInv, NEW ok \in BOOLEAN, Finish(ok)
    PROVE  HearInv'
<1>1. /\ st' = Reported(st, ok) /\ UNCHANGED <<all, quiet, loud, since, ran>>
      /\ files'.stats = IF ok THEN [have |-> TRUE, st |-> st] ELSE files.stats
      /\ late' = IF ok THEN 0 ELSE late + 1
  BY DEF Finish, Published, Replaced
<1>2. Heard(st', all.msgs, quiet, loud)
  <2>1. NewWindow(st) = StRec(0, st.have, st.ago, 0, 0, 0, 0, ZeroedRows(st.pgns), ZeroedRows(st.types))
    BY NewWindowShape DEF CountInv, Adds
  <2>2. NewWindow(st).have = st.have /\ NewWindow(st).ago = st.ago
    BY <2>1 DEF StRec
  <2>3. st'.have = st.have /\ st'.ago = st.ago
    BY <1>1, <2>2 DEF Reported
  <2> QED BY <2>3 DEF HearInv, Heard
<1>3. late \in Nat /\ since.stats \in Nat /\ quiet \in Nat /\ loud \in Nat
  BY DEF HearInv
<1>4. CASE ok
  <2>1. late' = 0 /\ Behind' = since.stats
    <3>1. late' = 0 /\ since' = since
      BY <1>1, <1>4
    <3>2. Behind' = (0 * StatsInterval) + since.stats
      BY <3>1 DEF Behind
    <3> QED BY <1>3, <3>1, <3>2, Times
  <2>2. PICK fs : fs = files'.stats
    OBVIOUS
  <2>3. fs = [have |-> TRUE, st |-> st] /\ Heard(st, all.msgs, quiet, loud)
    BY <1>1, <1>4, <2>2 DEF HearInv
  <2>4. Reach(fs, since.stats, quiet, loud)
    BY <1>3, <2>3, ReachFresh
  <2> QED BY <1>1, <1>2, <1>3, <2>1, <2>2, <2>4 DEF HearInv
<1>5. CASE ~ ok
  <2>1. late' = late + 1 /\ files'.stats = files.stats
    BY <1>1, <1>5
  <2>2. Behind' = ((late + 1) * StatsInterval) + since.stats
    BY <1>1, <2>1 DEF Behind
  <2> DEFINE w == (late * StatsInterval) + since.stats
             v == ((late + 1) * StatsInterval) + since.stats
  <2>3. w \in Nat /\ v \in Nat /\ w <= v
    BY <1>3, Times
  <2>4. Reach(files.stats, w, quiet, loud)
    BY DEF HearInv, Behind
  <2> HIDE DEF w, v
  <2>5. Reach(files.stats, v, quiet, loud)
    BY <1>3, <2>3, <2>4, ReachLater
  <2>6. Behind' = v /\ late' \in Nat
    BY <1>3, <2>1, <2>2 DEF v
  <2> QED BY <1>1, <1>2, <2>1, <2>5, <2>6 DEF HearInv
<1> QED BY <1>4, <1>5

LEMMA TickHear == ASSUME CountInv, HearInv, Tick PROVE HearInv'
<1>1. /\ st' = Aged(st) /\ since' = [sources |-> since.sources + 1, stats |-> since.stats + 1]
      /\ quiet' = quiet + 1 /\ ran' = FALSE /\ UNCHANGED <<all, files, late>>
      /\ loud' = IF all.msgs > 0 /\ quiet + 1 <= DeadAge THEN loud + 1 ELSE 0
      /\ ran
  BY DEF Tick, Blocked, PollWakes
<1>2. /\ quiet \in Nat /\ loud \in Nat /\ late \in Nat /\ since.stats \in Nat /\ since.stats < StatsInterval
      /\ all.msgs \in Nat /\ Heard(st, all.msgs, quiet, loud) /\ StShape(st)
  BY <1>1 DEF HearInv, CountInv, Adds
<1>3. MaxAge \in Nat /\ DeadAge \in Nat
  BY StatsAssumption, MainLoopAssumption
<1>4. Heard(st', all.msgs, quiet + 1, loud')
  <2> DEFINE older == IF st.have /\ st.ago < MaxAge THEN st.ago + 1 ELSE st.ago
  <2>1. Aged(st) = StRec(st.window + 1, st.have, older, st.msgs, st.frames, st.measured,
                         st.sent, st.pgns, st.types)
    BY <1>2, AgedShape
  <2>2. st.have => older = Least(quiet + 1, MaxAge)
    BY <1>2, <1>3 DEF Heard, Least
  <2> HIDE DEF older
  <2>3. st'.have = st.have /\ st'.ago = older
    BY <1>1, <2>1 DEF StRec
  <2>4. PICK l : l = loud'
    OBVIOUS
  <2>5. l > 0 => (all.msgs > 0 /\ quiet + 1 <= DeadAge)
    BY <1>1, <2>4
  <2> QED BY <1>2, <2>2, <2>3, <2>4, <2>5 DEF Heard
<1>5. Reach(files.stats, Behind', quiet + 1, loud')
  <2>1. Behind \in Nat /\ since'.stats = since.stats + 1
    BY <1>1, <1>2, Times DEF Behind
  <2>2. Behind' = (late * StatsInterval) + (since.stats + 1)
    BY <1>1, <2>1 DEF Behind
  <2>3. Behind' = Behind + 1
    BY <1>2, <2>2, Times DEF Behind
  <2>4. PICK k \in {0, loud + 1} : k = loud'
    BY <1>1
  <2>5. PICK w \in Nat : w = Behind
    BY <2>1
  <2>6. Reach(files.stats, w, quiet, loud)
    BY <2>5 DEF HearInv
  <2>7. Reach(files.stats, w + 1, quiet + 1, k)
    BY <1>2, <2>6, ReachTick
  <2> QED BY <2>3, <2>4, <2>5, <2>7
<1>6. quiet' \in Nat /\ loud' \in Nat /\ since'.stats \in Nat /\ since'.stats <= StatsInterval
  BY <1>1, <1>2, Times
<1> QED BY <1>1, <1>2, <1>4, <1>5, <1>6 DEF HearInv

LEMMA InitHear == Init => HearInv
<1> SUFFICES ASSUME Init PROVE HearInv
  OBVIOUS
<1>1. /\ st.have = FALSE /\ all.msgs = 0 /\ quiet = 0 /\ loud = 0 /\ late = 0
      /\ since.stats = 0 /\ ran = FALSE /\ files.stats.have = FALSE
  BY DEF Init, StatsInit, NoCount, NoFile
<1>2. StatsInterval \in Nat \ {0} /\ Behind = 0
  BY <1>1, MainLoopAssumption, Times DEF Behind
<1>3. Heard(st, all.msgs, quiet, loud)
  <2>1. st.have \in BOOLEAN /\ ~ st.have
    BY <1>1, Zenon
  <2> QED BY <1>1, <2>1 DEF Heard
<1>4. Reach(files.stats, Behind, quiet, loud)
  BY <1>1, <1>2 DEF Reach
<1> QED BY <1>1, <1>2, <1>3, <1>4 DEF HearInv

LEMMA NextHear == ASSUME CountInv, HearInv, [Next]_vars PROVE HearInv'
<1>1. CASE UNCHANGED <<st, all, quiet, loud, late, since, ran, files>>
  BY <1>1 DEF HearInv, Behind
<1>2. CASE \/ UNCHANGED vars \/ UpstreamEnds \/ ReaderLeaves \/ FrameArrives
           \/ \E k \in 1..Len(FeedText) : Write(k)
  <2>1. UNCHANGED <<st, all, quiet, loud, late, since, ran, files>>
    BY <1>2 DEF vars, history, UpstreamEnds, ReaderLeaves, FrameArrives, Write
  <2> QED BY <1>1, <2>1
<1>3. CASE Turn
  <2>1. PICK ok \in BOOLEAN : TakeLine(ok) \/ AtEof(ok) \/ Poll(ok)
    BY <1>3 DEF Turn
  <2>2. Publish(ok, Due) /\ loud' = loud
    BY <2>1 DEF TakeLine, AtEof, Poll
  <2>3. NothingHeard(ok) \/ \E m : \E d \in Decisions(m) : Handle(m, d, ok)
    BY <2>1 DEF TakeLine, AtEof, Poll, Understood
  <2> QED BY <2>2, <2>3, NothingHear, HandleHear
<1> QED BY <1>2, <1>3, FinishHear, TickHear DEF Next

LEMMA HearInvDead == HearInv => DeadShown
<1> SUFFICES ASSUME HearInv PROVE DeadShown
  OBVIOUS
<1> DEFINE x == late * StatsInterval
           lag == (late + 1) * StatsInterval
           w == x + since.stats
<1>1. /\ x \in Nat /\ lag = x + StatsInterval /\ StatsInterval \in Nat
      /\ quiet \in Nat /\ loud \in Nat /\ since.stats \in Nat /\ since.stats <= StatsInterval
      /\ Reach(files.stats, w, quiet, loud)
  BY Times DEF HearInv, Behind
<1>2. MaxAge \in Nat /\ DeadAge \in Nat /\ DeadAge < MaxAge
  BY StatsAssumption, MainLoopAssumption
<1> HIDE DEF x, lag
<1>3. ASSUME quiet > DeadAge + lag PROVE Banner
  <2>1. quiet > w /\ Least(quiet - w, MaxAge) > DeadAge /\ Least(quiet - w, MaxAge) \in Nat
    BY <1>1, <1>2, <1>3 DEF Least
  <2> HIDE DEF w
  <2>2. (files.stats.have /\ files.stats.st.have)
           => (files.stats.st.ago \in Nat /\ files.stats.st.ago >= Least(quiet - w, MaxAge))
    BY <1>1, <2>1 DEF Reach
  <2> QED BY <1>2, <2>1, <2>2 DEF Banner
<1>4. ASSUME loud > lag PROVE ~ Banner
  <2>1. loud > w
    BY <1>1, <1>4
  <2> HIDE DEF w
  <2> QED BY <1>1, <1>2, <2>1 DEF Reach, Banner
<1> QED BY <1>3, <1>4 DEF DeadShown, lag

(* The page shows that the stream is dead when nothing came for longer     *)
(* than DeadAge and the time of the reports since, and shows it no more    *)
(* when messages have come for as long (stats_write, updateLoad).          *)
THEOREM DeadStreamShown ==
    ASSUME SentencesAreSeq
    PROVE  Spec => []DeadShown
<1>1. CountInv /\ HearInv /\ [Next]_vars => CountInv' /\ HearInv'
  BY NextCount, NextHear
<1> QED BY <1>1, InitCount, InitHear, HearInvDead, PTL DEF Spec

-----------------------------------------------------------------------------
(* The map of the bus.                                                     *)
EntryRec(f, r, a, n) == [flow |-> f, result |-> r, ago |-> a, name |-> n]

EntryShape(e) == \E f, r, n : \E a \in Nat : e = EntryRec(f, r, a, n)

FlowRec(a, r, n, c) == [ago |-> a, result |-> r, name |-> n, crowd |-> c]

FlowShape(h) == \E r, n, c : \E a \in Nat : h = FlowRec(a, r, n, c)

IsMap(mp) ==
    /\ \E K : mp \in Seq(K)
    /\ \A i \in DOMAIN mp : EntryShape(mp[i])

AreFlows(fl) == IsFiniteSet(DOMAIN fl) /\ \A f \in DOMAIN fl : FlowShape(fl[f])

(* What an entry says is what was heard.                                   *)
Tells(e, fl) ==
    /\ e.flow \in DOMAIN fl
    /\ e.ago = fl[e.flow].ago /\ e.result = fl[e.flow].result
    /\ fl[e.flow].name # NoName => e.name = fl[e.flow].name

(* The map mp of the flows fl has one entry at most for each, and one of   *)
(* each that was heard lately and had room when it was.                    *)
MapOf(mp, fl) ==
    /\ IsMap(mp) /\ AreFlows(fl)
    /\ \A i \in DOMAIN mp : Tells(mp[i], fl)
    /\ \A i, j \in DOMAIN mp : mp[i].flow = mp[j].flow => i = j
    /\ \A f \in DOMAIN fl :
          (fl[f].ago <= MapKeep /\ fl[f].crowd < MapMax) => \E i \in DOMAIN mp : mp[i].flow = f

(* No entry is older than that.                                            *)
Within(mp, age) == \A i \in DOMAIN mp : mp[i].ago <= age

MapInv ==
    /\ since.sources \in Nat /\ since.sources <= SourcesInterval
    /\ ran => since.sources < SourcesInterval
    /\ MapOf(map, flows)
    /\ Within(map, MapKeep + since.sources)

LEMMA EntryFields ==
    ASSUME NEW e, EntryShape(e)
    PROVE  e = EntryRec(e.flow, e.result, e.ago, e.name) /\ e.ago \in Nat
<1>1. PICK f, r, n : \E a \in Nat : e = EntryRec(f, r, a, n)
  BY DEF EntryShape
<1>2. PICK a \in Nat : e = EntryRec(f, r, a, n)
  BY <1>1
<1>3. e.flow = f /\ e.result = r /\ e.ago = a /\ e.name = n
  BY <1>2 DEF EntryRec
<1> QED BY <1>2, <1>3

LEMMA FlowFields ==
    ASSUME NEW h, FlowShape(h)
    PROVE  h = FlowRec(h.ago, h.result, h.name, h.crowd) /\ h.ago \in Nat
<1>1. PICK r, n, c : \E a \in Nat : h = FlowRec(a, r, n, c)
  BY DEF FlowShape
<1>2. PICK a \in Nat : h = FlowRec(a, r, n, c)
  BY <1>1
<1>3. h.result = r /\ h.ago = a /\ h.name = n /\ h.crowd = c
  BY <1>2 DEF FlowRec
<1> QED BY <1>2, <1>3

LEMMA MapIndices ==
    ASSUME NEW mp, IsMap(mp)
    PROVE  /\ DOMAIN mp = 1..Len(mp) /\ Len(mp) \in Nat
           /\ \A i \in DOMAIN mp : EntryShape(mp[i]) /\ mp[i].ago \in Nat
<1>1. PICK K : mp \in Seq(K)
  BY DEF IsMap
<1> QED BY <1>1, EntryFields DEF IsMap

LEMMA PlaceOfSpec ==
    ASSUME NEW mp, IsMap(mp), NEW f
    PROVE  \/ PlaceOf(mp, f) = NoSlot /\ \A i \in DOMAIN mp : mp[i].flow # f
           \/ PlaceOf(mp, f) \in DOMAIN mp /\ PlaceOf(mp, f) # NoSlot /\ mp[PlaceOf(mp, f)].flow = f
<1> DEFINE S == {i \in DOMAIN mp : mp[i].flow = f}
<1>1. DOMAIN mp \subseteq Nat \ {0}
  BY MapIndices
<1>2. PlaceOf(mp, f) = FirstOr0(S) /\ S \in SUBSET (Nat \ {0})
  BY <1>1 DEF PlaceOf
<1>3. \/ S = {} /\ FirstOr0(S) = NoSlot
      \/ FirstOr0(S) \in S /\ FirstOr0(S) # NoSlot
  BY <1>2, FirstOr0Scan
<1> QED BY <1>2, <1>3

(* What is left of a map after it was pruned.                              *)
LEMMA PrunedSpec ==
    ASSUME NEW mp, NEW fl, MapOf(mp, fl)
    PROVE  /\ MapOf(Pruned(mp), fl)
           /\ Within(Pruned(mp), MapKeep)
<1> DEFINE I == {i \in DOMAIN mp : mp[i].ago <= MapKeep}
           p == Pruned(mp)
           c == Cardinality(I)
<1>1. PICK K : mp \in Seq(K)
  BY DEF MapOf, IsMap
<1>2. DOMAIN mp = 1..Len(mp) /\ Len(mp) \in Nat /\ I \in SUBSET (1..Len(mp))
  BY MapIndices DEF MapOf
<1>3. p = Selected(mp, I)
  BY DEF Pruned
<1> HIDE DEF I, p
<1>4. /\ c \in Nat /\ p \in Seq(K) /\ Len(p) = c
      /\ \E g \in [1..c -> I] : /\ \A k \in 1..c : p[k] = mp[g[k]]
                                /\ \A i \in I : \E k \in 1..c : g[k] = i
                                /\ \A k, l \in 1..c : k < l => g[k] < g[l]
  BY <1>1, <1>2, <1>3, SelectedSpec
<1> HIDE DEF c
<1>5. PICK g \in [1..c -> I] : /\ \A k \in 1..c : p[k] = mp[g[k]]
                               /\ \A i \in I : \E k \in 1..c : g[k] = i
                               /\ \A k, l \in 1..c : k < l => g[k] < g[l]
  BY <1>4
<1>6. DOMAIN p = 1..c /\ \A k \in 1..c : k \in Nat /\ g[k] \in I /\ g[k] \in DOMAIN mp /\ g[k] \in Nat
  <2>1. c \in Nat /\ p \in Seq(K) /\ Len(p) = c
    BY <1>4
  <2>2. DOMAIN p = 1..c
    BY <2>1
  <2>3. \A i \in I : i \in DOMAIN mp /\ i \in Nat
    BY <1>2
  <2>4. \A k \in 1..c : k \in Nat /\ g[k] \in I
    BY <2>1, <1>5
  <2> QED BY <2>2, <2>3, <2>4
<1>7. IsMap(p) /\ \A k \in DOMAIN p : Tells(p[k], fl) /\ p[k].ago <= MapKeep
  <2>1. \A k \in DOMAIN p : p[k] = mp[g[k]] /\ g[k] \in I /\ g[k] \in DOMAIN mp
    BY <1>5, <1>6
  <2>2. \A i \in I : mp[i].ago <= MapKeep
    BY DEF I
  <2>3. \A i \in DOMAIN mp : EntryShape(mp[i]) /\ Tells(mp[i], fl)
    BY MapIndices DEF MapOf
  <2>4. p \in Seq(K)
    BY <1>4
  <2>5. IsMap(p)
    BY <2>1, <2>3, <2>4 DEF IsMap
  <2> QED BY <2>1, <2>2, <2>3, <2>5
<1>8. ASSUME NEW k \in DOMAIN p, NEW l \in DOMAIN p, p[k].flow = p[l].flow PROVE k = l
  <2>1. g[k] = g[l]
    BY <1>5, <1>6, <1>8 DEF MapOf
  <2>2. ~ (k < l) /\ ~ (l < k)
    BY <1>5, <1>6, <2>1
  <2> QED BY <1>6, <2>2
<1>9. ASSUME NEW f \in DOMAIN fl, fl[f].ago <= MapKeep, fl[f].crowd < MapMax
      PROVE  \E k \in DOMAIN p : p[k].flow = f
  <2>1. PICK i \in DOMAIN mp : mp[i].flow = f
    BY <1>9 DEF MapOf
  <2>2. mp[i].ago = fl[f].ago
    BY <2>1 DEF MapOf, Tells
  <2>3. i \in I
    BY <1>9, <2>2 DEF I
  <2> QED BY <1>5, <1>6, <2>1, <2>3
<1>10. MapOf(p, fl)
  BY <1>7, <1>8, <1>9 DEF MapOf
<1> QED BY <1>7, <1>10 DEF Within, p

(* It is what the page has to see.                                         *)
LEMMA PrunedShown ==
    ASSUME NEW mp, MapOf(mp, flows)
    PROVE  MapIsTrue(MapShown(Pruned(mp)))
<1> DEFINE p == Pruned(mp)
           shown == MapShown(p)
           Seen(i) == [flow |-> p[i].flow, result |-> p[i].result, name |-> p[i].name,
                       alive |-> p[i].ago <= MapAlive]
<1>1. MapOf(p, flows) /\ Within(p, MapKeep)
  BY PrunedSpec
<1>2. shown = {Seen(i) : i \in DOMAIN p}
  BY DEF MapShown
<1>3. \A i : /\ Seen(i).flow = p[i].flow /\ Seen(i).result = p[i].result
             /\ Seen(i).name = p[i].name /\ Seen(i).alive = (p[i].ago <= MapAlive)
  OBVIOUS
<1> HIDE DEF Seen, shown, p
<1>4. ASSUME NEW e \in shown
      PROVE  /\ e.flow \in DOMAIN flows
             /\ flows[e.flow].ago <= MapKeep
             /\ e.result = flows[e.flow].result
             /\ flows[e.flow].name # NoName => e.name = flows[e.flow].name
             /\ e.alive <=> flows[e.flow].ago <= MapAlive
             /\ \A g \in shown : g.flow = e.flow => g = e
  <2>1. PICK i \in DOMAIN p : e = Seen(i)
    BY <1>2
  <2>2. Tells(p[i], flows) /\ p[i].ago <= MapKeep
    BY <1>1 DEF MapOf, Within
  <2>3. ASSUME NEW h \in shown, h.flow = e.flow PROVE h = e
    <3>1. PICK j \in DOMAIN p : h = Seen(j)
      BY <1>2
    <3>2. i = j
      BY <1>1, <1>3, <2>1, <2>3, <3>1 DEF MapOf
    <3> QED BY <2>1, <3>1, <3>2
  <2>4. e.flow = p[i].flow /\ e.result = p[i].result /\ e.name = p[i].name
        /\ e.alive = (p[i].ago <= MapAlive)
    BY <1>3, <2>1
  <2> QED BY <2>2, <2>3, <2>4 DEF Tells
<1>5. ASSUME NEW f \in DOMAIN flows, flows[f].ago <= MapKeep, flows[f].crowd < MapMax
      PROVE  \E e \in shown : e.flow = f
  <2>1. PICK i \in DOMAIN p : p[i].flow = f
    BY <1>1, <1>5 DEF MapOf
  <2> QED BY <1>2, <1>3, <2>1
<1> QED BY <1>4, <1>5 DEF MapIsTrue, shown, p

(* A flow that finds no room in the map has as many others beside it.      *)
LEMMA NoRoomIsCrowd ==
    ASSUME NEW mp, MapOf(mp, flows), NEW w \in Nat, w < MapKeep + SourcesInterval, Within(mp, w),
           NEW f, \A i \in DOMAIN mp : mp[i].flow # f
    PROVE  Crowd(f) \in Nat /\ Len(mp) <= Crowd(f)
<1> DEFINE n == Len(mp)
           G == {g \in DOMAIN flows \ {f} : flows[g].ago < MapKeep + SourcesInterval}
           h == [i \in 1..n |-> mp[i].flow]
<1>1. DOMAIN mp = 1..n /\ n \in Nat /\ \A i \in 1..n : mp[i].ago \in Nat
  BY MapIndices DEF MapOf
<1>2. ASSUME NEW i \in 1..n PROVE mp[i].flow \in G
  <2>1. Tells(mp[i], flows) /\ mp[i].flow # f /\ mp[i].ago <= w /\ mp[i].ago \in Nat
    BY <1>1 DEF MapOf, Within
  <2>2. MapKeep + SourcesInterval \in Nat
    BY BusMapAssumption, MainLoopAssumption
  <2>3. flows[mp[i].flow].ago < MapKeep + SourcesInterval
    BY <2>1, <2>2 DEF Tells
  <2> QED BY <2>1, <2>3 DEF Tells
<1>3. IsFiniteSet(G)
  <2>1. G \in SUBSET (DOMAIN flows) /\ IsFiniteSet(DOMAIN flows)
    BY DEF MapOf, AreFlows
  <2> HIDE DEF G
  <2> QED BY <2>1, FS_Subset
<1>4. h \in Injection(1..n, G)
  <2>1. \A i, j \in 1..n : h[i] = h[j] => i = j
    BY <1>1 DEF MapOf
  <2>2. h \in [1..n -> G]
    BY <1>2
  <2> HIDE DEF h, n, G
  <2> QED BY <2>1, <2>2 DEF Injection, IsInjective
<1>5. Cardinality(1..n) = n
  <2> HIDE DEF n
  <2>1. n \in Int /\ 1 \in Int /\ (1 > n => n = 0) /\ n - 1 + 1 = n
    BY <1>1
  <2> QED BY <2>1, FS_Interval
<1>6. Cardinality(1..n) <= Cardinality(G) /\ Cardinality(G) \in Nat
  <2> HIDE DEF h, n, G
  <2> QED BY <1>3, <1>4, FS_Injection, FS_CardinalityType
<1> QED BY <1>5, <1>6 DEF Crowd

SaidAt(mp, i, r, n) == [mp EXCEPT ![i].result = r, ![i].ago = 0, ![i].name = n]

LEMMA EntrySaid ==
    ASSUME NEW mp, NEW i \in DOMAIN mp, EntryShape(mp[i]), NEW r, NEW n,
           NEW e2, e2 = EntryRec(mp[i].flow, r, 0, n)
    PROVE  SaidAt(mp, i, r, n) = [mp EXCEPT ![i] = e2]
<1> DEFINE e == mp[i]
           one == EntryRec(e.flow, r, e.ago, e.name)
           two == EntryRec(e.flow, r, 0, e.name)
           three == EntryRec(e.flow, r, 0, n)
<1>1. e = EntryRec(e.flow, e.result, e.ago, e.name)
  BY EntryFields
<1>2. [e EXCEPT !.result = r] = one
  <2>1. PICK a, b, c, x : e = EntryRec(a, b, c, x)
    BY <1>1
  <2>2. e.flow = a /\ e.ago = c /\ e.name = x
    BY <2>1 DEF EntryRec
  <2> HIDE DEF e
  <2>3. [e EXCEPT !.result = r] = EntryRec(a, r, c, x)
    BY <2>1 DEF EntryRec
  <2> QED BY <2>2, <2>3
<1>3. [one EXCEPT !.ago = 0] = two /\ [two EXCEPT !.name = n] = three
  BY DEF EntryRec
<1> HIDE DEF one, two, three
<1> DEFINE first == [mp EXCEPT ![i] = one]
           second == [mp EXCEPT ![i] = two]
<1>4. [mp EXCEPT ![i].result = r] = first
  BY <1>2
<1>5. [first EXCEPT ![i].ago = 0] = second
  BY <1>3
<1>6. [second EXCEPT ![i].name = n] = [mp EXCEPT ![i] = three]
  BY <1>3
<1> HIDE DEF first, second
<1>7. SaidAt(mp, i, r, n)
        = [[[mp EXCEPT ![i].result = r] EXCEPT ![i].ago = 0] EXCEPT ![i].name = n]
  BY DEF SaidAt
<1> QED BY <1>4, <1>5, <1>6, <1>7 DEF three, e

(* The flows after one of them was heard.                                  *)
AreHeard(hf, f, d) ==
    /\ AreFlows(hf) /\ DOMAIN hf = DOMAIN flows \cup {f}
    /\ hf[f].ago = 0 /\ hf[f].result = d.result /\ hf[f].name = d.name /\ hf[f].crowd = Crowd(f)
    /\ \A g \in DOMAIN flows : g # f => hf[g] = flows[g]

LEMMA HeardFlowSpec ==
    ASSUME NEW f, NEW d, AreFlows(flows)
    PROVE  AreHeard(HeardFlow(f, d), f, d)
<1> DEFINE hf == HeardFlow(f, d)
           said == FlowRec(0, d.result, d.name, Crowd(f))
<1>1. hf = [g \in DOMAIN flows \cup {f} |-> IF g = f THEN said ELSE flows[g]]
  BY DEF HeardFlow, FlowRec
<1>2. FlowShape(said)
  BY DEF FlowShape
<1>3. said.ago = 0 /\ said.result = d.result /\ said.name = d.name /\ said.crowd = Crowd(f)
  BY DEF FlowRec
<1> HIDE DEF hf, said
<1>4. /\ DOMAIN hf = DOMAIN flows \cup {f} /\ hf[f] = said
      /\ \A g \in DOMAIN flows : g # f => hf[g] = flows[g]
  BY <1>1
<1>5. IsFiniteSet(DOMAIN flows \cup {f})
  BY FS_AddElement DEF AreFlows
<1>6. AreFlows(hf)
  BY <1>2, <1>4, <1>5 DEF AreFlows
<1>7. AreHeard(hf, f, d)
  BY <1>3, <1>4, <1>6 DEF AreHeard
<1> QED BY <1>7 DEF hf

LEMMA MappedSpec ==
    ASSUME NEW mp, MapOf(mp, flows), NEW w \in Nat, w < MapKeep + SourcesInterval, Within(mp, w),
           NEW f, NEW d, Mappable(f, d)
    PROVE  MapOf(Mapped(mp, f, d), HeardFlow(f, d)) /\ Within(Mapped(mp, f, d), w)
<1> DEFINE i0 == PlaceOf(mp, f)
           new == Mapped(mp, f, d)
           hf == HeardFlow(f, d)
<1>1. PICK K : mp \in Seq(K)
  BY DEF MapOf, IsMap
<1>2. DOMAIN mp = 1..Len(mp) /\ Len(mp) \in Nat /\ \A i \in DOMAIN mp : EntryShape(mp[i]) /\ mp[i].ago \in Nat
  BY MapIndices DEF MapOf
<1>3. \/ i0 = NoSlot /\ \A i \in DOMAIN mp : mp[i].flow # f
      \/ i0 \in DOMAIN mp /\ i0 # NoSlot /\ mp[i0].flow = f
  BY PlaceOfSpec DEF MapOf
<1>4. new = IF i0 # NoSlot
            THEN [mp EXCEPT ![i0].result = d.result, ![i0].ago = 0,
                            ![i0].name = IF d.name = NoName THEN @ ELSE d.name]
            ELSE IF Len(mp) >= MapMax THEN mp
            ELSE Append(mp, EntryRec(f, d.result, 0, d.name))
  BY DEF Mapped, EntryRec
<1>5. /\ AreFlows(hf) /\ DOMAIN hf = DOMAIN flows \cup {f}
      /\ hf[f].ago = 0 /\ hf[f].result = d.result /\ hf[f].name = d.name /\ hf[f].crowd = Crowd(f)
      /\ \A g \in DOMAIN flows : g # f => hf[g] = flows[g]
  <2>1. AreFlows(flows)
    BY DEF MapOf
  <2>2. AreHeard(hf, f, d)
    BY <2>1, HeardFlowSpec
  <2> HIDE DEF hf
  <2> QED BY <2>2 DEF AreHeard
<1> HIDE DEF i0, new, hf
<1>6. ASSUME NEW e, Tells(e, flows), e.flow # f PROVE Tells(e, hf)
  BY <1>5, <1>6 DEF Tells
<1>7. CASE i0 \in DOMAIN mp /\ i0 # NoSlot /\ mp[i0].flow = f
  <2> DEFINE nm == IF d.name = NoName THEN mp[i0].name ELSE d.name
             e == EntryRec(f, d.result, 0, nm)
  <2>1. new = [mp EXCEPT ![i0].result = d.result, ![i0].ago = 0, ![i0].name = nm]
    BY <1>4, <1>7
  <2>2. EntryShape(e) /\ e.flow = f /\ e.result = d.result /\ e.ago = 0 /\ e.name = nm
    <3> HIDE DEF nm
    <3> QED BY DEF EntryShape, EntryRec
  <2>3. d.name # NoName => nm = d.name
    OBVIOUS
  <2> HIDE DEF nm
  <2>4. new = SaidAt(mp, i0, d.result, nm)
    BY <2>1 DEF SaidAt
  <2>5. e = EntryRec(mp[i0].flow, d.result, 0, nm) /\ EntryShape(mp[i0])
    BY <1>2, <1>7
  <2>6. new = [mp EXCEPT ![i0] = e]
    <3> HIDE DEF e
    <3> QED BY <1>7, <2>4, <2>5, EntrySaid
  <2> HIDE DEF e
  <2>7. /\ new \in Seq(K \cup {e}) /\ DOMAIN new = DOMAIN mp /\ new[i0] = e
        /\ \A i \in DOMAIN mp : i # i0 => new[i] = mp[i]
    BY <1>1, <1>2, <1>7, <2>6
  <2>8. \A i \in DOMAIN mp : i # i0 => mp[i].flow # f
    BY <1>7 DEF MapOf
  <2>9. IsMap(new)
    BY <1>2, <2>2, <2>7 DEF IsMap
  <2>10. \A i \in DOMAIN new : Tells(new[i], hf)
    <3>1. Tells(e, hf)
      BY <1>5, <2>2, <2>3 DEF Tells
    <3> QED BY <1>6, <2>7, <2>8, <3>1 DEF MapOf
  <2>11. \A i, j \in DOMAIN new : new[i].flow = new[j].flow => i = j
    BY <2>2, <2>7, <2>8 DEF MapOf
  <2>12. ASSUME NEW g \in DOMAIN hf, hf[g].ago <= MapKeep, hf[g].crowd < MapMax
         PROVE  \E i \in DOMAIN new : new[i].flow = g
    <3>1. CASE g = f
      BY <1>7, <2>2, <2>7, <3>1
    <3>2. CASE g # f
      <4>1. g \in DOMAIN flows /\ hf[g] = flows[g]
        BY <1>5, <3>2
      <4>2. PICK i \in DOMAIN mp : mp[i].flow = g
        BY <2>12, <4>1 DEF MapOf
      <4> QED BY <1>7, <2>7, <3>2, <4>2
    <3> QED BY <3>1, <3>2
  <2>13. Within(new, w)
    BY <2>2, <2>7 DEF Within
  <2>14. MapOf(new, hf)
    BY <1>5, <2>9, <2>10, <2>11, <2>12 DEF MapOf
  <2> QED BY <2>13, <2>14 DEF new, hf
<1>8. CASE i0 = NoSlot /\ (\A i \in DOMAIN mp : mp[i].flow # f) /\ Len(mp) >= MapMax
  <2>1. new = mp
    BY <1>4, <1>8
  <2>2. \A i \in DOMAIN new : Tells(new[i], hf)
    BY <1>6, <1>8, <2>1 DEF MapOf
  <2>3. ~ (hf[f].crowd < MapMax)
    <3>1. Crowd(f) \in Nat /\ Len(mp) <= Crowd(f)
      BY <1>8, NoRoomIsCrowd
    <3>2. MapMax \in Nat
      BY BusMapAssumption
    <3> QED BY <1>2, <1>5, <1>8, <3>1, <3>2
  <2>4. ASSUME NEW g \in DOMAIN hf, hf[g].ago <= MapKeep, hf[g].crowd < MapMax
        PROVE  \E i \in DOMAIN new : new[i].flow = g
    <3>1. g # f
      BY <2>3, <2>4
    <3>2. g \in DOMAIN flows /\ hf[g] = flows[g]
      BY <1>5, <3>1
    <3> QED BY <2>1, <2>4, <3>2 DEF MapOf
  <2>5. MapOf(new, hf)
    BY <1>5, <2>1, <2>2, <2>4 DEF MapOf
  <2> QED BY <2>1, <2>5 DEF new, hf
<1>9. CASE i0 = NoSlot /\ (\A i \in DOMAIN mp : mp[i].flow # f) /\ ~ (Len(mp) >= MapMax)
  <2> DEFINE e == EntryRec(f, d.result, 0, d.name)
             n == Len(mp) + 1
  <2>1. new = Append(mp, e)
    BY <1>4, <1>9
  <2>2. EntryShape(e) /\ e.flow = f /\ e.result = d.result /\ e.ago = 0 /\ e.name = d.name
    BY DEF EntryShape, EntryRec
  <2> HIDE DEF e
  <2>3. /\ new \in Seq(K \cup {e}) /\ DOMAIN new = 1..n /\ new[n] = e
        /\ \A i \in DOMAIN mp : new[i] = mp[i]
    BY <1>1, <1>2, <2>1
  <2>4. /\ \A i \in DOMAIN new : i \in DOMAIN mp \/ i = n
        /\ \A i \in DOMAIN mp : i \in DOMAIN new
        /\ n \in DOMAIN new
    BY <1>2, <2>3
  <2> HIDE DEF n
  <2>5. IsMap(new)
    BY <1>2, <2>2, <2>3, <2>4 DEF IsMap
  <2>6. \A i \in DOMAIN new : Tells(new[i], hf)
    <3>1. Tells(e, hf)
      BY <1>5, <2>2 DEF Tells
    <3> QED BY <1>6, <1>9, <2>3, <2>4, <3>1 DEF MapOf
  <2>7. \A i, j \in DOMAIN new : new[i].flow = new[j].flow => i = j
    BY <1>9, <2>2, <2>3, <2>4 DEF MapOf
  <2>8. ASSUME NEW g \in DOMAIN hf, hf[g].ago <= MapKeep, hf[g].crowd < MapMax
        PROVE  \E i \in DOMAIN new : new[i].flow = g
    <3>1. CASE g = f
      BY <2>2, <2>3, <2>4, <3>1
    <3>2. CASE g # f
      <4>1. g \in DOMAIN flows /\ hf[g] = flows[g]
        BY <1>5, <3>2
      <4>2. PICK i \in DOMAIN mp : mp[i].flow = g
        BY <2>8, <4>1 DEF MapOf
      <4> QED BY <2>3, <2>4, <4>2
    <3> QED BY <3>1, <3>2
  <2>9. Within(new, w)
    BY <2>2, <2>3, <2>4 DEF Within
  <2>10. MapOf(new, hf)
    BY <1>5, <2>5, <2>6, <2>7, <2>8 DEF MapOf
  <2> QED BY <2>9, <2>10 DEF new, hf
<1> QED BY <1>3, <1>7, <1>8, <1>9

FlowsAged(fl) == [f \in DOMAIN fl |-> [fl[f] EXCEPT !.ago = @ + 1]]

LEMMA EntryAged ==
    ASSUME NEW e, EntryShape(e), NEW x, x = [e EXCEPT !.ago = @ + 1]
    PROVE  /\ EntryShape(x) /\ x.ago = e.ago + 1
           /\ x.flow = e.flow /\ x.result = e.result /\ x.name = e.name
<1>1. PICK f, r, n : \E a \in Nat : e = EntryRec(f, r, a, n)
  BY DEF EntryShape
<1>2. PICK a \in Nat : e = EntryRec(f, r, a, n)
  BY <1>1
<1>3. e.flow = f /\ e.result = r /\ e.ago = a /\ e.name = n
  BY <1>2 DEF EntryRec
<1>4. PICK b \in Nat : b = a + 1
  OBVIOUS
<1>5. x = [e EXCEPT !.ago = b]
  BY <1>3, <1>4
<1>6. x = EntryRec(f, r, b, n)
  BY <1>2, <1>5 DEF EntryRec
<1>7. EntryShape(x)
  BY <1>6 DEF EntryShape
<1>8. x.flow = f /\ x.result = r /\ x.ago = b /\ x.name = n
  BY <1>6 DEF EntryRec
<1> QED BY <1>3, <1>4, <1>7, <1>8

LEMMA FlowAged ==
    ASSUME NEW h, FlowShape(h), NEW x, x = [h EXCEPT !.ago = @ + 1]
    PROVE  /\ FlowShape(x) /\ x.ago = h.ago + 1
           /\ x.result = h.result /\ x.name = h.name /\ x.crowd = h.crowd
<1>1. PICK r, n, c : \E a \in Nat : h = FlowRec(a, r, n, c)
  BY DEF FlowShape
<1>2. PICK a \in Nat : h = FlowRec(a, r, n, c)
  BY <1>1
<1>3. h.result = r /\ h.ago = a /\ h.name = n /\ h.crowd = c
  BY <1>2 DEF FlowRec
<1>4. PICK b \in Nat : b = a + 1
  OBVIOUS
<1>5. x = [h EXCEPT !.ago = b]
  BY <1>3, <1>4
<1>6. x = FlowRec(b, r, n, c)
  BY <1>2, <1>5 DEF FlowRec
<1>7. FlowShape(x)
  BY <1>6 DEF FlowShape
<1>8. x.result = r /\ x.ago = b /\ x.name = n /\ x.crowd = c
  BY <1>6 DEF FlowRec
<1> QED BY <1>3, <1>4, <1>7, <1>8

LEMMA AgedSpec ==
    ASSUME NEW mp, NEW fl, MapOf(mp, fl), NEW w \in Nat, Within(mp, w)
    PROVE  MapOf(MapAged(mp), FlowsAged(fl)) /\ Within(MapAged(mp), w + 1)
<1> DEFINE new == MapAged(mp)
           nf == FlowsAged(fl)
<1>1. DOMAIN mp = 1..Len(mp) /\ Len(mp) \in Nat /\ \A i \in DOMAIN mp : EntryShape(mp[i]) /\ mp[i].ago \in Nat
  BY MapIndices DEF MapOf
<1>2. new = [i \in DOMAIN mp |-> [mp[i] EXCEPT !.ago = @ + 1]]
  BY DEF MapAged
<1>3. nf = [f \in DOMAIN fl |-> [fl[f] EXCEPT !.ago = @ + 1]]
  BY DEF FlowsAged
<1> HIDE DEF new, nf
<1>4. ASSUME NEW i \in DOMAIN mp
      PROVE  /\ EntryShape(new[i]) /\ new[i].ago = mp[i].ago + 1
             /\ new[i].flow = mp[i].flow /\ new[i].result = mp[i].result /\ new[i].name = mp[i].name
  <2>1. new[i] = [mp[i] EXCEPT !.ago = @ + 1]
    BY <1>2
  <2>2. PICK e, x : e = mp[i] /\ x = new[i]
    OBVIOUS
  <2>3. EntryShape(e) /\ x = [e EXCEPT !.ago = @ + 1]
    BY <1>1, <2>1, <2>2
  <2>4. /\ EntryShape(x) /\ x.ago = e.ago + 1
        /\ x.flow = e.flow /\ x.result = e.result /\ x.name = e.name
    BY <2>3, EntryAged
  <2> QED BY <2>2, <2>4
<1>5. ASSUME NEW f \in DOMAIN fl
      PROVE  /\ FlowShape(nf[f]) /\ nf[f].ago = fl[f].ago + 1 /\ fl[f].ago \in Nat
             /\ nf[f].result = fl[f].result /\ nf[f].name = fl[f].name /\ nf[f].crowd = fl[f].crowd
  <2>1. nf[f] = [fl[f] EXCEPT !.ago = @ + 1]
    BY <1>3
  <2>2. PICK h, x : h = fl[f] /\ x = nf[f]
    OBVIOUS
  <2>3. FlowShape(h) /\ x = [h EXCEPT !.ago = @ + 1]
    BY <2>1, <2>2 DEF MapOf, AreFlows
  <2>4. /\ FlowShape(x) /\ x.ago = h.ago + 1
        /\ x.result = h.result /\ x.name = h.name /\ x.crowd = h.crowd
    BY <2>3, FlowAged
  <2>5. h.ago \in Nat
    BY <2>3, FlowFields
  <2> QED BY <2>2, <2>4, <2>5
<1>6. DOMAIN new = DOMAIN mp /\ DOMAIN nf = DOMAIN fl
  BY <1>2, <1>3
<1>7. IsMap(new) /\ AreFlows(nf)
  <2>1. \E K : new \in Seq(K)
    <3> DEFINE K == {new[i] : i \in DOMAIN mp}
    <3>1. \A i \in 1..Len(mp) : new[i] \in K
      BY <1>1
    <3>2. new = [i \in 1..Len(mp) |-> new[i]]
      BY <1>1, <1>2
    <3> HIDE DEF K
    <3>3. new \in Seq(K)
      BY <1>1, <3>1, <3>2
    <3> QED BY <3>3
  <2> QED BY <1>4, <1>5, <1>6, <2>1 DEF IsMap, AreFlows, MapOf
<1>8. ASSUME NEW i \in DOMAIN new PROVE Tells(new[i], nf)
  BY <1>4, <1>5, <1>6 DEF MapOf, Tells
<1>9. \A i, j \in DOMAIN new : new[i].flow = new[j].flow => i = j
  BY <1>4, <1>6 DEF MapOf
<1>10. ASSUME NEW f \in DOMAIN nf, nf[f].ago <= MapKeep, nf[f].crowd < MapMax
       PROVE  \E i \in DOMAIN new : new[i].flow = f
  <2>1. f \in DOMAIN fl /\ fl[f].crowd < MapMax
    BY <1>5, <1>6, <1>10
  <2>2. MapKeep \in Nat
    BY BusMapAssumption
  <2>3. fl[f].ago <= MapKeep
    <3>1. fl[f].ago \in Nat /\ fl[f].ago + 1 <= MapKeep
      BY <1>5, <1>10, <2>1
    <3> QED BY <2>2, <3>1
  <2>4. PICK i \in DOMAIN mp : mp[i].flow = f
    BY <2>1, <2>3 DEF MapOf
  <2> QED BY <1>4, <1>6, <2>4
<1>11. ASSUME NEW i \in DOMAIN new PROVE new[i].ago <= w + 1
  <2>1. mp[i].ago \in Nat /\ mp[i].ago <= w /\ new[i].ago = mp[i].ago + 1
    BY <1>1, <1>4, <1>6 DEF Within
  <2> QED BY <2>1
<1>12. MapOf(new, nf)
  BY <1>7, <1>8, <1>9, <1>10 DEF MapOf
<1> QED BY <1>11, <1>12 DEF Within, new, nf

(* The map after the periodic work, and what is published of it.           *)
LEMMA PublishMap ==
    ASSUME MapInv, NEW ok \in BOOLEAN, Publish(ok, Due)
    PROVE  /\ since'.sources \in Nat /\ since'.sources < SourcesInterval
           /\ MapOf(MapNow, flows) /\ Within(MapNow, MapKeep + since'.sources)
           /\ files'.map # files.map => (MapIsTrue(files'.map.shown) /\ files'.sources = seen)
<1>1. since.sources \in Nat /\ MapOf(map, flows) /\ Within(map, MapKeep + since.sources)
      /\ SourcesInterval \in Nat \ {0} /\ MapKeep \in Nat
  BY MainLoopAssumption, BusMapAssumption DEF MapInv
<1>2. since'.sources = IF SourcesDue THEN 0 ELSE since.sources
  BY DEF Publish, SinceThen, Due
<1>3. MapOf(Pruned(map), flows) /\ Within(Pruned(map), MapKeep)
  BY <1>1, PrunedSpec
<1>4. files'.map # files.map => (MapIsTrue(files'.map.shown) /\ files'.sources = seen)
  <2>1. /\ files'.map = IF ok /\ "sources" \in Due THEN [at |-> clock, shown |-> MapShown(Pruned(map))]
                        ELSE files.map
        /\ files'.sources = IF ok /\ "sources" \in Due THEN seen ELSE files.sources
    BY DEF Publish, Published, Replaced
  <2>2. MapIsTrue(MapShown(Pruned(map)))
    BY <1>1, PrunedShown
  <2> HIDE DEF MapIsTrue
  <2>3. ASSUME files'.map # files.map
        PROVE  files'.map = [at |-> clock, shown |-> MapShown(Pruned(map))] /\ files'.sources = seen
    BY <2>1, <2>3
  <2>4. \A x, y, z : z = [at |-> x, shown |-> y] => z.shown = y
    OBVIOUS
  <2>5. ASSUME files'.map # files.map PROVE files'.map.shown = MapShown(Pruned(map))
    BY <2>3, <2>4, <2>5
  <2> QED BY <2>2, <2>3, <2>5
<1>5. CASE SourcesDue
  <2>1. MapNow = Pruned(map) /\ since'.sources = 0 /\ MapKeep + 0 = MapKeep
    BY <1>1, <1>2, <1>5 DEF MapNow
  <2>2. 0 < SourcesInterval
    BY <1>1
  <2> QED BY <1>3, <1>4, <2>1, <2>2
<1>6. CASE ~ SourcesDue
  <2>1. MapNow = map /\ since'.sources = since.sources /\ since.sources < SourcesInterval
    BY <1>1, <1>2, <1>6 DEF MapNow, SourcesDue
  <2> QED BY <1>1, <1>4, <2>1
<1> QED BY <1>5, <1>6

LEMMA HandleMap ==
    ASSUME MapInv, NEW ok \in BOOLEAN, Publish(ok, Due), NEW m, NEW d, Handle(m, d, ok)
    PROVE  MapInv'
<1>1. /\ since'.sources \in Nat /\ since'.sources < SourcesInterval
      /\ MapOf(MapNow, flows) /\ Within(MapNow, MapKeep + since'.sources)
  BY PublishMap
<1>2. SourcesInterval \in Nat /\ MapKeep \in Nat
  BY MainLoopAssumption, BusMapAssumption
<1>3. PICK n \in Nat : n = since'.sources
  BY <1>1
<1> DEFINE f == Flow(m, d)
           w == MapKeep + n
<1>4. w \in Nat /\ w < MapKeep + SourcesInterval /\ n <= SourcesInterval
  BY <1>1, <1>2, <1>3
<1>5. /\ map' = IF m.pgn.has /\ m.src.has THEN Mapped(MapNow, f, d) ELSE MapNow
      /\ flows' = IF m.pgn.has /\ m.src.has /\ Mappable(f, d) THEN HeardFlow(f, d) ELSE flows
  BY DEF Handle
<1> HIDE DEF f
<1>6. MapOf(map', flows') /\ Within(map', w)
  <2>1. CASE m.pgn.has /\ m.src.has /\ Mappable(f, d)
    <3>1. MapOf(Mapped(MapNow, f, d), HeardFlow(f, d)) /\ Within(Mapped(MapNow, f, d), w)
      <4> HIDE DEF w
      <4>1. Within(MapNow, w)
        BY <1>1, <1>3 DEF w
      <4> QED BY <1>1, <1>4, <2>1, <4>1, MappedSpec
    <3>2. map' = Mapped(MapNow, f, d) /\ flows' = HeardFlow(f, d)
      BY <1>5, <2>1
    <3> QED BY <3>1, <3>2
  <2>2. CASE ~ (m.pgn.has /\ m.src.has /\ Mappable(f, d))
    <3>1. map' = MapNow /\ flows' = flows
      BY <1>5, <2>2 DEF Mapped
    <3> QED BY <1>1, <1>3, <3>1
  <2> QED BY <2>1, <2>2
<1> QED BY <1>1, <1>3, <1>4, <1>6 DEF MapInv

LEMMA NextMap ==
    ASSUME MapInv, [Next]_vars
    PROVE  /\ MapInv'
           /\ files'.map # files.map => (MapIsTrue(files'.map.shown) /\ files'.sources = seen)
<1>1. CASE \/ UNCHANGED vars \/ UpstreamEnds \/ ReaderLeaves \/ FrameArrives
           \/ \E k \in 1..Len(FeedText) : Write(k)
  <2>1. UNCHANGED <<since, ran, map, flows, files>>
    BY <1>1 DEF vars, history, UpstreamEnds, ReaderLeaves, FrameArrives, Write
  <2> QED BY <2>1 DEF MapInv
<1>2. CASE Turn
  <2>1. PICK ok \in BOOLEAN : TakeLine(ok) \/ AtEof(ok) \/ Poll(ok)
    BY <1>2 DEF Turn
  <2>2. Publish(ok, Due)
    BY <2>1 DEF TakeLine, AtEof, Poll
  <2>3. /\ since'.sources \in Nat /\ since'.sources < SourcesInterval
        /\ MapOf(MapNow, flows) /\ Within(MapNow, MapKeep + since'.sources)
        /\ files'.map # files.map => (MapIsTrue(files'.map.shown) /\ files'.sources = seen)
    BY <2>2, PublishMap
  <2>4. CASE NothingHeard(ok)
    <3>1. map' = MapNow /\ flows' = flows
      BY <2>4 DEF NothingHeard
    <3>2. since'.sources <= SourcesInterval
      BY <2>3, MainLoopAssumption
    <3> QED BY <2>3, <3>1, <3>2 DEF MapInv
  <2>5. CASE \E m : \E d \in Decisions(m) : Handle(m, d, ok)
    BY <2>2, <2>3, <2>5, HandleMap
  <2> QED BY <2>1, <2>4, <2>5 DEF TakeLine, AtEof, Poll, Understood
<1>3. CASE \E ok \in BOOLEAN : Finish(ok)
  <2>1. PICK ok \in BOOLEAN : Finish(ok)
    BY <1>3
  <2>2. /\ map' = Pruned(map) /\ UNCHANGED <<since, ran, flows>>
        /\ files'.map = IF ok THEN [at |-> clock, shown |-> MapShown(Pruned(map))] ELSE files.map
        /\ files'.sources = IF ok THEN seen ELSE files.sources
    BY <2>1 DEF Finish, Published, Replaced
  <2>3. MapOf(Pruned(map), flows) /\ Within(Pruned(map), MapKeep) /\ MapIsTrue(MapShown(Pruned(map)))
    BY PrunedSpec, PrunedShown DEF MapInv
  <2>4. Within(Pruned(map), MapKeep + since.sources)
    <3>1. IsMap(Pruned(map)) /\ since.sources \in Nat /\ MapKeep \in Nat
      BY <2>3, BusMapAssumption DEF MapOf, MapInv
    <3>2. \A i \in DOMAIN Pruned(map) : Pruned(map)[i].ago \in Nat /\ Pruned(map)[i].ago <= MapKeep
      BY <2>3, <3>1, MapIndices DEF Within
    <3> QED BY <3>1, <3>2 DEF Within
  <2>5. \A x, y, z : z = [at |-> x, shown |-> y] => z.shown = y
    OBVIOUS
  <2>6. files'.map # files.map => (MapIsTrue(files'.map.shown) /\ files'.sources = seen)
    BY <2>2, <2>3, <2>5
  <2> QED BY <2>2, <2>3, <2>4, <2>6 DEF MapInv
<1>4. CASE Tick
  <2>1. /\ map' = MapAged(map) /\ flows' = FlowsAged(flows) /\ since'.sources = since.sources + 1
        /\ ran' = FALSE /\ ran /\ files' = files
    BY <1>4 DEF Tick, Blocked, PollWakes, FlowsAged
  <2>2. PICK n \in Nat : n = since.sources
    BY DEF MapInv
  <2>3. n < SourcesInterval /\ MapOf(map, flows) /\ Within(map, MapKeep + n)
    BY <2>1, <2>2 DEF MapInv
  <2>4. MapKeep + n \in Nat /\ MapKeep + (n + 1) = (MapKeep + n) + 1 /\ n + 1 <= SourcesInterval
    BY <2>3, MainLoopAssumption, BusMapAssumption
  <2>5. MapOf(MapAged(map), FlowsAged(flows)) /\ Within(MapAged(map), (MapKeep + n) + 1)
    BY <2>3, <2>4, AgedSpec
  <2>6. Within(map', MapKeep + (n + 1)) /\ MapOf(map', flows')
    BY <2>1, <2>4, <2>5
  <2>7. since'.sources = n + 1 /\ ~ ran'
    BY <2>1, <2>2
  <2> QED BY <2>1, <2>4, <2>6, <2>7 DEF MapInv
<1> QED BY <1>1, <1>2, <1>3, <1>4 DEF Next

LEMMA InitMap == Init => MapInv
<1> SUFFICES ASSUME Init PROVE MapInv
  OBVIOUS
<1>1. map = <<>> /\ flows = <<>> /\ since.sources = SourcesInterval /\ ran = FALSE
  BY DEF Init, MapInit
<1>2. <<>> \in Seq({}) /\ DOMAIN <<>> = {} /\ IsFiniteSet({})
  BY FS_EmptySet
<1>3. MapOf(map, flows) /\ Within(map, MapKeep + since.sources)
  BY <1>1, <1>2 DEF MapOf, Within, IsMap, AreFlows
<1> QED BY <1>1, <1>3, MainLoopAssumption DEF MapInv

(* A map that is published is true: whatever the decisions, and whichever  *)
(* publications fail (busmap_observe and busmap_prune of busmap.c, the     *)
(* loop of main).                                                          *)
THEOREM PublishedMapTells == Spec => MapTells
<1>1. MapInv /\ [Next]_vars => MapInv'
  BY NextMap
<1>2. MapInv /\ [Next]_vars => [files'.map # files.map
                                  => MapIsTrue(files'.map.shown) /\ files'.sources = seen]_vars
  BY NextMap
<1> QED BY <1>1, <1>2, InitMap, PTL DEF Spec, MapTells

-----------------------------------------------------------------------------
(* The lines.  Numbers first.                                              *)
LEMMA DivFact ==
    ASSUME NEW a \in Nat, NEW L \in Nat, L > 0
    PROVE  a = L * (a \div L) + (a % L) /\ a % L \in 0..(L - 1) /\ a \div L \in Nat
OBVIOUS

LEMMA SmallMultiple ==
    ASSUME NEW L \in Nat, L > 0, NEW k \in Int, L * k \in 0..(L - 1)
    PROVE  k = 0
<1>1. ASSUME k >= 1 PROVE L * k >= L
  BY <1>1
<1>2. ASSUME k <= -1 PROVE L * k <= -L
  BY <1>2
<1>3. L * k \in Int /\ 0 <= L * k /\ L * k < L
  OBVIOUS
<1> DEFINE x == L * k
<1> HIDE DEF x
<1>4. ~ (k >= 1)
  <2>1. x \in Int /\ x < L
    BY <1>3 DEF x
  <2>2. k >= 1 => x >= L
    BY <1>1 DEF x
  <2> QED BY <2>1, <2>2
<1>5. ~ (k <= -1)
  <2>1. x \in Int /\ 0 <= x
    BY <1>3 DEF x
  <2>2. k <= -1 => x <= -L
    BY <1>2 DEF x
  <2> QED BY <2>1, <2>2
<1> QED BY <1>4, <1>5

(* Of the next L numbers behind a multiple of L the last is one.           *)
LEMMA ModApart ==
    ASSUME NEW L \in Nat, L > 0, NEW a \in Nat, a % L = 0, NEW d \in 1..L
    PROVE  (a + d) % L = 0 <=> d = L
<1> DEFINE b == a + d
           q == a \div L
           r == b \div L
<1>1. a = L * q + 0 /\ q \in Nat
  BY DivFact
<1>2. b \in Nat /\ b = L * r + (b % L) /\ b % L \in 0..(L - 1) /\ r \in Nat
  BY DivFact
<1> HIDE DEF q, r
<1>3. L * (r - q) = L * r - L * q /\ L * ((q + 1) - r) = L * q + L - L * r
  BY <1>1, <1>2
<1>4. ASSUME b % L = 0, d # L PROVE FALSE
  <2>1. L * (r - q) = d
    BY <1>1, <1>2, <1>3, <1>4
  <2>2. r - q \in Int /\ d \in 0..(L - 1)
    BY <1>1, <1>2, <1>4
  <2>3. r - q = 0
    BY <2>1, <2>2, SmallMultiple
  <2>4. L * 0 = 0
    OBVIOUS
  <2> QED BY <2>1, <2>3, <2>4
<1>5. ASSUME d = L PROVE b % L = 0
  <2>1. L * ((q + 1) - r) = b % L
    BY <1>1, <1>2, <1>3, <1>5
  <2>2. (q + 1) - r \in Int /\ b % L \in 0..(L - 1)
    BY <1>1, <1>2
  <2>3. (q + 1) - r = 0
    BY <2>1, <2>2, SmallMultiple
  <2>4. L * 0 = 0
    OBVIOUS
  <2> QED BY <2>1, <2>3, <2>4
<1> QED BY <1>4, <1>5 DEF b

(* A set of numbers up to n that is not empty has a greatest element.      *)
LEMMA MaxSpec ==
    ASSUME NEW n \in Nat, NEW S \in SUBSET (0..n), S # {}
    PROVE  /\ Max(S) \in S /\ \A y \in S : y <= Max(S)
           /\ \A x \in S : (\A y \in S : y <= x) => Max(S) = x
<1> DEFINE R == {n - y : y \in S}
<1>1. \A y \in S : y \in Nat /\ n - y \in Nat
  OBVIOUS
<1>2. R \in SUBSET Nat /\ R # {}
  BY <1>1
<1>3. \E x \in R : \A y \in R : x <= y
  <2> HIDE DEF R
  <2> QED BY <1>2, LeastExists
<1>4. PICK x \in S : \A y \in S : n - x <= n - y
  BY <1>3
<1>5. \A y \in S : y <= x
  <2> SUFFICES ASSUME NEW y \in S PROVE y <= x
    OBVIOUS
  <2>1. n - x <= n - y /\ x \in Nat /\ y \in Nat
    BY <1>1, <1>4
  <2> QED BY <2>1
<1>6. Max(S) = CHOOSE z \in S : \A y \in S : z >= y
  BY DEF Max
<1>7. \A y \in S : x >= y
  BY <1>1, <1>5
<1>8. Max(S) \in S /\ \A y \in S : Max(S) >= y
  BY <1>6, <1>7
<1>9. \A y \in S : y <= Max(S)
  BY <1>1, <1>8
<1>10. ASSUME NEW z \in S, \A y \in S : y <= z PROVE Max(S) = z
  <2>1. z <= Max(S) /\ Max(S) <= z /\ z \in Nat /\ Max(S) \in Nat
    BY <1>1, <1>8, <1>9, <1>10
  <2> QED BY <2>1
<1> QED BY <1>8, <1>9, <1>10

(* Where the symbols behind which e stands began: behind a newline, or at  *)
(* the start; and whether a text is cut behind e if it goes on.            *)
Origin(t, e) == Max({0} \cup {i \in 1..e : t[i] = Newline})

Aligned(t, e) == (e - Origin(t, e)) % LrBuf = 0

LEMMA OriginSpec ==
    ASSUME NEW t, NEW e \in Nat
    PROVE  /\ Origin(t, e) \in 0..e
           /\ Origin(t, e) # 0 => t[Origin(t, e)] = Newline
           /\ \A i \in 1..e : t[i] = Newline => i <= Origin(t, e)
<1> DEFINE S == {0} \cup {i \in 1..e : t[i] = Newline}
<1>1. S \in SUBSET (0..e) /\ S # {}
  OBVIOUS
<1>2. Origin(t, e) = Max(S)
  BY DEF Origin
<1>3. \A x \in S : x \in 0..e /\ (x # 0 => t[x] = Newline)
  OBVIOUS
<1>4. \A i \in 1..e : t[i] = Newline => i \in S
  OBVIOUS
<1> HIDE DEF S
<1>5. Max(S) \in S /\ \A y \in S : y <= Max(S)
  BY <1>1, MaxSpec
<1> QED BY <1>2, <1>3, <1>4, <1>5

(* No newline, no other origin.                                            *)
LEMMA OriginSame ==
    ASSUME NEW t, NEW e \in Nat, NEW f \in Nat, e <= f, \A i \in (e + 1)..f : t[i] # Newline
    PROVE  Origin(t, f) = Origin(t, e)
<1>1. /\ Origin(t, e) \in 0..e /\ Origin(t, f) \in 0..f
      /\ Origin(t, e) # 0 => t[Origin(t, e)] = Newline
      /\ Origin(t, f) # 0 => t[Origin(t, f)] = Newline
      /\ \A i \in 1..e : t[i] = Newline => i <= Origin(t, e)
      /\ \A i \in 1..f : t[i] = Newline => i <= Origin(t, f)
  BY OriginSpec
<1>2. PICK a \in 0..e, b \in 0..f : a = Origin(t, e) /\ b = Origin(t, f)
  BY <1>1
<1>3. a <= b
  <2>1. CASE a = 0
    BY <2>1
  <2>2. CASE a # 0
    <3>1. a \in 1..f /\ t[a] = Newline
      BY <1>1, <1>2, <2>2
    <3> QED BY <1>1, <1>2, <3>1
  <2> QED BY <2>1, <2>2
<1>4. b <= a
  <2>1. CASE b = 0
    BY <2>1
  <2>2. CASE b # 0
    <3>1. t[b] = Newline /\ b \in 1..f
      BY <1>1, <1>2, <2>2
    <3>2. ~ (b \in (e + 1)..f)
      BY <3>1
    <3>3. b \in 1..e
      BY <3>1, <3>2
    <3> QED BY <1>1, <1>2, <3>1, <3>3
  <2> QED BY <2>1, <2>2
<1> QED BY <1>2, <1>3, <1>4

LEMMA OriginNewline ==
    ASSUME NEW t, NEW e \in Nat \ {0}, t[e] = Newline
    PROVE  Aligned(t, e)
<1>1. Origin(t, e) \in 0..e /\ e <= Origin(t, e)
  BY OriginSpec
<1>2. e - Origin(t, e) = 0
  BY <1>1
<1>3. 0 % LrBuf = 0
  BY LineReaderAssumption
<1> QED BY <1>2, <1>3 DEF Aligned

(* Behind a cut, and with no newline, the next one comes at the LrBufth    *)
(* symbol and not before.                                                  *)
LEMMA AlignedNext ==
    ASSUME NEW t, NEW p \in Nat, Aligned(t, p), NEW d \in 1..LrBuf,
           \A i \in (p + 1)..(p + d) : t[i] # Newline
    PROVE  Aligned(t, p + d) <=> d = LrBuf
<1>1. LrBuf \in Nat /\ LrBuf > 0
  BY LineReaderAssumption
<1>2. p + d \in Nat /\ p <= p + d
  BY <1>1
<1>3. Origin(t, p + d) = Origin(t, p)
  BY <1>2, OriginSame
<1>4. PICK o \in 0..p : o = Origin(t, p)
  BY OriginSpec
<1>5. PICK a \in Nat : a = p - o
  OBVIOUS
<1>6. a % LrBuf = 0 /\ (p + d) - Origin(t, p + d) = a + d
  BY <1>1, <1>3, <1>4, <1>5 DEF Aligned
<1>7. (a + d) % LrBuf = 0 <=> d = LrBuf
  BY <1>1, <1>6, ModApart
<1> QED BY <1>6, <1>7 DEF Aligned

(* The cuts before p, the last of them, how many lines there are up to p   *)
(* and the one that ends there.                                            *)
Cuts(t, p) == {f \in 1..(p - 1) : Aligned(t, f)}

Prev(t, p) == Max({0} \cup Cuts(t, p))

LinesTo(t, p) == IF p = 0 THEN 0 ELSE Cardinality(Cuts(t, p)) + 1

LineBehind(t, p) == SubSeq(t, Prev(t, p) + 1, Least(p, Prev(t, p) + LineMax))

LEMMA CutsFinite ==
    ASSUME NEW t, NEW p \in Nat
    PROVE  /\ IsFiniteSet(Cuts(t, p)) /\ Cardinality(Cuts(t, p)) \in Nat
           /\ LinesTo(t, p) \in Nat /\ (LinesTo(t, p) = 0 <=> p = 0)
<1>1. IsFiniteSet(1..(p - 1)) /\ Cuts(t, p) \subseteq 1..(p - 1)
  BY FS_Interval DEF Cuts
<1>2. IsFiniteSet(Cuts(t, p)) /\ Cardinality(Cuts(t, p)) \in Nat
  BY <1>1, FS_Subset, FS_CardinalityType
<1> QED BY <1>2 DEF LinesTo

(* The line behind a cut ends at the next newline or with the LrBufth      *)
(* symbol: there is no cut in between.                                     *)
LEMMA CutsNext ==
    ASSUME NEW t, NEW p \in Nat, Aligned(t, p) \/ p = 0, NEW d \in 1..LrBuf,
           \A i \in (p + 1)..(p + d - 1) : t[i] # Newline
    PROVE  Prev(t, p + d) = p /\ LinesTo(t, p + d) = LinesTo(t, p) + 1
<1>1. LrBuf \in Nat /\ LrBuf > 0 /\ d \in Nat /\ p + d \in Nat /\ p + d # 0
  BY LineReaderAssumption
<1>2. Aligned(t, p)
  <2>1. ASSUME p = 0 PROVE Aligned(t, p)
    <3>1. Origin(t, p) = 0
      BY <2>1, OriginSpec
    <3>2. 0 % LrBuf = 0 /\ p - 0 = 0
      BY <2>1, <1>1
    <3> QED BY <3>1, <3>2, <2>1 DEF Aligned
  <2> QED BY <2>1
<1>3. ASSUME NEW f \in (p + 1)..(p + d - 1) PROVE ~ Aligned(t, f)
  <2>1. PICK e \in 1..(d - 1) : f = p + e
    <3>1. f - p \in 1..(d - 1) /\ f = p + (f - p)
      BY <1>1, <1>3
    <3> QED BY <3>1
  <2>2. e \in 1..LrBuf /\ e # LrBuf
    BY <1>1, <2>1
  <2>3. \A i \in (p + 1)..(p + e) : t[i] # Newline
    BY <1>1, <2>1
  <2> QED BY <1>2, <2>1, <2>2, <2>3, AlignedNext
<1>4. Cuts(t, p + d) = Cuts(t, p) \cup (IF p = 0 THEN {} ELSE {p})
  <2>1. 1..(p + d - 1) = 1..(p - 1) \cup (IF p = 0 THEN {} ELSE {p}) \cup (p + 1)..(p + d - 1)
    BY <1>1
  <2> QED BY <1>2, <1>3, <2>1 DEF Cuts
<1>5. ~ (p \in Cuts(t, p)) /\ \A f \in Cuts(t, p) : f \in Nat /\ f <= p
  BY DEF Cuts
<1>6. Prev(t, p + d) = p
  <2>1. {0} \cup Cuts(t, p + d) \in SUBSET (0..(p + d)) /\ {0} \cup Cuts(t, p + d) # {}
    BY <1>1 DEF Cuts
  <2>2. p \in {0} \cup Cuts(t, p + d) /\ \A y \in {0} \cup Cuts(t, p + d) : y <= p
    BY <1>4, <1>5
  <2> QED BY <1>1, <2>1, <2>2, MaxSpec DEF Prev
<1>7. LinesTo(t, p + d) = Cardinality(Cuts(t, p + d)) + 1
  BY <1>1 DEF LinesTo
<1>8. CASE p = 0
  <2>1. Cuts(t, p) = {}
    BY <1>8 DEF Cuts
  <2>2. Cuts(t, p + d) = {}
    BY <1>4, <1>8, <2>1
  <2> QED BY <1>6, <1>7, <1>8, <2>2, FS_EmptySet DEF LinesTo
<1>9. CASE p # 0
  <2>1. Cuts(t, p + d) = Cuts(t, p) \cup {p} /\ LinesTo(t, p) = Cardinality(Cuts(t, p)) + 1
    BY <1>4, <1>9 DEF LinesTo
  <2>2. IsFiniteSet(Cuts(t, p)) /\ Cardinality(Cuts(t, p)) \in Nat
    BY CutsFinite
  <2>3. Cardinality(Cuts(t, p + d)) = Cardinality(Cuts(t, p)) + 1
    BY <1>5, <2>1, <2>2, FS_AddElement
  <2> QED BY <1>6, <1>7, <2>1, <2>3
<1> QED BY <1>8, <1>9

(* In what was written so far the cuts are the same, and its end is one.   *)
LEMMA EndsPrefix ==
    ASSUME NEW K, NEW t \in Seq(K), NEW n \in 0..Len(t), NEW p \in 1..n,
           Aligned(t, p) \/ p = n
    PROVE  LET ends == Ends(SubSeq(t, 1, n)) IN
           /\ p \in ends /\ Cardinality({f \in ends : f <= p}) = LinesTo(t, p)
           /\ LineTo(SubSeq(t, 1, n), p) = LineBehind(t, p)
           /\ p = n => Cardinality(ends) = LinesTo(t, p)
<1> DEFINE w == SubSeq(t, 1, n)
           ends == Ends(w)
<1>1. /\ n \in Nat /\ Len(t) \in Nat /\ w \in Seq(K) /\ Len(w) = n /\ DOMAIN w = 1..n
      /\ \A i \in 1..n : w[i] = t[i]
  OBVIOUS
<1>2. \A e \in 1..n : {i \in 1..e : w[i] = Newline} = {i \in 1..e : t[i] = Newline}
  BY <1>1
<1>3. ends = {e \in 1..n : Aligned(t, e) \/ e = n}
  <2>1. ends = {e \in 1..n : (e - Max({0} \cup {i \in 1..e : w[i] = Newline})) % LrBuf = 0 \/ e = n}
    BY <1>1 DEF Ends
  <2>2. \A e \in 1..n : Aligned(t, e) <=>
           (e - Max({0} \cup {i \in 1..e : w[i] = Newline})) % LrBuf = 0
    BY <1>2 DEF Aligned, Origin
  <2> QED BY <2>1, <2>2
<1> HIDE DEF w, ends
<1>4. p \in ends /\ p \in Nat /\ p # 0
  BY <1>1, <1>3
<1>5. {f \in ends : f < p} = Cuts(t, p)
  BY <1>1, <1>3 DEF Cuts
<1>6. {f \in ends : f <= p} = Cuts(t, p) \cup {p} /\ ~ (p \in Cuts(t, p))
  <2>1. \A f \in ends : f \in Nat /\ (f <= p <=> (f < p \/ f = p))
    BY <1>1, <1>3
  <2>2. {f \in ends : f <= p} = {f \in ends : f < p} \cup {p}
    BY <1>4, <2>1
  <2> QED BY <1>5, <2>2 DEF Cuts
<1>7. IsFiniteSet(Cuts(t, p)) /\ Cardinality(Cuts(t, p)) \in Nat
  BY <1>4, CutsFinite
<1>8. Cardinality({f \in ends : f <= p}) = LinesTo(t, p)
  <2>1. Cardinality(Cuts(t, p) \cup {p}) = Cardinality(Cuts(t, p)) + 1
    BY <1>6, <1>7, FS_AddElement
  <2> QED BY <1>4, <1>6, <2>1 DEF LinesTo
<1>9. p = n => {f \in ends : f <= p} = ends
  BY <1>1, <1>3
<1>10. LineTo(w, p) = LineBehind(t, p)
  <2>1. LineTo(w, p) = SubSeq(w, Prev(t, p) + 1, Min({p, Prev(t, p) + LineMax}))
    BY <1>5 DEF LineTo, Prev, ends
  <2>2. PICK b \in 0..(p - 1) : b = Prev(t, p)
    <3>1. {0} \cup Cuts(t, p) \in SUBSET (0..(p - 1)) /\ {0} \cup Cuts(t, p) # {} /\ p - 1 \in Nat
      BY <1>4 DEF Cuts
    <3>2. Max({0} \cup Cuts(t, p)) \in 0..(p - 1)
      BY <3>1, MaxSpec
    <3> QED BY <3>2 DEF Prev
  <2>3. LineMax \in Nat
    BY LineReaderAssumption
  <2>4. Min({p, b + LineMax}) = Least(p, b + LineMax)
    BY <1>4, <2>2, <2>3 DEF Min, Least
  <2>5. PICK m \in 0..p : m = Least(p, b + LineMax)
    BY <1>4, <2>2, <2>3 DEF Least
  <2>6. SubSeq(w, b + 1, m) = SubSeq(t, b + 1, m)
    <3>1. p \in 1..n /\ b \in Nat /\ b + 1 \in Nat /\ m \in Nat /\ m <= n
      BY <1>1, <2>2, <2>5
    <3>2. \A i \in 1..(m - b) : w[b + i] = t[b + i]
      BY <1>1, <3>1
    <3> QED BY <1>1, <3>1, <3>2
  <2> QED BY <2>1, <2>2, <2>4, <2>5, <2>6 DEF LineBehind
<1> QED BY <1>4, <1>8, <1>9, <1>10 DEF w, ends

(* The buffer and behind it the pipe hold what was written from p on.      *)
Waiting(t, n, pi, b, p) ==
    /\ n = p + Len(b) + Len(pi) /\ n \in 0..Len(t) /\ Len(b) <= LrBuf
    /\ \E K : t \in Seq(K) /\ b \in Seq(K) /\ pi \in Seq(K)
    /\ \A i \in 1..Len(b) : b[i] = t[p + i]
    /\ \A i \in 1..Len(pi) : pi[i] = t[p + Len(b) + i]

(* What the next line takes of the buffer.                                 *)
TakesLine(b, eof, k) ==
    /\ k \in 1..Len(b) /\ \A i \in 1..(k - 1) : b[i] # Newline
    /\ \/ b[k] = Newline
       \/ b[k] # Newline /\ k = LrBuf
       \/ eof /\ k = Len(b)

LEMMA TakeSpec ==
    ASSUME NEW K, NEW b \in Seq(K), Len(b) <= LrBuf, NEW l, l.buf = b
    PROVE  /\ Take(l) # 0 => TakesLine(b, l.eof, Take(l))
           /\ Take(l) > 0 <=> Take(l) # 0
           /\ Take(l) = 0 /\ l.eof => b = <<>>
<1> DEFINE S == {i \in DOMAIN b : b[i] = Newline}
<1>1. S \in SUBSET (Nat \ {0}) /\ Len(b) \in Nat /\ DOMAIN b = 1..Len(b) /\ LrBuf \in Nat
  BY LineReaderAssumption
<1>2. Take(l) = IF FirstOr0(S) # NoSlot THEN FirstOr0(S)
                ELSE IF Len(b) >= LrBuf \/ l.eof THEN Len(b) ELSE 0
  BY DEF Take
<1>3. \/ S = {} /\ FirstOr0(S) = NoSlot
      \/ FirstOr0(S) \in S /\ FirstOr0(S) # NoSlot /\ \A y \in S : FirstOr0(S) =< y
  BY <1>1, FirstOr0Scan
<1>4. CASE FirstOr0(S) \in S /\ FirstOr0(S) # NoSlot /\ \A y \in S : FirstOr0(S) =< y
  <2>1. PICK k \in 1..Len(b) : k = FirstOr0(S) /\ b[k] = Newline
    BY <1>1, <1>4
  <2>2. \A i \in 1..(k - 1) : b[i] # Newline
    <3> SUFFICES ASSUME NEW i \in 1..(k - 1), b[i] = Newline PROVE FALSE
      OBVIOUS
    <3>1. i \in 1..Len(b) /\ i \in Nat /\ k \in Nat /\ ~ (k <= i)
      BY <1>1, <2>1
    <3> QED BY <1>1, <1>4, <2>1, <3>1
  <2> QED BY <1>1, <1>2, <1>4, <2>1, <2>2 DEF TakesLine
<1>5. CASE S = {} /\ FirstOr0(S) = NoSlot
  <2>1. Take(l) = IF Len(b) >= LrBuf \/ l.eof THEN Len(b) ELSE 0
    BY <1>2, <1>5
  <2>2. \A i \in 1..Len(b) : b[i] # Newline
    BY <1>1, <1>5
  <2>3. CASE Take(l) = 0
    <3>1. l.eof => Len(b) = 0
      BY <2>1, <2>3
    <3> QED BY <1>1, <2>3, <3>1
  <2>4. CASE Take(l) # 0
    <3>1. PICK c \in Nat : c = Len(b)
      BY <1>1
    <3>2. Take(l) = c /\ (c >= LrBuf \/ l.eof) /\ c # 0
      BY <2>1, <2>4, <3>1
    <3>3. c \in 1..c /\ c > 0 /\ (c >= LrBuf => c = LrBuf)
      <4>1. c \in Nat /\ c # 0 /\ LrBuf \in Nat /\ c <= LrBuf
        BY <1>1, <3>1, <3>2
      <4> HIDE DEF S
      <4> QED BY <4>1
    <3>4. b[c] # Newline /\ \A i \in 1..(c - 1) : b[i] # Newline
      <4>1. \A i \in 1..(c - 1) : i \in 1..c
        BY <3>1
      <4> QED BY <2>2, <3>1, <3>3, <4>1
    <3>5. TakesLine(b, l.eof, c)
      BY <3>1, <3>2, <3>3, <3>4 DEF TakesLine
    <3> QED BY <3>2, <3>3, <3>5
  <2> QED BY <2>3, <2>4
<1> QED BY <1>3, <1>4, <1>5

(* A line taken: it is the one that ends behind it, and either it ends at  *)
(* a cut or it was the rest of the text.                                   *)
LEMMA LineTaken ==
    ASSUME NEW t, NEW n, NEW pi, NEW b, NEW p \in Nat, Waiting(t, n, pi, b, p),
           NEW eof, NEW k, TakesLine(b, eof, k), Aligned(t, p) \/ p = 0, eof => pi = <<>>
    PROVE  /\ p + k \in Nat /\ p + k # 0
           /\ Waiting(t, n, pi, SubSeq(b, k + 1, Len(b)), p + k)
           /\ Aligned(t, p + k) \/ (eof /\ p + k = n)
           /\ LinesTo(t, p + k) = LinesTo(t, p) + 1
           /\ SubSeq(b, 1, IF k < LineMax THEN k ELSE LineMax) = LineBehind(t, p + k)
<1>1. PICK K : t \in Seq(K) /\ b \in Seq(K) /\ pi \in Seq(K)
  BY DEF Waiting
<1>2. /\ n = p + Len(b) + Len(pi) /\ n \in 0..Len(t) /\ Len(b) <= LrBuf
      /\ \A i \in 1..Len(b) : b[i] = t[p + i]
      /\ \A i \in 1..Len(pi) : pi[i] = t[p + Len(b) + i]
  BY DEF Waiting
<1>3. /\ k \in 1..Len(b) /\ \A i \in 1..(k - 1) : b[i] # Newline
      /\ b[k] = Newline \/ (b[k] # Newline /\ k = LrBuf) \/ (eof /\ k = Len(b))
  BY DEF TakesLine
<1>4. LineMax \in Nat /\ LineMax > 0 /\ LrBuf \in Nat
  BY LineReaderAssumption
<1>5. Len(b) \in Nat /\ Len(pi) \in Nat /\ Len(t) \in Nat /\ k \in Nat /\ k \in 1..LrBuf
  BY <1>1, <1>2, <1>3, <1>4
<1>6. p + k \in Nat /\ p + k # 0
  BY <1>3, <1>5
<1>7. \A i \in (p + 1)..(p + k - 1) : t[i] # Newline
  <2> SUFFICES ASSUME NEW i \in (p + 1)..(p + k - 1) PROVE t[i] # Newline
    OBVIOUS
  <2>1. i - p \in 1..(k - 1) /\ i - p \in 1..Len(b) /\ p + (i - p) = i
    BY <1>3, <1>5
  <2>2. b[i - p] # Newline /\ b[i - p] = t[p + (i - p)]
    BY <1>2, <1>3, <2>1
  <2> QED BY <2>1, <2>2
<1>8. Prev(t, p + k) = p /\ LinesTo(t, p + k) = LinesTo(t, p) + 1
  BY <1>5, <1>7, CutsNext
<1>9. b[k] = t[p + k]
  BY <1>2, <1>3
<1>10. Aligned(t, p + k) \/ (eof /\ p + k = n)
  <2>1. CASE b[k] = Newline
    BY <1>6, <1>9, <2>1, OriginNewline
  <2>2. CASE eof /\ k = Len(b)
    <3>1. Len(pi) = 0
      BY <2>2
    <3> QED BY <1>2, <1>5, <2>2, <3>1
  <2>3. CASE b[k] # Newline /\ k = LrBuf
    <3>1. \A i \in (p + 1)..(p + k) : t[i] # Newline
      <4> SUFFICES ASSUME NEW i \in (p + 1)..(p + k) PROVE t[i] # Newline
        OBVIOUS
      <4>1. i \in (p + 1)..(p + k - 1) \/ i = p + k
        BY <1>5
      <4> QED BY <1>7, <1>9, <2>3, <4>1
    <3>2. CASE Aligned(t, p)
      BY <1>5, <2>3, <3>1, <3>2, AlignedNext
    <3>3. CASE p = 0
      <4>1. Origin(t, p) = 0
        BY <3>3, OriginSpec
      <4>2. 0 % LrBuf = 0 /\ p - 0 = 0
        BY <1>4, <1>5, <2>3, <3>3
      <4>3. Aligned(t, p)
        BY <3>3, <4>1, <4>2 DEF Aligned
      <4> QED BY <1>5, <2>3, <3>1, <4>3, AlignedNext
    <3> QED BY <3>2, <3>3
  <2> QED BY <1>3, <2>1, <2>2, <2>3
<1>11. SubSeq(b, 1, IF k < LineMax THEN k ELSE LineMax) = LineBehind(t, p + k)
  <2>1. PICK m \in 1..k : m = IF k < LineMax THEN k ELSE LineMax
    BY <1>4, <1>5, <1>3
  <2>2. Least(p + k, p + LineMax) = p + m
    BY <1>4, <1>5, <2>1 DEF Least
  <2>3. LineBehind(t, p + k) = SubSeq(t, p + 1, p + m)
    BY <1>8, <2>2 DEF LineBehind
  <2>4. m \in Nat /\ m <= Len(b) /\ p + m <= Len(t)
    BY <1>2, <1>3, <1>5, <2>1
  <2>5. \A i \in 1..m : b[i] = t[p + i]
    <3>1. \A i \in 1..m : i \in 1..Len(b)
      BY <1>5, <2>4
    <3> QED BY <1>2, <3>1
  <2>6. SubSeq(b, 1, m) = SubSeq(t, p + 1, p + m)
    <3>1. Len(SubSeq(b, 1, m)) = m /\ Len(SubSeq(t, p + 1, p + m)) = m
      BY <1>1, <1>5, <2>4
    <3>2. \A i \in 1..m : SubSeq(b, 1, m)[i] = b[i] /\ SubSeq(t, p + 1, p + m)[i] = t[p + i]
      BY <1>1, <1>5, <2>4
    <3>3. SubSeq(b, 1, m) \in Seq(K) /\ SubSeq(t, p + 1, p + m) \in Seq(K)
      BY <1>1, <1>5, <2>4
    <3>4. PICK x \in Seq(K), y \in Seq(K) : x = SubSeq(b, 1, m) /\ y = SubSeq(t, p + 1, p + m)
      BY <3>3
    <3>5. Len(x) = Len(y) /\ \A i \in 1..Len(x) : x[i] = y[i]
      BY <2>5, <3>1, <3>2, <3>4
    <3>6. x = y
      BY <3>5
    <3> QED BY <3>4, <3>6
  <2> QED BY <2>1, <2>3, <2>6
<1>12. Waiting(t, n, pi, SubSeq(b, k + 1, Len(b)), p + k)
  <2>1. PICK r \in Seq(K) : r = SubSeq(b, k + 1, Len(b))
    <3>1. \A i \in (k + 1)..Len(b) : i \in 1..Len(b)
      BY <1>5
    <3>2. SubSeq(b, k + 1, Len(b)) \in Seq(K)
      BY <1>1, <1>5, <3>1
    <3> QED BY <3>2
  <2>2. Len(r) = Len(b) - k /\ \A i \in 1..Len(r) : r[i] = b[k + i]
    BY <1>1, <1>3, <1>5, <2>1
  <2>3. n = (p + k) + Len(r) + Len(pi) /\ Len(r) <= LrBuf
    BY <1>2, <1>4, <1>5, <2>2
  <2>4. \A i \in 1..Len(r) : r[i] = t[(p + k) + i]
    <3> SUFFICES ASSUME NEW i \in 1..Len(r) PROVE r[i] = t[(p + k) + i]
      OBVIOUS
    <3>1. k + i \in 1..Len(b) /\ (p + k) + i = p + (k + i)
      BY <1>3, <1>5, <2>2
    <3> QED BY <1>2, <2>2, <3>1
  <2>5. (p + k) + Len(r) = p + Len(b)
    BY <1>5, <2>2
  <2>6. \A i \in 1..Len(pi) : pi[i] = t[(p + k) + Len(r) + i]
    BY <1>2, <2>5
  <2> QED BY <1>1, <1>2, <2>1, <2>3, <2>4, <2>6 DEF Waiting
<1> QED BY <1>6, <1>8, <1>10, <1>11, <1>12

(* A read moves the front of the pipe behind the buffer, a write adds to   *)
(* the pipe: what waits is the text, from the same place on.               *)
LEMMA ReadWaits ==
    ASSUME NEW t, NEW n, NEW pi, NEW b, NEW p \in Nat, Waiting(t, n, pi, b, p),
           NEW r \in 0..Len(pi), Len(b) + r <= LrBuf
    PROVE  Waiting(t, n, SubSeq(pi, r + 1, Len(pi)), b \o SubSeq(pi, 1, r), p)
<1>1. PICK K : t \in Seq(K) /\ b \in Seq(K) /\ pi \in Seq(K)
  BY DEF Waiting
<1>2. /\ n = p + Len(b) + Len(pi) /\ n \in 0..Len(t) /\ Len(b) <= LrBuf
      /\ \A i \in 1..Len(b) : b[i] = t[p + i]
      /\ \A i \in 1..Len(pi) : pi[i] = t[p + Len(b) + i]
  BY DEF Waiting
<1>3. PICK c \in Nat, q \in Nat : c = Len(b) /\ q = Len(pi)
  BY <1>1
<1>4. r \in Nat /\ r <= q
  BY <1>3
<1>5. PICK h \in Seq(K) : h = SubSeq(pi, 1, r) /\ Len(h) = r /\ \A i \in 1..r : h[i] = pi[i]
  <2>1. SubSeq(pi, 1, r) \in Seq(K) /\ Len(SubSeq(pi, 1, r)) = r
    BY <1>1, <1>3, <1>4
  <2>2. \A i \in 1..r : SubSeq(pi, 1, r)[i] = pi[i]
    BY <1>1, <1>3, <1>4
  <2> QED BY <2>1, <2>2
<1>6. PICK w \in Seq(K) : /\ w = SubSeq(pi, r + 1, Len(pi)) /\ Len(w) = q - r
                          /\ \A i \in 1..(q - r) : w[i] = pi[r + i]
  <2>1. \A i \in (r + 1)..Len(pi) : i \in 1..Len(pi)
    BY <1>3, <1>4
  <2>2. SubSeq(pi, r + 1, Len(pi)) \in Seq(K)
    BY <1>1, <1>3, <1>4, <2>1
  <2>3. Len(SubSeq(pi, r + 1, Len(pi))) = q - r
    BY <1>1, <1>3, <1>4
  <2>4. \A i \in 1..(q - r) : SubSeq(pi, r + 1, Len(pi))[i] = pi[r + i]
    BY <1>1, <1>3, <1>4
  <2> QED BY <2>2, <2>3, <2>4
<1>7. PICK a \in Seq(K) : /\ a = b \o h /\ Len(a) = c + r
                          /\ \A i \in 1..(c + r) : a[i] = IF i <= c THEN b[i] ELSE h[i - c]
  <2>1. b \o h \in Seq(K) /\ Len(b \o h) = c + r
    BY <1>1, <1>3, <1>5
  <2>2. \A i \in 1..(c + r) : (b \o h)[i] = IF i <= c THEN b[i] ELSE h[i - c]
    BY <1>1, <1>3, <1>5
  <2> QED BY <2>1, <2>2
<1>8. n = p + Len(a) + Len(w) /\ Len(a) <= LrBuf
  <2>1. n = p + c + q /\ c + r <= LrBuf
    BY <1>2, <1>3
  <2>2. n = p + (c + r) + (q - r)
    BY <1>4, <2>1
  <2> QED BY <1>6, <1>7, <2>1, <2>2
<1>9. \A i \in 1..Len(a) : a[i] = t[p + i]
  <2> SUFFICES ASSUME NEW i \in 1..(c + r) PROVE a[i] = t[p + i]
    BY <1>7
  <2>1. CASE i <= c
    <3>1. i \in 1..c
      BY <2>1
    <3> QED BY <1>2, <1>3, <1>7, <2>1, <3>1
  <2>2. CASE ~ (i <= c)
    <3>1. i - c \in 1..r /\ i - c \in 1..q /\ p + c + (i - c) = p + i
      BY <1>4, <2>2
    <3>2. pi[i - c] = t[p + c + (i - c)]
      BY <1>2, <1>3, <3>1
    <3> QED BY <1>5, <1>7, <2>2, <3>1, <3>2
  <2> QED BY <2>1, <2>2
<1>10. \A i \in 1..Len(w) : w[i] = t[p + Len(a) + i]
  <2> SUFFICES ASSUME NEW i \in 1..(q - r) PROVE w[i] = t[p + (c + r) + i]
    BY <1>6, <1>7
  <2>1. r + i \in 1..q /\ p + c + (r + i) = p + (c + r) + i
    BY <1>4
  <2>2. pi[r + i] = t[p + c + (r + i)]
    BY <1>2, <1>3, <2>1
  <2> QED BY <1>6, <2>1, <2>2
<1>11. Waiting(t, n, w, a, p)
  BY <1>1, <1>2, <1>8, <1>9, <1>10 DEF Waiting
<1> QED BY <1>5, <1>6, <1>7, <1>11

LEMMA WriteWaits ==
    ASSUME NEW t, NEW n, NEW b, NEW p \in Nat, Waiting(t, n, <<>>, b, p),
           NEW k \in Nat, n + k <= Len(t)
    PROVE  Waiting(t, n + k, SubSeq(t, n + 1, n + k), b, p)
<1>1. PICK K : t \in Seq(K) /\ b \in Seq(K)
  BY DEF Waiting
<1>2. /\ n = p + Len(b) + 0 /\ n \in 0..Len(t) /\ Len(b) <= LrBuf
      /\ \A i \in 1..Len(b) : b[i] = t[p + i]
  BY DEF Waiting
<1>3. Len(t) \in Nat /\ Len(b) \in Nat /\ n \in Nat /\ n = p + Len(b)
  BY <1>1, <1>2
<1>4. PICK w \in Seq(K) : /\ w = SubSeq(t, n + 1, n + k) /\ Len(w) = k
                          /\ \A i \in 1..k : w[i] = t[n + i]
  <2>1. \A i \in (n + 1)..(n + k) : i \in 1..Len(t)
    BY <1>3
  <2>2. SubSeq(t, n + 1, n + k) \in Seq(K) /\ Len(SubSeq(t, n + 1, n + k)) = k
    BY <1>1, <1>3, <2>1
  <2>3. \A i \in 1..k : SubSeq(t, n + 1, n + k)[i] = t[n + i]
    BY <1>1, <1>3
  <2> QED BY <2>2, <2>3
<1>5. n + k = p + Len(b) + Len(w) /\ n + k \in 0..Len(t)
  <2>1. Len(w) = k
    BY <1>4, Zenon
  <2> QED BY <1>3, <2>1, SMT
<1>6. \A i \in 1..Len(w) : w[i] = t[p + Len(b) + i]
  BY <1>3, <1>4
<1>7. Waiting(t, n + k, w, b, p)
  BY <1>1, <1>2, <1>5, <1>6 DEF Waiting
<1> QED BY <1>4, <1>7

-----------------------------------------------------------------------------
(* What was handed on when the text up to p was.                           *)
HandedOn(t, p, l) ==
    /\ l.n = LinesTo(t, p)
    /\ p # 0 => l.line = LineBehind(t, p)

(* From where on the text waits: behind a cut, or the end of all of it.    *)
From(t, n, pi, r, l) ==
    \E p \in Nat :
        /\ Waiting(t, n, pi, r.buf, p)
        /\ Aligned(t, p) \/ p = 0 \/ (r.eof /\ p = n)
        /\ HandedOn(t, p, l)

LineInv ==
    /\ feed \in DOMAIN Feeds
    /\ lr = [buf |-> lr.buf, eof |-> lr.eof]
    /\ lr.eof => ~ open /\ pipe = <<>>
    /\ phase \in {"last", "ended"} /\ sink => lr.eof /\ lr.buf = <<>>
    /\ From(FeedText, fed, pipe, lr, last)

LEMMA InitLine == Init => LineInv
<1> SUFFICES ASSUME Init PROVE LineInv
  OBVIOUS
<1>1. /\ feed \in DOMAIN Feeds /\ fed = 0 /\ pipe = <<>> /\ phase = "loop"
      /\ lr = [buf |-> <<>>, eof |-> FALSE] /\ last = [n |-> 0, line |-> <<>>]
  BY DEF Init, ReaderInit
<1>2. FeedText \in Seq({FeedText[i] : i \in DOMAIN FeedText})
  BY <1>1, MainLoopAssumption DEF FeedText
<1>3. PICK K : FeedText \in Seq(K)
  BY <1>2
<1>4. LrBuf \in Nat
  BY LineReaderAssumption
<1>5. Waiting(FeedText, 0, <<>>, <<>>, 0)
  <2>1. <<>> \in Seq(K) /\ Len(<<>>) = 0 /\ Len(FeedText) \in Nat
    BY <1>3
  <2> QED BY <1>3, <1>4, <2>1 DEF Waiting
<1>6. HandedOn(FeedText, 0, last)
  BY <1>1 DEF HandedOn, LinesTo
<1>7. lr.buf = <<>> /\ lr.eof = FALSE
  BY <1>1
<1>8. From(FeedText, fed, pipe, lr, last)
  BY <1>1, <1>5, <1>6, <1>7 DEF From
<1> QED BY <1>1, <1>7, <1>8 DEF LineInv

LEMMA TakeLineLine ==
    ASSUME LineInv, NEW ok \in BOOLEAN, TakeLine(ok)
    PROVE  LineInv'
<1>1. /\ LineReady(lr) /\ lr' = WithoutLine(lr)
      /\ last' = [n |-> last.n + 1, line |-> LineOf(lr)]
      /\ feed' = feed /\ fed' = fed /\ open' = open /\ pipe' = pipe /\ sink' = sink
  BY DEF TakeLine, input
<1>2. phase = "loop"
  BY DEF TakeLine
<1>3. phase' \in {"last", "ended"} => ~ sink
  <2>1. CASE \E d \in Decisions(Parse(LineOf(lr))) : Handle(Parse(LineOf(lr)), d, ok)
    <3>1. \E ts : phase' = IF ts # <<>> /\ ~ sink THEN "last" ELSE "loop"
      BY <2>1 DEF Handle
    <3> QED BY <3>1
  <2>2. CASE \E m : phase' = IF m.ok = "never" THEN "hung" ELSE phase
    BY <1>2, <2>2
  <2> QED BY <2>1, <2>2 DEF TakeLine, Understood
<1>4. PICK t, b, k : t = FeedText /\ b = lr.buf /\ k = Take(lr)
  OBVIOUS
<1>5. PICK p \in Nat : /\ Waiting(t, fed, pipe, b, p)
                       /\ Aligned(t, p) \/ p = 0 \/ (lr.eof /\ p = fed)
                       /\ HandedOn(t, p, last)
  BY <1>4 DEF LineInv, From
<1>6. TakesLine(b, lr.eof, k)
  <2>1. PICK K : b \in Seq(K) /\ Len(b) <= LrBuf
    BY <1>5 DEF Waiting
  <2>2. Take(lr) > 0
    BY <1>1 DEF LineReady
  <2> QED BY <1>4, <2>1, <2>2, TakeSpec
<1>7. Aligned(t, p) \/ p = 0
  <2>1. ASSUME lr.eof, p = fed PROVE FALSE
    <3>1. fed = p + Len(b) + Len(pipe) /\ \E K : b \in Seq(K) /\ pipe \in Seq(K)
      BY <1>5 DEF Waiting
    <3>2. Len(b) \in Nat /\ Len(pipe) \in Nat
      BY <3>1
    <3>3. Len(b) # 0
      BY <1>6, <3>2 DEF TakesLine
    <3> QED BY <2>1, <3>1, <3>2, <3>3
  <2> QED BY <1>5, <2>1
<1>8. lr.eof => pipe = <<>>
  BY DEF LineInv
<1>9. /\ p + k \in Nat /\ p + k # 0
      /\ Waiting(t, fed, pipe, SubSeq(b, k + 1, Len(b)), p + k)
      /\ Aligned(t, p + k) \/ (lr.eof /\ p + k = fed)
      /\ LinesTo(t, p + k) = LinesTo(t, p) + 1
      /\ SubSeq(b, 1, IF k < LineMax THEN k ELSE LineMax) = LineBehind(t, p + k)
  BY <1>5, <1>6, <1>7, <1>8, LineTaken
<1>10. lr' = [buf |-> SubSeq(b, k + 1, Len(b)), eof |-> lr.eof]
  <2>1. lr = [buf |-> lr.buf, eof |-> lr.eof]
    BY DEF LineInv
  <2> QED BY <1>1, <1>4, <2>1 DEF WithoutLine
<1>11. lr'.buf = SubSeq(b, k + 1, Len(b)) /\ lr'.eof = lr.eof
  BY <1>10
<1>12. last'.n = LinesTo(t, p) + 1 /\ last'.line = SubSeq(b, 1, IF k < LineMax THEN k ELSE LineMax)
  BY <1>1, <1>4, <1>5 DEF HandedOn, LineOf
<1>13. HandedOn(t, p + k, last')
  BY <1>9, <1>12 DEF HandedOn
<1>14. From(t, fed, pipe, lr', last')
  BY <1>9, <1>11, <1>13 DEF From
<1>15. FeedText' = t
  BY <1>1, <1>4 DEF FeedText
<1>16. lr' = [buf |-> lr'.buf, eof |-> lr'.eof]
  BY <1>10
<1>17. feed' \in DOMAIN Feeds /\ (lr'.eof => ~ open' /\ pipe' = <<>>)
  BY <1>1, <1>11 DEF LineInv
<1> QED BY <1>1, <1>3, <1>14, <1>15, <1>16, <1>17 DEF LineInv

LEMMA PollLine ==
    ASSUME LineInv, NEW ok \in BOOLEAN, Poll(ok)
    PROVE  LineInv'
<1>1. /\ phase = "loop" /\ phase' = phase
      /\ lr' = Filled(lr, pipe, open) /\ pipe' = LeftIn(lr, pipe)
      /\ feed' = feed /\ fed' = fed /\ open' = open /\ sink' = sink /\ last' = last
  BY DEF Poll
<1>2. PICK t, b : t = FeedText /\ b = lr.buf
  OBVIOUS
<1>3. PICK p \in Nat : /\ Waiting(t, fed, pipe, b, p)
                       /\ Aligned(t, p) \/ p = 0 \/ (lr.eof /\ p = fed)
                       /\ HandedOn(t, p, last)
  BY <1>2 DEF LineInv, From
<1>4. PICK K : b \in Seq(K) /\ pipe \in Seq(K) /\ Len(b) <= LrBuf
  BY <1>3 DEF Waiting
<1>5. lr = [buf |-> b, eof |-> lr.eof] /\ ~ lr.eof
  BY <1>2 DEF LineInv, Poll
<1>6. PICK r \in Nat : r = ReadCount(lr, pipe) /\ r <= Len(pipe) /\ Len(b) + r <= LrBuf
  <2>1. PICK c \in Nat, q \in Nat : c = Len(b) /\ q = Len(pipe)
    BY <1>4
  <2>2. LrBuf \in Nat /\ c <= LrBuf
    BY <1>4, <2>1, LineReaderAssumption
  <2>3. ReadCount(lr, pipe) = IF q < LrBuf - c THEN q ELSE LrBuf - c
    BY <1>2, <2>1 DEF ReadCount, Room
  <2>4. ReadCount(lr, pipe) \in Nat /\ ReadCount(lr, pipe) <= q /\ c + ReadCount(lr, pipe) <= LrBuf
    BY <2>2, <2>3
  <2> QED BY <2>1, <2>4
<1>7. pipe' = SubSeq(pipe, r + 1, Len(pipe))
  BY <1>1, <1>6 DEF LeftIn
<1>8. From(t, fed, pipe', lr', last) /\ lr' = [buf |-> lr'.buf, eof |-> lr'.eof]
      /\ (lr'.eof => ~ open /\ pipe' = <<>>)
  <2>1. CASE Room(lr) > 0 /\ pipe = <<>> /\ ~ open
    <3>1. lr' = [buf |-> b, eof |-> TRUE]
      <4>1. lr' = [lr EXCEPT !.eof = TRUE]
        BY <1>1, <2>1 DEF Filled
      <4>2. PICK r1, r2, e : r1 = lr' /\ r2 = lr /\ e = lr.eof
        OBVIOUS
      <4>3. r2 = [buf |-> b, eof |-> e]
        BY <1>5, <4>2
      <4>4. r1 = [r2 EXCEPT !.eof = TRUE]
        BY <4>1, <4>2, Zenon
      <4>5. r1 = [buf |-> b, eof |-> TRUE]
        BY <4>3, <4>4
      <4> QED BY <4>2, <4>5, Zenon
    <3>2. lr'.buf = b /\ lr'.eof = TRUE
      BY <3>1
    <3>3. r = 0 /\ pipe' = <<>>
      <4>1. Len(pipe) = 0
        BY <2>1
      <4>2. r = 0
        BY <1>6, <4>1
      <4> QED BY <1>7, <2>1, <4>2
    <3>4. Waiting(t, fed, pipe', b, p)
      BY <1>3, <2>1, <3>3
    <3>5. Aligned(t, p) \/ p = 0
      BY <1>3, <1>5
    <3>6. From(t, fed, pipe', lr', last)
      BY <1>3, <3>2, <3>4, <3>5 DEF From
    <3> QED BY <2>1, <3>1, <3>2, <3>3, <3>6
  <2>2. CASE ~ (Room(lr) > 0 /\ pipe = <<>> /\ ~ open)
    <3>1. lr' = [buf |-> b \o SubSeq(pipe, 1, r), eof |-> lr.eof]
      <4>1. PICK u : u = b \o SubSeq(pipe, 1, r)
        OBVIOUS
      <4>2. lr' = [lr EXCEPT !.buf = lr.buf \o SubSeq(pipe, 1, r)]
        <5>1. lr' = [lr EXCEPT !.buf = lr.buf \o SubSeq(pipe, 1, ReadCount(lr, pipe))]
          BY <1>1, <2>2 DEF Filled
        <5> QED BY <1>6, <5>1
      <4>3. lr' = [lr EXCEPT !.buf = u]
        BY <1>2, <4>1, <4>2
      <4>4. lr = [buf |-> b, eof |-> lr.eof]
        BY <1>5
      <4>5. lr' = [buf |-> u, eof |-> lr.eof]
        BY <4>3, <4>4
      <4> QED BY <4>1, <4>5
    <3>2. lr'.buf = b \o SubSeq(pipe, 1, r) /\ lr'.eof = lr.eof
      BY <3>1
    <3>3. r \in 0..Len(pipe)
      BY <1>4, <1>6
    <3>4. Waiting(t, fed, SubSeq(pipe, r + 1, Len(pipe)), b \o SubSeq(pipe, 1, r), p)
      BY <1>3, <1>6, <3>3, ReadWaits
    <3>5. Aligned(t, p) \/ p = 0
      BY <1>3, <1>5
    <3>6. From(t, fed, pipe', lr', last)
      BY <1>3, <1>7, <3>2, <3>4, <3>5 DEF From
    <3> QED BY <1>5, <3>1, <3>2, <3>6
  <2> QED BY <2>1, <2>2
<1>9. FeedText' = t
  BY <1>1, <1>2 DEF FeedText
<1>10. ~ (phase' \in {"last", "ended"})
  BY <1>1
<1>11. feed' \in DOMAIN Feeds
  BY <1>1 DEF LineInv
<1> QED BY <1>1, <1>8, <1>9, <1>10, <1>11 DEF LineInv

LEMMA WriteLine ==
    ASSUME LineInv, NEW k \in 1..Len(FeedText), Write(k)
    PROVE  LineInv'
<1>1. /\ open /\ pipe = <<>> /\ fed + k \in Feeds[feed].stops
      /\ pipe' = SubSeq(FeedText, fed + 1, fed + k) /\ fed' = fed + k
      /\ feed' = feed /\ open' = open /\ lr' = lr /\ phase' = phase /\ sink' = sink
      /\ last' = last
  BY DEF Write, history
<1>2. PICK t : t = FeedText
  OBVIOUS
<1>3. PICK p \in Nat : /\ Waiting(t, fed, <<>>, lr.buf, p)
                       /\ Aligned(t, p) \/ p = 0 \/ (lr.eof /\ p = fed)
                       /\ HandedOn(t, p, last)
  BY <1>1, <1>2 DEF LineInv, From
<1>4. ~ lr.eof
  BY <1>1 DEF LineInv
<1>5. fed + k <= Len(t) /\ k \in Nat
  <2>1. fed + k \in 1..Len(FeedText)
    BY <1>1, MainLoopAssumption DEF FeedText, LineInv
  <2> QED BY <1>2, <2>1
<1>6. Waiting(t, fed + k, SubSeq(t, fed + 1, fed + k), lr.buf, p)
  BY <1>3, <1>5, WriteWaits
<1>7. From(t, fed', pipe', lr, last)
  BY <1>1, <1>2, <1>3, <1>4, <1>6 DEF From
<1>8. FeedText' = t
  BY <1>1, <1>2 DEF FeedText
<1>9. /\ feed' \in DOMAIN Feeds /\ lr' = [buf |-> lr'.buf, eof |-> lr'.eof]
      /\ ~ lr'.eof /\ (phase' \in {"last", "ended"} /\ sink' => lr'.eof /\ lr'.buf = <<>>)
  BY <1>1, <1>4 DEF LineInv
<1> QED BY <1>1, <1>7, <1>8, <1>9 DEF LineInv

(* The other steps leave the lines alone, and the stream is at its end     *)
(* when the loop is, if somebody reads the output.                         *)
LEMMA SameLine ==
    ASSUME LineInv, UNCHANGED <<feed, fed, pipe, lr, last>>,
           lr.eof => (open' = open),
           phase' \in {"last", "ended"} /\ sink' => lr.eof /\ lr.buf = <<>>
    PROVE  LineInv'
<1>1. feed' = feed /\ fed' = fed /\ pipe' = pipe /\ lr' = lr /\ last' = last
  OBVIOUS
<1>2. FeedText' = FeedText
  BY <1>1 DEF FeedText
<1>3. From(FeedText', fed', pipe', lr', last')
  BY <1>1, <1>2 DEF LineInv
<1>4. /\ feed' \in DOMAIN Feeds /\ lr' = [buf |-> lr'.buf, eof |-> lr'.eof]
      /\ (lr'.eof => ~ open' /\ pipe' = <<>>)
  BY <1>1 DEF LineInv
<1> QED BY <1>1, <1>3, <1>4 DEF LineInv

LEMMA AtEofLine ==
    ASSUME LineInv, NEW ok \in BOOLEAN, AtEof(ok)
    PROVE  LineInv'
<1>1. /\ ~ LineReady(lr) /\ lr.eof /\ UNCHANGED <<feed, fed, pipe, lr, last>> /\ open' = open
  BY DEF AtEof, input
<1>2. PICK b, p : b = lr.buf /\ Waiting(FeedText, fed, pipe, b, p)
  BY DEF LineInv, From
<1>3. PICK K : b \in Seq(K) /\ Len(b) <= LrBuf
  BY <1>2 DEF Waiting
<1>4. Take(lr) = 0
  BY <1>1, <1>2, <1>3, TakeSpec DEF LineReady
<1>5. b = <<>>
  BY <1>1, <1>2, <1>3, <1>4, TakeSpec
<1> QED BY <1>1, <1>2, <1>5, SameLine

LEMMA NextLine == ASSUME LineInv, [Next]_vars PROVE LineInv'
<1>1. CASE UNCHANGED vars
  <2>1. UNCHANGED <<feed, fed, pipe, lr, last>> /\ open' = open /\ phase' = phase /\ sink' = sink
    BY <1>1 DEF vars, input, history
  <2> QED BY <2>1, SameLine DEF LineInv
<1>2. CASE \E k \in 1..Len(FeedText) : Write(k)
  BY <1>2, WriteLine
<1>3. CASE UpstreamEnds
  <2>1. UNCHANGED <<feed, fed, pipe, lr, last>> /\ open /\ phase' = phase /\ sink' = sink
    BY <1>3 DEF UpstreamEnds, history
  <2> QED BY <2>1, SameLine DEF LineInv
<1>4. CASE FrameArrives
  <2>1. UNCHANGED <<feed, fed, pipe, lr, last>> /\ open' = open /\ phase' = phase /\ sink' = sink
    BY <1>4 DEF FrameArrives, input, history
  <2> QED BY <2>1, SameLine DEF LineInv
<1>5. CASE ReaderLeaves
  <2>1. UNCHANGED <<feed, fed, pipe, lr, last>> /\ open' = open /\ ~ sink'
    BY <1>5 DEF ReaderLeaves, input, history
  <2> QED BY <2>1, SameLine
<1>6. CASE Turn
  BY <1>6, TakeLineLine, AtEofLine, PollLine DEF Turn
<1>7. CASE \E ok \in BOOLEAN : Finish(ok)
  <2>1. UNCHANGED <<feed, fed, pipe, lr, last>> /\ open' = open /\ sink' = sink /\ phase = "last"
    BY <1>7 DEF Finish, input
  <2> QED BY <2>1, SameLine DEF LineInv
<1>8. CASE Tick
  <2>1. UNCHANGED <<feed, fed, pipe, lr, last>> /\ open' = open /\ phase' = phase /\ sink' = sink
    BY <1>8 DEF Tick, input
  <2> QED BY <2>1, SameLine DEF LineInv
<1> QED BY <1>1, <1>2, <1>3, <1>4, <1>5, <1>6, <1>7, <1>8 DEF Next

LEMMA LineInvOrder == LineInv => LinesInOrder
<1> SUFFICES ASSUME LineInv PROVE LinesInOrder
  OBVIOUS
<1>1. PICK t, b : t = FeedText /\ b = lr.buf
  OBVIOUS
<1>2. PICK p \in Nat : /\ Waiting(t, fed, pipe, b, p)
                       /\ Aligned(t, p) \/ p = 0 \/ (lr.eof /\ p = fed)
                       /\ HandedOn(t, p, last)
  BY <1>1 DEF LineInv, From
<1>3. PICK K : t \in Seq(K) /\ b \in Seq(K) /\ pipe \in Seq(K)
  BY <1>2 DEF Waiting
<1>4. /\ fed = p + Len(b) + Len(pipe) /\ fed \in 0..Len(t) /\ Len(b) \in Nat /\ Len(pipe) \in Nat
      /\ Len(t) \in Nat
  BY <1>2, <1>3 DEF Waiting
<1> DEFINE ends == Ends(SubSeq(t, 1, fed))
<1>5. ASSUME p # 0
      PROVE  /\ p \in ends /\ Cardinality({f \in ends : f <= p}) = last.n
             /\ last.line = LineTo(SubSeq(t, 1, fed), p)
             /\ p = fed => Cardinality(ends) = last.n
  <2>1. p \in 1..fed /\ (Aligned(t, p) \/ p = fed)
    BY <1>2, <1>4, <1>5
  <2>2. /\ p \in ends /\ Cardinality({f \in ends : f <= p}) = LinesTo(t, p)
        /\ LineTo(SubSeq(t, 1, fed), p) = LineBehind(t, p)
        /\ p = fed => Cardinality(ends) = LinesTo(t, p)
    BY <1>3, <1>4, <2>1, EndsPrefix
  <2>3. last.n = LinesTo(t, p) /\ last.line = LineBehind(t, p)
    BY <1>2, <1>5 DEF HandedOn
  <2> HIDE DEF ends
  <2> QED BY <2>2, <2>3
<1>6. ASSUME p = 0 PROVE last.n = 0
  BY <1>2, <1>6 DEF HandedOn, LinesTo
<1>7. ASSUME phase \in {"last", "ended"}, sink PROVE last.n = Cardinality(ends)
  <2>1. b = <<>> /\ pipe = <<>>
    BY <1>1, <1>7 DEF LineInv
  <2>2. Len(b) = 0 /\ Len(pipe) = 0
    BY <2>1
  <2>3. p = fed
    BY <1>4, <2>2
  <2>4. CASE p = 0
    <3>1. SubSeq(t, 1, fed) = <<>>
      BY <1>3, <2>3, <2>4
    <3>2. ends = {}
      <4>1. DOMAIN SubSeq(t, 1, fed) = {}
        <5>1. SubSeq(t, 1, 0) \in Seq(K) /\ Len(SubSeq(t, 1, 0)) = 0
          BY <1>3
        <5>2. DOMAIN SubSeq(t, 1, 0) = 1..0
          BY <5>1
        <5>3. fed = 0
          BY <2>3, <2>4
        <5> QED BY <5>2, <5>3
      <4>2. \A w : DOMAIN w = {} => Ends(w) = {}
        BY DEF Ends
      <4> QED BY <4>1, <4>2
    <3> QED BY <1>6, <2>4, <3>2, FS_EmptySet
  <2>5. CASE p # 0
    BY <1>5, <2>3, <2>5
  <2> QED BY <2>4, <2>5
<1>8. last.n > 0 => p # 0
  BY <1>6
<1> QED BY <1>1, <1>5, <1>7, <1>8 DEF LinesInOrder

(* The loop gets the lines that were written, in their order and whole,    *)
(* however the writes and the reads of the pipe cut the text up, and none  *)
(* is left at the end of the stream (lr_fill and lr_line of src/daemon.c): *)
(* for any text, any writes and any sizes of the buffer and of the line.   *)
THEOREM LinesWholeInOrder == Spec => []LinesInOrder
<1>1. LineInv /\ [Next]_vars => LineInv'
  BY NextLine
<1> QED BY <1>1, InitLine, LineInvOrder, PTL DEF Spec

-----------------------------------------------------------------------------
(* What the page says of a save is true, for any files and texts, and any  *)
(* number of saves, edits by hand, ends and restarts of n2k-mux.  Of the   *)
(* parser nothing is used but that it reads a text or refuses it.          *)
SaveTypes ==
    /\ web \in {"idle", "backup", "replace", "signal"}
    /\ daemon \in {"down", "run", "load", "take"}
    /\ hup \in BOOLEAN
    /\ promised = [given |-> promised.given, text |-> promised.text]
    /\ promised.given \in BOOLEAN

(* What is about to be written reads.                                      *)
WriteInv == web # "idle" => Parses(towrite)

(* As long as the promise stands the file is the one it was given for, and *)
(* whoever does not have it in force yet will look at that file.           *)
PromiseInv ==
    promised.given =>
        /\ file = promised.text /\ Parses(file)
        /\ (daemon = "take" /\ ~hup) => loaded = promised.text

SaveInv == SaveTypes /\ WriteInv /\ PromiseInv /\ PromiseHeld

USE DEF SaveTypes, WriteInv, PromiseInv, PromiseHeld

LEMMA InitSave == SInit => SaveInv
<1> SUFFICES ASSUME SInit PROVE SaveInv
  OBVIOUS
<1>1. promised.given = FALSE /\ promised = [given |-> promised.given, text |-> promised.text]
  BY DEF SInit, NoPromise
<1>2. ~promised.given /\ promised.given \in BOOLEAN
  BY <1>1, Zenon
<1>3. web = "idle" /\ daemon = "run" /\ hup = FALSE
  BY DEF SInit
<1>4. hup \in BOOLEAN
  BY <1>3, Zenon
<1> QED BY <1>1, <1>2, <1>3, <1>4 DEF SaveInv

LEMMA ToWriteParses ==
    ASSUME NEW old, NEW text, Parses(text)
    PROVE  Parses(ToWrite(old, text))
BY DEF ToWrite

LEMMA SaveKeeps == ASSUME SaveInv, NEW text \in Texts, Save(text) PROVE SaveInv'
<1>1. Parses(towrite') /\ web' = "backup" /\ UNCHANGED <<disk, promised, mux>>
  BY ToWriteParses DEF Save
<1> QED BY <1>1 DEF SaveInv, disk, mux

LEMMA BackupKeeps == ASSUME SaveInv, Backup PROVE SaveInv'
BY DEF SaveInv, Backup, mux

LEMMA ReplaceKeeps == ASSUME SaveInv, Replace PROVE SaveInv'
<1>1. CASE web' = "signal" /\ promised' = NoPromise /\ UNCHANGED towrite
  BY <1>1 DEF SaveInv, Replace, mux, NoPromise
<1>2. CASE Answered /\ UNCHANGED <<file, promised>>
  BY <1>2 DEF SaveInv, Replace, Answered, mux
<1> QED BY <1>1, <1>2 DEF Replace

LEMMA SignalKeeps == ASSUME SaveInv, Signal PROVE SaveInv'
<1>1. web = "signal" /\ web' = "idle" /\ UNCHANGED <<file, daemon, force, loaded>>
  BY DEF Signal, Answered, disk
<1>2. CASE hup' = TRUE /\ promised' = [given |-> file = towrite, text |-> file]
  <2>1. promised'.given \in BOOLEAN /\ promised'.text = file /\ (promised'.given => file = towrite)
    BY <1>2
  <2>2. hup' /\ hup' \in BOOLEAN
    BY <1>2
  <2>3. promised' = [given |-> promised'.given, text |-> promised'.text]
    BY <1>2
  <2> QED BY <1>1, <2>1, <2>2, <2>3 DEF SaveInv
<1>3. CASE UNCHANGED <<hup, promised>>
  BY <1>1, <1>3 DEF SaveInv
<1> QED BY <1>2, <1>3 DEF Signal

LEMMA NoticeSignalKeeps == ASSUME SaveInv, NoticeSignal PROVE SaveInv'
BY DEF SaveInv, NoticeSignal, disk, page

LEMMA ReadFileKeeps == ASSUME SaveInv, ReadFile PROVE SaveInv'
BY DEF SaveInv, ReadFile, disk, page

LEMMA ReloadKeeps == ASSUME SaveInv, Reload PROVE SaveInv'
<1>1. daemon = "take" /\ force' = Taken /\ UNCHANGED <<hup, file, web, towrite, promised>> /\ daemon' = "run"
  BY DEF Reload, AfterReload, disk, page
<1>2. (promised.given /\ ~hup) => Taken = promised.text
  BY <1>1 DEF SaveInv, Taken
<1> QED BY <1>1, <1>2 DEF SaveInv

LEMMA EndKeeps == ASSUME SaveInv, End PROVE SaveInv'
BY DEF SaveInv, End, disk, page

LEMMA StartKeeps == ASSUME SaveInv, Start PROVE SaveInv'
BY DEF SaveInv, Start, disk, page

LEMMA EditByHandKeeps == ASSUME SaveInv, EditByHand PROVE SaveInv'
BY DEF SaveInv, EditByHand, mux, NoPromise

LEMMA NextSave == SaveInv /\ [SNext]_svars => SaveInv'
<1> SUFFICES ASSUME SaveInv, [SNext]_svars PROVE SaveInv'
  OBVIOUS
<1>1. CASE UNCHANGED svars
  BY <1>1 DEF SaveInv, svars, disk, page, mux
<1>2. CASE SNext
  BY <1>2, SaveKeeps, BackupKeeps, ReplaceKeeps, SignalKeeps, NoticeSignalKeeps, ReadFileKeeps,
     ReloadKeeps, EndKeeps, StartKeeps, EditByHandKeeps DEF SNext
<1> QED BY <1>1, <1>2

(* Once the page has answered that the configuration is reloaded, and      *)
(* n2k-mux has nothing left to do for it, it is the one in force           *)
(* (handle_config_post of src/web.c; main and config_reload of the daemon).*)
THEOREM PageKeepsItsWord == SSpec => []PromiseHeld
<1>1. SaveInv => PromiseHeld
  BY DEF SaveInv
<1> QED BY <1>1, InitSave, NextSave, PTL DEF SSpec

=============================================================================

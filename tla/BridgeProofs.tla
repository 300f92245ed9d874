---------------------------- MODULE BridgeProofs ----------------------------
(***************************************************************************)
(* No torn line, for any number of clients and connections, lines of any   *)
(* length, buffers of any size and any number of waits; and what arrives   *)
(* of every identifier and every byte of a message.                        *)
(***************************************************************************)
EXTENDS Bridge, SequenceTheorems, FiniteSetTheorems, TLAPS

-----------------------------------------------------------------------------
(* What follows a unit on a connection.                                    *)
After(u) == IF u = Units THEN 1 ELSE u + 1

(* A reader that is at h in a line, with w still to come, of which the     *)
(* last line has its first p units only, or all of them if p is 0.         *)
Flows(h, w, p) ==
    /\ Len(h) < Units
    /\ \A i \in 1..Len(h) : h[i] = i
    /\ w # <<>> => w[1] = Len(h) + 1
    /\ \A i \in 1..(Len(w) - 1) : w[i + 1] = After(w[i])
    /\ IF w = <<>> THEN Len(h) = p ELSE w[Len(w)] = IF p = 0 THEN Units ELSE p

Unit == 1..Units

(* What send_all has sent of the line that it is at.                       *)
Pending(c) == IF turn # 0 /\ Turn = c THEN off ELSE 0

IInv ==
    /\ off \in 0..(Units - 1)
    /\ wire \in [Conns -> Seq(Unit)] /\ half \in [Conns -> Seq(Unit)]
    /\ \A c \in Conns : Flows(half[c], wire[c], Pending(c))
    /\ torn = FALSE

LEMMA LineUnits == Line \in Seq(Unit) /\ Len(Line) = Units /\ \A i \in Unit : Line[i] = i
BY NetOutAssumption DEF Line, Unit

(* More of the line at its end.                                            *)
LEMMA FlowsSent ==
    ASSUME NEW h \in Seq(Unit), NEW w \in Seq(Unit), NEW p \in 0..(Units - 1), Flows(h, w, p),
           NEW n \in 1..(Units - p)
    PROVE  /\ w \o SubSeq(Line, p + 1, p + n) \in Seq(Unit)
           /\ Flows(h, w \o SubSeq(Line, p + 1, p + n), IF p + n = Units THEN 0 ELSE p + n)
<1> DEFINE v == SubSeq(Line, p + 1, p + n)
           s == w \o v
           q == IF p + n = Units THEN 0 ELSE p + n
<1>0. Units \in Nat \ {0} /\ p \in Nat /\ n \in Nat \ {0} /\ p + n <= Units
  BY NetOutAssumption
<1>1. v \in Seq(Unit) /\ Len(v) = n /\ \A i \in 1..n : v[i] = p + i
  <2>1. \A i \in (p + 1)..(p + n) : Line[i] = i /\ Line[i] \in Unit
    BY <1>0, LineUnits DEF Unit
  <2>2. /\ v \in Seq(Unit) /\ Len(v) = IF p + 1 <= p + n THEN p + n - (p + 1) + 1 ELSE 0
        /\ \A i \in 1..(p + n - (p + 1) + 1) : v[i] = Line[p + 1 + i - 1]
    BY <1>0, <2>1, SubSeqProperties
  <2> QED BY <1>0, <2>1, <2>2
<1>2. /\ s \in Seq(Unit) /\ Len(s) = Len(w) + n
      /\ \A i \in 1..(Len(w) + n) : s[i] = IF i <= Len(w) THEN w[i] ELSE p + (i - Len(w))
  <2>1. /\ s \in Seq(Unit) /\ Len(s) = Len(w) + Len(v)
        /\ \A i \in 1..(Len(w) + Len(v)) : s[i] = IF i <= Len(w) THEN w[i] ELSE v[i - Len(w)]
    BY <1>1, ConcatProperties
  <2>2. ASSUME NEW i \in 1..(Len(w) + n), ~(i <= Len(w)) PROVE s[i] = p + (i - Len(w))
    <3>1. i - Len(w) \in 1..n
      BY <1>0, <2>2, LenProperties
    <3> QED BY <1>1, <2>1, <2>2, <3>1
  <2> QED BY <1>1, <2>1, <2>2
<1>3. Len(w) \in Nat /\ Len(h) \in Nat /\ s # <<>>
  <2>1. Len(w) \in Nat /\ Len(h) \in Nat
    BY LenProperties
  <2>2. Len(s) # 0
    BY <1>0, <1>2, <2>1
  <2> QED BY <2>1, <2>2, EmptySeq
<1>4. s[1] = Len(h) + 1
  <2>1. CASE w = <<>>
    BY <1>0, <1>2, <2>1 DEF Flows
  <2>2. CASE w # <<>>
    BY <1>0, <1>2, <1>3, <2>2 DEF Flows
  <2> QED BY <2>1, <2>2
<1>5. ASSUME NEW i \in 1..(Len(s) - 1) PROVE s[i + 1] = After(s[i])
  <2>1. CASE i < Len(w)
    <3>1. i \in 1..(Len(w) - 1) /\ s[i] = w[i] /\ s[i + 1] = w[i + 1]
      BY <1>2, <1>3, <2>1
    <3> QED BY <3>1 DEF Flows
  <2>2. CASE i = Len(w)
    <3>1. s[i] = (IF p = 0 THEN Units ELSE p) /\ s[i + 1] = p + 1
      BY <1>0, <1>2, <1>3, <2>2 DEF Flows
    <3> QED BY <1>0, <3>1 DEF After
  <2>3. CASE i > Len(w)
    <3>1. s[i] = p + (i - Len(w)) /\ s[i + 1] = p + (i + 1 - Len(w)) /\ i - Len(w) < n
      BY <1>0, <1>2, <1>3, <2>3
    <3>2. s[i] # Units /\ s[i + 1] = s[i] + 1
      <4>1. i - Len(w) \in Int /\ i + 1 - Len(w) = i - Len(w) + 1
        BY <1>3
      <4> HIDE DEF s
      <4> QED BY <1>0, <3>1, <4>1
    <3> QED BY <3>2 DEF After
  <2> QED BY <1>3, <2>1, <2>2, <2>3
<1>6. s[Len(s)] = IF q = 0 THEN Units ELSE q
  <2>1. Len(w) \in Nat /\ Len(s) = Len(w) + n
    BY <1>2
  <2>2. s[Len(s)] = p + (Len(s) - Len(w))
    BY <1>0, <1>2, <2>1
  <2>3. s[Len(s)] = p + n
    <3> HIDE DEF s
    <3> QED BY <1>0, <2>1, <2>2
  <2> HIDE DEF s
  <2> QED BY <1>0, <2>3
<1>7. Flows(h, s, q)
  BY <1>3, <1>4, <1>5, <1>6 DEF Flows
<1> QED BY <1>2, <1>7

(* The reader takes a unit.                                                *)
LEMMA FlowsRead ==
    ASSUME NEW h \in Seq(Unit), NEW w \in Seq(Unit), NEW p \in 0..(Units - 1), Flows(h, w, p),
           w # <<>>
    PROVE  /\ Append(h, Head(w)) \in Seq(Unit) /\ Tail(w) \in Seq(Unit)
           /\ Head(w) = Units => Append(h, Head(w)) = Line /\ Flows(<<>>, Tail(w), p)
           /\ Head(w) # Units => Flows(Append(h, Head(w)), Tail(w), p)
<1> DEFINE l == Append(h, Head(w))
           t == Tail(w)
<1>0. Units \in Nat \ {0} /\ Len(h) \in Nat /\ Len(w) \in Nat \ {0}
  BY NetOutAssumption
<1>1. Head(w) = Len(h) + 1 /\ Head(w) = w[1] /\ Head(w) \in Unit
  BY <1>0 DEF Flows, Unit
<1>2. l \in Seq(Unit) /\ Len(l) = Len(h) + 1 /\ \A i \in 1..Len(l) : l[i] = i
  <2>1. /\ l \in Seq(Unit) /\ Len(l) = Len(h) + 1
        /\ \A i \in 1..Len(h) : l[i] = h[i]
        /\ l[Len(h) + 1] = Head(w)
    BY <1>1, AppendProperties
  <2> QED BY <1>0, <1>1, <2>1 DEF Flows
<1>3. /\ t \in Seq(Unit) /\ Len(t) = Len(w) - 1
      /\ \A i \in 1..Len(t) : t[i] = w[i + 1]
  BY HeadTailProperties
<1>4. \A i \in 1..(Len(t) - 1) : t[i + 1] = After(t[i])
  <2> SUFFICES ASSUME NEW i \in 1..(Len(t) - 1) PROVE t[i + 1] = After(t[i])
    OBVIOUS
  <2>1. t[i] = w[i + 1] /\ t[i + 1] = w[i + 2] /\ i + 1 \in 1..(Len(w) - 1)
    BY <1>0, <1>3
  <2>2. w[i + 1 + 1] = After(w[i + 1])
    BY <2>1 DEF Flows
  <2> QED BY <2>1, <2>2
<1>5. t # <<>> => t[1] = After(Head(w)) /\ t[Len(t)] = IF p = 0 THEN Units ELSE p
  <2> SUFFICES ASSUME t # <<>> PROVE t[1] = After(Head(w)) /\ t[Len(t)] = IF p = 0 THEN Units ELSE p
    OBVIOUS
  <2>1. Len(t) \in Nat \ {0}
    BY <1>3
  <2>2. t[1] = w[2] /\ t[Len(t)] = w[Len(w)] /\ 1 \in 1..(Len(w) - 1)
    BY <1>0, <1>3, <2>1
  <2>3. w[1 + 1] = After(w[1])
    BY <2>2 DEF Flows
  <2> QED BY <1>1, <2>2, <2>3 DEF Flows
<1>6. t = <<>> => Head(w) = IF p = 0 THEN Units ELSE p
  <2> SUFFICES ASSUME t = <<>> PROVE Head(w) = IF p = 0 THEN Units ELSE p
    OBVIOUS
  <2>1. Len(w) - 1 = 0
    BY <1>3, EmptySeq, Zenon
  <2>2. Len(w) = 1
    BY <1>0, <2>1
  <2>3. w[Len(w)] = IF p = 0 THEN Units ELSE p
    BY DEF Flows
  <2> QED BY <1>1, <2>2, <2>3
<1>7. ASSUME Head(w) = Units PROVE l = Line /\ Flows(<<>>, t, p)
  <2>1. l = Line
    BY <1>1, <1>2, <1>7, LineUnits, SeqEqual DEF Unit
  <2>2. t # <<>> => t[1] = 1
    BY <1>5, <1>7 DEF After
  <2>3. t = <<>> => p = 0
    BY <1>0, <1>6, <1>7
  <2> QED BY <1>0, <1>4, <1>5, <2>1, <2>2, <2>3 DEF Flows
<1>8. ASSUME Head(w) # Units PROVE Flows(l, t, p)
  <2>1. Len(l) < Units
    BY <1>0, <1>1, <1>2, <1>8 DEF Unit
  <2>2. t # <<>> => t[1] = Len(l) + 1
    BY <1>1, <1>2, <1>5, <1>8 DEF After
  <2>3. t = <<>> => Len(l) = p
    BY <1>1, <1>2, <1>6, <1>8
  <2> QED BY <1>2, <1>4, <1>5, <2>1, <2>2, <2>3 DEF Flows
<1> QED BY <1>2, <1>3, <1>7, <1>8

-----------------------------------------------------------------------------
LEMMA InitIInv == Init => IInv
<1> SUFFICES ASSUME Init PROVE IInv
  OBVIOUS
<1>1. /\ wire = [c \in Conns |-> <<>>] /\ half = [c \in Conns |-> <<>>]
      /\ turn = 0 /\ off = 0 /\ torn = FALSE
  BY DEF Init, NInit
<1>2. Flows(<<>>, <<>>, 0)
  BY NetOutAssumption DEF Flows
<1> QED BY <1>1, <1>2, NetOutAssumption DEF IInv, Pending

(* The end of a turn and the beginning of a broadcast have sent nothing.   *)
LEMMA NothingSentIInv ==
    ASSUME IInv, UNCHANGED <<wire, half, torn>>, off' = 0, \A c \in Conns : Pending(c) = 0
    PROVE  IInv'
<1>1. wire' = wire /\ half' = half /\ torn' = torn
  OBVIOUS
<1>2. off' \in 0..(Units - 1)
  BY NetOutAssumption
<1>3. ASSUME NEW c \in Conns PROVE Flows(half'[c], wire'[c], Pending(c)')
  <2>1. Pending(c) = 0 /\ Pending(c)' = 0
    BY DEF Pending
  <2>2. Flows(half[c], wire[c], Pending(c))
    BY DEF IInv
  <2> QED BY <1>1, <2>1, <2>2
<1>4. wire' \in [Conns -> Seq(Unit)] /\ half' \in [Conns -> Seq(Unit)] /\ torn' = FALSE
  BY <1>1 DEF IInv
<1> QED BY <1>2, <1>3, <1>4 DEF IInv

LEMMA IdlePending == ASSUME IInv, Idle, NEW c PROVE Pending(c) = 0
BY DEF Idle, Pending

LEMMA SendSomeIInv == ASSUME IInv, SendSome PROVE IInv'
<1> DEFINE c == Turn
<1>1. PICK n \in 1..(Units - off) :
         /\ wire' = [wire EXCEPT ![c] = @ \o SubSeq(Line, off + 1, off + n)]
         /\ UNCHANGED clients
         /\ IF off + n = Units THEN NextTurn(turn + 1)
            ELSE off' = off + n /\ UNCHANGED <<turn, waits, passed>>
  BY DEF SendSome
<1>2. turn # 0 /\ UNCHANGED <<half, torn>>
  BY DEF SendSome, Idle
<1>3. Units \in Nat \ {0} /\ off \in Nat /\ off < Units /\ n \in Nat \ {0} /\ off + n <= Units
  BY NetOutAssumption DEF IInv
<1>4. off' = (IF off + n = Units THEN 0 ELSE off + n) /\ off' \in 0..(Units - 1)
  BY <1>1, <1>3 DEF NextTurn
<1>5. off' # 0 => turn' = turn /\ Turn' = Turn
  BY <1>1, <1>4, <1>3 DEF NextTurn, Turn
<1>6. ASSUME NEW d \in Conns, d # c
      PROVE  wire'[d] = wire[d] /\ Pending(d)' = 0 /\ Pending(d) = 0
  BY <1>1, <1>5, <1>6 DEF Pending, IInv
<1>7. ASSUME NEW d \in Conns, d = c
      PROVE  wire'[d] \in Seq(Unit) /\ Flows(half[d], wire'[d], Pending(d)')
  <2>1. Pending(d) = off /\ Pending(d)' = off'
    BY <1>2, <1>3, <1>4, <1>5, <1>7 DEF Pending
  <2>2. wire'[d] = wire[d] \o SubSeq(Line, off + 1, off + n)
    BY <1>1, <1>7 DEF IInv
  <2>3. half[d] \in Seq(Unit) /\ wire[d] \in Seq(Unit) /\ Flows(half[d], wire[d], off)
    BY <2>1 DEF IInv
  <2>4. off \in 0..(Units - 1) /\ n \in 1..(Units - off)
    BY <1>1, <1>3
  <2>5. /\ wire[d] \o SubSeq(Line, off + 1, off + n) \in Seq(Unit)
        /\ Flows(half[d], wire[d] \o SubSeq(Line, off + 1, off + n), IF off + n = Units THEN 0 ELSE off + n)
    BY <2>3, <2>4, FlowsSent
  <2> QED BY <1>4, <2>1, <2>2, <2>5
<1>8. wire' \in [Conns -> Seq(Unit)]
  BY <1>1, <1>6, <1>7 DEF IInv
<1>9. \A d \in Conns : Flows(half[d], wire'[d], Pending(d)')
  <2> SUFFICES ASSUME NEW d \in Conns PROVE Flows(half[d], wire'[d], Pending(d)')
    OBVIOUS
  <2>1. CASE d = c
    BY <1>7, <2>1
  <2>2. CASE d # c
    <3>1. Flows(half[d], wire[d], Pending(d))
      BY DEF IInv
    <3>2. wire'[d] = wire[d] /\ Pending(d)' = Pending(d)
      BY <1>6, <2>2
    <3> QED BY <3>1, <3>2
  <2> QED BY <2>1, <2>2
<1>10. half' = half /\ torn' = torn
  BY <1>2
<1>11. half' \in [Conns -> Seq(Unit)] /\ torn' = FALSE
  BY <1>10 DEF IInv
<1> QED BY <1>4, <1>8, <1>9, <1>10, <1>11 DEF IInv

LEMMA SendIInv == ASSUME IInv, Send PROVE IInv'
<1>1. CASE SendSome
  BY <1>1, SendSomeIInv
<1>2. CASE Skip
  <2>1. UNCHANGED <<wire, half, torn>> /\ off' = 0 /\ off = 0
    BY <1>2 DEF Skip, NextTurn, Skipped
  <2> QED BY <2>1, NothingSentIInv DEF Pending
<1>3. CASE Wait
  BY <1>3 DEF Wait, IInv, Pending, Turn
<1>4. CASE Close
  <2>1. /\ wire' = [wire EXCEPT ![Turn] = <<>>] /\ half' = [half EXCEPT ![Turn] = <<>>]
        /\ off' = 0 /\ UNCHANGED torn
    BY <1>4 DEF Close, NextTurn
  <2>2. Flows(<<>>, <<>>, 0)
    BY NetOutAssumption DEF Flows
  <2>3. ASSUME NEW d \in Conns PROVE Flows(half'[d], wire'[d], 0)
    <3>1. CASE d = Turn
      BY <2>1, <2>2, <3>1 DEF IInv
    <3>2. CASE d # Turn
      BY <2>1, <3>2 DEF IInv, Pending
    <3> QED BY <3>1, <3>2
  <2>4. \A d \in Conns : Pending(d)' = 0
    BY <2>1 DEF Pending
  <2>5. wire' \in [Conns -> Seq(Unit)] /\ half' \in [Conns -> Seq(Unit)]
    <3>1. <<>> \in Seq(Unit)
      BY EmptySeq
    <3>2. wire \in [Conns -> Seq(Unit)] /\ half \in [Conns -> Seq(Unit)]
      BY DEF IInv
    <3> QED BY <2>1, <3>1, <3>2
  <2>6. off' \in 0..(Units - 1) /\ torn' = FALSE
    BY <2>1, NetOutAssumption DEF IInv
  <2>7. \A d \in Conns : Flows(half'[d], wire'[d], Pending(d)')
    BY <2>3, <2>4
  <2> QED BY <2>5, <2>6, <2>7 DEF IInv
<1> QED BY <1>1, <1>2, <1>3, <1>4 DEF Send

LEMMA ReadUnitIInv == ASSUME IInv, NEW c \in Conns, ReadUnit(c) PROVE IInv'
<1> DEFINE l == Append(half[c], Head(wire[c]))
<1>1. /\ wire[c] # <<>> /\ wire' = [wire EXCEPT ![c] = Tail(@)]
      /\ half' = [half EXCEPT ![c] = IF Head(wire[c]) = Units THEN <<>> ELSE l]
      /\ torn' = (torn \/ (Head(wire[c]) = Units /\ l # Line))
      /\ UNCHANGED <<clients, turn, off>>
  BY DEF ReadUnit
<1>2. /\ half[c] \in Seq(Unit) /\ wire[c] \in Seq(Unit)
      /\ Pending(c) \in 0..(Units - 1) /\ Flows(half[c], wire[c], Pending(c))
  BY NetOutAssumption DEF IInv, Pending
<1>3. /\ l \in Seq(Unit) /\ Tail(wire[c]) \in Seq(Unit)
      /\ Head(wire[c]) = Units => l = Line /\ Flows(<<>>, Tail(wire[c]), Pending(c))
      /\ Head(wire[c]) # Units => Flows(l, Tail(wire[c]), Pending(c))
  BY <1>1, <1>2, FlowsRead
<1>4. \A d \in Conns : Pending(d)' = Pending(d)
  BY <1>1 DEF Pending, Turn
<1>5. wire' \in [Conns -> Seq(Unit)] /\ half' \in [Conns -> Seq(Unit)]
  BY <1>1, <1>3 DEF IInv
<1>6. \A d \in Conns : Flows(half'[d], wire'[d], Pending(d))
  <2> SUFFICES ASSUME NEW d \in Conns PROVE Flows(half'[d], wire'[d], Pending(d))
    OBVIOUS
  <2>1. CASE d = c
    BY <1>1, <1>3, <2>1 DEF IInv
  <2>2. CASE d # c
    BY <1>1, <2>2 DEF IInv
  <2> QED BY <2>1, <2>2
<1>7. torn' = FALSE
  BY <1>1, <1>3 DEF IInv
<1> QED BY <1>1, <1>4, <1>5, <1>6, <1>7 DEF IInv

LEMMA NextIInv == IInv /\ [Next]_vars => IInv'
<1> SUFFICES ASSUME IInv, [Next]_vars PROVE IInv'
  OBVIOUS
<1>1. CASE Unreadable
  <2>1. Idle /\ turn' = turn /\ UNCHANGED <<wire, half, off, torn>>
    BY <1>1 DEF Unreadable, AcceptAll, NoBroadcast
  <2> QED BY <2>1 DEF IInv, Pending, Idle
<1>2. CASE NewMessage \/ NextFrame
  <2>1. Idle /\ UNCHANGED <<wire, half, torn>> /\ off' = 0
    BY <1>2 DEF NewMessage, NextFrame, AcceptAll, AcceptNone, BeginBroadcast
  <2> QED BY <2>1, IdlePending, NothingSentIInv
<1>3. CASE Deliver
  BY <1>3, SendIInv DEF Deliver
<1>4. CASE Peers
  <2>1. PICK c \in Conns : Connect(c) \/ Hangup(c) \/ ReadUnit(c)
    BY <1>4 DEF Peers
  <2>2. CASE Connect(c) \/ Hangup(c)
    BY <2>2 DEF Connect, Hangup, IInv, Pending, Turn
  <2> QED BY <2>1, <2>2, ReadUnitIInv
<1>5. CASE UNCHANGED vars
  BY <1>5 DEF vars, nvars, IInv, Pending, Turn
<1> QED BY <1>1, <1>2, <1>3, <1>4, <1>5 DEF Next

(* No client ever reads a line that was not sent as it reads it, however   *)
(* slowly it reads (send_all of src/netout.c).                             *)
THEOREM LinesWhole == Spec => []NoTornLine
<1>1. IInv => NoTornLine
  BY DEF IInv, NoTornLine
<1> QED BY <1>1, InitIInv, NextIInv, PTL DEF Spec

-----------------------------------------------------------------------------
LEMMA MaxPgnBounded == MaxPgn \in Nat /\ MaxPgn < 131072
<1> QED BY DEF MaxPgn

LEMMA PgnBounded ==
    ASSUME NEW pgn \in 0..MaxPgn
    PROVE  pgn \in Nat /\ pgn < 131072
<1> QED BY MaxPgnBounded

LEMMA PgnPlaces ==
    ASSUME NEW pgn \in 0..MaxPgn
    PROVE  /\ pgn \div 65536 \in 0..1 /\ Pf(pgn) \in 0..255 /\ pgn % 256 \in 0..255
           /\ pgn = (pgn \div 65536) * 65536 + Pf(pgn) * 256 + (pgn % 256)
<1>0. pgn \in Nat /\ pgn < 131072
  BY PgnBounded
<1>1. PICK hi \in Nat : hi = pgn \div 65536
  BY <1>0, SMT
<1>2. PICK mid \in Nat : mid = pgn \div 256
  BY <1>0, SMT
<1>3. hi < 2 /\ pgn = mid * 256 + (pgn % 256) /\ pgn % 256 \in 0..255
  BY <1>0, <1>1, <1>2, SMT
<1>4. mid = hi * 256 + (mid % 256) /\ mid % 256 \in 0..255
  BY <1>1, <1>2, SMT
<1> QED BY <1>0, <1>1, <1>2, <1>3, <1>4, SMT DEF Pf

Tells(id, prio, pgn, src, dst) ==
    /\ DecodeId(id) = [prio |-> prio, src |-> src, pgn |-> pgn,
                       dst |-> IF Pf(pgn) < 240 THEN dst ELSE NoDst]
    /\ PgnOf(id) = pgn

(* The identifier tells every receiver the PGN, the source, the priority   *)
(* and, where it has a place, the destination; n2k-filter reads the same   *)
(* PGN in it (ydraw_encode_id and ydraw_decode_id of src/ydraw.c, pgn_of   *)
(* of src/canfilter.c).                                                    *)
THEOREM IdentifierTells ==
    ASSUME NEW prio \in 0..7, NEW src \in 0..255, NEW dst \in 0..255,
           NEW pgn \in 0..MaxPgn, Pf(pgn) < 240 => pgn % 256 = 0
    PROVE  Tells(EncodeId(prio, pgn, src, dst), prio, pgn, src, dst)
<1>0. pgn \in Nat /\ pgn < 131072
  BY PgnBounded
<1>1. PICK dp \in 0..1 : dp = pgn \div 65536
  BY PgnPlaces, SMT
<1>2. PICK pf \in 0..255 : pf = Pf(pgn)
  BY PgnPlaces, SMT
<1>3. PICK ps \in 0..255 : ps = IF pf < 240 THEN dst ELSE pgn % 256
  BY PgnPlaces, SMT
<1>4. PICK id : id = EncodeId(prio, pgn, src, dst)
  OBVIOUS
<1>5. pgn = dp * 65536 + pf * 256 + IF pf < 240 THEN 0 ELSE ps
  <2>1. pgn = (pgn \div 65536) * 65536 + Pf(pgn) * 256 + (pgn % 256)
    BY PgnPlaces, SMT
  <2>2. pgn = dp * 65536 + pf * 256 + (pgn % 256)
    BY <1>1, <1>2, <2>1, SMT
  <2> QED BY <1>2, <1>3, <2>2, SMT
<1>6. id = prio * 67108864 + dp * 16777216 + pf * 65536 + ps * 256 + src
  <2>1. prio % 8 = prio /\ dp % 4 = dp /\ dst % 256 = dst /\ src % 256 = src
    BY SMT
  <2>2. id = ((prio % 8) * 67108864) + ((dp % 4) * 16777216) + (pf * 65536)
              + ((IF IsPdu1(pf) THEN dst % 256 ELSE pgn % 256) * 256) + (src % 256)
    BY <1>0, <1>1, <1>2, <1>4, SMT DEF EncodeId
  <2>3. ps = IF IsPdu1(pf) THEN dst % 256 ELSE pgn % 256
    BY <1>3, <2>1, SMT DEF IsPdu1
  <2> QED BY <2>1, <2>2, <2>3, SMT
<1>7. /\ id % 256 = src /\ (id \div 256) % 256 = ps /\ (id \div 65536) % 256 = pf
      /\ (id \div 16777216) % 4 = dp /\ (id \div 16777216) % 2 = dp
      /\ (id \div 67108864) % 8 = prio
  <2>1. id % 256 = src /\ id \div 256 = prio * 262144 + dp * 65536 + pf * 256 + ps
    BY <1>6, SMT
  <2>2. id \div 65536 = prio * 1024 + dp * 256 + pf
    BY <1>6, SMT
  <2>3. id \div 16777216 = prio * 4 + dp /\ id \div 67108864 = prio
    BY <1>6, SMT
  <2> QED BY <2>1, <2>2, <2>3, SMT
<1>8. DecodeId(id) = [prio |-> prio, src |-> src, pgn |-> pgn,
                      dst |-> IF pf < 240 THEN dst ELSE NoDst]
  <2>1. DecodeId(id) = [prio |-> prio, src |-> src,
                        dst |-> IF IsPdu1(pf) THEN ps ELSE NoDst,
                        pgn |-> (dp * 65536) + (pf * 256) + (IF IsPdu1(pf) THEN 0 ELSE ps)]
    <3>1. id \in Nat
      BY <1>6, SMT
    <3> QED BY <1>7, <3>1, SMT DEF DecodeId
  <2> QED BY <1>3, <1>5, <2>1, SMT DEF IsPdu1
<1>9. PgnOf(id) = pgn
  BY <1>5, <1>7, SMT DEF PgnOf
<1> QED BY <1>2, <1>4, <1>8, <1>9 DEF Tells

(* Each byte of a message that does not fit in a frame is carried by one   *)
(* of its frames, at one place (ydraw_fastpacket_frames and                *)
(* ydraw_format_fp of src/ydraw.c).                                        *)
THEOREM EachByteOnce ==
    ASSUME NEW len \in 9..N2kMaxData, NEW byte \in 1..len
    PROVE  /\ FastFrames(len) <= 32
           /\ \E fr \in 0..(FastFrames(len) - 1) : \E i \in 1..RoomIn(fr) :
                 Bytes(len, fr)[i] = byte
           /\ \A fr, other \in 0..(FastFrames(len) - 1) :
                 \A i \in 1..RoomIn(fr), j \in 1..RoomIn(other) :
                    Bytes(len, fr)[i] = byte /\ Bytes(len, other)[j] = byte
                       => fr = other /\ i = j
<1>1. len \in 9..223 /\ FastFrames(len) = 1 + (len \div 7)
  BY DEF FastFrames, N2kMaxData
<1>2. \A fr \in 0..(FastFrames(len) - 1) : \A i \in 1..RoomIn(fr) :
         Bytes(len, fr)[i] = byte <=> FirstPlace(fr) + i - 1 = byte
  BY <1>1 DEF Bytes, RoomIn, FirstPlace
<1>3. \E fr \in 0..(FastFrames(len) - 1) : \E i \in 1..RoomIn(fr) :
         FirstPlace(fr) + i - 1 = byte
  <2>1. CASE byte <= 6
    <3>1. 0 \in 0..(FastFrames(len) - 1) /\ byte \in 1..RoomIn(0) /\ FirstPlace(0) + byte - 1 = byte
      BY <1>1, <2>1 DEF RoomIn, FirstPlace
    <3> QED BY <3>1
  <2>2. CASE byte > 6
    <3> DEFINE fr == byte \div 7
    <3>0. fr \in 1..(len \div 7) \/ byte < 7
      BY <1>1
    <3>1. fr \in 0..(FastFrames(len) - 1) /\ fr # 0 /\ FirstPlace(fr) = fr * 7
      BY <1>1, <2>2, <3>0 DEF FirstPlace
    <3>2. byte - fr * 7 + 1 \in 1..RoomIn(fr) /\ FirstPlace(fr) + (byte - fr * 7 + 1) - 1 = byte
      BY <3>1 DEF RoomIn
    <3> QED BY <3>1, <3>2
  <2> QED BY <1>1, <2>1, <2>2
<1>4. \A fr, other \in 0..(FastFrames(len) - 1) :
         \A i \in 1..RoomIn(fr), j \in 1..RoomIn(other) :
            FirstPlace(fr) + i - 1 = FirstPlace(other) + j - 1 => fr = other /\ i = j
  BY <1>1 DEF RoomIn, FirstPlace
<1> QED BY <1>1, <1>2, <1>3, <1>4

-----------------------------------------------------------------------------
(* Every client in front of the one whose turn it is has had its own, also *)
(* after the last client has taken the place of a closed one: it takes a   *)
(* place that is still to come.                                            *)
TurnInv ==
    /\ clients \in Seq(Conns)
    /\ backlog \in SUBSET Conns /\ IsFiniteSet(backlog)
    /\ turn \in 0..Len(clients)
    /\ \A i \in 1..(turn - 1) : clients[i] \in passed

PassedOver == (~Idle /\ turn' = 0) => ToSet(clients') \subseteq passed'

LEMMA AcceptedClients ==
    ASSUME TurnInv, Accept
    PROVE  clients' \in Seq(Conns)
<1>1. PICK order \in SetToSeqs(backlog) :
         clients' = clients \o SubSeq(order, 1, IF Len(clients) + Len(order) <= MaxClients
                                                THEN Len(order) ELSE MaxClients - Len(clients))
  BY DEF Accept
<1>2. Cardinality(backlog) \in Nat
  BY FS_CardinalityType DEF TurnInv
<1>3. order \in [1..Cardinality(backlog) -> Conns]
  BY <1>1 DEF SetToSeqs, TurnInv
<1>4. order \in Seq(Conns) /\ Len(order) \in Nat /\ \A i \in 1..Len(order) : order[i] \in Conns
  BY <1>2, <1>3
<1>5. clients \in Seq(Conns) /\ Len(clients) \in Nat /\ MaxClients \in Nat
  BY NetOutAssumption DEF TurnInv
<1> DEFINE k == IF Len(clients) + Len(order) <= MaxClients
                THEN Len(order) ELSE MaxClients - Len(clients)
<1>6. k \in Int /\ k <= Len(order)
  BY <1>4, <1>5
<1> HIDE DEF k
<1>7. \A i \in 1..k : order[i] \in Conns
  BY <1>4, <1>6
<1>8. SubSeq(order, 1, k) \in Seq(Conns)
  BY <1>6, <1>7, SubSeqProperties
<1>9. clients' = clients \o SubSeq(order, 1, k)
  BY <1>1 DEF k
<1> QED BY <1>5, <1>8, <1>9, ConcatProperties

(* A client that stays in the table has had its turn.                      *)
LEMMA NextTurnInv ==
    ASSUME TurnInv, ~Idle, NextTurn(turn + 1), UNCHANGED <<clients, backlog>>
    PROVE  TurnInv' /\ PassedOver
<1>1. /\ clients \in Seq(Conns) /\ Len(clients) \in Nat /\ turn \in 1..Len(clients)
      /\ DOMAIN clients = 1..Len(clients)
  BY LenProperties DEF TurnInv, Idle
<1>2. /\ turn' = IF turn + 1 <= Len(clients) THEN turn + 1 ELSE 0
      /\ passed' = passed \cup {clients[turn]}
  BY DEF NextTurn, Turn
<1>3. \A i \in 1..turn : clients[i] \in passed'
  <2> SUFFICES ASSUME NEW i \in 1..turn PROVE clients[i] \in passed'
    OBVIOUS
  <2>1. i = turn \/ i \in 1..(turn - 1)
    BY <1>1
  <2> QED BY <1>2, <2>1 DEF TurnInv
<1>4. TurnInv'
  <2>1. turn' \in 0..Len(clients) /\ \A i \in 1..(turn' - 1) : i \in 1..turn
    BY <1>1, <1>2
  <2> QED BY <1>3, <2>1 DEF TurnInv
<1>5. PassedOver
  <2>1. CASE turn + 1 <= Len(clients)
    <3>1. turn \in Nat /\ turn' = turn + 1
      BY <1>1, <1>2, <2>1
    <3>2. turn' # 0
      BY <3>1
    <3> QED BY <3>2 DEF PassedOver
  <2>2. CASE ~(turn + 1 <= Len(clients))
    <3>1. \A k, l \in Nat : k <= l /\ ~(k + 1 <= l) => k = l
      OBVIOUS
    <3>2. turn \in Nat /\ turn <= Len(clients)
      BY <1>1
    <3>3. turn = Len(clients)
      BY <1>1, <2>2, <3>1, <3>2
    <3> QED BY <1>1, <1>3, <3>3 DEF PassedOver, ToSet
  <2> QED BY <2>1, <2>2
<1> QED BY <1>4, <1>5

(* The last client takes the place of the closed one, and its turn.        *)
LEMMA CloseTurnInv == ASSUME TurnInv, Close PROVE TurnInv' /\ PassedOver
<1>1. /\ clients \in Seq(Conns) /\ Len(clients) \in Nat /\ turn \in 1..Len(clients)
      /\ \A i \in 1..Len(clients) : clients[i] \in Conns
      /\ DOMAIN clients = 1..Len(clients)
  BY LenProperties DEF TurnInv, Close, Idle
<1> DEFINE e == [clients EXCEPT ![turn] = Last(clients)]
           last == Len(clients) - 1
<1>2. \A i \in 1..last : e[i] = IF i = turn THEN clients[Len(clients)] ELSE clients[i]
  BY <1>1 DEF Last
<1>3. clients' = SubSeq(e, 1, last)
  BY DEF Close, Without
<1> HIDE DEF e
<1>4. /\ clients' \in Seq(Conns) /\ Len(clients') = last
      /\ \A i \in 1..last : clients'[i] = e[i]
  <2>1. last \in Int /\ \A i \in 1..last : e[i] \in Conns
    BY <1>1, <1>2
  <2>2. /\ SubSeq(e, 1, last) \in Seq(Conns)
        /\ Len(SubSeq(e, 1, last)) = IF 1 <= last THEN last - 1 + 1 ELSE 0
        /\ \A i \in 1..(last - 1 + 1) : SubSeq(e, 1, last)[i] = e[1 + i - 1]
    BY <2>1, SubSeqProperties
  <2>3. Len(SubSeq(e, 1, last)) = last
    BY <1>1, <2>2
  <2>4. \A i \in 1..last : i \in 1..(last - 1 + 1) /\ 1 + i - 1 = i
    BY <2>1
  <2> QED BY <1>3, <2>2, <2>3, <2>4
<1>5. turn' = (IF turn <= last THEN turn ELSE 0) /\ passed \subseteq passed'
  BY <1>4 DEF Close, NextTurn, NextOfClosed
<1>6. \A i \in 1..last : i < turn => clients'[i] \in passed'
  <2> SUFFICES ASSUME NEW i \in 1..last, i < turn PROVE clients'[i] \in passed'
    OBVIOUS
  <2>1. i \in 1..(turn - 1) /\ clients'[i] = clients[i]
    BY <1>1, <1>2, <1>4
  <2> QED BY <1>5, <2>1 DEF TurnInv
<1>7. TurnInv'
  <2>1. turn' \in 0..last /\ \A i \in 1..(turn' - 1) : i \in 1..last /\ i < turn
    BY <1>1, <1>5
  <2>2. backlog' = backlog
    BY DEF Close
  <2> QED BY <1>4, <1>6, <2>1, <2>2 DEF TurnInv
<1>8. PassedOver
  <2> SUFFICES ASSUME turn' = 0 PROVE ToSet(clients') \subseteq passed'
    BY DEF PassedOver
  <2>1. \A i \in 1..last : i < turn
    BY <1>1, <1>5
  <2>2. DOMAIN clients' = 1..last
    BY <1>4, LenProperties
  <2> QED BY <1>6, <2>1, <2>2 DEF ToSet
<1> QED BY <1>7, <1>8

LEMMA NextTurnInvHolds == TurnInv /\ [Next]_vars => TurnInv' /\ [PassedOver]_vars
<1> SUFFICES ASSUME TurnInv, [Next]_vars PROVE TurnInv' /\ [PassedOver]_vars
  OBVIOUS
<1>1. CASE Unreadable
  <2>1. Idle /\ Accept /\ turn' = turn /\ backlog' = {}
    BY <1>1 DEF Unreadable, AcceptAll, NoBroadcast
  <2>2. clients' \in Seq(Conns) /\ Len(clients') \in Nat
    BY <2>1, AcceptedClients
  <2> QED BY <2>1, <2>2, FS_EmptySet DEF TurnInv, PassedOver, Idle
<1>2. CASE NewMessage \/ NextFrame
  <2>1. Idle /\ turn' = IF clients' = <<>> THEN 0 ELSE 1
    BY <1>2 DEF NewMessage, NextFrame, AcceptAll, AcceptNone, BeginBroadcast
  <2>2. clients' \in Seq(Conns) /\ backlog' \in SUBSET Conns /\ IsFiniteSet(backlog')
    <3>1. CASE NewMessage
      BY <3>1, AcceptedClients, FS_EmptySet DEF NewMessage, AcceptAll
    <3>2. CASE NextFrame
      BY <3>2 DEF NextFrame, AcceptNone, TurnInv
    <3> QED BY <1>2, <3>1, <3>2
  <2>3. Len(clients') \in Nat /\ (clients' # <<>> => Len(clients') \in Nat \ {0})
    BY <2>2, EmptySeq, LenProperties
  <2> QED BY <2>1, <2>2, <2>3 DEF TurnInv, PassedOver
<1>3. CASE Deliver
  <2>1. CASE SendSome
    <3>1. ~Idle /\ UNCHANGED <<clients, backlog>>
      BY <2>1 DEF SendSome
    <3>2. NextTurn(turn + 1) \/ (turn' = turn /\ passed' = passed)
      BY <2>1 DEF SendSome
    <3>3. CASE turn' = turn /\ passed' = passed
      BY <3>1, <3>3 DEF TurnInv, PassedOver, Idle
    <3> QED BY <3>1, <3>2, <3>3, NextTurnInv
  <2>2. CASE Skip
    BY <2>2, NextTurnInv DEF Skip
  <2>3. CASE Wait
    BY <2>3 DEF Wait, TurnInv, PassedOver, Idle
  <2>4. CASE Close
    BY <2>4, CloseTurnInv
  <2> QED BY <1>3, <2>1, <2>2, <2>3, <2>4 DEF Deliver, Send
<1>4. CASE Peers
  <2>1. PICK c \in Conns : Connect(c) \/ Hangup(c) \/ ReadUnit(c)
    BY <1>4 DEF Peers
  <2>2. turn' = turn /\ clients' = clients /\ passed' = passed
    BY <2>1 DEF Connect, Hangup, ReadUnit
  <2>3. backlog' \in SUBSET Conns /\ IsFiniteSet(backlog')
    BY <2>1, FS_AddElement DEF Connect, Hangup, ReadUnit, TurnInv
  <2> QED BY <2>2, <2>3 DEF TurnInv, PassedOver, Idle
<1>5. CASE UNCHANGED vars
  BY <1>5 DEF vars, nvars, TurnInv
<1> QED BY <1>1, <1>2, <1>3, <1>4, <1>5 DEF Next

(* For any number of connections and clients, no broadcast ends before     *)
(* every client that is left in the table has had its turn, those included *)
(* that a closure has moved (netout_broadcast of src/netout.c).            *)
THEOREM EveryClientServed == Spec => NobodyPassedOver
<1>1. Init => TurnInv
  <2> SUFFICES ASSUME Init PROVE TurnInv
    OBVIOUS
  <2>1. clients = <<>> /\ backlog = {} /\ turn = 0
    BY DEF Init, NInit
  <2>2. clients \in Seq(Conns) /\ Len(clients) = 0
    BY <2>1, EmptySeq
  <2> QED BY <2>1, <2>2, FS_EmptySet DEF TurnInv
<1> QED BY <1>1, NextTurnInvHolds, PTL DEF Spec, NobodyPassedOver, PassedOver

-----------------------------------------------------------------------------
(* Where a receiver looks for a byte is where it was put, and nowhere else *)
(* under that number.                                                      *)
LEMMA ByteFound ==
    ASSUME NEW len \in 9..N2kMaxData, NEW b \in 1..len, NEW s \in Nat
    PROVE  {f.bytes[PlaceIn(b)] :
              f \in {g \in {FastFrame(len, i, s) : i \in 0..(FastFrames(len) - 1)} :
                        g.idx = FrameOf(b)}} = {b}
<1> DEFINE frames == {FastFrame(len, i, s) : i \in 0..(FastFrames(len) - 1)}
           fr == FrameOf(b)
           at == PlaceIn(b)
<1>1. len \in 9..223 /\ FastFrames(len) = 1 + (len \div 7) /\ b \in 1..223 /\ b <= len
  BY DEF FastFrames, N2kMaxData
<1>2. /\ fr \in 0..(FastFrames(len) - 1) /\ at \in 1..RoomIn(fr)
      /\ FirstPlace(fr) + at - 1 = b
  <2>1. CASE b < 7
    BY <1>1, <2>1 DEF FrameOf, PlaceIn, RoomIn, FirstPlace
  <2>2. CASE ~ (b < 7)
    <3>1. fr \in 1..(len \div 7) /\ at = b - 7 * fr + 1 /\ at \in 1..7
      BY <1>1, <2>2 DEF FrameOf, PlaceIn
    <3>2. fr # 0 /\ fr \in 0..(FastFrames(len) - 1) /\ RoomIn(fr) = 7 /\ FirstPlace(fr) = 7 + ((fr - 1) * 7)
      BY <1>1, <3>1 DEF RoomIn, FirstPlace
    <3> HIDE DEF fr, at
    <3> QED BY <1>1, <3>1, <3>2
  <2> QED BY <2>1, <2>2
<1>3. \A i \in 0..(FastFrames(len) - 1) : i % 32 = i
  BY <1>1
<1>4. \A i \in 0..(FastFrames(len) - 1) : FastFrame(len, i, s).idx = i
  BY <1>3 DEF FastFrame
<1>5. Bytes(len, fr)[at] = b
  BY <1>1, <1>2 DEF Bytes
<1>6. FastFrame(len, fr, s).bytes = Bytes(len, fr)
  BY DEF FastFrame
<1> HIDE DEF fr, at
<1>7. {g \in frames : g.idx = fr} = {FastFrame(len, fr, s)}
  BY <1>2, <1>4
<1> HIDE DEF frames
<1>8. {f.bytes[at] : f \in {g \in frames : g.idx = fr}} = {b}
  BY <1>5, <1>6, <1>7
<1> QED BY <1>8 DEF frames, fr, at

LEMMA FramesTold ==
    ASSUME NEW len \in 9..N2kMaxData, NEW s \in Nat, NEW i \in 0..(FastFrames(len) - 1)
    PROVE  FastFrame(len, i, s).len = len /\ FastFrame(len, i, s).idx <= FrameOf(len)
<1>1. len \in 9..223 /\ FastFrames(len) = 1 + (len \div 7)
  BY DEF FastFrames, N2kMaxData
<1>2. len % 256 = len /\ i % 32 = i /\ i <= len \div 7
  BY <1>1
<1> QED BY <1>2 DEF FastFrame, FrameOf

MsgInv == msg \in Messages /\ seq \in Nat

LEMMA NextMsgInv == MsgInv /\ [Next]_vars => MsgInv'
<1> SUFFICES ASSUME MsgInv, [Next]_vars PROVE MsgInv'
  OBVIOUS
<1>1. CASE NewMessage
  <2>1. msg' \in Messages /\ seq' = IF msg.len > 8 THEN (seq + 1) % 8 ELSE seq
    BY <1>1 DEF NewMessage
  <2>2. (seq + 1) % 8 \in Nat
    BY DEF MsgInv
  <2> QED BY <2>1, <2>2 DEF MsgInv
<1>2. CASE UNCHANGED <<msg, seq>>
  BY <1>2 DEF MsgInv
<1>3. Next => NewMessage \/ UNCHANGED <<msg, seq>>
  BY DEF Next, Unreadable, NextFrame, Deliver, Peers, bvars
<1>4. UNCHANGED vars => UNCHANGED <<msg, seq>>
  BY DEF vars, bvars
<1> QED BY <1>1, <1>2, <1>3, <1>4

LEMMA FieldsOfMessage ==
    ASSUME NEW m \in Messages
    PROVE  /\ m.prio \in 0..7 /\ m.src \in 0..255 /\ m.dst \in 0..255
           /\ m.pgn \in 0..MaxPgn /\ (Pf(m.pgn) < 240 => m.pgn % 256 = 0)
           /\ m.len \in 0..N2kMaxData
<1> QED BY BridgeAssumption, SMT

LEMMA FramesTellAll ==
    ASSUME NEW len \in 0..N2kMaxData, len > 8, seq \in Nat
    PROVE  /\ \A f \in FramesSent(len) : f.len = len /\ f.idx <= FrameOf(len)
           /\ \A b \in 1..len : Received(FramesSent(len), b) = {b}
<1>1. len \in 9..N2kMaxData
  BY DEF N2kMaxData
<1>2. \A f \in FramesSent(len) : f.len = len /\ f.idx <= FrameOf(len)
  BY <1>1, FramesTold, Zenon DEF FramesSent
<1>3. ASSUME NEW b \in 1..len PROVE Received(FramesSent(len), b) = {b}
  <2>1. {f.bytes[PlaceIn(b)] :
           f \in {g \in {FastFrame(len, i, seq) : i \in 0..(FastFrames(len) - 1)} :
                     g.idx = FrameOf(b)}} = {b}
    BY <1>1, ByteFound, Zenon
  <2> QED BY <2>1, Zenon DEF Received, FramesSent
<1> QED BY <1>2, <1>3, Zenon

LEMMA MsgInvKept == MsgInv => MessageKept
<1> SUFFICES ASSUME MsgInv PROVE MessageKept
  OBVIOUS
<1>1. msg \in Messages /\ seq \in Nat
  BY DEF MsgInv
<1>2. /\ msg.prio \in 0..7 /\ msg.src \in 0..255 /\ msg.dst \in 0..255
      /\ msg.pgn \in 0..MaxPgn /\ (Pf(msg.pgn) < 240 => msg.pgn % 256 = 0)
      /\ msg.len \in 0..N2kMaxData
  BY <1>1, FieldsOfMessage
<1>3. Tells(EncodeId(msg.prio, msg.pgn, msg.src, msg.dst), msg.prio, msg.pgn, msg.src, msg.dst)
  BY <1>2, IdentifierTells, Zenon
<1>4. msg.len > 8 =>
         /\ \A f \in FramesSent(msg.len) : f.len = msg.len /\ f.idx <= FrameOf(msg.len)
         /\ \A b \in 1..msg.len : Received(FramesSent(msg.len), b) = {b}
  BY <1>1, <1>2, FramesTellAll, Zenon
<1> QED BY <1>3, <1>4, Zenon DEF MessageKept, Tells

(* Every message arrives as what it is: its identifier tells the PGN, the  *)
(* source, the priority and the destination, and a receiver that puts the  *)
(* frames together by their numbers has its bytes and its length           *)
(* (ydraw_encode_id, ydraw_fastpacket_frames and ydraw_format_fp of        *)
(* src/ydraw.c), for any messages of up to 223 bytes.                      *)
THEOREM MessagesArrive == Spec => []MessageKept
<1>1. Init => MsgInv
  BY DEF Init, MsgInv
<1> QED BY <1>1, NextMsgInv, MsgInvKept, PTL DEF Spec

=============================================================================

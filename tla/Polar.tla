-------------------------------- MODULE Polar -------------------------------
(***************************************************************************)
(* The polars of the simulator (src/polar.c): reading a table of boat      *)
(* speeds, a row per angle and a column per speed of the wind, and looking *)
(* one up by bilinear interpolation.                                       *)
(*                                                                         *)
(* A file is a sequence of rows of cells, each a number or Blank; the      *)
(* first row has the winds, the first cell of the others the angle.        *)
(* Angles are in units of which a circle has Circle, speeds are fractions. *)
(***************************************************************************)
EXTENDS Integers, Sequences, SequencesExt, FiniteSetsExt

CONSTANTS
    Circle,        \* units of angle in a circle
    MaxTwa,        \* POLAR_MAX_TWA: rows of angles
    MaxTws,        \* POLAR_MAX_TWS: columns of winds
    Blank          \* a cell that is empty or no number

ASSUME PolarAssumption ==
    Circle \in Nat \ {0} /\ Circle % 2 = 0 /\ MaxTwa \in Nat \ {0} /\ MaxTws \in Nat \ {0}

Grows(s) == \A i \in 1..(Len(s) - 1) : s[i] <= s[i + 1]

-----------------------------------------------------------------------------
(* polar_parse_string: a row without an angle is passed over, a cell that  *)
(* is missing or no number is a speed of 0, one behind the last wind is    *)
(* ignored.  The empty cells of the first row do not count, so the columns *)
(* behind one of them move to its place.                                   *)

Winds(file) == SelectSeq(Tail(Head(file)), LAMBDA c : c # Blank)

Rows(file) == SelectSeq(Tail(file), LAMBDA r : r[1] # Blank)

Angles(file) == [i \in DOMAIN Rows(file) |-> Rows(file)[i][1]]

Speeds(file) ==
    [i \in DOMAIN Rows(file) |->
        [j \in DOMAIN Winds(file) |->
            LET row == Rows(file)[i]
            IN IF j + 1 \in DOMAIN row /\ row[j + 1] # Blank THEN row[j + 1] ELSE 0]]

Readable(file) ==
    /\ Len(Winds(file)) \in 1..MaxTws /\ Grows(Winds(file))
    /\ Rows(file) # <<>> /\ Grows(Angles(file))
    /\ \A i \in 1..(Len(file) - 1) :
          Len(SelectSeq(SubSeq(file, 2, i), LAMBDA r : r[1] # Blank)) < MaxTwa

Table(file) == [twa |-> Angles(file), tws |-> Winds(file), spd |-> Speeds(file)]

-----------------------------------------------------------------------------
(* bracket: the first of the two places x is looked up between.            *)
M_Bracket(v, x) ==
    LET before == {i \in 1..(Len(v) - 2) : x < v[i]}
    IN IF before = {} THEN Max({1, Len(v) - 1}) ELSE Min(before)

Bracket(v, x) ==
    LET before == {i \in 1..(Len(v) - 2) : x < v[i + 1]}
    IN IF before = {} THEN Max({1, Len(v) - 1}) ELSE Min(before)

Folded(angle) == IF angle % Circle > Circle \div 2 THEN Circle - (angle % Circle) ELSE angle % Circle

Clamped(v, x) == IF x < Head(v) THEN Head(v) ELSE IF x > Last(v) THEN Last(v) ELSE x

(* The weight of the second place, as numerator and denominator.           *)
Weight(v, i, x) ==
    LET gap == v[Min({i + 1, Len(v)})] - v[i]
    IN IF gap > 0 THEN [n |-> x - v[i], d |-> gap] ELSE [n |-> 0, d |-> 1]

PolarSpeed(p, angle, wind) ==
    LET a  == Clamped(p.twa, Folded(angle))
        w  == Clamped(p.tws, wind)
        i  == Bracket(p.twa, a)
        j  == Bracket(p.tws, w)
        i2 == Min({i + 1, Len(p.twa)})
        j2 == Min({j + 1, Len(p.tws)})
        fa == Weight(p.twa, i, a)
        fw == Weight(p.tws, j, w)
    IN [n |-> ((fa.d - fa.n) * (fw.d - fw.n) * p.spd[i][j])
               + (fa.n * (fw.d - fw.n) * p.spd[i2][j])
               + ((fa.d - fa.n) * fw.n * p.spd[i][j2])
               + (fa.n * fw.n * p.spd[i2][j2]),
        d |-> fa.d * fw.d]

=============================================================================

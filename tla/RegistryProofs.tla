--------------------------- MODULE RegistryProofs ---------------------------
(***************************************************************************)
(* Proofs about the address table, for any number of slots, addresses and  *)
(* devices: first under any messages whatever, then together with the      *)
(* equipment it listens to.                                                *)
(*                                                                         *)
(* AddrUnique is not inductive alone: that a look-up returns *the* record  *)
(* at an address, and that a claim moves *the* record of a device, needs   *)
(* TypeOK, AddrUnique and UniqueUnique together.                           *)
(***************************************************************************)
EXTENDS BusIdentity, ScanProofs, FiniteSetTheorems, FunctionTheorems, TLAPS

IInv == TypeOK /\ AddrUnique /\ UniqueUnique

-----------------------------------------------------------------------------
(* A look-up among slots of which at most one matches returns that one.    *)
LEMMA FirstOr0Spec ==
    ASSUME NEW S \in SUBSET (Nat \ {0}), \A x, y \in S : x = y
    PROVE  \/ S = {} /\ FirstOr0(S) = NoSlot
           \/ FirstOr0(S) \in S /\ FirstOr0(S) # NoSlot
BY FirstOr0Scan

(* The record SlotAt finds at an address is the only one there.            *)
LEMMA SlotAtSpec ==
    ASSUME IInv, NEW a \in Addrs
    PROVE  \/ SlotAt(a) = NoSlot /\ \A i \in 1..n : dev[i].src # a
           \/ /\ SlotAt(a) \in 1..n /\ SlotAt(a) # NoSlot
              /\ \A i \in 1..n : dev[i].src = a <=> i = SlotAt(a)
<1> DEFINE S == {i \in 1..n : dev[i].src = a}
<1>1. n \in Nat /\ S \in SUBSET (Nat \ {0})
  BY ConstantsAssumption DEF IInv, TypeOK
<1>2. \A x, y \in S : x = y
  BY ConstantsAssumption DEF IInv, AddrUnique
<1>3. SlotAt(a) = FirstOr0(S)
  BY DEF SlotAt
<1> HIDE DEF S
<1>4. \/ S = {} /\ FirstOr0(S) = NoSlot
      \/ FirstOr0(S) \in S /\ FirstOr0(S) # NoSlot
  BY <1>1, <1>2, FirstOr0Spec
<1> QED
  BY <1>2, <1>3, <1>4 DEF S

(* The record SlotOf finds for a Unique Number is the only one bound to it *)
LEMMA SlotOfSpec ==
    ASSUME IInv, NEW u \in Uniques
    PROVE  \/ SlotOf(u) = NoSlot /\ \A i \in 1..n : dev[i].unique # u
           \/ /\ SlotOf(u) \in 1..n /\ SlotOf(u) # NoSlot
              /\ \A i \in 1..n : dev[i].unique = u <=> i = SlotOf(u)
<1> DEFINE S == {i \in 1..n : dev[i].unique = u}
<1>1. n \in Nat /\ S \in SUBSET (Nat \ {0})
  BY ConstantsAssumption DEF IInv, TypeOK
<1>2. \A x, y \in S : x = y
  BY ConstantsAssumption DEF IInv, UniqueUnique
<1>3. SlotOf(u) = FirstOr0(S)
  BY DEF SlotOf
<1> HIDE DEF S
<1>4. \/ S = {} /\ FirstOr0(S) = NoSlot
      \/ FirstOr0(S) \in S /\ FirstOr0(S) # NoSlot
  BY <1>1, <1>2, FirstOr0Spec
<1> QED
  BY <1>2, <1>3, <1>4 DEF S

(* What a message teaches a record: nothing about where the device sits or *)
(* which hardware it is, and no loss of what was known.                    *)
LEMMA NotedSpec ==
    ASSUME NEW d \in Device, NEW m \in BusMessage
    PROVE  /\ Noted(d, m) \in Device
           /\ Noted(d, m).src = d.src
           /\ Noted(d, m).unique = d.unique
           /\ Noted(d, m).ident = IdentOf(Noted(d, m))
           /\ d.serial # None => Noted(d, m).serial # None
           /\ d.pgns \subseteq Noted(d, m).pgns
<1>1. m \in Message
  BY DEF BusMessage
<1> DEFINE p == FromProduct(d, m)
           b == BumpPgn(p, m.pgn)
<1>2. /\ p \in Device /\ p.src = d.src /\ p.unique = d.unique
      /\ p.pgns = d.pgns
      /\ d.serial # None => p.serial # None
  BY <1>1 DEF FromProduct, Device, Message
<1>3. /\ b \in Device /\ b.src = p.src /\ b.unique = p.unique
      /\ p.pgns \subseteq b.pgns /\ b.serial = p.serial
  BY <1>1, <1>2 DEF BumpPgn, Device, Message
<1>4. Noted(d, m) = [b EXCEPT !.ident = IdentOf(b)]
  BY DEF Noted, RecomputeIdent
<1> HIDE DEF p, b
<1>5. IdentOf(b) \in Uniques \cup Serials \cup {None}
  BY <1>3 DEF IdentOf, Device
<1>6. /\ Noted(d, m) \in Device
      /\ Noted(d, m).src = b.src
      /\ Noted(d, m).unique = b.unique
      /\ Noted(d, m).serial = b.serial
      /\ Noted(d, m).pgns = b.pgns
      /\ Noted(d, m).ident = IdentOf(b)
  BY <1>3, <1>4, <1>5 DEF Device
<1>7. IdentOf(Noted(d, m)) = IdentOf(b)
  BY <1>6 DEF IdentOf
<1> QED
  BY <1>2, <1>3, <1>6, <1>7

(* A fresh slot is a well-formed record of an unknown device.              *)
LEMMA BlankSpec ==
    /\ Blank \in Device
    /\ Blank.ident = IdentOf(Blank)
    /\ Blank.src = None /\ Blank.unique = None
BY DEF Blank, Device, IdentOf

-----------------------------------------------------------------------------
LEMMA InitIInv == Init => IInv
<1> SUFFICES ASSUME Init PROVE IInv
  OBVIOUS
<1>1. TypeOK
  BY ConstantsAssumption, BlankSpec DEF Init, TypeOK, Slots
<1>2. 1..n = {}
  BY DEF Init
<1> QED
  BY <1>1, <1>2 DEF IInv, AddrUnique, UniqueUnique

(* A record that a message at its own address, or a claim it answers to,   *)
(* rewrites: the other records stay as they are.                           *)
LEMMA RewriteStep ==
    ASSUME IInv, NEW k \in 1..n, NEW d \in Device,
           d.ident = IdentOf(d),
           d.src = dev[k].src,
           \/ d.unique = dev[k].unique
           \/ \A i \in 1..n : dev[i].unique # d.unique,
           n' = n, dev' = [dev EXCEPT ![k] = d]
    PROVE  IInv'
<1>1. /\ n \in 0..MaxDevices /\ dev \in [Slots -> Device] /\ k \in Slots
  BY ConstantsAssumption DEF IInv, TypeOK, Slots
<1>2. \A i \in Slots : dev'[i] = IF i = k THEN d ELSE dev[i]
  BY <1>1
<1>3. TypeOK'
  BY <1>1, <1>2, ConstantsAssumption DEF IInv, TypeOK, Slots
<1>4. AddrUnique'
  BY <1>1, <1>2, ConstantsAssumption DEF IInv, AddrUnique, Slots
<1>5. UniqueUnique'
  BY <1>1, <1>2, ConstantsAssumption DEF IInv, UniqueUnique, Slots
<1> QED
  BY <1>3, <1>4, <1>5 DEF IInv

LEMMA ClaimKnownStep ==
    ASSUME IInv, NEW m \in BusMessage, ClaimKnown(m)
    PROVE  IInv'
<1> DEFINE d == SlotOf(m.unique)
           moved == IF dev[d].src # m.src THEN Detached(m.src, d) ELSE dev
           new == Noted([moved[d] EXCEPT !.src = m.src], m)
<1>1. m \in Message /\ m.unique \in Uniques /\ m.src \in Addrs
  BY DEF BusMessage, Message, ClaimKnown, Binds
<1>2. /\ d \in 1..n
      /\ n \in 0..MaxDevices /\ dev \in [Slots -> Device] /\ d \in Slots
  BY <1>1, SlotOfSpec, ConstantsAssumption DEF ClaimKnown, IInv, TypeOK, Slots
<1>3. /\ moved \in [Slots -> Device] /\ moved[d] = dev[d]
      /\ \A i \in Slots : /\ moved[i].unique = dev[i].unique
                          /\ moved[i].ident = IdentOf(moved[i])
                          /\ i > n => moved[i] = dev[i]
                          /\ moved[i].src \in {dev[i].src, None}
                          /\ i \in 1..n /\ i # d => moved[i].src # m.src
  <2>1. CASE dev[d].src # m.src
    <3>1. moved = [i \in Slots |-> IF i <= n /\ i # d /\ dev[i].src = m.src
                     THEN [dev[i] EXCEPT !.src = None] ELSE dev[i]]
      BY <2>1 DEF Detached
    <3> HIDE DEF moved, d
    <3>2. \A i \in Slots : dev[i] \in Device /\ dev[i].ident = IdentOf(dev[i])
      BY <1>2 DEF IInv, TypeOK
    <3>3. \A i \in Slots : /\ [dev[i] EXCEPT !.src = None] \in Device
                           /\ [dev[i] EXCEPT !.src = None].ident
                                = IdentOf([dev[i] EXCEPT !.src = None])
      BY <3>2 DEF Device, IdentOf
    <3>4. \A i \in Slots : /\ moved[i] \in Device
                           /\ moved[i].unique = dev[i].unique
                           /\ moved[i].ident = IdentOf(moved[i])
                           /\ moved[i].src \in {dev[i].src, None}
      BY <3>1, <3>2, <3>3 DEF Device
    <3>5. /\ moved \in [Slots -> Device] /\ moved[d] = dev[d]
          /\ \A i \in Slots : i > n => moved[i] = dev[i]
      BY <1>2, <3>1, <3>4, ConstantsAssumption DEF Slots
    <3>6. \A i \in Slots : i \in 1..n /\ i # d => moved[i].src # m.src
      BY <1>1, <1>2, <3>1, <3>2, ConstantsAssumption DEF Slots, Device
    <3> QED
      BY <3>4, <3>5, <3>6
  <2>2. CASE dev[d].src = m.src
    BY <1>1, <1>2, <2>2, ConstantsAssumption DEF IInv, TypeOK, AddrUnique, Slots
  <2> QED
    BY <2>1, <2>2
<1>4. n' = n /\ dev' = [moved EXCEPT ![d] = new]
  BY <1>2, <1>3 DEF ClaimKnown
<1> HIDE DEF moved
<1>5. [moved[d] EXCEPT !.src = m.src] \in Device
  BY <1>1, <1>2, <1>3 DEF Device
<1>6. /\ new \in Device /\ new.src = m.src /\ new.unique = dev[d].unique
      /\ new.ident = IdentOf(new)
  BY <1>1, <1>2, <1>3, <1>5, NotedSpec DEF Device
<1> HIDE DEF new, d
<1>7. dev' \in [Slots -> Device]
  BY <1>2, <1>3, <1>4, <1>6
<1>8. \A i \in Slots : dev'[i] = IF i = d THEN new ELSE moved[i]
  BY <1>2, <1>3, <1>4
<1>9. n \in Nat /\ 1..n \subseteq Slots
  BY <1>2, ConstantsAssumption DEF Slots
<1>10. TypeOK'
  <2>1. \A i \in Slots : i > n => dev'[i] = Blank
    BY <1>2, <1>3, <1>8 DEF IInv, TypeOK
  <2>2. \A i \in Slots : dev'[i].ident = IdentOf(dev'[i])
    BY <1>3, <1>6, <1>8
  <2> QED
    BY <1>2, <1>4, <1>7, <2>1, <2>2 DEF TypeOK
<1>11. AddrUnique'
  <2>1. \A i \in 1..n : dev'[i].src = IF i = d THEN m.src ELSE moved[i].src
    BY <1>6, <1>8, <1>9
  <2>2. \A i, j \in 1..n : dev'[i].src = dev'[j].src /\ dev'[i].src # None => i = j
    BY <1>1, <1>3, <1>9, <2>1 DEF IInv, AddrUnique
  <2> QED
    BY <1>4, <2>2 DEF AddrUnique
<1>12. UniqueUnique'
  <2>1. \A i \in 1..n : dev'[i].unique = dev[i].unique
    BY <1>2, <1>3, <1>6, <1>8, <1>9
  <2> QED
    BY <1>4, <2>1 DEF IInv, UniqueUnique
<1> QED
  BY <1>10, <1>11, <1>12 DEF IInv

(* A record appended in the next slot, where no record holds its address   *)
(* or its Unique Number.  base is the array once an occupant has been      *)
(* evicted (or the array itself).                                          *)
LEMMA AppendStep ==
    ASSUME IInv, n < MaxDevices,
           NEW base \in [Slots -> Device], NEW d \in Device,
           d.ident = IdentOf(d), d.src # None,
           \A i \in Slots : i > n => base[i] = Blank,
           \A i \in Slots : /\ base[i].ident = IdentOf(base[i])
                            /\ base[i].unique = dev[i].unique
                            /\ base[i].src \in {dev[i].src, None} \ {d.src},
           \A i \in 1..n : dev[i].unique # d.unique \/ d.unique = None,
           n' = n + 1, dev' = [base EXCEPT ![n + 1] = d]
    PROVE  IInv'
<1>1. /\ n \in Nat /\ n + 1 \in Slots /\ 1..n \subseteq Slots /\ n + 1 \notin 1..n
      /\ 1..(n + 1) = 1..n \cup {n + 1}
      /\ \A i \in Slots : i > n + 1 => i > n /\ i # n + 1
  BY ConstantsAssumption DEF IInv, TypeOK, Slots
<1>2. \A i \in Slots : dev'[i] = IF i = n + 1 THEN d ELSE base[i]
  BY <1>1
<1>3. TypeOK'
  <2>1. n' \in 0..MaxDevices
    BY <1>1, ConstantsAssumption
  <2>2. dev' \in [Slots -> Device]
    BY <1>1
  <2>3. \A i \in Slots : i > n' => dev'[i] = Blank
    BY <1>1, <1>2
  <2>4. \A i \in Slots : dev'[i].ident = IdentOf(dev'[i])
    BY <1>2
  <2> QED
    BY <2>1, <2>2, <2>3, <2>4 DEF TypeOK
<1>4. AddrUnique'
  <2> SUFFICES ASSUME NEW i \in 1..n', NEW j \in 1..n',
                      dev'[i].src = dev'[j].src, dev'[i].src # None
               PROVE  i = j
    BY DEF AddrUnique
  <2>1. CASE i = n + 1 \/ j = n + 1
    BY <1>1, <1>2, <2>1
  <2>2. CASE i \in 1..n /\ j \in 1..n
    BY <1>1, <1>2, <2>2 DEF IInv, AddrUnique
  <2> QED
    BY <1>1, <2>1, <2>2
<1>5. UniqueUnique'
  <2> SUFFICES ASSUME NEW i \in 1..n', NEW j \in 1..n',
                      dev'[i].unique = dev'[j].unique, dev'[i].unique # None
               PROVE  i = j
    BY DEF UniqueUnique
  <2>1. CASE i = n + 1 \/ j = n + 1
    BY <1>1, <1>2, <2>1
  <2>2. CASE i \in 1..n /\ j \in 1..n
    BY <1>1, <1>2, <2>2 DEF IInv, UniqueUnique
  <2> QED
    BY <1>1, <2>1, <2>2
<1> QED
  BY <1>3, <1>4, <1>5 DEF IInv

LEMMA ClaimAdoptStep ==
    ASSUME IInv, NEW m \in BusMessage, ClaimAdopt(m)
    PROVE  IInv'
<1> DEFINE occ == SlotAt(m.src)
           bound == [dev[occ] EXCEPT !.unique = m.unique]
<1>1. m \in Message /\ m.unique \in Uniques /\ m.src \in Addrs
  BY DEF BusMessage, Message, ClaimAdopt, Binds
<1>2. occ \in 1..n /\ occ \in Slots /\ dev \in [Slots -> Device]
  BY <1>1, SlotAtSpec, ConstantsAssumption
  DEF ClaimAdopt, Provisional, IInv, TypeOK, Slots
<1>3. /\ bound \in Device /\ bound.src = dev[occ].src
      /\ bound.unique = m.unique
  BY <1>1, <1>2 DEF Device
<1>4. n' = n /\ dev' = [dev EXCEPT ![occ] = Noted(bound, m)]
  BY <1>2 DEF ClaimAdopt
<1>5. \A i \in 1..n : dev[i].unique # m.unique
  BY <1>1, SlotOfSpec DEF ClaimAdopt
<1> HIDE DEF bound, occ
<1>6. /\ Noted(bound, m) \in Device
      /\ Noted(bound, m).src = dev[occ].src
      /\ Noted(bound, m).unique = m.unique
      /\ Noted(bound, m).ident = IdentOf(Noted(bound, m))
  BY <1>3, NotedSpec
<1> QED
  BY <1>2, <1>4, <1>5, <1>6, RewriteStep

LEMMA TouchKnownStep ==
    ASSUME IInv, NEW m \in BusMessage, TouchKnown(m)
    PROVE  IInv'
<1> DEFINE d == SlotAt(m.src)
<1>1. m \in Message /\ m.src \in Addrs
  BY DEF BusMessage, Message
<1>2. d \in 1..n /\ d \in Slots /\ dev \in [Slots -> Device]
  BY <1>1, SlotAtSpec, ConstantsAssumption DEF TouchKnown, IInv, TypeOK, Slots
<1>3. n' = n /\ dev' = [dev EXCEPT ![d] = Noted(dev[d], m)]
  BY <1>2 DEF TouchKnown
<1> HIDE DEF d
<1>4. /\ Noted(dev[d], m) \in Device
      /\ Noted(dev[d], m).src = dev[d].src
      /\ Noted(dev[d], m).unique = dev[d].unique
      /\ Noted(dev[d], m).ident = IdentOf(Noted(dev[d], m))
  BY <1>2, NotedSpec
<1> QED
  BY <1>2, <1>3, <1>4, RewriteStep

(* An evicted occupant is the only record at the address, so afterwards    *)
(* nobody is.                                                              *)
LEMMA EvictedSpec ==
    ASSUME IInv, NEW a \in Addrs
    PROVE  /\ Evicted(SlotAt(a)) \in [Slots -> Device]
           /\ \A i \in Slots : i > n => Evicted(SlotAt(a))[i] = Blank
           /\ \A i \in Slots :
                /\ Evicted(SlotAt(a))[i].ident = IdentOf(Evicted(SlotAt(a))[i])
                /\ Evicted(SlotAt(a))[i].unique = dev[i].unique
                /\ Evicted(SlotAt(a))[i].serial = dev[i].serial
                /\ Evicted(SlotAt(a))[i].pgns = dev[i].pgns
                /\ Evicted(SlotAt(a))[i].src \in {dev[i].src, None} \ {a}
<1> DEFINE occ == SlotAt(a)
           e == Evicted(occ)
<1>1. /\ n \in 0..MaxDevices /\ dev \in [Slots -> Device]
      /\ \A i \in Slots : i > n => dev[i] = Blank
      /\ \A i \in Slots : dev[i].ident = IdentOf(dev[i])
  BY DEF IInv, TypeOK
<1>2. \A i \in Slots : i \in 1..n \/ i > n
  BY <1>1, ConstantsAssumption DEF Slots
<1>3. CASE occ = NoSlot
  <2>1. \A i \in Slots : dev[i].src # a
    BY <1>1, <1>2, <1>3, SlotAtSpec, BlankSpec, ConstantsAssumption
  <2> QED
    BY <1>1, <1>3, <2>1 DEF Evicted
<1>4. CASE occ # NoSlot
  <2>1. /\ occ \in 1..n /\ occ \in Slots
        /\ \A i \in 1..n : dev[i].src = a <=> i = occ
    BY <1>1, <1>4, SlotAtSpec, ConstantsAssumption DEF Slots
  <2>2. \A i \in Slots : dev[i].src = a => i = occ
    BY <1>1, <1>2, <2>1, BlankSpec, ConstantsAssumption
  <2>3. e = [dev EXCEPT ![occ] = [dev[occ] EXCEPT !.src = None]]
    BY <1>1, <1>4, <2>1 DEF Evicted
  <2> DEFINE out == [dev[occ] EXCEPT !.src = None]
  <2>4. /\ out \in Device /\ out.ident = IdentOf(out) /\ out.src = None
        /\ out.unique = dev[occ].unique /\ out.serial = dev[occ].serial
        /\ out.pgns = dev[occ].pgns
    BY <1>1, <2>1 DEF Device, IdentOf
  <2> HIDE DEF out, e, occ
  <2>5. \A i \in Slots : e[i] = IF i = occ THEN out ELSE dev[i]
    BY <1>1, <2>1, <2>3 DEF out
  <2>6. e \in [Slots -> Device]
    BY <1>1, <2>1, <2>3, <2>4 DEF out
  <2>7. \A i \in Slots : i > n => e[i] = Blank
    BY <1>1, <2>1, <2>5, ConstantsAssumption DEF Slots
  <2>8. \A i \in Slots : /\ e[i].ident = IdentOf(e[i])
                         /\ e[i].unique = dev[i].unique
                         /\ e[i].serial = dev[i].serial
                         /\ e[i].pgns = dev[i].pgns
                         /\ e[i].src \in {dev[i].src, None} \ {a}
    BY <1>1, <2>2, <2>4, <2>5, ConstantsAssumption
  <2> QED
    BY <2>6, <2>7, <2>8 DEF e, occ
<1> QED
  BY <1>3, <1>4

LEMMA ClaimNewStep ==
    ASSUME IInv, NEW m \in BusMessage, ClaimNew(m)
    PROVE  IInv'
<1> DEFINE e == Evicted(SlotAt(m.src))
           fresh == [Blank EXCEPT !.src = m.src, !.unique = m.unique]
<1>1. m \in Message /\ m.unique \in Uniques /\ m.src \in Addrs
  BY DEF BusMessage, Message, ClaimNew, Binds
<1>2. /\ e \in [Slots -> Device]
      /\ \A i \in Slots : i > n => e[i] = Blank
      /\ \A i \in Slots : /\ e[i].ident = IdentOf(e[i])
                          /\ e[i].unique = dev[i].unique
                          /\ e[i].src \in {dev[i].src, None} \ {m.src}
  BY <1>1, EvictedSpec
<1>3. \A i \in 1..n : dev[i].unique # m.unique
  BY <1>1, SlotOfSpec DEF ClaimNew
<1>4. n \in 0..MaxDevices /\ 1..n \subseteq Slots
  BY ConstantsAssumption DEF IInv, TypeOK, Slots
<1>5. CASE n < MaxDevices
  <2>1. fresh \in Device /\ fresh.src = m.src /\ fresh.unique = m.unique
    BY <1>1, BlankSpec DEF Device, Blank
  <2>2. n' = n + 1 /\ dev' = [e EXCEPT ![n + 1] = Noted(fresh, m)]
    BY <1>5 DEF ClaimNew
  <2> HIDE DEF fresh, e
  <2>3. /\ Noted(fresh, m) \in Device
        /\ Noted(fresh, m).src = m.src
        /\ Noted(fresh, m).unique = m.unique
        /\ Noted(fresh, m).ident = IdentOf(Noted(fresh, m))
    BY <2>1, NotedSpec
  <2>4. Noted(fresh, m).src # None
    BY <1>1, <2>3, ConstantsAssumption
  <2> DEFINE d == Noted(fresh, m)
  <2>5. /\ d \in Device /\ d.ident = IdentOf(d) /\ d.src # None
        /\ \A i \in Slots : i > n => e[i] = Blank
        /\ \A i \in Slots : /\ e[i].ident = IdentOf(e[i])
                            /\ e[i].unique = dev[i].unique
                            /\ e[i].src \in {dev[i].src, None} \ {d.src}
        /\ \A i \in 1..n : dev[i].unique # d.unique \/ d.unique = None
        /\ n' = n + 1 /\ dev' = [e EXCEPT ![n + 1] = d]
    BY <1>2, <1>3, <2>2, <2>3, <2>4
  <2> HIDE DEF d
  <2> QED
    BY <1>2, <1>5, <2>5, AppendStep
<1>6. CASE ~ (n < MaxDevices)
  <2>1. n' = n /\ dev' = e
    BY <1>6 DEF ClaimNew
  <2> HIDE DEF e
  <2>2. TypeOK'
    BY <1>2, <1>4, <2>1 DEF TypeOK
  <2>3. AddrUnique'
    BY <1>2, <1>4, <2>1 DEF AddrUnique, IInv
  <2>4. UniqueUnique'
    BY <1>2, <1>4, <2>1 DEF UniqueUnique, IInv
  <2> QED
    BY <2>2, <2>3, <2>4 DEF IInv
<1> QED
  BY <1>5, <1>6

LEMMA TouchNewStep ==
    ASSUME IInv, NEW m \in BusMessage, TouchNew(m)
    PROVE  IInv'
<1> DEFINE fresh == [Blank EXCEPT !.src = m.src]
<1>1. m \in Message /\ m.src \in Addrs
  BY DEF BusMessage, Message
<1>2. CASE n < MaxDevices
  <2>1. fresh \in Device /\ fresh.src = m.src /\ fresh.unique = None
    BY <1>1, BlankSpec DEF Device, Blank
  <2>2. n' = n + 1 /\ dev' = [dev EXCEPT ![n + 1] = Noted(fresh, m)]
    BY <1>2 DEF TouchNew
  <2> HIDE DEF fresh
  <2>3. /\ Noted(fresh, m) \in Device
        /\ Noted(fresh, m).src = m.src
        /\ Noted(fresh, m).unique = None
        /\ Noted(fresh, m).ident = IdentOf(Noted(fresh, m))
    BY <2>1, NotedSpec
  <2>4. Noted(fresh, m).src # None
    BY <1>1, <2>3, ConstantsAssumption
  <2>5. \A i \in 1..n : dev[i].src # m.src
    BY <1>1, SlotAtSpec DEF TouchNew
  <2>6. /\ dev \in [Slots -> Device]
        /\ \A i \in Slots : i > n => dev[i] = Blank
        /\ \A i \in Slots : dev[i].ident = IdentOf(dev[i])
    BY DEF IInv, TypeOK
  <2>7. \A i \in Slots : dev[i].src # m.src
    BY <1>1, <2>5, <2>6, BlankSpec, ConstantsAssumption DEF Slots, IInv, TypeOK
  <2> DEFINE d == Noted(fresh, m)
  <2>8. /\ d \in Device /\ d.ident = IdentOf(d) /\ d.src # None
        /\ \A i \in Slots : i > n => dev[i] = Blank
        /\ \A i \in Slots : /\ dev[i].ident = IdentOf(dev[i])
                            /\ dev[i].unique = dev[i].unique
                            /\ dev[i].src \in {dev[i].src, None} \ {d.src}
        /\ \A i \in 1..n : dev[i].unique # d.unique \/ d.unique = None
        /\ n' = n + 1 /\ dev' = [dev EXCEPT ![n + 1] = d]
    BY <2>2, <2>3, <2>4, <2>6, <2>7
  <2> HIDE DEF d
  <2> QED
    BY <1>2, <2>6, <2>8, AppendStep
<1>3. CASE ~ (n < MaxDevices)
  BY <1>3 DEF TouchNew, vars, IInv, TypeOK, AddrUnique, UniqueUnique
<1> QED
  BY <1>2, <1>3

-----------------------------------------------------------------------------
LEMMA NextIInv == IInv /\ [Next]_vars => IInv'
<1> SUFFICES ASSUME IInv, [Next]_vars PROVE IInv'
  OBVIOUS
<1>1. CASE UNCHANGED vars
  BY <1>1 DEF vars, IInv, TypeOK, AddrUnique, UniqueUnique
<1>2. ASSUME NEW m \in BusMessage, Observe(m) PROVE IInv'
  <2>1. CASE ClaimKnown(m)
    BY <2>1, ClaimKnownStep
  <2>2. CASE ClaimAdopt(m)
    BY <2>2, ClaimAdoptStep
  <2>3. CASE ClaimNew(m)
    BY <2>3, ClaimNewStep
  <2>4. CASE TouchKnown(m)
    BY <2>4, TouchKnownStep
  <2>5. CASE TouchNew(m)
    BY <2>5, TouchNewStep
  <2> QED
    BY <1>2, <2>1, <2>2, <2>3, <2>4, <2>5 DEF Observe
<1> QED
  BY <1>1, <1>2 DEF Next

LEMMA InvariantHolds == Spec => []IInv
<1>1. Init => IInv
  BY InitIInv
<1>2. IInv /\ [Next]_vars => IInv'
  BY NextIInv
<1> QED
  BY <1>1, <1>2, PTL DEF Spec

(* The table is well formed whatever is heard on the bus.                  *)
THEOREM RegistryTypeCorrect == Spec => []TypeOK
<1>1. IInv => TypeOK
  BY DEF IInv
<1> QED
  BY <1>1, InvariantHolds, PTL

(* No address ever resolves to two records: the first match of find_by_src *)
(* is the only one.                                                        *)
THEOREM OneRecordPerAddress == Spec => []AddrUnique
<1>1. IInv => AddrUnique
  BY DEF IInv
<1> QED
  BY <1>1, InvariantHolds, PTL

(* No hardware is ever recorded twice.                                     *)
THEOREM OneRecordPerHardware == Spec => []UniqueUnique
<1>1. IInv => UniqueUnique
  BY DEF IInv
<1> QED
  BY <1>1, InvariantHolds, PTL

-----------------------------------------------------------------------------
(* Identity kept in a well-formed record: nothing is lost as long as the   *)
(* serial number and the Unique Number are not.                            *)
LEMMA IdentKept ==
    ASSUME NEW d \in Device, NEW e \in Device,
           d.ident = IdentOf(d), e.ident = IdentOf(e),
           d.unique # None => e.unique = d.unique,
           d.serial # None => e.serial # None,
           d.ident # None
    PROVE  e.ident # None
BY DEF IdentOf

LEMMA NextKeepsKnowledge == IInv /\ [Next]_vars => [KeepsKnowledge]_vars
<1> SUFFICES ASSUME IInv, NEW m \in BusMessage, Observe(m)
             PROVE  KeepsKnowledge
  BY DEF Next
<1>1. /\ n \in Nat /\ 1..n \subseteq Slots /\ dev \in [Slots -> Device]
      /\ n + 1 \notin 1..n /\ n =< MaxDevices
      /\ \A i \in Slots : dev[i].ident = IdentOf(dev[i])
      /\ m \in Message
  BY ConstantsAssumption DEF IInv, TypeOK, Slots, BusMessage
<1>2. /\ dev' \in [Slots -> Device] /\ n' \in 0..MaxDevices
      /\ \A i \in Slots : dev'[i].ident = IdentOf(dev'[i])
  BY NextIInv DEF Next, IInv, TypeOK
<1> DEFINE Kept(d, e) == /\ d.unique # None => e.unique = d.unique
                         /\ d.serial # None => e.serial # None
                         /\ d.pgns \subseteq e.pgns
<1>3. SUFFICES n' >= n /\ \A i \in 1..n : Kept(dev[i], dev'[i])
  BY <1>1, <1>2, IdentKept DEF KeepsKnowledge
<1>4. CASE ClaimKnown(m)
  <2> DEFINE d == SlotOf(m.unique)
             moved == IF dev[d].src # m.src THEN Detached(m.src, d) ELSE dev
             base == [moved[d] EXCEPT !.src = m.src]
  <2>1. m.unique \in Uniques /\ m.src \in Addrs
    BY <1>1, <1>4 DEF Message, ClaimKnown, Binds
  <2>2. d \in 1..n /\ d \in Slots
    BY <1>1, <1>4, <2>1, SlotOfSpec DEF ClaimKnown
  <2>3. /\ moved \in [Slots -> Device]
        /\ \A i \in Slots : /\ moved[i].unique = dev[i].unique
                            /\ moved[i].serial = dev[i].serial
                            /\ moved[i].pgns = dev[i].pgns
    BY <1>1, ConstantsAssumption DEF Detached, Device
  <2>4. n' = n /\ dev' = [moved EXCEPT ![d] = Noted(base, m)]
    BY <1>4, <2>2, <2>3 DEF ClaimKnown
  <2>5. /\ base \in Device /\ base.unique = dev[d].unique
        /\ base.serial = dev[d].serial /\ base.pgns = dev[d].pgns
    BY <2>1, <2>2, <2>3 DEF Device
  <2> HIDE DEF base, moved, d
  <2>6. Kept(dev[d], Noted(base, m))
    BY <2>5, NotedSpec
  <2>7. \A i \in 1..n : dev'[i] = IF i = d THEN Noted(base, m) ELSE moved[i]
    BY <1>1, <2>3, <2>4
  <2> QED
    BY <1>1, <2>3, <2>4, <2>6, <2>7
<1>5. CASE ClaimAdopt(m)
  <2> DEFINE occ == SlotAt(m.src)
             base == [dev[occ] EXCEPT !.unique = m.unique]
  <2>1. m.unique \in Uniques /\ m.src \in Addrs
    BY <1>1, <1>5 DEF Message, ClaimAdopt, Binds
  <2>2. occ \in 1..n /\ occ \in Slots /\ dev[occ].unique = None
    BY <1>1, <1>5, <2>1, SlotAtSpec DEF ClaimAdopt, Provisional
  <2>3. n' = n /\ dev' = [dev EXCEPT ![occ] = Noted(base, m)]
    BY <1>1, <1>5, <2>2 DEF ClaimAdopt
  <2>4. /\ base \in Device
        /\ base.serial = dev[occ].serial /\ base.pgns = dev[occ].pgns
    BY <1>1, <2>1, <2>2 DEF Device
  <2> HIDE DEF base, occ
  <2>5. Kept(dev[occ], Noted(base, m))
    BY <2>2, <2>4, NotedSpec
  <2> QED
    BY <1>1, <2>2, <2>3, <2>5
<1>6. CASE ClaimNew(m)
  <2> DEFINE e == Evicted(SlotAt(m.src))
             fresh == [Blank EXCEPT !.src = m.src, !.unique = m.unique]
  <2>1. m.src \in Addrs
    BY <1>1 DEF Message
  <2>2. /\ e \in [Slots -> Device]
        /\ \A i \in Slots : Kept(dev[i], e[i])
    BY <2>1, EvictedSpec
  <2>3. \/ n' = n + 1 /\ dev' = [e EXCEPT ![n + 1] = Noted(fresh, m)]
        \/ n' = n /\ dev' = e
    BY <1>6 DEF ClaimNew
  <2> HIDE DEF e, fresh
  <2> QED
    BY <1>1, <2>2, <2>3
<1>7. CASE TouchKnown(m)
  <2> DEFINE d == SlotAt(m.src)
  <2>1. d \in 1..n /\ d \in Slots
    BY <1>1, <1>7, SlotAtSpec DEF TouchKnown, Message
  <2>2. n' = n /\ dev' = [dev EXCEPT ![d] = Noted(dev[d], m)]
    BY <1>1, <1>7, <2>1 DEF TouchKnown
  <2> HIDE DEF d
  <2>3. Kept(dev[d], Noted(dev[d], m))
    BY <1>1, <2>1, NotedSpec
  <2> QED
    BY <1>1, <2>1, <2>2, <2>3
<1>8. CASE TouchNew(m)
  BY <1>1, <1>8 DEF TouchNew, vars
<1> QED
  BY <1>4, <1>5, <1>6, <1>7, <1>8 DEF Observe

(* No message, in any order, ever makes the table forget a device or its   *)
(* identity.                                                               *)
THEOREM KnowledgeIsKept == Spec => KnowledgeKept
<1>1. IInv /\ [Next]_vars => [KeepsKnowledge]_vars
  BY NextKeepsKnowledge
<1> QED
  BY <1>1, InvariantHolds, PTL DEF Spec, KnowledgeKept

-----------------------------------------------------------------------------
(* Address a is free, or held by the record bound to u.                    *)
HeldByOrFree(a, u) ==
    \/ \A i \in 1..n : dev[i].src # a
    \/ \E i \in 1..n : dev[i].src = a /\ dev[i].unique = u

LEMMA HeldByOrFreeSettles ==
    IInv => \A a \in Addrs, u \in Uniques :
              HeldByOrFree(a, u) => SlotAt(a) \in {NoSlot, SlotOf(u)}
<1> SUFFICES ASSUME IInv, NEW a \in Addrs, NEW u \in Uniques,
                    HeldByOrFree(a, u)
             PROVE  SlotAt(a) \in {NoSlot, SlotOf(u)}
  OBVIOUS
<1>1. \/ SlotAt(a) = NoSlot
      \/ \A i \in 1..n : dev[i].src = a <=> i = SlotAt(a)
  BY SlotAtSpec
<1>2. \/ \A i \in 1..n : dev[i].unique # u
      \/ \A i \in 1..n : dev[i].unique = u <=> i = SlotOf(u)
  BY SlotOfSpec
<1>3. SlotAt(a) = NoSlot \/ SlotAt(a) \in 1..n
  BY SlotAtSpec
<1> QED
  BY <1>1, <1>2, <1>3 DEF HeldByOrFree

LEMMA ClaimLeavesHeldByOrFree ==
    ASSUME IInv, NEW m \in BusMessage, Observe(m), Binds(m)
    PROVE  HeldByOrFree(m.src, m.unique)'
<1>1. /\ m.unique \in Uniques /\ m.src \in Addrs
      /\ n \in Nat /\ 1..n \subseteq Slots /\ dev \in [Slots -> Device]
      /\ n + 1 \in 1..(n + 1)
  BY ConstantsAssumption DEF BusMessage, Message, Binds, IInv, TypeOK, Slots
<1>2. CASE ClaimKnown(m)
  <2> DEFINE d == SlotOf(m.unique)
             moved == IF dev[d].src # m.src THEN Detached(m.src, d) ELSE dev
             base == [moved[d] EXCEPT !.src = m.src]
  <2>1. d \in 1..n /\ d \in Slots /\ dev[d].unique = m.unique
    BY <1>1, <1>2, SlotOfSpec DEF ClaimKnown
  <2>2. moved \in [Slots -> Device] /\ moved[d].unique = m.unique
    BY <1>1, <2>1, ConstantsAssumption DEF Detached, Device
  <2>3. n' = n /\ dev' = [moved EXCEPT ![d] = Noted(base, m)]
    BY <1>2, <2>1, <2>2 DEF ClaimKnown
  <2>4. base \in Device /\ base.src = m.src /\ base.unique = m.unique
    BY <1>1, <2>1, <2>2 DEF Device
  <2> HIDE DEF base, moved, d
  <2>5. Noted(base, m).src = m.src /\ Noted(base, m).unique = m.unique
    BY <2>4, NotedSpec
  <2>6. dev'[d] = Noted(base, m)
    BY <2>1, <2>2, <2>3
  <2>7. d \in 1..n' /\ dev'[d].src = m.src /\ dev'[d].unique = m.unique
    BY <2>1, <2>3, <2>5, <2>6
  <2> QED
    BY <2>7 DEF HeldByOrFree
<1>3. CASE ClaimAdopt(m)
  <2> DEFINE occ == SlotAt(m.src)
             base == [dev[occ] EXCEPT !.unique = m.unique]
  <2>1. occ \in 1..n /\ occ \in Slots /\ dev[occ].src = m.src
    BY <1>1, <1>3, SlotAtSpec DEF ClaimAdopt, Provisional
  <2>2. n' = n /\ dev' = [dev EXCEPT ![occ] = Noted(base, m)]
    BY <1>1, <1>3, <2>1 DEF ClaimAdopt
  <2>3. base \in Device /\ base.src = m.src /\ base.unique = m.unique
    BY <1>1, <2>1 DEF Device
  <2> HIDE DEF base, occ
  <2>4. Noted(base, m).src = m.src /\ Noted(base, m).unique = m.unique
    BY <2>3, NotedSpec
  <2>5. dev'[occ] = Noted(base, m)
    BY <1>1, <2>1, <2>2
  <2>6. occ \in 1..n' /\ dev'[occ].src = m.src /\ dev'[occ].unique = m.unique
    BY <2>1, <2>2, <2>4, <2>5
  <2> QED
    BY <2>6 DEF HeldByOrFree
<1>4. CASE ClaimNew(m)
  <2> DEFINE e == Evicted(SlotAt(m.src))
             fresh == [Blank EXCEPT !.src = m.src, !.unique = m.unique]
  <2>1. fresh \in Device /\ fresh.src = m.src /\ fresh.unique = m.unique
    BY <1>1, BlankSpec DEF Device, Blank
  <2>2. /\ e \in [Slots -> Device]
        /\ \A i \in Slots : e[i].src # m.src
    BY <1>1, EvictedSpec
  <2>3. CASE n < MaxDevices
    <3>1. n' = n + 1 /\ dev' = [e EXCEPT ![n + 1] = Noted(fresh, m)]
      BY <1>4, <2>3 DEF ClaimNew
    <3>2. n + 1 \in Slots
      BY <1>1, <2>3, ConstantsAssumption DEF Slots
    <3> HIDE DEF e, fresh
    <3>3. Noted(fresh, m).src = m.src /\ Noted(fresh, m).unique = m.unique
      BY <2>1, NotedSpec
    <3>4. dev'[n + 1] = Noted(fresh, m)
      BY <2>2, <3>1, <3>2
    <3>5. n + 1 \in 1..n'
      BY <1>1, <3>1
    <3>6. dev'[n + 1].src = m.src /\ dev'[n + 1].unique = m.unique
      BY <3>3, <3>4
    <3>7. \E i \in 1..n' : dev'[i].src = m.src /\ dev'[i].unique = m.unique
      BY <3>5, <3>6
    <3> QED
      BY <3>7 DEF HeldByOrFree
  <2>4. CASE ~ (n < MaxDevices)
    <3>1. n' = n /\ dev' = e
      BY <1>4, <2>4 DEF ClaimNew
    <3> HIDE DEF e
    <3>2. \A i \in 1..n' : dev'[i].src # m.src
      BY <1>1, <2>2, <3>1
    <3> QED
      BY <3>2 DEF HeldByOrFree
  <2> QED
    BY <2>3, <2>4
<1> QED
  BY <1>2, <1>3, <1>4 DEF Observe, TouchKnown, TouchNew

(* After any claim, in any state of the table, the claimed address is the  *)
(* claimant's or nobody's: nobody keeps being heard under the identity of  *)
(* the device that was there before.                                       *)
THEOREM ClaimSettlesAddress == Spec => ClaimWins
<1> DEFINE Free == \A a \in Addrs, u \in Uniques :
                     HeldByOrFree(a, u) => SlotAt(a) \in {NoSlot, SlotOf(u)}
           Step == \A m \in BusMessage : Observe(m) /\ Binds(m) => Settles(m)
<1>1. IInv => Free
  BY HeldByOrFreeSettles
<1>2. IInv' => Free'
  BY <1>1, PTL
<1>3. IInv /\ [Next]_vars => Step
  <2> SUFFICES ASSUME IInv, [Next]_vars,
                      NEW m \in BusMessage, Observe(m), Binds(m)
               PROVE  Settles(m)
    OBVIOUS
  <2>1. m.unique \in Uniques /\ m.src \in Addrs
    BY ConstantsAssumption DEF BusMessage, Message, Binds
  <2>2. Free'
    BY <1>2, NextIInv
  <2>3. HeldByOrFree(m.src, m.unique)'
    BY ClaimLeavesHeldByOrFree
  <2>4. HeldByOrFree(m.src, m.unique)'
          => SlotAt(m.src)' \in {NoSlot, SlotOf(m.unique)'}
    BY <2>1, <2>2 DEF NoSlot
  <2> QED
    BY <2>3, <2>4 DEF Settles
<1> HIDE DEF Step
<1>4. IInv /\ [Next]_vars => [Step]_vars
  BY <1>3
<1>5. Spec => [][Step]_vars
  BY <1>4, InvariantHolds, PTL DEF Spec
<1> QED
  BY <1>5 DEF Step, ClaimWins

-----------------------------------------------------------------------------
(* The table and the equipment, for any number of units: while nothing is  *)
(* missed, what is heard from an address resolves to the unit that speaks  *)
(* from it.                                                                *)

(* What the table believes while it hears everything.  Each record is of   *)
(* one unit, bound to its Unique Number from its first claim on ...        *)
RecordsAreUnits ==
    \A i \in 1..n : \E d \in Units : /\ dev[i].unique = UniqueOf[d]
                                     /\ dev[i].serial \in {None, SerialOf[d]}

(* ... nobody but the unit that uses an address is recorded at it ...      *)
NoImpostor ==
    \A d \in Units, i \in 1..n :
        at[d] # None /\ dev[i].src = at[d] => dev[i].unique = UniqueOf[d]

(* ... and it is recorded there, unless the table is full: a message of a  *)
(* unit never finds a free slot to make a provisional record in.           *)
NoStranger ==
    \A d \in Units : at[d] # None => \/ n = MaxDevices
                                     \/ \E i \in 1..n : dev[i].src = at[d]

OneUnitPerAddress ==
    \A d, e \in Units : at[d] = at[e] /\ at[d] # None => d = e

SpeakerIsThere ==
    speaker # Nobody => /\ speaker.unit \in Units /\ speaker.src \in Addrs
                        /\ at[speaker.unit] = speaker.src

Believed == RecordsAreUnits /\ NoImpostor /\ NoStranger /\ SpeakerIsThere

BInv ==
    /\ IInv
    /\ at \in [Units -> Addrs \cup {None}] /\ missed \in Nat
    /\ OneUnitPerAddress
    /\ missed = 0 => Believed

-----------------------------------------------------------------------------
LEMMA NotedSerial ==
    ASSUME NEW d \in Device, NEW m \in BusMessage
    PROVE  Noted(d, m).serial = IF m.serial = None THEN d.serial ELSE m.serial
<1>1. m \in Message /\ (m.serial # None => m.pgn = ProductPgn)
  BY DEF BusMessage
<1> DEFINE p == FromProduct(d, m)
           b == BumpPgn(p, m.pgn)
<1>2. p \in Device /\ p.serial = IF m.serial = None THEN d.serial ELSE m.serial
  BY <1>1 DEF FromProduct, Device, Message
<1>3. b \in Device /\ b.serial = p.serial
  BY <1>1, <1>2 DEF BumpPgn, Device, Message
<1>4. Noted(d, m) = [b EXCEPT !.ident = IdentOf(b)]
  BY DEF Noted, RecomputeIdent
<1> HIDE DEF p, b
<1> QED BY <1>2, <1>3, <1>4 DEF Device

(* What a claim does to the table, when every record is identified.        *)
ClaimMoves(m) ==
    /\ \A i \in 1..n :
         /\ dev'[i].unique = dev[i].unique /\ dev'[i].serial = dev[i].serial
         /\ dev'[i].src = IF dev[i].unique = m.unique THEN m.src
                          ELSE IF dev[i].src = m.src THEN None ELSE dev[i].src
    /\ \/ /\ n' = n
          /\ n = MaxDevices \/ \E i \in 1..n : dev[i].unique = m.unique
       \/ /\ n < MaxDevices /\ n' = n + 1
          /\ dev'[n + 1].unique = m.unique /\ dev'[n + 1].serial = None
          /\ dev'[n + 1].src = m.src

LEMMA ClaimEffect ==
    ASSUME IInv, NEW m \in BusMessage, Observe(m), Binds(m),
           \A i \in 1..n : dev[i].unique # None
    PROVE  ClaimMoves(m)
<1>1. /\ m.unique \in Uniques /\ m.src \in Addrs /\ m.serial = None
      /\ n \in Nat /\ n <= MaxDevices /\ 1..n \subseteq Slots /\ dev \in [Slots -> Device]
      /\ MaxDevices \in Nat
  BY ConstantsAssumption DEF BusMessage, Message, Binds, IInv, TypeOK, Slots
<1>2. CASE ClaimKnown(m)
  <2> DEFINE d == SlotOf(m.unique)
             moved == IF dev[d].src # m.src THEN Detached(m.src, d) ELSE dev
             base == [moved[d] EXCEPT !.src = m.src]
  <2>1. /\ d \in 1..n /\ d \in Slots
        /\ \A i \in 1..n : dev[i].unique = m.unique <=> i = d
    BY <1>1, <1>2, SlotOfSpec DEF ClaimKnown
  <2>2. /\ moved \in [Slots -> Device] /\ moved[d] = dev[d]
        /\ \A i \in 1..n : /\ moved[i].unique = dev[i].unique
                           /\ moved[i].serial = dev[i].serial
                           /\ i # d => moved[i].src = IF dev[i].src = m.src THEN None ELSE dev[i].src
    <3>1. CASE dev[d].src # m.src
      <4>1. moved = [i \in Slots |-> IF i <= n /\ i # d /\ dev[i].src = m.src
                       THEN [dev[i] EXCEPT !.src = None] ELSE dev[i]]
        BY <3>1 DEF Detached
      <4> HIDE DEF moved, d
      <4>2. \A i \in Slots : dev[i] \in Device /\ [dev[i] EXCEPT !.src = None] \in Device
        BY <1>1 DEF Device
      <4>3. moved \in [Slots -> Device] /\ moved[d] = dev[d]
        BY <2>1, <4>1, <4>2
      <4>4. \A i \in 1..n : i \in Slots /\ i <= n
        BY <1>1
      <4>5. ASSUME NEW i \in 1..n
            PROVE  /\ moved[i].unique = dev[i].unique
                   /\ moved[i].serial = dev[i].serial
                   /\ i # d => moved[i].src = IF dev[i].src = m.src THEN None ELSE dev[i].src
        BY <4>1, <4>2, <4>4 DEF Device
      <4> QED BY <4>3, <4>5
    <3>2. CASE dev[d].src = m.src
      BY <1>1, <2>1, <3>2, ConstantsAssumption DEF IInv, AddrUnique
    <3> QED BY <3>1, <3>2
  <2>3. n' = n /\ dev' = [moved EXCEPT ![d] = Noted(base, m)]
    BY <1>2, <2>1, <2>2 DEF ClaimKnown
  <2>4. /\ base \in Device /\ base.src = m.src /\ base.unique = dev[d].unique
        /\ base.serial = dev[d].serial
    <3> HIDE DEF moved, d
    <3>1. moved[d] \in Device /\ moved[d] = dev[d]
      BY <2>1, <2>2
    <3> QED BY <1>1, <3>1 DEF Device
  <2> HIDE DEF base, moved, d
  <2>5. /\ Noted(base, m).src = m.src /\ Noted(base, m).unique = dev[d].unique
        /\ Noted(base, m).serial = dev[d].serial
    BY <1>1, <2>4, NotedSpec, NotedSerial
  <2>6. \A i \in 1..n : dev'[i] = IF i = d THEN Noted(base, m) ELSE moved[i]
    BY <1>1, <2>1, <2>2, <2>3
  <2>7. \A i \in 1..n :
         /\ dev'[i].unique = dev[i].unique /\ dev'[i].serial = dev[i].serial
         /\ dev'[i].src = IF dev[i].unique = m.unique THEN m.src
                          ELSE IF dev[i].src = m.src THEN None ELSE dev[i].src
    BY <2>1, <2>2, <2>5, <2>6
  <2> QED BY <2>1, <2>3, <2>7 DEF ClaimMoves
<1>3. CASE ClaimAdopt(m)
  BY <1>1, <1>3, SlotAtSpec DEF ClaimAdopt, Provisional
<1>4. CASE ClaimNew(m)
  <2> DEFINE e == Evicted(SlotAt(m.src))
             fresh == [Blank EXCEPT !.src = m.src, !.unique = m.unique]
  <2>1. \A i \in 1..n : dev[i].unique # m.unique
    BY <1>1, <1>4, SlotOfSpec DEF ClaimNew
  <2>2. \/ SlotAt(m.src) = NoSlot /\ \A i \in 1..n : dev[i].src # m.src
        \/ /\ SlotAt(m.src) \in 1..n /\ SlotAt(m.src) # NoSlot
           /\ \A i \in 1..n : dev[i].src = m.src <=> i = SlotAt(m.src)
    BY <1>1, SlotAtSpec
  <2>3. /\ e \in [Slots -> Device]
        /\ \A i \in 1..n : /\ e[i].unique = dev[i].unique /\ e[i].serial = dev[i].serial
                           /\ e[i].src = IF dev[i].src = m.src THEN None ELSE dev[i].src
    <3>1. /\ e \in [Slots -> Device]
          /\ \A i \in 1..n : e[i].unique = dev[i].unique /\ e[i].serial = dev[i].serial
      BY <1>1, EvictedSpec
    <3>2. ASSUME NEW i \in 1..n
          PROVE  e[i].src = IF dev[i].src = m.src THEN None ELSE dev[i].src
      <4>1. i \in Slots /\ dev[i] \in Device
        BY <1>1
      <4> QED BY <1>1, <2>2, <4>1 DEF Evicted, Device
    <3> QED BY <3>1, <3>2
  <2>4. /\ fresh \in Device /\ fresh.src = m.src /\ fresh.unique = m.unique
        /\ fresh.serial = None
    BY <1>1, BlankSpec DEF Device, Blank
  <2>5. CASE n < MaxDevices
    <3>1. n' = n + 1 /\ dev' = [e EXCEPT ![n + 1] = Noted(fresh, m)]
      BY <1>4, <2>5 DEF ClaimNew
    <3>2. n + 1 \in Slots /\ \A i \in 1..n : i \in Slots /\ i # n + 1
      BY <1>1, <2>5 DEF Slots
    <3> HIDE DEF e, fresh
    <3>3. /\ Noted(fresh, m).src = m.src /\ Noted(fresh, m).unique = m.unique
          /\ Noted(fresh, m).serial = None
      BY <1>1, <2>4, NotedSpec, NotedSerial
    <3>4. dev'[n + 1] = Noted(fresh, m) /\ \A i \in 1..n : dev'[i] = e[i]
      BY <2>3, <3>1, <3>2
    <3> QED BY <2>1, <2>3, <2>5, <3>1, <3>3, <3>4 DEF ClaimMoves
  <2>6. CASE ~ (n < MaxDevices)
    <3>1. n' = n /\ dev' = e /\ n = MaxDevices
      BY <1>1, <1>4, <2>6 DEF ClaimNew
    <3> HIDE DEF e
    <3> QED BY <2>1, <2>3, <3>1 DEF ClaimMoves
  <2> QED BY <2>5, <2>6
<1> QED BY <1>2, <1>3, <1>4 DEF Observe, TouchKnown, TouchNew

(* What any other message does to it, when no provisional record is made.  *)
MessageAdds(m) ==
    /\ n' = n
    /\ \A i \in 1..n :
         /\ dev'[i].unique = dev[i].unique /\ dev'[i].src = dev[i].src
         /\ dev'[i].serial = IF dev[i].src = m.src /\ m.serial # None
                             THEN m.serial ELSE dev[i].serial

LEMMA MessageEffect ==
    ASSUME IInv, NEW m \in BusMessage, Observe(m), ~ Binds(m),
           n = MaxDevices \/ \E i \in 1..n : dev[i].src = m.src
    PROVE  MessageAdds(m)
<1>1. /\ m.src \in Addrs
      /\ n \in Nat /\ n <= MaxDevices /\ 1..n \subseteq Slots /\ dev \in [Slots -> Device]
      /\ MaxDevices \in Nat
  BY ConstantsAssumption DEF BusMessage, Message, IInv, TypeOK, Slots
<1>2. \/ SlotAt(m.src) = NoSlot /\ \A i \in 1..n : dev[i].src # m.src
      \/ /\ SlotAt(m.src) \in 1..n /\ SlotAt(m.src) # NoSlot
         /\ \A i \in 1..n : dev[i].src = m.src <=> i = SlotAt(m.src)
  BY <1>1, SlotAtSpec
<1>3. CASE TouchKnown(m)
  <2> DEFINE d == SlotAt(m.src)
  <2>1. d \in 1..n /\ d \in Slots /\ \A i \in 1..n : dev[i].src = m.src <=> i = d
    BY <1>1, <1>2, <1>3 DEF TouchKnown
  <2>2. n' = n /\ dev' = [dev EXCEPT ![d] = Noted(dev[d], m)]
    BY <1>1, <1>3, <2>1 DEF TouchKnown
  <2> HIDE DEF d
  <2>3. \A i \in 1..n : dev'[i] = IF i = d THEN Noted(dev[d], m) ELSE dev[i]
    BY <1>1, <2>1, <2>2
  <2>4. /\ Noted(dev[d], m).src = dev[d].src /\ Noted(dev[d], m).unique = dev[d].unique
        /\ Noted(dev[d], m).serial = IF m.serial = None THEN dev[d].serial ELSE m.serial
    BY <1>1, <2>1, NotedSpec, NotedSerial
  <2> QED BY <2>1, <2>2, <2>3, <2>4 DEF MessageAdds
<1>4. CASE TouchNew(m)
  <2>1. SlotAt(m.src) = NoSlot
    BY <1>4 DEF TouchNew
  <2>2. n = MaxDevices /\ \A i \in 1..n : dev[i].src # m.src
    BY <1>1, <1>2, <2>1
  <2>3. n' = n /\ dev' = dev
    BY <1>1, <1>4, <2>2 DEF TouchNew, vars
  <2> QED BY <2>2, <2>3 DEF MessageAdds
<1> QED BY <1>3, <1>4 DEF Observe, ClaimKnown, ClaimAdopt, ClaimNew

-----------------------------------------------------------------------------
LEMMA InitBInv == BInit => BInv
<1> SUFFICES ASSUME BInit PROVE BInv
  OBVIOUS
<1>1. IInv /\ n = 0 /\ 1..n = {}
  BY InitIInv DEF BInit, Init
<1>2. /\ at \in [Units -> Addrs \cup {None}] /\ missed \in Nat
      /\ \A d \in Units : at[d] = None
      /\ speaker = Nobody
  BY DEF BInit
<1>3. OneUnitPerAddress
  BY <1>2 DEF OneUnitPerAddress
<1>4. Believed
  BY <1>1, <1>2 DEF Believed, RecordsAreUnits, NoImpostor, NoStranger, SpeakerIsThere
<1> QED BY <1>1, <1>2, <1>3, <1>4 DEF BInv

(* The messages of the units are messages of the bus.                      *)
LEMMA UnitMessages ==
    ASSUME NEW d \in Units, NEW a \in Addrs
    PROVE  /\ ClaimOf(d, a) \in BusMessage /\ Binds(ClaimOf(d, a))
           /\ ClaimOf(d, a).src = a /\ ClaimOf(d, a).unique = UniqueOf[d]
           /\ at[d] = a =>
                \A m \in {ProductOf(d), DataOf(d)} :
                   /\ m \in BusMessage /\ ~ Binds(m) /\ m.src = a
                   /\ m.serial \in {None, SerialOf[d]}
<1>1. /\ UniqueOf[d] \in Uniques /\ UniqueOf[d] # None
      /\ SerialOf[d] \in Serials \cup {None}
      /\ DataPgn \in Pgns /\ DataPgn # ClaimPgn /\ DataPgn # ProductPgn
      /\ ClaimPgn \in Pgns /\ ProductPgn \in Pgns /\ ClaimPgn # ProductPgn
  BY UnitsAssumption, ConstantsAssumption
<1>2. /\ ClaimOf(d, a) \in BusMessage /\ Binds(ClaimOf(d, a))
      /\ ClaimOf(d, a).src = a /\ ClaimOf(d, a).unique = UniqueOf[d]
  BY <1>1 DEF ClaimOf, BusMessage, Message, Binds
<1>3. ASSUME at[d] = a
      PROVE  /\ ProductOf(d) \in BusMessage /\ ~ Binds(ProductOf(d))
             /\ ProductOf(d).src = a /\ ProductOf(d).serial \in {None, SerialOf[d]}
  BY <1>1, <1>3 DEF ProductOf, BusMessage, Message, Binds
<1>4. ASSUME at[d] = a
      PROVE  /\ DataOf(d) \in BusMessage /\ ~ Binds(DataOf(d))
             /\ DataOf(d).src = a /\ DataOf(d).serial \in {None, SerialOf[d]}
  BY <1>1, <1>4 DEF DataOf, BusMessage, Message, Binds
<1> QED BY <1>2, <1>3, <1>4

(* Where the units are once d uses a: whoever used it before has none.     *)
Moved(d, a) ==
    /\ at' \in [Units -> Addrs \cup {None}]
    /\ \A e \in Units : at'[e] = IF e = d THEN a
                                 ELSE IF at[e] = a THEN None ELSE at[e]

LEMMA MovedOneUnit ==
    ASSUME OneUnitPerAddress, NEW d \in Units, NEW a \in Addrs, Moved(d, a)
    PROVE  OneUnitPerAddress'
BY ConstantsAssumption DEF OneUnitPerAddress, Moved

(* A claim that is heard, of a new address or repeated.                    *)
LEMMA ClaimBelieved ==
    ASSUME BInv, Believed, NEW d \in Units, NEW a \in Addrs, Moved(d, a),
           Observe(ClaimOf(d, a)), speaker' = [unit |-> d, src |-> a]
    PROVE  Believed'
<1> DEFINE m == ClaimOf(d, a)
<1>1. /\ IInv /\ OneUnitPerAddress
      /\ RecordsAreUnits /\ NoImpostor /\ NoStranger
      /\ n \in Nat /\ n <= MaxDevices /\ MaxDevices \in Nat
      /\ None \notin Addrs
  BY ConstantsAssumption DEF BInv, Believed, IInv, TypeOK
<1>2. \A e \in Units : UniqueOf[e] # None /\ (UniqueOf[e] = UniqueOf[d] => e = d)
  BY UnitsAssumption, ConstantsAssumption
<1>3. m \in BusMessage /\ Binds(m) /\ m.src = a /\ m.unique = UniqueOf[d]
  BY UnitMessages
<1>4. \A i \in 1..n : dev[i].unique # None
  BY <1>1, <1>2 DEF RecordsAreUnits
<1>5. ClaimMoves(m)
  BY <1>1, <1>3, <1>4, ClaimEffect
<1> HIDE DEF m
<1>6. /\ \A i \in 1..n :
           /\ dev'[i].unique = dev[i].unique /\ dev'[i].serial = dev[i].serial
           /\ dev'[i].src = IF dev[i].unique = UniqueOf[d] THEN a
                            ELSE IF dev[i].src = a THEN None ELSE dev[i].src
      /\ \/ n' = n /\ (n = MaxDevices \/ \E i \in 1..n : dev[i].unique = UniqueOf[d])
         \/ /\ n < MaxDevices /\ n' = n + 1
            /\ dev'[n + 1].unique = UniqueOf[d] /\ dev'[n + 1].serial = None
            /\ dev'[n + 1].src = a
  BY <1>3, <1>5 DEF ClaimMoves
<1>7. /\ 1..n \subseteq 1..n' /\ \A i \in 1..n' : i \in 1..n \/ (i = n + 1 /\ n' = n + 1)
      /\ n' = n + 1 => n + 1 \in 1..n' /\ n' # n
  BY <1>1, <1>6
<1>8. RecordsAreUnits'
  <2> SUFFICES ASSUME NEW i \in 1..n'
               PROVE  \E e \in Units : /\ dev'[i].unique = UniqueOf[e]
                                       /\ dev'[i].serial \in {None, SerialOf[e]}
    BY DEF RecordsAreUnits
  <2>1. CASE i \in 1..n
    BY <1>1, <1>6, <2>1 DEF RecordsAreUnits
  <2>2. CASE i = n + 1 /\ n' = n + 1
    BY <1>6, <1>7, <2>2
  <2> QED BY <1>7, <2>1, <2>2
<1>9. NoImpostor'
  <2> SUFFICES ASSUME NEW e \in Units, NEW i \in 1..n', at'[e] # None, dev'[i].src = at'[e]
               PROVE  dev'[i].unique = UniqueOf[e]
    BY DEF NoImpostor
  <2>1. CASE i = n + 1 /\ n' = n + 1
    BY <1>1, <1>6, <1>7, <2>1 DEF Moved
  <2>2. CASE i \in 1..n /\ e = d
    BY <1>1, <1>6, <2>2 DEF Moved
  <2>3. CASE i \in 1..n /\ e # d
    <3>1. at[e] = at'[e] /\ at[e] # a
      BY <2>3 DEF Moved
    <3>2. dev[i].src = at[e] /\ dev'[i].unique = dev[i].unique
      BY <1>6, <2>3, <3>1
    <3> QED BY <1>1, <2>3, <3>1, <3>2 DEF NoImpostor
  <2> QED BY <1>7, <2>1, <2>2, <2>3
<1>10. NoStranger'
  <2> SUFFICES ASSUME NEW e \in Units, at'[e] # None
               PROVE  n' = MaxDevices \/ \E i \in 1..n' : dev'[i].src = at'[e]
    BY DEF NoStranger
  <2>1. CASE e = d
    <3>1. CASE n' = n /\ \E i \in 1..n : dev[i].unique = UniqueOf[d]
      BY <1>6, <1>7, <2>1, <3>1 DEF Moved
    <3>2. CASE n' = n + 1
      BY <1>6, <1>7, <2>1, <3>2 DEF Moved
    <3> QED BY <1>6, <3>1, <3>2
  <2>2. CASE e # d
    <3>1. at[e] = at'[e] /\ at[e] # a
      BY <2>2 DEF Moved
    <3>2. CASE n = MaxDevices
      BY <1>1, <1>6, <3>2
    <3>3. CASE \E i \in 1..n : dev[i].src = at[e]
      <4>1. PICK i \in 1..n : dev[i].src = at[e]
        BY <3>3
      <4>2. dev[i].unique = UniqueOf[e]
        BY <1>1, <3>1, <4>1 DEF NoImpostor
      <4>3. dev'[i].src = at[e]
        BY <1>2, <1>6, <2>2, <3>1, <4>1, <4>2
      <4> QED BY <1>7, <3>1, <4>3
    <3> QED BY <1>1, <3>1, <3>2, <3>3 DEF NoStranger
  <2> QED BY <2>1, <2>2
<1>11. SpeakerIsThere'
  BY DEF SpeakerIsThere, Moved
<1> QED BY <1>8, <1>9, <1>10, <1>11 DEF Believed

(* Any other message that is heard.                                        *)
LEMMA MessageBelieved ==
    ASSUME BInv, Believed, NEW d \in Units, at[d] # None, at' = at,
           NEW m \in {ProductOf(d), DataOf(d)}, Observe(m),
           speaker' = [unit |-> d, src |-> m.src]
    PROVE  Believed'
<1>1. /\ IInv /\ RecordsAreUnits /\ NoImpostor /\ NoStranger /\ at[d] \in Addrs
  BY DEF BInv, Believed
<1>2. m \in BusMessage /\ ~ Binds(m) /\ m.src = at[d] /\ m.serial \in {None, SerialOf[d]}
  BY <1>1, UnitMessages
<1>3. n = MaxDevices \/ \E i \in 1..n : dev[i].src = m.src
  BY <1>1, <1>2 DEF NoStranger
<1>4. MessageAdds(m)
  BY <1>1, <1>2, <1>3, MessageEffect
<1>5. RecordsAreUnits'
  <2> SUFFICES ASSUME NEW i \in 1..n
               PROVE  \E e \in Units : /\ dev'[i].unique = UniqueOf[e]
                                       /\ dev'[i].serial \in {None, SerialOf[e]}
    BY <1>4 DEF RecordsAreUnits, MessageAdds
  <2>1. CASE dev[i].src = m.src /\ m.serial # None
    <3>1. dev'[i].unique = UniqueOf[d] /\ dev'[i].serial = SerialOf[d]
      BY <1>1, <1>2, <1>4, <2>1 DEF MessageAdds, NoImpostor
    <3> QED BY <3>1
  <2>2. CASE ~ (dev[i].src = m.src /\ m.serial # None)
    BY <1>1, <1>4, <2>2 DEF MessageAdds, RecordsAreUnits
  <2> QED BY <2>1, <2>2
<1>6. NoImpostor'
  BY <1>1, <1>4 DEF NoImpostor, MessageAdds
<1>7. NoStranger'
  BY <1>1, <1>4 DEF NoStranger, MessageAdds
<1>8. SpeakerIsThere'
  BY <1>1, <1>2 DEF SpeakerIsThere
<1> QED BY <1>5, <1>6, <1>7, <1>8 DEF Believed

(* A message, heard or missed.                                             *)
LEMMA DeliverStep ==
    ASSUME BInv, NEW d \in Units, NEW m \in BusMessage, Deliver(d, m),
           at' \in [Units -> Addrs \cup {None}], OneUnitPerAddress',
           Observe(m) /\ speaker' = [unit |-> d, src |-> m.src] /\ Believed => Believed'
    PROVE  BInv'
<1>1. IInv /\ missed \in Nat /\ (missed = 0 => Believed)
  BY DEF BInv
<1>2. CASE Observe(m) /\ speaker' = [unit |-> d, src |-> m.src] /\ missed' = missed
  <2>1. IInv'
    BY <1>1, <1>2, NextIInv DEF Next
  <2> QED BY <1>1, <1>2, <2>1 DEF BInv
<1>3. CASE missed' = missed + 1 /\ UNCHANGED vars
  <2>1. IInv'
    BY <1>1, <1>3, NextIInv
  <2> QED BY <1>1, <1>3, <2>1 DEF BInv
<1> QED BY <1>2, <1>3 DEF Deliver

LEMMA NextBInv == BInv /\ [BNext]_bvars => BInv'
<1> SUFFICES ASSUME BInv, [BNext]_bvars PROVE BInv'
  OBVIOUS
<1>1. OneUnitPerAddress /\ at \in [Units -> Addrs \cup {None}] /\ None \notin Addrs
  BY ConstantsAssumption DEF BInv
<1>2. ASSUME NEW d \in Units, NEW a \in Addrs, TakeAddress(d, a) PROVE BInv'
  <2>1. Moved(d, a) /\ Deliver(d, ClaimOf(d, a))
    BY <1>1, <1>2 DEF TakeAddress, Moved
  <2>2. ClaimOf(d, a) \in BusMessage /\ ClaimOf(d, a).src = a
    BY UnitMessages
  <2>3. OneUnitPerAddress' /\ at' \in [Units -> Addrs \cup {None}]
    BY <1>1, <2>1, MovedOneUnit DEF Moved
  <2> QED BY <2>1, <2>2, <2>3, ClaimBelieved, DeliverStep
<1>3. ASSUME NEW d \in Units, RepeatClaim(d) PROVE BInv'
  <2>1. at[d] \in Addrs /\ at' = at /\ Deliver(d, ClaimOf(d, at[d]))
    BY <1>1, <1>3 DEF RepeatClaim
  <2>2. Moved(d, at[d])
    BY <1>1, <2>1 DEF Moved, OneUnitPerAddress
  <2>3. ClaimOf(d, at[d]) \in BusMessage /\ ClaimOf(d, at[d]).src = at[d]
    BY <2>1, UnitMessages
  <2>4. OneUnitPerAddress' /\ at' \in [Units -> Addrs \cup {None}]
    BY <1>1, <2>1 DEF OneUnitPerAddress
  <2> QED BY <2>1, <2>2, <2>3, <2>4, ClaimBelieved, DeliverStep
<1>4. ASSUME NEW d \in Units, SendProduct(d) \/ SendData(d) PROVE BInv'
  <2>1. at[d] # None /\ at[d] \in Addrs /\ at' = at
    BY <1>1, <1>4 DEF SendProduct, SendData
  <2>2. PICK m \in {ProductOf(d), DataOf(d)} : Deliver(d, m)
    BY <1>4 DEF SendProduct, SendData
  <2>3. m \in BusMessage
    BY <2>1, UnitMessages
  <2>4. OneUnitPerAddress' /\ at' \in [Units -> Addrs \cup {None}]
    BY <1>1, <2>1 DEF OneUnitPerAddress
  <2> QED BY <2>1, <2>2, <2>3, <2>4, MessageBelieved, DeliverStep
<1>5. CASE UNCHANGED bvars
  <2>1. IInv'
    BY <1>5, NextIInv DEF BInv, bvars, vars
  <2>2. OneUnitPerAddress'
    BY <1>1, <1>5 DEF bvars, OneUnitPerAddress
  <2>3. Believed => Believed'
    BY <1>5 DEF bvars, Believed, RecordsAreUnits, NoImpostor, NoStranger, SpeakerIsThere
  <2> QED BY <1>5, <2>1, <2>2, <2>3 DEF bvars, BInv
<1> QED BY <1>2, <1>3, <1>4, <1>5 DEF BNext

LEMMA BInvariantHolds == BSpec => []BInv
<1>1. BInit => BInv
  BY InitBInv
<1>2. BInv /\ [BNext]_bvars => BInv'
  BY NextBInv
<1> QED BY <1>1, <1>2, PTL DEF BSpec

-----------------------------------------------------------------------------
(* For any number of units, addresses and slots, while nothing is missed,  *)
(* a message is never credited to another unit than the one that sent it,  *)
(* whatever addresses they take from one another and however full the      *)
(* table is (registry.c: registry_observe, registry_ident).                *)
THEOREM HeardTruthfully == BSpec => []HeardIsTruthful
<1>1. BInv => HeardIsTruthful
  <2> SUFFICES ASSUME BInv, missed = 0, speaker # Nobody
               PROVE  IdentAt(speaker.src) \in Own(speaker.unit) \cup {None}
    BY DEF HeardIsTruthful
  <2>1. /\ IInv /\ RecordsAreUnits /\ NoImpostor
        /\ speaker.unit \in Units /\ speaker.src \in Addrs
        /\ at[speaker.unit] = speaker.src
    BY DEF BInv, Believed, SpeakerIsThere
  <2>2. CASE SlotAt(speaker.src) = NoSlot
    BY <2>2 DEF IdentAt
  <2>3. CASE SlotAt(speaker.src) # NoSlot
    <3> DEFINE i == SlotAt(speaker.src)
    <3>1. i \in 1..n /\ i \in Slots /\ dev[i].src = speaker.src
      BY <2>1, <2>3, SlotAtSpec, ConstantsAssumption DEF IInv, TypeOK, Slots
    <3>2. IdentAt(speaker.src) = IdentOf(dev[i])
      BY <2>1, <2>3, <3>1 DEF IdentAt, IInv, TypeOK
    <3> HIDE DEF i
    <3>3. dev[i].unique = UniqueOf[speaker.unit]
      BY <2>1, <3>1, ConstantsAssumption DEF NoImpostor
    <3>4. dev[i].serial \in {None, SerialOf[speaker.unit]}
      BY <2>1, <3>1, <3>3, UnitsAssumption DEF RecordsAreUnits
    <3> QED BY <3>2, <3>3, <3>4 DEF IdentOf, Own
  <2> QED BY <2>2, <2>3
<1> QED BY <1>1, BInvariantHolds, PTL

(* However often units move, the table has no more records than units it   *)
(* knows, so that moving about does not use up its slots.                  *)
THEOREM SlotsNotUsedUp == BSpec => []OneRecordPerUnit
<1>1. BInv => OneRecordPerUnit
  <2> SUFFICES ASSUME BInv, missed = 0
               PROVE  n <= Cardinality({d \in Units : \E i \in 1..n : dev[i].unique = UniqueOf[d]})
    BY DEF OneRecordPerUnit
  <2> DEFINE S == {d \in Units : \E i \in 1..n : dev[i].unique = UniqueOf[d]}
             f == [i \in 1..n |-> CHOOSE d \in Units : dev[i].unique = UniqueOf[d]]
  <2>1. RecordsAreUnits /\ UniqueUnique /\ n \in Nat
    BY ConstantsAssumption DEF BInv, Believed, IInv, TypeOK
  <2>2. \A i \in 1..n : f[i] \in Units /\ dev[i].unique = UniqueOf[f[i]]
    BY <2>1 DEF RecordsAreUnits
  <2> HIDE DEF f
  <2>3. f \in [1..n -> S]
    BY <2>2 DEF f
  <2>4. \A i, j \in 1..n : f[i] = f[j] => i = j
    BY <2>1, <2>2, UnitsAssumption, ConstantsAssumption DEF UniqueUnique
  <2>5. \A d \in S : \E i \in 1..n : f[i] = d
    BY <2>2, UnitsAssumption
  <2> HIDE DEF S
  <2>6. f \in Bijection(1..n, S)
    BY <2>3, <2>4, <2>5, Fun_IsBij
  <2>7. Cardinality(S) = n
    BY <2>1, <2>6, FS_CountingElements DEF ExistsBijection
  <2> QED BY <2>1, <2>7 DEF S
<1> QED BY <1>1, BInvariantHolds, PTL

=============================================================================

------------------------------ MODULE Registry ------------------------------
(***************************************************************************)
(* The address table of n2k-mux (src/registry.c): which device currently   *)
(* speaks from which NMEA 2000 source address, and under which stable      *)
(* identity.  An ISO address claim (PGN 60928) carries the hardware Unique *)
(* Number of its sender, a product information (PGN 126996) its serial     *)
(* number; every other message only proves that somebody uses an address.  *)
(*                                                                         *)
(* dev is the array registry_t.dev and n the number of slots in use; slots *)
(* are handed out in order and never freed.  Slot 0 stands for NULL, None  *)
(* for "no value" (N2K_ADDR_NULL, !has_unique, an empty string).  Counters *)
(* and maker/model names, which nothing but reports read, are left out.    *)
(***************************************************************************)
EXTENDS Scan

CONSTANTS
    Addrs,        \* source addresses 0..251
    Uniques,      \* Unique Numbers, as the decimal string ident prints
    Serials,      \* non-empty Model Serial Codes
    Pgns,         \* PGNs that travel on the bus
    ClaimPgn,     \* 60928
    ProductPgn,   \* 126996
    MaxDevices,   \* REG_MAX_DEVICES
    MaxPgns,      \* REG_MAX_PGNS
    None          \* no address, no unique number, no serial, no identity

ASSUME ConstantsAssumption ==
    /\ MaxDevices \in Nat
    /\ MaxPgns \in Nat
    /\ ClaimPgn \in Pgns /\ ProductPgn \in Pgns /\ ClaimPgn # ProductPgn
    /\ None \notin Addrs \cup Uniques \cup Serials

VARIABLES n, dev

vars == <<n, dev>>

Slots == 1..MaxDevices

Device == [src    : Addrs \cup {None},
           unique : Uniques \cup {None},
           serial : Serials \cup {None},
           ident  : Uniques \cup Serials \cup {None},
           pgns   : SUBSET Pgns]

Blank == [src |-> None, unique |-> None, serial |-> None,
          ident |-> None, pgns |-> {}]

(* What registry_observe reads of a decoded message.                       *)
Message == [pgn : Pgns, src : Addrs, unique : Uniques \cup {None},
            serial : Serials \cup {None}]

(* The messages the bus can carry: only a claim has a Unique Number (it is *)
(* absent from a malformed one), only a product information a serial.      *)
BusMessage ==
    {m \in Message : /\ m.unique # None => m.pgn = ClaimPgn
                     /\ m.serial # None => m.pgn = ProductPgn}

-----------------------------------------------------------------------------
(* Look-ups: the first slot in use that matches, or NoSlot.                *)

SlotAt(a) == FirstOr0({i \in 1..n : dev[i].src = a})

M_SlotOfProvisional(u) == FirstOr0({i \in 1..n : dev[i].ident = u})

SlotOf(u) == FirstOr0({i \in 1..n : dev[i].unique = u})

(* registry_ident: the identity an address resolves to.                    *)
IdentAt(a) == IF SlotAt(a) = NoSlot THEN None ELSE dev[SlotAt(a)].ident

-----------------------------------------------------------------------------
(* What a message teaches about the record it was attributed to.           *)

M_FromProductOnce(d, m) ==
    IF m.pgn = ProductPgn /\ m.serial # None /\ d.serial = None
    THEN [d EXCEPT !.serial = m.serial] ELSE d
M_FromProductEmpty(d, m) ==
    IF m.pgn = ProductPgn THEN [d EXCEPT !.serial = m.serial] ELSE d

FromProduct(d, m) ==
    IF m.pgn = ProductPgn /\ m.serial # None
    THEN [d EXCEPT !.serial = m.serial] ELSE d

BumpPgn(d, pgn) ==
    IF Cardinality(d.pgns) < MaxPgns
    THEN [d EXCEPT !.pgns = @ \cup {pgn}] ELSE d

IdentOf(d) == IF d.serial # None THEN d.serial ELSE d.unique

RecomputeIdent(d) == [d EXCEPT !.ident = IdentOf(d)]

(* The tail of registry_observe, common to every message.                  *)
Noted(d, m) == RecomputeIdent(BumpPgn(FromProduct(d, m), m.pgn))

-----------------------------------------------------------------------------
Init == n = 0 /\ dev = [i \in Slots |-> Blank]

Binds(m) == m.pgn = ClaimPgn /\ m.unique # None

(* The table once every record but keep has lost address a.                *)
M_DetachNobody(a, keep) == dev

Detached(a, keep) ==
    [i \in Slots |-> IF i <= n /\ i # keep /\ dev[i].src = a
                     THEN [dev[i] EXCEPT !.src = None] ELSE dev[i]]

(* A claim of a Unique Number the table knows: its record moves to the     *)
(* claimed address and whoever was recorded there loses it.                *)
ClaimKnown(m) ==
    LET d == SlotOf(m.unique)
        moved == IF dev[d].src # m.src THEN Detached(m.src, d) ELSE dev
    IN
    /\ Binds(m)
    /\ d # NoSlot
    /\ dev' = [moved EXCEPT ![d] = Noted([@ EXCEPT !.src = m.src], m)]
    /\ UNCHANGED n

Provisional(d) == d # NoSlot /\ dev[d].unique = None

(* A claim of an unknown Unique Number at an address whose occupant has    *)
(* not been identified yet: the occupant is taken to be the claimant.      *)
ClaimAdopt(m) ==
    LET occ == SlotAt(m.src) IN
    /\ Binds(m)
    /\ SlotOf(m.unique) = NoSlot
    /\ Provisional(occ)
    /\ dev' = [dev EXCEPT ![occ] = Noted([@ EXCEPT !.unique = m.unique], m)]
    /\ UNCHANGED n

M_EvictedNever(occ) == dev

Evicted(occ) ==
    IF occ = NoSlot THEN dev ELSE [dev EXCEPT ![occ].src = None]

(* A claim of an unknown Unique Number at a free address, or at one held   *)
(* by another identified device, which is evicted even if the table has no *)
(* room left for the newcomer.                                             *)
ClaimNew(m) ==
    LET occ == SlotAt(m.src) IN
    /\ Binds(m)
    /\ SlotOf(m.unique) = NoSlot
    /\ ~ Provisional(occ)
    /\ IF n < MaxDevices
       THEN /\ n' = n + 1
            /\ dev' = [Evicted(occ) EXCEPT ![n + 1] =
                 Noted([Blank EXCEPT !.src = m.src, !.unique = m.unique], m)]
       ELSE n' = n /\ dev' = Evicted(occ)

(* Any other message, a claim without Unique Number included, counts for   *)
(* the record at its address ...                                           *)
TouchKnown(m) ==
    LET d == SlotAt(m.src) IN
    /\ ~ Binds(m)
    /\ d # NoSlot
    /\ dev' = [dev EXCEPT ![d] = Noted(@, m)]
    /\ UNCHANGED n

(* ... or for a provisional record when there is none and the table has    *)
(* room; otherwise it leaves no trace.                                     *)
TouchNew(m) ==
    /\ ~ Binds(m)
    /\ SlotAt(m.src) = NoSlot
    /\ IF n < MaxDevices
       THEN /\ n' = n + 1
            /\ dev' = [dev EXCEPT ![n + 1] =
                 Noted([Blank EXCEPT !.src = m.src], m)]
       ELSE UNCHANGED vars

Observe(m) ==
    \/ ClaimKnown(m)
    \/ ClaimAdopt(m)
    \/ ClaimNew(m)
    \/ TouchKnown(m)
    \/ TouchNew(m)

Next == \E m \in BusMessage : Observe(m)

Spec == Init /\ [][Next]_vars

-----------------------------------------------------------------------------
(* The table is well formed: slots beyond n are blank, and the identity    *)
(* kept in a record is the one its serial and Unique Number give.          *)
TypeOK ==
    /\ n \in 0..MaxDevices
    /\ dev \in [Slots -> Device]
    /\ \A i \in Slots : i > n => dev[i] = Blank
    /\ \A i \in Slots : dev[i].ident = IdentOf(dev[i])

(* An address belongs to at most one record (registry.h, registry_t), so   *)
(* the first match of a look-up is the only one.                           *)
AddrUnique ==
    \A i, j \in 1..n : dev[i].src = dev[j].src /\ dev[i].src # None => i = j

(* A piece of hardware has at most one record: a claim finds the record    *)
(* its Unique Number was bound to, wherever the device sat before.         *)
UniqueUnique ==
    \A i, j \in 1..n :
        dev[i].unique = dev[j].unique /\ dev[i].unique # None => i = j

KeepsKnowledge ==
    /\ n' >= n
    /\ \A i \in 1..n :
         /\ dev[i].unique # None => dev'[i].unique = dev[i].unique
         /\ dev[i].serial # None => dev'[i].serial # None
         /\ dev[i].ident # None => dev'[i].ident # None
         /\ dev[i].pgns \subseteq dev'[i].pgns

(* What was learnt of a device survives every later message: its record    *)
(* stays, bound to the same hardware; a serial number is replaced at most  *)
(* by another; the PGNs tracked for it stay.  In particular no address     *)
(* claim takes away the identity that the priorities refer to.             *)
KnowledgeKept == [][KeepsKnowledge]_vars

Settles(m) == SlotAt(m.src)' \in {NoSlot, SlotOf(m.unique)'}

(* A claim settles who is at an address: once it is observed, the address  *)
(* resolves to the claimant, or to nobody when the table has no slot for   *)
(* it, but never to the device that has just lost the address.             *)
ClaimWins ==
    [][\A m \in BusMessage : Observe(m) /\ Binds(m) => Settles(m)]_vars

=============================================================================

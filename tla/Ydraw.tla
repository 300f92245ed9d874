-------------------------------- MODULE Ydraw -------------------------------
(***************************************************************************)
(* src/ydraw.c: the 29-bit identifier of a CAN frame and the splitting of  *)
(* a message into fast-packet frames; and pgn_of of src/canfilter.c, which *)
(* decodes the same identifier.  The bytes of a message are represented by *)
(* their places 1..len, a byte of filling (0xFF) by 0.                     *)
(***************************************************************************)
EXTENDS Integers, Sequences

NoDst == 255

(* The destination has a place in the identifier of PDU1 PGNs only.        *)
IsPdu1(pf) == pf < 240

Pf(pgn) == (pgn \div 256) % 256

EncodeId(prio, pgn, src, dst) ==
    LET ps == IF IsPdu1(Pf(pgn)) THEN dst % 256 ELSE pgn % 256
    IN ((prio % 8) * 67108864) + (((pgn \div 65536) % 4) * 16777216)
         + (Pf(pgn) * 65536) + (ps * 256) + (src % 256)

DecodeId(id) ==
    LET pf == (id \div 65536) % 256
        ps == (id \div 256) % 256
        dp == (id \div 16777216) % 4
    IN [prio |-> (id \div 67108864) % 8,
        src  |-> id % 256,
        dst  |-> IF IsPdu1(pf) THEN ps ELSE NoDst,
        pgn  |-> (dp * 65536) + (pf * 256) + (IF IsPdu1(pf) THEN 0 ELSE ps)]

(* pgn_of: one bit of data page.                                           *)
PgnOf(id) ==
    LET pf == (id \div 65536) % 256
    IN (((id \div 16777216) % 2) * 65536) + (pf * 256)
         + (IF pf < 240 THEN 0 ELSE (id \div 256) % 256)

-----------------------------------------------------------------------------
(* A frame of a message longer than 8 bytes: the sequence number of the    *)
(* message and the number of the frame; in frame 0 the length and 6 bytes, *)
(* in the others 7 bytes.                                                  *)

M_FastFrames(len) == IF len <= 6 THEN 1 ELSE 1 + ((len - 6) \div 7)

FastFrames(len) == IF len <= 6 THEN 1 ELSE 1 + ((len - 6 + 6) \div 7)

FirstPlace(idx) == IF idx = 0 THEN 1 ELSE 7 + ((idx - 1) * 7)

RoomIn(idx) == IF idx = 0 THEN 6 ELSE 7

Bytes(len, idx) ==
    [i \in 1..RoomIn(idx) |->
        LET place == FirstPlace(idx) + i - 1 IN IF place <= len THEN place ELSE 0]

FastFrame(len, idx, seq) ==
    [seq |-> seq % 8, idx |-> idx % 32, len |-> len % 256, bytes |-> Bytes(len, idx)]

=============================================================================

-------------------------------- MODULE Bridge ------------------------------
(***************************************************************************)
(* The main loops that feed NetOut: of src/ydraw_bridge.c, which splits a  *)
(* message of more than 8 bytes into frames, and of n2k-filter             *)
(* (src/canfilter.c), for which every frame is a message of 8 bytes at     *)
(* most.  New clients are accepted before each message.                    *)
(***************************************************************************)
EXTENDS Ydraw, NetOut

CONSTANTS
    Messages       \* [prio, pgn, src, dst, len]

N2kMaxData == 223

(* Of the 18 bits of the identifier n2k-filter reads 17: so many a PGN has. *)
MaxPgn == 131071

ASSUME BridgeAssumption ==
    \A m \in Messages :
       /\ m.prio \in 0..7 /\ m.src \in 0..255 /\ m.dst \in 0..255
       /\ m.pgn \in 0..MaxPgn
       /\ Pf(m.pgn) < 240 => m.pgn % 256 = 0
       /\ m.len \in 0..N2kMaxData

VARIABLES
    msg,           \* the message being sent
    idx,           \* the frame of it being sent
    seq            \* the sequence number of the next fast-packet message

bvars == <<msg, idx, seq>>

vars == <<nvars, bvars>>

FramesOf(m) == IF m.len <= 8 THEN 1 ELSE FastFrames(m.len)

Init ==
    /\ NInit
    /\ msg \in Messages /\ idx = FramesOf(msg) - 1
    /\ seq = 0

(* A line of the input that is not a message: the clients are accepted.    *)
Unreadable ==
    /\ idx = FramesOf(msg) - 1
    /\ AcceptAll /\ NoBroadcast
    /\ UNCHANGED bvars

NewMessage ==
    /\ idx = FramesOf(msg) - 1
    /\ msg' \in Messages
    /\ idx' = 0
    /\ seq' = IF msg.len > 8 THEN (seq + 1) % 8 ELSE seq
    /\ AcceptAll /\ BeginBroadcast

NextFrame ==
    /\ idx < FramesOf(msg) - 1
    /\ idx' = idx + 1
    /\ AcceptNone /\ BeginBroadcast
    /\ UNCHANGED <<msg, seq>>

Deliver == Send /\ UNCHANGED bvars

Peers ==
    /\ \E c \in Conns : Connect(c) \/ Hangup(c) \/ ReadUnit(c)
    /\ UNCHANGED bvars

Next == Unreadable \/ NewMessage \/ NextFrame \/ Deliver \/ Peers

(* The loop of send_all is not scheduled by anybody else: send returns at  *)
(* once and poll after NETOUT_PARTIAL_MS.                                  *)
Spec == Init /\ [][Next]_vars /\ WF_vars(Deliver)

-----------------------------------------------------------------------------
(* No client ever reads a line that was not sent as it reads it, however   *)
(* slowly it reads (netout.c: send_all).                                   *)
NoTornLine == ~torn

(* A broadcast ends only when every client that is left has had its turn,  *)
(* those included that were moved in the table by a closure (netout.c:     *)
(* netout_broadcast).                                                      *)
NobodyPassedOver ==
    [][(~Idle /\ turn' = 0) => ToSet(clients') \subseteq passed']_vars

(* However the clients behave, a broadcast ends and the bus is read again. *)
BroadcastEnds == ~Idle ~> Idle

(* Where a receiver of fast-packet looks for a byte: the first six are in  *)
(* frame 0, and seven in each of the others.                               *)
FrameOf(b) == b \div 7

PlaceIn(b) == IF b < 7 THEN b ELSE (b % 7) + 1

(* What it finds there, by the numbers that are written in the frames.     *)
Received(frames, b) ==
    {f.bytes[PlaceIn(b)] : f \in {g \in frames : g.idx = FrameOf(b)}}

FramesSent(len) == {FastFrame(len, i, seq) : i \in 0..(FastFrames(len) - 1)}

(* A message arrives as what it is: the identifier tells the receiver the  *)
(* PGN, the source and the destination, and n2k-filter reads the same PGN  *)
(* in it, and the frames put together again are its bytes, none of them in *)
(* two frames of one number, with the length it has (ydraw.c:              *)
(* ydraw_encode_id, ydraw_decode_id, ydraw_fastpacket_frames,              *)
(* ydraw_format_fp; canfilter.c: pgn_of).                                  *)
MessageKept ==
    LET id == EncodeId(msg.prio, msg.pgn, msg.src, msg.dst)
    IN /\ DecodeId(id) = [prio |-> msg.prio, src |-> msg.src, pgn |-> msg.pgn,
                          dst |-> IF Pf(msg.pgn) < 240 THEN msg.dst ELSE NoDst]
       /\ PgnOf(id) = msg.pgn
       /\ msg.len > 8 =>
             /\ \A f \in FramesSent(msg.len) : f.len = msg.len /\ f.idx <= FrameOf(msg.len)
             /\ \A b \in 1..msg.len : Received(FramesSent(msg.len), b) = {b}

=============================================================================

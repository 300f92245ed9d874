------------------------------ MODULE Simulator -----------------------------
(***************************************************************************)
(* n2k-sim (src/simulator.c) as a process: a turn every TickLen reads the  *)
(* control file anew if it was replaced, moves the boat, publishes the     *)
(* state file and sends the messages that are due.                         *)
(*                                                                         *)
(* Of the six inputs one, the speed through the water, which is also the   *)
(* one that a polar may give.  The trigonometry is left out: the wind over *)
(* the water is any of SeaWinds.  A turn takes no time; that the process   *)
(* is late shows when it wakes up.                                         *)
(***************************************************************************)
EXTENDS Polar, SimInput

CONSTANTS
    PolarFile,     \* the polars of the folder, a file by name
    NoPolar,       \* no polar is chosen
    SeaWinds,      \* angles and speeds of the wind over the water
    TickLen,       \* --tick
    Late,          \* how late the process may wake up
    StateEvery,    \* between two state files
    Period         \* iv_ms of the messages

(* The shortest period is 200 ms and a tick 50, if --tick does not say     *)
(* otherwise; with a tick as long as a period lateness would add up.       *)
ASSUME SimulatorAssumption ==
    /\ NoPolar \notin DOMAIN PolarFile
    /\ TickLen \in Nat \ {0} /\ Late \in 0..(TickLen - 1)
    /\ StateEvery \in Nat \ {0}
    /\ \A p \in DOMAIN Period : Period[p] \in Nat /\ Period[p] >= 2 * TickLen

VARIABLES
    control,       \* the control file: is it there, its inode and date, its text
    state,         \* the state file: is it there, its age
    phase,         \* of the turn: "down", "sleep", or "stat" before ctl_load
    ctl, stamp,    \* g_ctl; last_ino, last_mt and last_sz
    input,         \* g_ai_stw
    boat,          \* the speed, whence it comes, and the wind
    beat, due,     \* (now - start) % TickLen; time to the next turn
    wait,          \* next_ms - el, by message
    sent           \* history: how long ago the last messages were sent

process == <<phase, ctl, stamp, input, boat, beat, due, wait, sent>>
simvars == <<control, state, process>>

(* CTL_INIT: all on auto, about no value.                                  *)
CtlInit == [enabled |-> TRUE, auto |-> TRUE, num |-> NoValue, sp |-> FALSE, polar |-> NoPolar]

NoFile == [have |-> FALSE]

NoBoat == [from |-> "none"]

(* The time of the next turn, a multiple of TickLen.                       *)
NextTurn == TickLen - beat

InitProcess(up, msgs) ==
    /\ phase = IF up THEN "sleep" ELSE "down"
    /\ ctl = CtlInit /\ stamp = NoFile /\ input = InputInit /\ boat = NoBoat
    /\ beat = 0 /\ due = 0
    /\ wait = [p \in IF up THEN msgs ELSE {} |-> 0]
    /\ sent = [p \in IF up THEN msgs ELSE {} |-> <<>>]

(* main, up to its loop.                                                   *)
Started(msgs) ==
    /\ phase' = "sleep" /\ beat' = 0 /\ due' = 0
    /\ wait' = [p \in msgs |-> 0] /\ sent' = [p \in msgs |-> <<>>]
    /\ UNCHANGED <<ctl, stamp, input, boat>>

(* The end of the process, of which nothing is left.                       *)
Ended ==
    /\ phase' = "down" /\ ctl' = CtlInit /\ stamp' = NoFile /\ input' = InputInit
    /\ boat' = NoBoat /\ beat' = 0 /\ due' = 0 /\ wait' = <<>> /\ sent' = <<>>

-----------------------------------------------------------------------------
(* polar_refresh and the part of boat_update about the speed: the polar    *)
(* gives it if it is wanted and can be read, else the input, which is not  *)
(* asked for its value as long as a polar gives it.                        *)

(* What polar_load makes of each file.                                     *)
Polars ==
    [p \in DOMAIN PolarFile |->
        LET file == PolarFile[p]
        IN IF Readable(file) THEN [ok |-> TRUE, table |-> Table(file)] ELSE [ok |-> FALSE]]

ByPolar(c) == c.sp /\ c.polar # NoPolar /\ Polars[c.polar].ok

Manual(c) == IF c.auto THEN NoValue ELSE c.num

Center(c) == IF c.auto THEN c.num ELSE NoValue

BoatUpdate(c) ==
    \/ /\ ByPolar(c)
       /\ \E w \in SeaWinds :
             boat' = [from |-> "polar", wind |-> w, polar |-> c.polar,
                      stw |-> PolarSpeed(Polars[c.polar].table, w.twa, w.tws)]
       /\ UNCHANGED input
    \/ /\ ~ByPolar(c)
       /\ input' = InputAfter(input, Manual(c), Center(c))
       /\ boat' = [from |-> "input", auto |-> c.auto, stw |-> Max({0, InputValue(input')})]

(* state_write, if it is due: the file lives as long as the process.       *)
Publish ==
    state' = IF ~state.have \/ state.age >= StateEvery THEN [have |-> TRUE, age |-> 0] ELSE state

(* The schedule: the next time is a period on, or a period from now if     *)
(* that has passed too.                                                    *)
M_NextTime(p, w) == Period[p]

NextTime(p, w) == IF w + Period[p] < 0 THEN Period[p] ELSE w + Period[p]

Emit(c) ==
    LET msgs == {p \in DOMAIN wait : c.enabled /\ wait[p] <= 0}
    IN /\ wait' = [p \in DOMAIN wait |-> IF p \in msgs THEN NextTime(p, wait[p]) ELSE wait[p]]
       /\ sent' = [p \in DOMAIN wait |->
                      IF ~c.enabled THEN <<>>
                      ELSE IF p \notin msgs THEN sent[p]
                      ELSE SubSeq(<<0>> \o sent[p], 1, Min({3, Len(sent[p]) + 1}))]

(* What follows ctl_refresh in a turn; a simulator that is switched off    *)
(* publishes its state and is silent.                                      *)
RestOfTurn(c) ==
    /\ BoatUpdate(c) /\ Publish /\ Emit(c)
    /\ phase' = "sleep" /\ due' = NextTurn

(* ctl_refresh: the file is looked at, and read if it is another one.      *)
M_Changed(old, new) == old.have => old.size # new.size

Changed(old, new) == old.have => <<old.ver, old.size>> # <<new.ver, new.size>>

StampOf(f) == [have |-> TRUE, ver |-> f.ver, size |-> f.size]

Look ==
    /\ phase = "sleep" /\ due <= 0
    /\ \/ /\ control.have /\ Changed(stamp, StampOf(control))
          /\ stamp' = StampOf(control) /\ phase' = "stat"
          /\ UNCHANGED <<state, input, boat, due, wait, sent>>
       \/ /\ control.have => ~Changed(stamp, StampOf(control))
          /\ RestOfTurn(ctl)
          /\ UNCHANGED stamp
    /\ UNCHANGED <<control, ctl, beat>>

(* ctl_load.  The file that is read may have replaced the one looked at.   *)
Load ==
    /\ phase = "stat"
    /\ ctl' = control.set
    /\ RestOfTurn(ctl')
    /\ UNCHANGED <<control, stamp, beat>>

-----------------------------------------------------------------------------
(* Time passes, of which the process sleeps through no more than it has    *)
(* to and Late.  Ages that make no difference any more are equal.          *)
Older(a, most) == IF a < most THEN a + 1 ELSE a

Passing(alive) ==
    /\ phase # "stat" /\ (phase = "sleep" => due > -Late)
    /\ beat' = IF phase = "sleep" THEN (beat + 1) % TickLen ELSE beat
    /\ due' = IF phase = "sleep" THEN due - 1 ELSE due
    /\ input' = InputAged(input)
    /\ wait' = [p \in DOMAIN wait |->
                   IF wait[p] < -Period[p] THEN wait[p] ELSE wait[p] - 1]
    /\ sent' = [p \in DOMAIN sent |-> [i \in DOMAIN sent[p] |-> sent[p][i] + 1]]
    /\ state' = IF state.have THEN [state EXCEPT !.age = Older(@, alive + 1)] ELSE state
    /\ UNCHANGED <<control, phase, ctl, stamp, boat>>

=============================================================================

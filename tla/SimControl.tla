----------------------------- MODULE SimControl -----------------------------
(***************************************************************************)
(* The simulator and the ways to it: the tab of the page (the script in    *)
(* src/web.c), the request that it sends (handle_sim_post), the control    *)
(* file and the simulator that reads it, and, where the page has commands  *)
(* to do so, the switch between the simulated chain and the real one       *)
(* (n2k-mux-switch and the conflicting units of systemd), of which the     *)
(* page knows only whether the state file of the simulator is recent.      *)
(***************************************************************************)
EXTENDS Simulator

CONSTANTS
    Scenarios,     \* where it starts and what happens: see Init
    Debounce,      \* from the last gesture to the request
    SwitchMs,      \* SIM_SWITCH_MS
    SwitchTime,    \* within which systemd stops a chain and starts the other
    AliveFor,      \* SIM_ALIVE_S
    Values,        \* settings of the slider
    SimDef         \* SIMDEF: where it is without one

(* A switch is over, and the simulator has published its state, before the *)
(* page goes by that state again.                                          *)
ASSUME SimControlAssumption ==
    /\ Debounce \in Nat \ {0, 1}
    /\ StateEvery + TickLen + Late < AliveFor
    /\ Debounce + SwitchTime + TickLen + Late < SwitchMs
    /\ Values \subseteq Int /\ SimDef \in Int
    /\ \A i \in DOMAIN Scenarios :
          LET set == Scenarios[i].set
          IN /\ set.auto \in BOOLEAN /\ set.num \in Int \cup {NoValue}
             /\ set.auto \/ set.num # NoValue
          /\ Scenarios[i].msgs \subseteq DOMAIN Period

VARIABLES
    scene,         \* which of Scenarios
    form,          \* the fields of the page
    timer,         \* simTimer: 0 if it does not run, 1 if it is over
    switching,     \* for how long the page does not go by the state file
    web,           \* where handle_sim_post is
    unit,          \* which chain runs, which one is to run, since when
    left,          \* what may still happen: gestures, failures, ends
    asked,         \* history: the chain that was asked for last, Untold once
                   \* the page has taken that back
    behind         \* history: does the control file wait to be read

page == <<form, timer, switching>>
vars == <<simvars, page, web, unit, left, asked, behind, scene>>

S == Scenarios[scene]

Untold == "untold"

(* simChain.                                                               *)
HasChain == S.start /\ S.stop

(* The length of the text, as far as the settings differ in it.            *)
Size(s) ==
    (IF s.auto THEN 1 ELSE 0) + (IF s.polar = NoPolar THEN 0 ELSE 2)

FormOf(s) ==
    [box |-> s.enabled, auto |-> s.auto, num |-> IF s.num = NoValue THEN SimDef ELSE s.num,
     polar |-> s.polar, sp |-> s.sp]

Init ==
    /\ scene \in DOMAIN Scenarios
    /\ LET first == Scenarios[scene].set
           run   == Scenarios[scene].run
       IN /\ control = [have |-> first # CtlInit, ver |-> 0, size |-> Size(first), set |-> first]
          /\ state = IF HasChain /\ run = "sim" THEN [have |-> TRUE, age |-> 0] ELSE NoFile
          /\ InitProcess(run = "sim", Scenarios[scene].msgs)
          /\ form = [FormOf(first) EXCEPT !.box = IF HasChain THEN run = "sim" ELSE @]
          /\ asked = run
          /\ unit = [run |-> run, job |-> "none", age |-> 0]
    /\ timer = 0 /\ switching = 0
    /\ web = [at |-> "idle"]
    /\ left = Scenarios[scene].bounds
    /\ behind = "write"

-----------------------------------------------------------------------------
(* The gestures on the page, each of which restarts the timer.             *)

(* simLock: what the polar decides cannot be set.                          *)
Locked == form.sp /\ form.polar # NoPolar

Gesture(g, new) ==
    /\ g \in S.gestures /\ left.moves > 0
    /\ form' = new
    /\ timer' = Debounce
    /\ left' = [left EXCEPT !.moves = @ - 1]
    /\ UNCHANGED <<simvars, web, unit, behind, scene>>

Drag == \E v \in Values :
    /\ ~Locked /\ ~form.auto
    /\ Gesture("drag", [form EXCEPT !.num = v])
    /\ UNCHANGED <<switching, asked>>

ToggleAuto ==
    /\ ~Locked
    /\ Gesture("auto", [form EXCEPT !.auto = ~@])
    /\ UNCHANGED <<switching, asked>>

ChoosePolar == \E p \in DOMAIN PolarFile \cup {NoPolar} :
    /\ p # form.polar
    /\ Gesture("polar", [form EXCEPT !.polar = p, !.sp = @ /\ p # NoPolar])
    /\ UNCHANGED <<switching, asked>>

TogglePolar ==
    /\ form.polar # NoPolar
    /\ Gesture("polar", [form EXCEPT !.sp = ~@])
    /\ UNCHANGED <<switching, asked>>

(* sim_running: a recent state file.                                       *)
Running == state.have /\ state.age <= AliveFor

(* The user waits for the end of a switch before asking for another.       *)
Settled ==
    /\ unit.job = "none" /\ switching = 0 /\ timer = 0 /\ web.at = "idle"
    /\ Running = (unit.run = "sim") /\ form.box = Running

ToggleBox ==
    /\ HasChain => Settled
    /\ Gesture("box", [form EXCEPT !.box = ~@])
    /\ switching' = SwitchMs
    /\ asked' = IF HasChain THEN (IF form.box THEN "real" ELSE "sim") ELSE asked

(* refreshState: the box goes by the state file, except during a switch.   *)
M_FollowsState == HasChain

FollowsState == HasChain /\ switching = 0

Refresh ==
    /\ FollowsState /\ form.box # Running
    /\ form' = [form EXCEPT !.box = Running]
    /\ UNCHANGED <<simvars, timer, switching, web, unit, left, asked, behind, scene>>

(* loadSim, of the button that reads again, of the tab and of the language *)
(* button: the fields as the file has them and the box as the state file   *)
(* has it, a switch or not; the timer goes on.                             *)
Reload ==
    /\ "reload" \in S.gestures /\ left.moves > 0
    /\ form' = [FormOf(control.set) EXCEPT
                   !.box = IF HasChain THEN Running ELSE @]
    /\ left' = [left EXCEPT !.moves = @ - 1]
    /\ asked' = IF switching > 0 /\ form'.box # form.box THEN Untold ELSE asked
    /\ UNCHANGED <<simvars, timer, switching, web, unit, behind, scene>>

-----------------------------------------------------------------------------
(* handle_sim_post.                                                        *)

(* The text that is written: with a command to stop the chain the file     *)
(* never makes the simulator silent.                                       *)
SimBound(v) == IF v < 0 THEN 0 ELSE v

Written(f) ==
    [enabled |-> f.box \/ S.stop, auto |-> f.auto, num |-> SimBound(f.num),
     sp |-> f.sp /\ f.polar # NoPolar, polar |-> f.polar]

Refused(f) == f.polar # NoPolar /\ ~Polars[f.polar].ok

Replaced(s) == [have |-> TRUE, ver |-> control.ver + 1, size |-> Size(s), set |-> s]

(* The page tells an error: a command that was not given yet is not given. *)
AskedAfterError == IF asked \in {unit.run, unit.job} THEN asked ELSE Untold

(* A polar that does not read is refused, a file that cannot be written    *)
(* reported, and either is the end of it.                                  *)
Post ==
    /\ timer = 1 /\ web.at = "idle"
    /\ timer' = 0
    /\ \/ /\ Refused(form)
          /\ asked' = AskedAfterError
          /\ UNCHANGED <<control, web, behind, left>>
       \/ /\ ~Refused(form) /\ left.fails > 0
          /\ left' = [left EXCEPT !.fails = @ - 1]
          /\ asked' = AskedAfterError
          /\ UNCHANGED <<control, web, behind>>
       \/ /\ ~Refused(form)
          /\ control' = Replaced(Written(form))
          /\ web' = [at |-> "written", enabled |-> form.box, running |-> Running]
          /\ behind' = "write"
          /\ UNCHANGED <<left, asked>>
    /\ UNCHANGED <<state, process, form, switching, unit, scene>>

(* systemctl --no-block start: nothing to do for a chain that runs and is  *)
(* not about to be stopped.                                                *)
Requested(u) ==
    IF unit.run = u THEN [unit EXCEPT !.job = "none"]
    ELSE IF unit.job = u THEN unit
    ELSE [unit EXCEPT !.job = u, !.age = 0]

(* The command, if what is asked is not what runs; the page hears of one   *)
(* that failed.                                                            *)
Command ==
    /\ web.at = "written"
    /\ web' = [at |-> "idle"]
    /\ LET on  == web.enabled /\ S.start /\ ~web.running
           off == ~web.enabled /\ S.stop /\ web.running
       IN \/ /\ ~on /\ ~off
             /\ UNCHANGED <<unit, switching, left, asked>>
          \/ /\ on \/ off
             /\ unit' = Requested(IF on THEN "sim" ELSE "real")
             /\ UNCHANGED <<switching, left, asked>>
          \/ /\ on \/ off
             /\ left.fails > 0
             /\ left' = [left EXCEPT !.fails = @ - 1]
             /\ switching' = 0 /\ asked' = Untold
             /\ UNCHANGED unit
    /\ UNCHANGED <<simvars, form, timer, behind, scene>>

-----------------------------------------------------------------------------
(* systemd: the chains exclude each other, and the stop comes before the   *)
(* start; with the simulated chain goes its runtime directory.             *)

StopUnit ==
    /\ unit.job # "none" /\ unit.run # "none"
    /\ unit' = [unit EXCEPT !.run = "none"]
    /\ IF unit.run = "sim" THEN Ended /\ state' = NoFile
       ELSE UNCHANGED <<state, process>>
    /\ UNCHANGED <<control, page, web, left, asked, behind, scene>>

StartUnit ==
    /\ unit.job # "none" /\ unit.run = "none"
    /\ unit' = [run |-> unit.job, job |-> "none", age |-> 0]
    /\ IF unit.job = "sim" THEN Started(S.msgs) ELSE UNCHANGED process
    /\ behind' = "write"
    /\ UNCHANGED <<control, state, page, web, left, asked, scene>>

(* The simulator ends by itself: its unit is started again.                *)
Crash ==
    /\ unit.run = "sim" /\ unit.job = "none" /\ left.ends > 0
    /\ unit' = [run |-> "none", job |-> "sim", age |-> 0]
    /\ left' = [left EXCEPT !.ends = @ - 1]
    /\ Ended /\ state' = NoFile
    /\ UNCHANGED <<control, page, web, asked, behind, scene>>

-----------------------------------------------------------------------------
(* A turn of the simulator, and what it has read of the control file.      *)
Turn ==
    /\ \/ /\ Look
          /\ behind' = IF phase' = "sleep" THEN "no" ELSE "turn"
       \/ /\ Load
          /\ behind' = IF behind = "turn" THEN "no" ELSE behind
    /\ UNCHANGED <<page, web, unit, left, asked, scene>>

(* Time waits for the timer of the page, the request, and systemd.         *)
Tick ==
    /\ Passing(AliveFor)
    /\ timer # 1 /\ web.at = "idle"
    /\ unit.job # "none" => unit.age < SwitchTime
    /\ timer' = Max({0, timer - 1})
    /\ switching' = Max({0, switching - 1})
    /\ unit' = IF unit.job # "none" THEN [unit EXCEPT !.age = @ + 1] ELSE unit
    /\ UNCHANGED <<form, web, left, asked, behind, scene>>

Next ==
    \/ Drag \/ ToggleAuto \/ ChoosePolar \/ TogglePolar \/ ToggleBox
    \/ Refresh \/ Reload
    \/ Post \/ Command
    \/ StopUnit \/ StartUnit \/ Crash
    \/ Turn \/ Tick

(* Each process goes on, the page, which asks for the state every 3 s,     *)
(* among them; the user and the failures need not come.                    *)
Spec ==
    /\ Init /\ [][Next]_vars
    /\ WF_vars(Tick) /\ WF_vars(Turn) /\ WF_vars(Post) /\ WF_vars(Command)
    /\ WF_vars(Refresh) /\ WF_vars(StopUnit) /\ WF_vars(StartUnit)

-----------------------------------------------------------------------------
(* A turn that began after the control file was written last has brought   *)
(* it into force, however fast the writes follow each other and whenever   *)
(* in a turn they come (ctl_refresh and ctl_load of src/simulator.c).      *)
InForce == (phase = "sleep" /\ behind = "no") => ctl = control.set

(* An input that goes over to auto keeps at that moment the value that it  *)
(* had (input_value of src/simulator.c).                                   *)
AutoNoJump ==
    [][(/\ boat.from = "input" /\ boat'.from = "input"
        /\ ~boat.auto /\ boat'.auto) => boat'.stw = boat.stw]_vars

(* As long as the simulator is not switched off its messages come at their *)
(* rate, but for a tick and a late turn: none is overdue, three in a row   *)
(* do not drift, and after a pause no more than one comes early, as the    *)
(* schedule is not caught up with (SCHED and act_tick of src/simulator.c). *)
Slack == TickLen - 1 + Late

OnTime == \A p \in DOMAIN sent :
    LET s == sent[p]
    IN /\ s # <<>> => Head(s) <= Period[p] + Slack
       /\ Len(s) = 3 => (s[3] - s[1]) \in (Period[p] - Slack)..(2 * Period[p] + Slack)

(* The speed that a polar gives lies between the speeds that it lists for  *)
(* the angles and winds next to those that blow, and is the one it lists   *)
(* if it lists them (polar_speed of src/polar.c).                          *)
Nearest(v, x) ==
    LET low  == {y \in Range(v) : y <= x}
        high == {y \in Range(v) : y >= x}
    IN (IF low = {} THEN {Min(Range(v))} ELSE {Max(low)})
       \cup (IF high = {} THEN {Max(Range(v))} ELSE {Min(high)})

PolarRight ==
    boat.from = "polar" =>
        LET p     == Polars[boat.polar].table
            cells == {p.spd[i][j] :
                        i \in {i \in DOMAIN p.twa : p.twa[i] \in Nearest(p.twa, Folded(boat.wind.twa))},
                        j \in {j \in DOMAIN p.tws : p.tws[j] \in Nearest(p.tws, boat.wind.tws)}}
        IN /\ boat.stw.n >= Min(cells) * boat.stw.d
           /\ boat.stw.n <= Max(cells) * boat.stw.d

(* In the end the box tells which chain runs, and it is the one that the   *)
(* user asked for last, unless the page took that back: by an error that   *)
(* it showed, or because it was reloaded before the switch had come about, *)
(* which sets the box to what was so far.  Sliders, polars, files that     *)
(* cannot be written and commands that fail may all fall into the switch   *)
(* (simSwitching, loadSim, refreshState and handle_sim_post of src/web.c,  *)
(* n2k-mux-switch, n2k-mux-sim.service).                                   *)
ChainAsAsked ==
    HasChain => <>[](/\ unit.job = "none"
                     /\ form.box = (unit.run = "sim")
                     /\ asked # Untold => unit.run = asked)

=============================================================================

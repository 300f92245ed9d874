-------------------------- MODULE SimControlProofs --------------------------
(***************************************************************************)
(* What the settings of the page become in the simulator, for every number *)
(* of scenarios, gestures and failures, every polar, period and delay.     *)
(***************************************************************************)
EXTENDS SimControl, TLAPS

-----------------------------------------------------------------------------
(* The process and the chain that it belongs to.                           *)
PhaseInv ==
    /\ phase \in {"down", "sleep", "stat"}
    /\ unit = [run |-> unit.run, job |-> unit.job, age |-> unit.age]
    /\ unit.run = "sim" <=> phase # "down"

(* The control file, whose versions grow, against what the process has     *)
(* looked at.                                                              *)
StampInv ==
    /\ control.have \in BOOLEAN /\ stamp.have \in BOOLEAN
    /\ control.ver \in Nat
    /\ stamp.have => stamp.ver \in Nat /\ stamp.ver <= control.ver
    /\ phase = "down" => ~stamp.have
    /\ phase = "stat" => stamp.have
    /\ ~control.have => ~stamp.have /\ control.set = CtlInit

(* What it has read is the version that it has looked at, or, if it was    *)
(* replaced in between, one that it will look at.                          *)
ReadInv ==
    /\ ~stamp.have => ctl = CtlInit
    /\ (phase = "sleep" /\ stamp.have /\ stamp.ver = control.ver) => ctl = control.set

IInv == PhaseInv /\ StampInv /\ ReadInv /\ InForce

LEMMA InitIInv == Init => IInv
<1> SUFFICES ASSUME Init PROVE IInv
  OBVIOUS
<1>1. PhaseInv
  BY DEF Init, InitProcess, PhaseInv
<1>2. StampInv
  BY DEF Init, InitProcess, StampInv, NoFile
<1>3. ReadInv /\ InForce
  BY DEF Init, InitProcess, ReadInv, InForce, NoFile
<1> QED BY <1>1, <1>2, <1>3 DEF IInv

(* The steps that leave the simulator and its files alone.                 *)
LEMMA ApartIInv ==
    ASSUME IInv, UNCHANGED <<control, phase, ctl, stamp, behind>>,
           unit' = [run |-> unit.run, job |-> unit'.job, age |-> unit'.age]
    PROVE  IInv'
BY DEF IInv, PhaseInv, StampInv, ReadInv, InForce

LEMMA GestureIInv ==
    ASSUME IInv, Drag \/ ToggleAuto \/ ChoosePolar \/ TogglePolar \/ ToggleBox \/ Refresh \/ Reload
    PROVE  IInv'
<1>1. UNCHANGED <<control, phase, ctl, stamp, behind, unit>>
  BY DEF Drag, ToggleAuto, ChoosePolar, TogglePolar, ToggleBox, Refresh, Reload, Gesture,
         simvars, process
<1> QED BY <1>1, ApartIInv DEF IInv, PhaseInv

LEMMA PostIInv == ASSUME IInv, Post PROVE IInv'
<1>1. UNCHANGED <<phase, ctl, stamp, unit>>
  BY DEF Post, process
<1>2. CASE UNCHANGED <<control, behind>>
  BY <1>1, <1>2, ApartIInv DEF IInv, PhaseInv
<1>3. CASE control' = Replaced(Written(form)) /\ behind' = "write"
  <2>1. control'.have \in BOOLEAN /\ control'.have /\ control'.ver = control.ver + 1
    BY <1>3 DEF Replaced
  <2>2. StampInv'
    BY <1>1, <2>1 DEF IInv, StampInv
  <2>3. stamp.have => stamp.ver # control'.ver
    BY <2>1 DEF IInv, StampInv
  <2>4. PhaseInv' /\ ReadInv' /\ InForce'
    BY <1>1, <1>3, <2>3 DEF IInv, PhaseInv, ReadInv, InForce
  <2> QED BY <2>2, <2>4 DEF IInv
<1>4. \/ UNCHANGED <<control, web, behind, left>>
      \/ UNCHANGED <<control, web, behind>>
      \/ control' = Replaced(Written(form)) /\ behind' = "write"
  BY Zenon DEF Post
<1> QED BY <1>2, <1>3, <1>4

LEMMA CommandIInv == ASSUME IInv, Command PROVE IInv'
<1>1. UNCHANGED <<control, phase, ctl, stamp, behind>>
  BY DEF Command, simvars, process
<1>2. unit' = unit \/ \E u \in {"sim", "real"} : unit' = Requested(u)
  BY DEF Command
<1>3. unit' = [run |-> unit.run, job |-> unit'.job, age |-> unit'.age]
  BY <1>2 DEF Requested, IInv, PhaseInv
<1> QED BY <1>1, <1>3, ApartIInv

LEMMA StopUnitIInv == ASSUME IInv, StopUnit PROVE IInv'
<1>1. unit' = [run |-> "none", job |-> unit.job, age |-> unit.age] /\ UNCHANGED <<control, behind>>
  BY DEF StopUnit, IInv, PhaseInv
<1>2. CASE unit.run = "sim"
  <2>1. phase' = "down" /\ stamp' = NoFile /\ ctl' = CtlInit
    BY <1>2 DEF StopUnit, Ended
  <2> QED BY <1>1, <2>1 DEF IInv, PhaseInv, StampInv, ReadInv, InForce, NoFile
<1>3. CASE unit.run # "sim"
  <2>1. UNCHANGED <<phase, stamp, ctl>>
    BY <1>3 DEF StopUnit, process
  <2> QED BY <1>1, <1>3, <2>1 DEF IInv, PhaseInv, StampInv, ReadInv, InForce
<1> QED BY <1>2, <1>3

LEMMA StartUnitIInv == ASSUME IInv, StartUnit PROVE IInv'
<1>1. /\ unit' = [run |-> unit.job, job |-> "none", age |-> 0]
      /\ phase = "down" /\ behind' = "write" /\ UNCHANGED control
  BY DEF StartUnit, IInv, PhaseInv
<1>2. UNCHANGED <<stamp, ctl>> /\ phase' = IF unit.job = "sim" THEN "sleep" ELSE "down"
  BY <1>1 DEF StartUnit, Started, process
<1> QED BY <1>1, <1>2 DEF IInv, PhaseInv, StampInv, ReadInv, InForce

LEMMA CrashIInv == ASSUME IInv, Crash PROVE IInv'
<1>1. /\ unit' = [run |-> "none", job |-> "sim", age |-> 0]
      /\ phase' = "down" /\ stamp' = NoFile /\ ctl' = CtlInit /\ UNCHANGED control
  BY DEF Crash, Ended
<1>2. control'.have \in BOOLEAN /\ control'.ver \in Nat /\ (~control'.have => control'.set = CtlInit)
  BY <1>1 DEF IInv, StampInv
<1> QED BY <1>1, <1>2 DEF IInv, PhaseInv, StampInv, ReadInv, InForce, NoFile

LEMMA TurnIInv == ASSUME IInv, Turn PROVE IInv'
<1>1. CASE Look /\ behind' = IF phase' = "sleep" THEN "no" ELSE "turn"
  <2>1. UNCHANGED <<control, ctl, unit>> /\ phase = "sleep"
    BY <1>1 DEF Turn, Look
  <2>2. CASE control.have /\ stamp' = StampOf(control) /\ phase' = "stat"
    BY <2>1, <2>2 DEF IInv, PhaseInv, StampInv, ReadInv, InForce, StampOf
  <2>3. CASE (control.have => ~Changed(stamp, StampOf(control))) /\ RestOfTurn(ctl) /\ UNCHANGED stamp
    <3>1. phase' = "sleep"
      BY <2>3 DEF RestOfTurn
    <3>2. control.have => stamp.have /\ stamp.ver = control.ver
      BY <2>3 DEF Changed, StampOf, IInv, StampInv
    <3>3. ctl = control.set
      BY <2>1, <3>2 DEF IInv, StampInv, ReadInv
    <3> QED BY <2>1, <2>3, <3>1, <3>3 DEF IInv, PhaseInv, StampInv, ReadInv, InForce
  <2> QED BY <1>1, <2>2, <2>3 DEF Look
<1>2. CASE Load
  <2>1. phase = "stat" /\ phase' = "sleep" /\ ctl' = control.set /\ UNCHANGED <<control, stamp, unit>>
    BY <1>2 DEF Turn, Load, RestOfTurn
  <2>2. stamp.have
    BY <2>1 DEF IInv, StampInv
  <2> QED BY <2>1, <2>2 DEF IInv, PhaseInv, StampInv, ReadInv, InForce
<1> QED BY <1>1, <1>2 DEF Turn

LEMMA TickIInv == ASSUME IInv, Tick PROVE IInv'
<1>1. UNCHANGED <<control, phase, ctl, stamp, behind>>
  BY DEF Tick, Passing
<1>2. unit' = [run |-> unit.run, job |-> unit'.job, age |-> unit'.age]
  BY DEF Tick, IInv, PhaseInv
<1> QED BY <1>1, <1>2, ApartIInv

LEMMA NextIInv == IInv /\ [Next]_vars => IInv'
<1> SUFFICES ASSUME IInv, [Next]_vars PROVE IInv'
  OBVIOUS
<1>1. CASE UNCHANGED vars
  BY <1>1 DEF vars, simvars, process, IInv, PhaseInv, StampInv, ReadInv, InForce
<1>2. CASE Next
  BY <1>2, GestureIInv, PostIInv, CommandIInv, StopUnitIInv, StartUnitIInv, CrashIInv,
     TurnIInv, TickIInv DEF Next
<1> QED BY <1>1, <1>2

(* A turn that began after the control file was written last has brought   *)
(* it into force, whatever the page, the failures and systemd do           *)
(* (ctl_refresh and ctl_load of src/simulator.c).                          *)
THEOREM SettingsInForce == Spec => []InForce
<1>1. IInv => InForce
  BY DEF IInv
<1> QED BY <1>1, InitIInv, NextIInv, PTL DEF Spec

-----------------------------------------------------------------------------
(* What a control file says of the input: a value, or auto.                *)
Meant(c) ==
    /\ c.auto \in BOOLEAN /\ c.num \in Int \cup {NoValue}
    /\ c.auto \/ c.num # NoValue

SettingsInv ==
    /\ Meant(control.set) /\ Meant(ctl)
    /\ form = [box |-> form.box, auto |-> form.auto, num |-> form.num,
               polar |-> form.polar, sp |-> form.sp]
    /\ form.auto \in BOOLEAN /\ form.num \in Int

(* While the boat goes by a value, the input remembers that value.         *)
InputInv ==
    /\ input = [last |-> input.last, center |-> input.center, t |-> input.t, auto |-> input.auto]
    /\ input.auto \in BOOLEAN
    /\ boat.from = "input" => boat.auto \in BOOLEAN
    /\ (boat.from = "input" /\ ~boat.auto) =>
          ~input.auto /\ input.last \in Int /\ boat.stw = Max({0, input.last})

NoJump ==
    (boat.from = "input" /\ boat'.from = "input" /\ ~boat.auto /\ boat'.auto) =>
        boat'.stw = boat.stw

LEMMA CtlInitMeant == Meant(CtlInit)
BY DEF Meant, CtlInit

LEMMA FormOfSettings ==
    ASSUME NEW s, Meant(s)
    PROVE  /\ FormOf(s) = [box |-> s.enabled, auto |-> s.auto, num |-> FormOf(s).num,
                           polar |-> s.polar, sp |-> s.sp]
           /\ FormOf(s).num \in Int
BY SimControlAssumption DEF FormOf, Meant

LEMMA WrittenMeant ==
    ASSUME SettingsInv
    PROVE  Meant(Replaced(Written(form)).set)
<1>1. SimBound(form.num) \in Int
  BY DEF SimBound, SettingsInv
<1>2. Written(form).auto = form.auto /\ Written(form).num = SimBound(form.num)
  BY DEF Written
<1>3. Replaced(Written(form)).set = Written(form)
  BY DEF Replaced
<1> QED BY <1>1, <1>2, <1>3, SimInputAssumption DEF Meant, SettingsInv

(* The only step that moves the boat.                                      *)
LEMMA BoatMoves ==
    ASSUME NEW c, Meant(c), InputInv, BoatUpdate(c)
    PROVE  InputInv' /\ NoJump
<1>1. CASE ByPolar(c)
  <2>1. boat'.from = "polar" /\ UNCHANGED input
    BY <1>1 DEF BoatUpdate
  <2> QED BY <2>1 DEF InputInv, NoJump
<1>2. CASE ~ByPolar(c)
  <2>1. /\ input' = InputAfter(input, Manual(c), Center(c))
        /\ boat' = [from |-> "input", auto |-> c.auto, stw |-> Max({0, InputValue(input')})]
    BY <1>2 DEF BoatUpdate
  <2>2. CASE ~c.auto
    <3>1. c.num \in Int /\ Manual(c) = c.num /\ c.num # NoValue
      BY <2>2, SimInputAssumption DEF Manual, Meant
    <3>2. input' = [last |-> c.num, center |-> input.center, t |-> input.t, auto |-> FALSE]
      BY <2>1, <3>1 DEF InputAfter, InputInv
    <3>3. ~input'.auto /\ input'.auto \in BOOLEAN /\ InputValue(input') = c.num
      BY <3>2 DEF InputValue
    <3>4. ~boat'.auto /\ boat'.auto \in BOOLEAN /\ boat'.stw = Max({0, c.num})
      BY <2>1, <2>2, <3>3 DEF Meant
    <3> QED BY <3>1, <3>2, <3>3, <3>4 DEF InputInv, NoJump
  <2>3. CASE c.auto
    <3>1. Manual(c) = NoValue
      BY <2>3 DEF Manual
    <3>2. input' = [last |-> input.last, center |-> input'.center, t |-> input'.t, auto |-> TRUE]
      BY <2>1, <3>1 DEF InputAfter, InputInv
    <3>3. boat'.auto /\ boat'.auto \in BOOLEAN
      BY <2>1, <2>3 DEF Meant
    <3>4. InputInv'
      <4>1. input' = [last |-> input'.last, center |-> input'.center, t |-> input'.t,
                      auto |-> input'.auto]
        BY <3>2
      <4>2. input'.auto = TRUE
        BY <3>2
      <4>3. input'.auto \in BOOLEAN
        BY <4>2, Zenon
      <4> QED BY <3>3, <4>1, <4>3 DEF InputInv
    <3>5. ASSUME boat.from = "input", ~boat.auto PROVE boat'.stw = boat.stw
      <4>1. input.last \in Int /\ input.last # NoValue /\ ~input.auto
        BY <3>5, SimInputAssumption DEF InputInv
      <4>2. input'.center = input.last /\ input'.t = 0
        BY <2>1, <3>1, <4>1 DEF InputAfter, InputInv
      <4>3. InputValue(input') = input.last
        BY <3>2, <4>1, <4>2, SimInputAssumption DEF InputValue
      <4> QED BY <2>1, <3>5, <4>3 DEF InputInv
    <3> QED BY <3>4, <3>5 DEF NoJump
  <2> QED BY <2>2, <2>3 DEF Meant
<1> QED BY <1>1, <1>2

LEMMA InitInput == Init => SettingsInv /\ InputInv
<1> SUFFICES ASSUME Init PROVE SettingsInv /\ InputInv
  OBVIOUS
<1>1. scene \in DOMAIN Scenarios /\ control.set = Scenarios[scene].set
  BY DEF Init
<1>2. Meant(control.set)
  BY <1>1, SimControlAssumption DEF Meant
<1>3. Meant(ctl)
  BY CtlInitMeant DEF Init, InitProcess
<1>4. PICK b : form = [FormOf(control.set) EXCEPT !.box = b]
  BY <1>1, Zenon DEF Init
<1>5. InputInv
  BY DEF Init, InitProcess, InputInv, InputInit, NoBoat
<1> QED BY <1>2, <1>3, <1>4, <1>5, FormOfSettings DEF SettingsInv, Meant

LEMMA GestureInput ==
    ASSUME SettingsInv, Drag \/ ToggleAuto \/ ChoosePolar \/ TogglePolar \/ ToggleBox \/ Refresh
    PROVE  SettingsInv'
<1>1. UNCHANGED <<control, ctl>>
  BY DEF Drag, ToggleAuto, ChoosePolar, TogglePolar, ToggleBox, Refresh, Gesture, simvars, process
<1>2. /\ form' = [box |-> form'.box, auto |-> form'.auto, num |-> form'.num,
                  polar |-> form'.polar, sp |-> form'.sp]
      /\ form'.auto \in {form.auto, ~form.auto} /\ form'.num \in {form.num} \cup Values
  BY DEF Drag, ToggleAuto, ChoosePolar, TogglePolar, ToggleBox, Refresh, Gesture, SettingsInv
<1> QED BY <1>1, <1>2, SimControlAssumption DEF SettingsInv

LEMMA ReloadInput == ASSUME SettingsInv, Reload PROVE SettingsInv'
<1>1. UNCHANGED <<control, ctl>>
  BY DEF Reload, simvars, process
<1>2. PICK b : form' = [FormOf(control.set) EXCEPT !.box = b]
  BY Zenon DEF Reload
<1> QED BY <1>1, <1>2, FormOfSettings DEF SettingsInv, Meant

LEMMA NextInput ==
    SettingsInv /\ InputInv /\ [Next]_vars => (SettingsInv /\ InputInv)' /\ NoJump
<1> SUFFICES ASSUME SettingsInv, InputInv, [Next]_vars
             PROVE  (SettingsInv /\ InputInv)' /\ NoJump
  OBVIOUS
<1>1. ASSUME UNCHANGED <<input, boat>> PROVE InputInv' /\ NoJump
  BY <1>1 DEF InputInv, NoJump
<1>2. ASSUME UNCHANGED <<control, form>>, ctl' \in {ctl, control.set, CtlInit}
      PROVE  SettingsInv'
  BY <1>2, CtlInitMeant DEF SettingsInv, Meant
<1>3. CASE Drag \/ ToggleAuto \/ ChoosePolar \/ TogglePolar \/ ToggleBox \/ Refresh \/ Reload
  <2>1. UNCHANGED <<input, boat>>
    BY <1>3 DEF Drag, ToggleAuto, ChoosePolar, TogglePolar, ToggleBox, Refresh, Reload, Gesture,
                simvars, process
  <2> QED BY <1>1, <1>3, <2>1, GestureInput, ReloadInput
<1>4. CASE Post
  <2>1. UNCHANGED <<input, boat, ctl, form>>
    BY <1>4 DEF Post, process
  <2>2. control' = control \/ control' = Replaced(Written(form))
    BY <1>4, Zenon DEF Post
  <2> QED BY <1>1, <2>1, <2>2, WrittenMeant DEF SettingsInv, Meant
<1>5. CASE Command
  BY <1>1, <1>2, <1>5 DEF Command, simvars, process
<1>6. CASE StopUnit \/ Crash
  <2>1. UNCHANGED <<control, form>>
    BY <1>6 DEF StopUnit, Crash, page
  <2>2. CASE UNCHANGED process
    BY <1>1, <1>2, <2>1, <2>2 DEF process
  <2>3. CASE Ended
    BY <1>2, <2>1, <2>3 DEF Ended, InputInv, InputInit, NoBoat, NoJump
  <2> QED BY <1>6, <2>2, <2>3 DEF StopUnit, Crash, process
<1>7. CASE StartUnit
  BY <1>1, <1>2, <1>7 DEF StartUnit, Started, process, page
<1>8. CASE Turn
  <2>1. UNCHANGED <<control, form>> /\ ctl' \in {ctl, control.set}
    BY <1>8 DEF Turn, Look, Load, page
  <2>2. \/ UNCHANGED <<input, boat>>
        \/ BoatUpdate(ctl)
        \/ BoatUpdate(control.set)
    BY <1>8 DEF Turn, Look, Load, RestOfTurn
  <2> QED BY <1>1, <1>2, <2>1, <2>2, BoatMoves DEF SettingsInv
<1>9. CASE Tick
  <2>1. UNCHANGED <<control, form, ctl, boat>> /\ input' = InputAged(input)
    BY <1>9 DEF Tick, Passing
  <2> QED BY <1>2, <2>1 DEF InputAged, InputInv, NoJump
<1>10. CASE UNCHANGED vars
  BY <1>1, <1>2, <1>10 DEF vars, simvars, process, page
<1> QED BY <1>3, <1>4, <1>5, <1>6, <1>7, <1>8, <1>9, <1>10 DEF Next

(* An input that goes over to auto keeps at that moment the value that it  *)
(* had (input_value of src/simulator.c).                                   *)
THEOREM NoJumpToAuto == Spec => AutoNoJump
<1>1. NoJump => ((/\ boat.from = "input" /\ boat'.from = "input"
                  /\ ~boat.auto /\ boat'.auto) => boat'.stw = boat.stw)
  BY DEF NoJump
<1> QED BY <1>1, InitInput, NextInput, PTL DEF Spec, AutoNoJump

-----------------------------------------------------------------------------
(* The turns: the next one is due at a multiple of TickLen, and comes no   *)
(* later than Late after it.                                               *)
ClockInv ==
    phase # "down" =>
       /\ beat \in Nat /\ due \in Int /\ beat < TickLen
       /\ \/ due > 0 /\ due + beat = TickLen
          \/ due <= 0 /\ due + beat = 0 /\ beat <= Late

(* A message that was sent comes again a period after its time, not after  *)
(* it was sent, so that lateness does not add up: s are the times since it *)
(* was sent last, w the time to the next, d that to the next turn.  The    *)
(* second alternative is the first message after a pause, which may be a   *)
(* period late to the millisecond: the next one is due at once.            *)
OnSchedule(s, w, d, period) ==
    /\ Len(s) > 0 =>
          /\ s[1] + w >= 0 /\ s[1] + w <= period
          /\ \/ w - d >= 1 - TickLen
             \/ Len(s) = 1 /\ s[1] + w = 0 /\ w - d >= -TickLen
    /\ Len(s) > 1 => s[2] + w >= period - Slack /\ s[2] + w <= 2 * period
    /\ Len(s) > 2 => s[3] - s[1] >= period - Slack /\ s[3] - s[1] <= 2 * period + Slack

Times == {s \in Seq(Nat) : Len(s) <= 3}

ScheduleInv ==
    /\ phase = "down" => DOMAIN wait = {}
    /\ DOMAIN sent = DOMAIN wait /\ DOMAIN wait \subseteq DOMAIN Period
    /\ \A p \in DOMAIN wait :
          wait[p] \in Int /\ sent[p] \in Times /\ OnSchedule(sent[p], wait[p], due, Period[p])

LEMMA TickNumbers ==
    /\ TickLen \in Nat /\ TickLen > 0 /\ Late \in Nat /\ Late < TickLen
    /\ Slack \in Nat /\ Slack = TickLen - 1 + Late
BY SimulatorAssumption DEF Slack

LEMMA SentMore ==
    ASSUME NEW s \in Times
    PROVE  LET r == SubSeq(<<0>> \o s, 1, Min({3, Len(s) + 1}))
           IN /\ r \in Times /\ Len(r) = IF Len(s) < 3 THEN Len(s) + 1 ELSE 3
              /\ r[1] = 0 /\ \A i \in 2..Len(r) : r[i] = s[i - 1]
<1> DEFINE t == <<0>> \o s
           n == Min({3, Len(s) + 1})
<1>1. Len(s) \in Nat /\ Len(s) <= 3 /\ s \in Seq(Nat)
  BY DEF Times
<1>2. n = IF Len(s) < 3 THEN Len(s) + 1 ELSE 3
  BY <1>1 DEF Min
<1>3. /\ t \in Seq(Nat) /\ Len(t) = Len(s) + 1 /\ t[1] = 0
      /\ \A i \in 2..Len(t) : t[i] = s[i - 1]
  BY <1>1
<1>4. n \in Nat /\ 1 <= n /\ n <= Len(t)
  BY <1>1, <1>2, <1>3
<1> HIDE DEF t, n
<1>5. /\ SubSeq(t, 1, n) \in Seq(Nat) /\ Len(SubSeq(t, 1, n)) = n
      /\ \A i \in 1..n : SubSeq(t, 1, n)[i] = t[i]
  BY <1>3, <1>4
<1> DEFINE r == SubSeq(t, 1, n)
<1>6. \A i \in 2..n : r[i] = s[i - 1]
  <2> SUFFICES ASSUME NEW i \in 2..n PROVE r[i] = s[i - 1]
    OBVIOUS
  <2>1. i \in 1..n /\ i \in 2..Len(t)
    BY <1>4, <1>3, <1>1
  <2> QED BY <2>1, <1>3, <1>5
<1>7. r[1] = 0
  BY <1>3, <1>4, <1>5
<1>8. r \in Seq(Nat) /\ Len(r) = n /\ n <= 3
  BY <1>1, <1>2, <1>5
<1> HIDE DEF r
<1>9. r \in Times /\ Len(r) = (IF Len(s) < 3 THEN Len(s) + 1 ELSE 3)
      /\ r[1] = 0 /\ \A i \in 2..Len(r) : r[i] = s[i - 1]
  BY <1>2, <1>6, <1>7, <1>8 DEF Times
<1> QED BY <1>9 DEF r, t, n

LEMMA SentAged ==
    ASSUME NEW s \in Times
    PROVE  LET r == [i \in DOMAIN s |-> s[i] + 1]
           IN r \in Times /\ Len(r) = Len(s) /\ \A i \in 1..Len(s) : r[i] = s[i] + 1
BY DEF Times

(* A message that a turn sends, or leaves for a later one.                 *)
LEMMA MessageTurn ==
    ASSUME NEW p \in DOMAIN Period, NEW s \in Times, NEW w \in Int, NEW d \in Int,
           OnSchedule(s, w, d, Period[p]), d <= 0, -d <= Late,
           NEW next \in Int, TickLen - Late <= next, next <= TickLen
    PROVE  /\ w > 0 => OnSchedule(s, w, next, Period[p])
           /\ w <= 0 => /\ NextTime(p, w) \in Int
                        /\ OnSchedule(SubSeq(<<0>> \o s, 1, Min({3, Len(s) + 1})),
                                      NextTime(p, w), next, Period[p])
<1> DEFINE P == Period[p]
           r == SubSeq(<<0>> \o s, 1, Min({3, Len(s) + 1}))
           v == NextTime(p, w)
<1>1. P \in Nat /\ P >= 2 * TickLen
  BY SimulatorAssumption
<1>2. v = IF w + P < 0 THEN P ELSE w + P
  BY DEF NextTime
<1>3. Len(s) \in Nat /\ \A i \in 1..Len(s) : s[i] \in Nat
  BY DEF Times
<1>4. /\ Len(r) = IF Len(s) < 3 THEN Len(s) + 1 ELSE 3
      /\ r[1] = 0 /\ \A i \in 2..Len(r) : r[i] = s[i - 1]
  BY SentMore
<1> HIDE DEF P, r, v
<1>5. OnSchedule(s, w, d, P)
  BY DEF P
<1>6. w > 0 => OnSchedule(s, w, next, P)
  BY <1>1, <1>3, <1>5, TickNumbers DEF OnSchedule
<1>7. ASSUME w <= 0 PROVE v \in Int /\ OnSchedule(r, v, next, P)
  <2>1. v \in Int /\ v >= 0 /\ v <= P /\ P \in Nat
    BY <1>1, <1>2, <1>7
  <2>2. CASE Len(s) = 0
    <3>1. Len(r) = 1 /\ r[1] = 0
      BY <1>4, <2>2
    <3>2. v - next >= -TickLen /\ (v = 0 \/ v - next >= 1 - TickLen)
      BY <2>1, TickNumbers
    <3> QED BY <2>1, <3>1, <3>2 DEF OnSchedule
  <2>3. CASE Len(s) > 0
    <3>1. /\ s[1] \in Nat /\ s[1] + w >= 0 /\ s[1] + w <= P
          /\ \/ w - d >= 1 - TickLen
             \/ Len(s) = 1 /\ s[1] + w = 0 /\ w - d >= -TickLen
      BY <1>3, <1>5, <2>3 DEF OnSchedule
    <3>2. w + TickLen + Late >= 0 /\ (w + Slack >= 0 \/ Len(s) = 1)
      BY <3>1, TickNumbers
    <3>3. v = w + P /\ v >= 1
      BY <1>1, <1>2, <1>7, <3>2, TickNumbers
    <3>4. v - next >= 1 - TickLen
      BY <2>1, <3>3, TickNumbers
    <3>5. s[1] + v >= P - Slack /\ s[1] + v <= 2 * P
      BY <1>1, <3>1, <3>3, TickNumbers
    <3>6. Len(r) > 1 /\ r[2] = s[1]
      BY <1>3, <1>4, <2>3
    <3>7. Len(r) > 2 => /\ r[3] = s[2] /\ s[2] \in Nat /\ w + Slack >= 0
                        /\ s[2] + w >= P - Slack /\ s[2] + w <= 2 * P
      BY <1>3, <1>4, <1>5, <2>3, <3>2 DEF OnSchedule
    <3>8. Len(r) > 2 => r[3] - r[1] >= P - Slack /\ r[3] - r[1] <= 2 * P + Slack
      BY <1>1, <1>4, <1>7, <3>7, TickNumbers
    <3>9. Len(r) > 0 => r[1] + v >= 0 /\ r[1] + v <= P
      BY <1>4, <2>1
    <3> QED BY <2>1, <3>4, <3>5, <3>6, <3>8, <3>9 DEF OnSchedule
  <2> QED BY <1>3, <1>7, <2>1, <2>2, <2>3
<1> QED BY <1>6, <1>7 DEF P, r, v

(* A message while time passes.                                            *)
LEMMA MessageTick ==
    ASSUME NEW p \in DOMAIN Period, NEW s \in Times, NEW w \in Int, NEW d \in Int,
           OnSchedule(s, w, d, Period[p]), d > -Late
    PROVE  OnSchedule([i \in DOMAIN s |-> s[i] + 1],
                      IF w < -Period[p] THEN w ELSE w - 1, d - 1, Period[p])
<1> DEFINE P == Period[p]
           r == [i \in DOMAIN s |-> s[i] + 1]
<1>1. P \in Nat /\ P >= 2 * TickLen
  BY SimulatorAssumption
<1>2. Len(s) \in Nat /\ \A i \in 1..Len(s) : s[i] \in Nat
  BY DEF Times
<1>3. Len(r) = Len(s) /\ \A i \in 1..Len(s) : r[i] = s[i] + 1
  BY SentAged
<1> HIDE DEF P, r
<1>4. OnSchedule(s, w, d, P)
  BY DEF P
<1>5. Len(s) > 0 => w >= -P
  BY <1>1, <1>4, TickNumbers DEF OnSchedule
<1>6. Len(s) > 0 => /\ r[1] = s[1] + 1 /\ s[1] \in Nat
                    /\ s[1] + w >= 0 /\ s[1] + w <= P
                    /\ \/ w - d >= 1 - TickLen
                       \/ Len(s) = 1 /\ s[1] + w = 0 /\ w - d >= -TickLen
  BY <1>2, <1>3, <1>4 DEF OnSchedule
<1>7. Len(s) > 1 => /\ r[2] = s[2] + 1 /\ s[2] \in Nat
                    /\ s[2] + w >= P - Slack /\ s[2] + w <= 2 * P
  BY <1>2, <1>3, <1>4 DEF OnSchedule
<1>8. Len(s) > 2 => /\ r[3] = s[3] + 1 /\ s[3] \in Nat /\ s[1] \in Nat /\ r[1] = s[1] + 1
                    /\ s[3] - s[1] >= P - Slack /\ s[3] - s[1] <= 2 * P + Slack
  BY <1>2, <1>3, <1>4 DEF OnSchedule
<1> DEFINE v == IF w < -P THEN w ELSE w - 1
<1>9. Len(s) > 0 => v = w - 1
  BY <1>1, <1>5
<1> HIDE DEF v
<1>10. Len(r) > 0 => /\ r[1] + v >= 0 /\ r[1] + v <= P
                     /\ \/ v - (d - 1) >= 1 - TickLen
                        \/ Len(r) = 1 /\ r[1] + v = 0 /\ v - (d - 1) >= -TickLen
  BY <1>3, <1>6, <1>9, TickNumbers
<1>11. Len(r) > 1 => r[2] + v >= P - Slack /\ r[2] + v <= 2 * P
  BY <1>2, <1>3, <1>7, <1>9, TickNumbers
<1>12. Len(r) > 2 => r[3] - r[1] >= P - Slack /\ r[3] - r[1] <= 2 * P + Slack
  BY <1>3, <1>8, TickNumbers
<1>13. OnSchedule(r, v, d - 1, P)
  BY <1>10, <1>11, <1>12 DEF OnSchedule
<1> QED BY <1>13 DEF P, r, v

(* What follows the look at the control file in a turn.                    *)
LEMMA RestOnTime ==
    ASSUME ClockInv, ScheduleInv, phase # "down", due <= 0, NEW c, RestOfTurn(c), UNCHANGED beat
    PROVE  ClockInv' /\ ScheduleInv'
<1>1. /\ beat \in Nat /\ beat < TickLen /\ due \in Int /\ due + beat = 0 /\ beat <= Late
      /\ phase' = "sleep" /\ due' = TickLen - beat /\ beat' = beat
  BY TickNumbers DEF ClockInv, RestOfTurn, NextTurn
<1>2. due' \in Int /\ TickLen - Late <= due' /\ due' <= TickLen /\ due' > 0 /\ -due <= Late
  BY <1>1, TickNumbers
<1>3. ClockInv'
  BY <1>1, <1>2, TickNumbers DEF ClockInv
<1> DEFINE msgs == {p \in DOMAIN wait : c.enabled /\ wait[p] <= 0}
           more(s) == SubSeq(<<0>> \o s, 1, Min({3, Len(s) + 1}))
<1>4. /\ wait' = [p \in DOMAIN wait |-> IF p \in msgs THEN NextTime(p, wait[p]) ELSE wait[p]]
      /\ sent' = [p \in DOMAIN wait |->
                      IF ~c.enabled THEN <<>>
                      ELSE IF p \notin msgs THEN sent[p] ELSE more(sent[p])]
  BY Zenon DEF RestOfTurn, Emit
<1>5. ASSUME NEW p \in DOMAIN wait
      PROVE  wait'[p] \in Int /\ sent'[p] \in Times /\ OnSchedule(sent'[p], wait'[p], due', Period[p])
  <2>1. /\ p \in DOMAIN Period /\ wait[p] \in Int /\ sent[p] \in Times
        /\ OnSchedule(sent[p], wait[p], due, Period[p])
    BY <1>5 DEF ScheduleInv
  <2>2. /\ wait[p] > 0 => OnSchedule(sent[p], wait[p], due', Period[p])
        /\ wait[p] <= 0 => /\ NextTime(p, wait[p]) \in Int
                           /\ OnSchedule(more(sent[p]), NextTime(p, wait[p]), due', Period[p])
    BY <1>1, <1>2, <2>1, MessageTurn
  <2>3. more(sent[p]) \in Times
    BY <2>1, SentMore
  <2>4. wait'[p] = IF p \in msgs THEN NextTime(p, wait[p]) ELSE wait[p]
    BY <1>4
  <2>5. sent'[p] = IF ~c.enabled THEN <<>>
                   ELSE IF p \notin msgs THEN sent[p] ELSE more(sent[p])
    BY <1>4
  <2> HIDE DEF more
  <2>6. CASE ~c.enabled
    <3>1. sent'[p] = <<>> /\ wait'[p] = wait[p]
      BY <2>4, <2>5, <2>6
    <3> QED BY <2>1, <3>1 DEF Times, OnSchedule
  <2>7. CASE p \in msgs
    <3>1. sent'[p] = more(sent[p]) /\ wait'[p] = NextTime(p, wait[p]) /\ wait[p] <= 0
      BY <2>4, <2>5, <2>7
    <3> QED BY <2>2, <2>3, <3>1
  <2>8. CASE c.enabled /\ p \notin msgs
    <3>1. sent'[p] = sent[p] /\ wait'[p] = wait[p] /\ wait[p] > 0
      BY <2>1, <2>4, <2>5, <2>8
    <3> QED BY <2>1, <2>2, <3>1
  <2> QED BY <2>6, <2>7, <2>8
<1>6. DOMAIN wait' = DOMAIN wait /\ DOMAIN sent' = DOMAIN wait
  BY <1>4
<1> HIDE DEF msgs, more
<1>7. ScheduleInv'
  BY <1>1, <1>5, <1>6 DEF ScheduleInv
<1> QED BY <1>3, <1>7

LEMMA PassingOnTime ==
    ASSUME PhaseInv, ClockInv, ScheduleInv, NEW n, Passing(n) PROVE ClockInv' /\ ScheduleInv'
<1>1. CASE phase = "down"
  <2>1. phase' = "down" /\ DOMAIN wait = {} /\ DOMAIN sent = {}
    BY <1>1 DEF Passing, ScheduleInv
  <2>2. DOMAIN wait' = {} /\ DOMAIN sent' = {}
    BY <2>1 DEF Passing
  <2> QED BY <2>1, <2>2 DEF ClockInv, ScheduleInv
<1>2. CASE phase # "down"
  <2>1. phase = "sleep" /\ phase' = phase /\ due > -Late /\ due' = due - 1
        /\ beat' = (beat + 1) % TickLen
    BY <1>2 DEF Passing, PhaseInv
  <2>2. /\ wait' = [p \in DOMAIN wait |-> IF wait[p] < -Period[p] THEN wait[p] ELSE wait[p] - 1]
        /\ sent' = [p \in DOMAIN sent |-> [i \in DOMAIN sent[p] |-> sent[p][i] + 1]]
    BY DEF Passing
  <2>3. beat \in Nat /\ due \in Int /\ beat < TickLen
    BY <1>2 DEF ClockInv
  <2>4. beat' = IF beat + 1 = TickLen THEN 0 ELSE beat + 1
    BY <2>1, <2>3, TickNumbers
  <2>5. ClockInv'
    BY <1>2, <2>1, <2>3, <2>4, TickNumbers DEF ClockInv
  <2>6. ASSUME NEW p \in DOMAIN wait
        PROVE  /\ wait'[p] \in Int /\ sent'[p] \in Times
               /\ OnSchedule(sent'[p], wait'[p], due', Period[p])
    <3>1. /\ p \in DOMAIN Period /\ wait[p] \in Int /\ sent[p] \in Times /\ p \in DOMAIN sent
          /\ OnSchedule(sent[p], wait[p], due, Period[p])
      BY <2>6 DEF ScheduleInv
    <3>2. /\ wait'[p] = IF wait[p] < -Period[p] THEN wait[p] ELSE wait[p] - 1
          /\ sent'[p] = [i \in DOMAIN sent[p] |-> sent[p][i] + 1]
      BY <2>2, <2>6, <3>1
    <3>3. sent'[p] \in Times
      BY <3>1, <3>2, SentAged
    <3>4. OnSchedule(sent'[p], wait'[p], due', Period[p])
      BY <2>1, <2>3, <3>1, <3>2, MessageTick
    <3> QED BY <3>1, <3>2, <3>3, <3>4
  <2>7. DOMAIN wait' = DOMAIN wait /\ DOMAIN sent' = DOMAIN wait
    BY <2>2 DEF ScheduleInv
  <2>8. ScheduleInv'
    BY <1>2, <2>1, <2>6, <2>7 DEF ScheduleInv
  <2> QED BY <2>5, <2>8
<1> QED BY <1>1, <1>2

(* A process that starts, and one that is not there.                       *)
NothingSent ==
    \E msgs \in SUBSET DOMAIN Period :
       /\ phase = "down" => msgs = {}
       /\ beat = 0 /\ due = 0 /\ wait = [p \in msgs |-> 0] /\ sent = [p \in msgs |-> <<>>]

LEMMA FreshOnTime == NothingSent => ClockInv /\ ScheduleInv
<1> SUFFICES ASSUME NEW msgs \in SUBSET DOMAIN Period, phase = "down" => msgs = {},
                    beat = 0, due = 0, wait = [p \in msgs |-> 0], sent = [p \in msgs |-> <<>>]
             PROVE  ClockInv /\ ScheduleInv
  BY DEF NothingSent
<1>1. ClockInv
  BY TickNumbers DEF ClockInv
<1>2. ASSUME NEW p \in msgs
      PROVE  wait[p] \in Int /\ sent[p] \in Times /\ OnSchedule(sent[p], wait[p], due, Period[p])
  BY DEF Times, OnSchedule
<1>3. DOMAIN wait = msgs /\ DOMAIN sent = msgs
  OBVIOUS
<1> QED BY <1>1, <1>2, <1>3 DEF ScheduleInv

OnTimeInv ==
    /\ scene \in DOMAIN Scenarios
    /\ ClockInv /\ ScheduleInv
    /\ phase = "stat" => due <= 0

LEMMA SceneStays == [Next]_vars => scene' = scene
<1>1. CASE \/ Drag \/ ToggleAuto \/ ChoosePolar \/ TogglePolar \/ ToggleBox \/ Refresh \/ Reload
          \/ Post \/ Command \/ StopUnit \/ StartUnit \/ Crash \/ Turn \/ Tick
  BY <1>1 DEF Drag, ToggleAuto, ChoosePolar, TogglePolar, ToggleBox, Refresh, Reload, Gesture,
              Post, Command, StopUnit, StartUnit, Crash, Turn, Tick
<1> QED BY <1>1 DEF Next, vars

LEMMA InitOnTime == Init => OnTimeInv
<1> SUFFICES ASSUME Init PROVE OnTimeInv
  OBVIOUS
<1> DEFINE up == Scenarios[scene].run = "sim"
           msgs == IF up THEN Scenarios[scene].msgs ELSE {}
<1>1. /\ scene \in DOMAIN Scenarios
      /\ msgs \in SUBSET DOMAIN Period /\ phase = (IF up THEN "sleep" ELSE "down")
      /\ beat = 0 /\ due = 0 /\ wait = [p \in msgs |-> 0] /\ sent = [p \in msgs |-> <<>>]
  BY SimControlAssumption DEF Init, InitProcess
<1>2. NothingSent
  BY <1>1 DEF NothingSent
<1>3. ClockInv /\ ScheduleInv
  BY <1>2, FreshOnTime
<1> QED BY <1>1, <1>3 DEF OnTimeInv

LEMMA TurnOnTime == ASSUME OnTimeInv, Turn PROVE OnTimeInv'
<1>1. CASE Look
  <2>1. phase = "sleep" /\ due <= 0 /\ UNCHANGED beat /\ UNCHANGED scene
    BY <1>1 DEF Look, Turn
  <2>2. CASE phase' = "stat" /\ UNCHANGED <<due, wait, sent>>
    BY <2>1, <2>2 DEF OnTimeInv, ClockInv, ScheduleInv
  <2>3. CASE RestOfTurn(ctl)
    <3>1. ClockInv' /\ ScheduleInv'
      BY <2>1, <2>3, RestOnTime DEF OnTimeInv
    <3> QED BY <2>1, <2>3, <3>1 DEF OnTimeInv, RestOfTurn
  <2> QED BY <1>1, <2>2, <2>3 DEF Look
<1>2. CASE Load
  <2>1. RestOfTurn(ctl') /\ UNCHANGED beat /\ phase = "stat" /\ due <= 0 /\ UNCHANGED scene
    BY <1>2 DEF Load, OnTimeInv, Turn
  <2> DEFINE c == ctl'
  <2>2. RestOfTurn(c) /\ phase # "down"
    BY <2>1
  <2> HIDE DEF c
  <2>3. ClockInv' /\ ScheduleInv'
    BY <2>1, <2>2, RestOnTime DEF OnTimeInv
  <2> QED BY <2>1, <2>2, <2>3 DEF OnTimeInv, RestOfTurn
<1> QED BY <1>1, <1>2 DEF Turn

LEMMA NextOnTime == IInv /\ OnTimeInv /\ [Next]_vars => OnTimeInv'
<1> SUFFICES ASSUME IInv, OnTimeInv, [Next]_vars PROVE OnTimeInv'
  OBVIOUS
<1>0. scene \in DOMAIN Scenarios /\ scene' = scene
  BY SceneStays DEF OnTimeInv
<1>1. CASE UNCHANGED <<phase, beat, due, wait, sent>>
  BY <1>0, <1>1 DEF OnTimeInv, ClockInv, ScheduleInv
<1>2. ASSUME NothingSent', phase' # "stat" PROVE OnTimeInv'
  <2>1. ClockInv' /\ ScheduleInv'
    BY <1>2, FreshOnTime, PTL
  <2> QED BY <1>0, <1>2, <2>1 DEF OnTimeInv
<1>3. CASE Ended
  <2>1. NothingSent'
    <3>1. <<>> = [p \in {} |-> 0] /\ <<>> = [p \in {} |-> <<>>]
      OBVIOUS
    <3> QED BY <1>3, <3>1 DEF Ended, NothingSent
  <2> QED BY <1>2, <1>3, <2>1 DEF Ended
<1>4. CASE StartUnit
  <2>1. CASE UNCHANGED process
    BY <1>1, <2>1 DEF process
  <2>2. CASE Started(S.msgs)
    <3>1. S.msgs \in SUBSET DOMAIN Period
      BY <1>0, SimControlAssumption DEF S
    <3>2. NothingSent'
      BY <2>2, <3>1 DEF Started, NothingSent
    <3> QED BY <1>2, <2>2, <3>2 DEF Started
  <2> QED BY <1>4, <2>1, <2>2 DEF StartUnit
<1>5. CASE Drag \/ ToggleAuto \/ ChoosePolar \/ TogglePolar \/ ToggleBox \/ Refresh \/ Reload
  BY <1>1, <1>5 DEF Drag, ToggleAuto, ChoosePolar, TogglePolar, ToggleBox, Refresh, Reload,
                    Gesture, simvars, process
<1>6. CASE Post \/ Command
  BY <1>1, <1>6 DEF Post, Command, simvars, process
<1>7. CASE StopUnit \/ Crash
  BY <1>1, <1>3, <1>7 DEF StopUnit, Crash, process
<1>8. CASE Turn
  BY <1>8, TurnOnTime
<1>9. CASE Tick
  <2>1. Passing(AliveFor) /\ phase # "stat" /\ UNCHANGED phase
    BY <1>9 DEF Tick, Passing
  <2>2. ClockInv' /\ ScheduleInv'
    BY <2>1, PassingOnTime DEF OnTimeInv, IInv
  <2> QED BY <1>0, <2>1, <2>2 DEF OnTimeInv
<1>10. CASE UNCHANGED vars
  BY <1>1, <1>10 DEF vars, simvars, process
<1> QED BY <1>4, <1>5, <1>6, <1>7, <1>8, <1>9, <1>10 DEF Next

(* As long as the simulator is not switched off its messages come at their *)
(* rate but for a tick and a late turn, for any periods of two ticks and   *)
(* more, and lateness does not add up (SCHED of src/simulator.c).          *)
THEOREM MessagesOnTime == Spec => []OnTime
<1>1. OnTimeInv /\ IInv => OnTime
  <2> SUFFICES ASSUME OnTimeInv, IInv, NEW p \in DOMAIN sent
               PROVE  /\ sent[p] # <<>> => Head(sent[p]) <= Period[p] + Slack
                      /\ Len(sent[p]) = 3 => (sent[p][3] - sent[p][1])
                                                \in (Period[p] - Slack)..(2 * Period[p] + Slack)
    BY DEF OnTime
  <2> DEFINE s == sent[p]
             w == wait[p]
             P == Period[p]
  <2>1. p \in DOMAIN wait /\ p \in DOMAIN Period /\ s \in Times /\ w \in Int
        /\ OnSchedule(s, w, due, P)
    BY DEF OnTimeInv, ScheduleInv
  <2>2. P \in Nat /\ P >= 2 * TickLen
    BY <2>1, SimulatorAssumption
  <2>3. due \in Int /\ -due <= Late
    BY <2>1, TickNumbers DEF OnTimeInv, ClockInv, ScheduleInv
  <2>4. Len(s) \in Nat /\ \A i \in 1..Len(s) : s[i] \in Nat
    BY <2>1 DEF Times
  <2>5. s # <<>> => Len(s) > 0 /\ Head(s) = s[1]
    BY <2>1 DEF Times
  <2> HIDE DEF s, w, P
  <2>6. Len(s) > 0 => s[1] <= P + Slack
    BY <2>1, <2>2, <2>3, <2>4, TickNumbers DEF OnSchedule
  <2>7. Len(s) = 3 => (s[3] - s[1]) \in (P - Slack)..(2 * P + Slack)
    BY <2>1, <2>2, <2>4, TickNumbers DEF OnSchedule
  <2>8. /\ s # <<>> => Head(s) <= P + Slack
        /\ Len(s) = 3 => (s[3] - s[1]) \in (P - Slack)..(2 * P + Slack)
    BY <2>5, <2>6, <2>7
  <2> QED BY <2>8 DEF s, P
<1> QED BY <1>1, InitIInv, NextIInv, InitOnTime, NextOnTime, PTL DEF Spec

=============================================================================

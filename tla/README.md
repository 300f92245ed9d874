# n2k-mux in TLA+

A formal model of n2k-mux, the NMEA 2000 multiplexer of this repository: TLA+
modules translated from the C sources, TLC configurations that check them on
small instances, and theorems about the central components that TLAPS proves
for every value of the constants.

`PROJECT.json` maps every definition to the lines it translates, and lists the
components, the runs, the hazards, the findings and the theorems. All source
paths below are relative to `src/` of the repository.

## 1. The system

```
 can0 ──► n2k-filter ──────────► vcan0, TCP 2700 (YDRAW)
   │          ▲ losers file
   │          │
   └► candump│analyzer ─► tee ─► n2k-mux ─► kplex (NMEA 0183)
                          │        │ sources / stats / busmap / losers files
                          │        ▼
                          │     n2k-mux-web ──► INI file, SIGHUP
                          └► n2k-mux --ais-json ─► n2kd ─► kplex (AIS)
```

| Component | Source | State | Operations |
|---|---|---|---|
| registry | `registry.c` | up to 64 records: address, unique number, serial, identity, PGNs | `registry_observe` (claim, product information, anything else), `registry_ident` |
| arbiter | `arbiter.c` | per rule and priority slot: seen, time of last message | `arbiter_init`, `arbiter_decide` |
| config | `config.c` | rules, sources, ignore lists, output switches | load (whole file or nothing), look-ups |
| daemon: main loop | `daemon.c` 541-687 | flags and times of the periodic jobs | line, SIGHUP, ISO requests, publications, end of input |
| daemon: losers | `daemon.c` 203-289 | up to 256 verdicts by (pgn, src, discriminant) | `dropset_update`, `dropset_write` |
| daemon: throttle | `daemon.c` 161-201, 623-684 | last emission per sentence type | one decision per sentence |
| daemon: line reader | `daemon.c` 107-159 | buffer, end of file | fill, take a line |
| n2k-filter | `canfilter.c` | list loaded, its mtime, last check | load, reload, forward or drop |
| AIS deduplication | `aisdedup.c`, `daemon.c` 351-414 | per MMSI: best source, time | accept |
| mapper | `mapper.c` | caches with an age (depth, log, MDA, RMC/MWD inputs) | map a message |
| stats, busmap, sources | `stats.c`, `busmap.c`, `sources.c` | counters, cells, windows | observe, write file |
| netout, ydraw | `netout.c`, `ydraw.c`, `ydraw_bridge.c` | clients of the TCP port | accept, send, drop |
| web | `web.c`, `inimerge.c` | none of its own but files; in the browser the form and its timer | save INI and SIGHUP, write the control file, switch the chains |
| simulator | `simulator.c`, `polar.c` | settings in force, inputs, boat, schedule | a turn: read the control file, move, publish the state, send what is due |
| scripts | `n2k-mux-can-run`, `n2k-mux-switch`, … | processes | start, `wait -n`, switch |

The processes share files only: each is replaced by `rename(2)`, never written
in place. What is hard here: addresses move under the arbitration; several
sources per datum fall silent and come back; verdicts travel through a file with
a time resolution of a second to a process that reads the bus on its own; every
table is bounded; everything has a timeout; the page judges what runs by the age of files. `PROJECT.json` lists the hazards at
their lines.

## 2. The modules

| Module | Models | Reads as |
|---|---|---|
| `Scan` | a `for` loop that returns the first match, and one that keeps the matches | `FirstOr0`, `Selected` |
| `Registry` | `registry.c` | one action per outcome of `registry_observe` |
| `BusIdentity` | `Registry` under a bus of real units | units claim, contest and lose addresses; the daemon may miss messages |
| `Config` | the look-ups of `config.c` | pure operators |
| `Arbiter` | `arbiter.c`, with the sources, time and SIGHUP around it | `Decide` is `arbiter_decide` |
| `Handover` | what an arbitration promises | the abstract specification that `Arbiter` and `AisDedup` implement |
| `DropSet` | `dropset_update`, `dropset_write` | the table of verdicts and the file |
| `Losers` | `DropSet` under any verdicts | history of what was said, properties of what is published |
| `Filter` | `n2k-filter` | the steps of its main loop |
| `FilterChain` | `Arbiter`, `DropSet` and `Filter` together | from a verdict to a dropped frame |
| `AisDedup` | `aisdedup.c`, `run_ais_json` | receivers, ships, one table |
| `Mapper` | `mapper.c` | operators: what a message leaves in `mapper_t`, which sentences it yields |
| `Throttle` | the white list and the rates of `main` | operators on one burst of sentences |
| `Sentences` | `Mapper` and `Throttle` in the main loop | lines, seconds, reloads |
| `Ydraw` | `ydraw.c`, `pgn_of` | identifiers and fast-packet frames, arithmetic |
| `NetOut` | `netout.c` and its TCP clients | the outcomes of `send`, one by one |
| `Bridge` | the loop of `ydraw_bridge.c` on `NetOut` | messages of one or several frames |
| `Ini` | `inimerge.c`, what `config.c` reads in a file | operators on sequences of lines |
| `ConfigSave` | `handle_config_post`, the file, SIGHUP, `config_reload` | page, daemon and an editor by hand |
| `LineReader` | `lr_fill`, `lr_line` | operators on what was read and not handed on |
| `Jsonl` | `jsonl.c` | the parser as recursive functions over a text of symbols |
| `Stats` | `stats.c` | counters, windows, ages |
| `BusMap` | `busmap.c` | the table of flows |
| `MainLoop` | the loop of `main` on the four above | one step per turn: periodic work, then a line or a poll |
| `Polar` | `polar.c` | reading a table, looking a speed up |
| `SimInput` | `input_value` | an input that is set or on auto |
| `Simulator` | the process of `simulator.c` on `Polar` and `SimInput` | `Look` and `Load` of the control file, then the rest of the turn |
| `SimControl` | page, request, control and state files, systemd, `Simulator` | gestures, `Post`, `Command`, `StopUnit`, `StartUnit` |
| `ScanProofs`, `RegistryProofs`, `ChainProofs`, `AisDedupProofs`, `SentencesProofs`, `BridgeProofs`, `MainLoopProofs`, `SimControlProofs` | | the proofs |
| `MC…` | | the instances that TLC checks |

**Registry.** `dev` and `n` are `registry_t`; slots are handed out in order and
never freed. `ClaimKnown`, `ClaimAdopt`, `ClaimNew` are the three ways through
`from_claim` with a unique number, `TouchKnown` and `TouchNew` the other
messages. All of them end in the tail of `registry_observe` (`Noted`).

**BusIdentity** makes the inputs of the registry come from units that obey ISO
11783: a unit speaks from an address only after it claimed it, the loser of a
contested address is silent. The daemon hears the messages in the order they
were sent and misses at most `MaxMissed` of them.

**Arbiter.** `age[r][s]` stands for `now - last_seen` of slot `s` of rule `r`,
capped just above the timeout (older ages behave alike); a slot never seen has
the capped age. `holder`, `last` and `churn` are history or bounds, not state of
the code. `Learn` is the registry as the arbiter sees it: an address
resolves to something else from now on.

**DropSet.** `drop` is the array in order, with ages instead of times. A tick is a
second. `Publish` is `dropset_write`; with `written = FALSE` the `fopen` of the
temporary file fails, after the purge. `Restart` chooses between the end of the
input (a last publication) and a death without one.

**Filter.** `known` stands for the comparison of the file's modification time with
the one noted, `young` for the fact that a file replaced again within the same
second keeps its modification time. The places `boot`, `stat`, `read`, `load`,
`drop` separate the system calls between which the file may be replaced.

**FilterChain** extends `Arbiter` and `DropSet`, the modules of the daemon, and instantiates
`Filter`, the other process, which shares only the variable `file` with them.
Each process handles the frames of a second in an order of its own. `heard` and `sorted` are
what they handled of it, `calm` counts the seconds since anything changed.
A death of any process restarts all of them (`n2k-mux-can-run` 69-77).

**AisDedup.** `obs` is the table, in the order its slots were taken. A tick is a part
of the ten minutes of the timeout. `reach` says which receiver hears which ship; a tick
passes once each of them was heard. `voice` and `quiet` are history: who spoke last for
a ship, and since when nobody did.

**Mapper, Throttle, Sentences.** A message is its PGN, the slot of its source, the fields
it has, the word of its reference and one value for all fields; a sentence is its type and
the values it shares with other messages. `Noted` is what `mapper_map` leaves
in `mapper_t`, `Mapped` what it yields, `Written` and `Gated` what the throttle lets
through and remembers. `Line` does all of that for one message, as the loop does before it
reads the next. `said`, `shown`, `quiet` and `mdaQuiet` are history.

**Ydraw, NetOut, Bridge.** A line is a few units, the bytes of a message their places.
`SendSome` is a `send` that takes part of the rest of a line, `Skip` the `EAGAIN` before its
first byte, `Wait` the `poll` in the middle of it, `Close` the end of a client. The room in
`wire[c]` is the buffers of both kernels. `Accept` takes the whole backlog and
closes what does not fit. n2k-filter drives `NetOut` as a bridge whose messages have one
frame.

**Ini, ConfigSave.** A file is a sequence of section, key and text lines. `Merge`
is `ini_merge`; `Parses` and `Meaning` are what `config_load` makes of a file. `Save`
is `handle_config_post` up to the text it will write, `Backup`, `Replace`
and `Signal` its system calls; the daemon notices the signal, reads the file
(`ReadFile`) and takes it or not (`Reload`). `EditByHand` is anybody else who writes the
file. `promised` is history: the configuration that the page said was reloaded.

**LineReader, Jsonl, Stats, BusMap, MainLoop.** A text is a sequence of symbols, a word of
several characters being one. A `Feed` is what the upstream writes, with the lines it is made
of and the places where a write may end; `UpstreamEnds` may come at any of them. `TakeLine`,
`AtEof` and `Poll` are the three ways a turn ends, `Publish` is the periodic work they all
begin with: the publications that are due, the frames on the socket that are counted. With
`ok = FALSE` the files of that turn cannot be written. `Finish` is what follows the loop. The phase `hung` is a
parser that never comes back (`Parse` says `never`); no line of the feeds leads there, and
`ReadAsMeant` would say so. What the arbitration says of a message is
any of `Decisions`. `last`, `all`, `told`, `toldTime`, `quiet`, `loud`, `late`, `flows` are
history: the line taken last, all that was counted, what the reports told of it and for how
long, how long nothing or something was heard, the reports that failed in a row, and what
each flow was told last.

**Polar, SimInput, Simulator, SimControl.** Of the six inputs of the simulator one is
modelled, the speed through the water, the only one that a polar may give; `PolarSpeed` is a fraction, so
that nothing is rounded. `control.ver` stands for inode and time in nanoseconds: each rename makes a new
one. `Look` is `ctl_refresh` up to its `stat`, `Load` the `ctl_load` that follows; the file
may be replaced between them. `beat` and `due` are the place in the tick and the time to
the next turn, `wait` the time to the next sending of each message. `Drag`, `ToggleAuto`,
`ChoosePolar`, `TogglePolar`, `ToggleBox` are the gestures, each of which restarts `timer`
(`simTimer`); `Reload` is `loadSim`, `Refresh` the answer of `refreshState`. `Post` and `Command` are
`handle_sim_post` before and after the file is replaced. `Requested` is
`systemctl --no-block start`, of which `StopUnit` and `StartUnit` do the work: the chains
conflict. `sent`, `asked` and `behind` are history: when the last messages went, the chain the
user asked for (`Untold` once the page has taken that back), whether the control file waits to be read.

Next to some definitions stand mutated forms of them (`M_…`). No specification uses them;
each is a plausible slip in the code, and `PROJECT.json` says which property notices it.

## 3. The runs

| Run | Asks | Bounds |
|---|---|---|
| `BusIdentityMoves` | is the table well formed, keeps what it learnt, and tells one unit from another; do the ISO requests repair what missed messages spoilt | 3 units (one without a serial number), 2 addresses, 4 records, 3 moves, 2 messages missed |
| `ArbiterChurn` | is a source of higher priority ever alive next to the retained one; does the arbiter implement `Handover` | 3 rules of each kind, 3 slots, timeout 2, 2 changes |
| `LosersRoom` | what is published against what was said | 1 source with 3 references, expiry 3, interval 2 |
| `LosersMixed` | (violated) a comment of `dropset_update` | 2 sources, 2 references |
| `Chain` | after any change, are exactly the wanted frames on vcan0, and when | timeout 1, expiry 2, interval 1, one change |
| `ChainTruncated` | (violated) are the PGNs of `no_n2k` cut when the list does not fit | 2 verdicts, a filter of 1 line |
| `AisFusion` | one voice per ship, and no ship lost | 2 receivers, 2 ships, 2 PGNs, table of 2, timeout 2, 2 changes |
| `Sentences` | what the sentences that combine messages say, how often they come, whether bursts stay whole | 5 boats, 6 configurations, 2 slots, windows of 2 and 3 |
| `YdrawOut` | torn or missed lines, clients passed over, a blocked bus, identifiers and frames | 3 clients, table of 2, lines of 2 units, room for 3, 1 wait |
| `ConfigSave` | from the editor to the configuration in force | 6 files, 8 texts, 2 saves, 1 edit, 3 entries, 12 lines |
| `Reports` | what the loop reads, counts and tells the page | 4 feeds, buffer of 68 symbols, lines of 64, a map of 2, statistics of 1 PGN, 7 ticks |
| `SimControl` | from the tab of the page to the simulator and the chain that runs | 5 uses, up to 4 gestures, 1 failure, 1 end of the process |

**What the bounds leave in.** `BusIdentityMoves` has one record more than units, so that
provisional records compete with real ones; the theorems cover a full table. In
`ArbiterChurn` two changes are enough to switch a source off and on, or to reload in between.
`LosersRoom` has room for each verdict: past 256 the code evicts the oldest one, see section 5.

`Settle` is a result, not only a bound: the chain settles within
`Timeout + Interval + 2` seconds of the last change (9 s with the timeout
of 5 s and the interval of 2 s that the scripts use), and TLC finds a violation with
one second less. The two extra seconds are the second a frame may wait and the second
that `st_mtime` and `last_check` resolve. That is the time where no source sends two data in
one PGN and nothing is ignored, as in the run; section 4 has the other cases. With several
data in a PGN a gap may last a second longer, because a winning verdict given before the first
losing one is not remembered (finding `LosersMixed`). With `ignore_sources` or `ignore_pgns` an echo
may last until the old verdict is forgotten, because an ignored message has a verdict under the empty
reference and the one it had before stays.

In `AisFusion` the bound `MaxQuiet` is the timeout, one tick more, and one tick per
change: a receiver that changed its address is outranked by its own old entry until that
expires. The table is smaller than the ships times the receivers, so that entries that
still count are evicted.

In `Sentences` each boat carries the messages that share a sentence or a piece of state:
sounders, logs, weather, position with speed and variation, everything else. Sentences
of different boats share no state but the throttle, which one boat exercises with two
types. In `YdrawOut` the room of 3 units is not a multiple of the line, so that a line stops in the
middle; the four messages lie on both sides of the boundaries 8 bytes, 6 + 7k bytes and
`pf = 240`. In `ConfigSave` the files have a section twice and under an alias, a key twice,
keys outside any section, a section nobody reads and a line without sense; one text has
more entries than the merge takes.

The feeds of `Reports` share the work: two are cut anywhere and end anywhere, one with a list longer than the
buffer, so that a line is handed on in two pieces of which the second starts in the middle
of an object; one has frames on the socket and a report that fails, with more PGNs than the
statistics hold; one has three flows for a map of two, of which one gains and loses its
identity, and a reader of the standard output that leaves. Seven ticks pass the two intervals and the age at
which the page shows its banner. The uses of `SimControl`: settings, with a write that fails and a
simulator that ends; polars, one of which cannot be read, and the automatic mode behind them; a
simulator that is silenced; the switch to the simulated chain and back while the slider moves and the
page is reloaded; a switch with a polar that is refused, a file that cannot be written or a command that
fails. The delays of the page (250 ms, 6 s), of the switch and of the state file are
relative (2, 9, 3 and 6 units, a turn every 2): `SimControlAssumption` says what
is used of them, namely that a switch is over and the state published before the page goes by it
again. That is an assumption on systemd: a stop that takes longer than `SIM_SWITCH_MS` breaks it.

The timeouts of the code (5 s for the arbiter, 8 s for the verdicts, 2-5 s for the
publications) are scaled down in the same order; what matters is that a verdict
outlives the interval (`DropSetAssumption`) and the orders of the
boundaries, which the scaled values keep. `MaxChurn` bounds the number of changes.
Symmetry is used only in runs without liveness. Two runs switch the deadlock
check off: in `ConfigSave` n2k-mux stays down after the last save and a bad edit by hand, in
`Reports` the loop ends with its input.

### Fairness

* `BFairness`: a unit that holds an address keeps sending its claim and its product
  information. The daemon asks for both every `--tx-interval` seconds
  (`daemon.c` 561-565), and the standard obliges units to answer.
* `Bridge`: the loop of `send_all` goes on; `send` does not block and `poll` returns after
  20 ms. Nothing is assumed of the clients.
* `ConfigSave`: the page finishes a request it began; n2k-mux goes round its loop at least
  every `DAEMON_POLL_MS`; systemd starts n2k-mux again (`Restart=always`, `RestartSec=3`). It
  gives up after 20 starts in ten minutes; with a file that reads, as after a save, the
  first one succeeds. Nothing is assumed of the editor.
* `SimControl`: time passes, the simulator goes round its loop, the page finishes what its timer
  started and asks for the state every 3 s as long as the tab is shown (`tick` of `web.c`, 578-580, 594),
  systemd does its jobs. The user need not come, nothing need fail.

Liveness is checked of the registry (`Heals`), of a broadcast to the clients
(`BroadcastEnds`), of a saved configuration (`PromiseKept`) and of the switch between the
chains (`ChainAsAsked`). `ChainAsAsked` takes the user to wait for the end of a switch before asking for
another one (`Settled`). In the end the box tells which chain runs, and that is the one that was asked
for last, unless the page has taken it back (`Untold`): by an error that it showed, or because it was
reloaded before the switch had come about (section 5).

The properties of the chain, of the deduplication, of the sentences and of the reports are
bounded-time safety properties and need no fairness: a second
passes only when what was sent in it was handled.

## 4. The proofs

* `RegistryProofs`, on `Registry`: type correctness, `AddrUnique`, `UniqueUnique`, `KnowledgeKept`,
  `ClaimWins`, for any number of records, addresses, units and PGNs.
  The inductive invariant is the conjunction of the first three: that a
  look-up finds *the* record of an address needs `AddrUnique`, which needs
  `Detached` to empty all the other records, which needs the type.
* `RegistryProofs`, on `BusIdentity`: `HeardIsTruthful` and `OneRecordPerUnit`, for any number of units,
  addresses, slots and moves. The invariant is that of the registry, that no two units use an
  address and, while nothing was missed, what the table believes (`Believed`): every record is
  of one unit, nobody but the unit that uses an address is recorded at it, and that unit is,
  unless the table is full. Without the last part a message could find a free slot
  to make a provisional record in.
* `ChainProofs`, on `Arbiter`: type correctness, `HolderOnTop` and `Spec => HandsOver` for any
  rules, sources, timeout and configurations. The
  strengthening says that the retained slot is listed by the rule in force
  and that every live slot above it would have taken over; without it
  a reload could leave an alive slot that the new rule does not have.
* `AisDedupProofs`: `ASpec => OneVoice` for any ships, receivers, table and timeout, under
  `RankedAlike`: every configuration ranks the receivers in the same order for all AIS PGNs.
  The code ranks per PGN, so that with different orders a ship has one voice
  per PGN, not one. The code does not remember who spoke; the
  strengthening (`VoiceAhead`) says that the source passed on last is ahead of every live
  source of its ship, so that only its own silence lets a worse one through. And
  `ASpec => []NoShipLost`, without `RankedAlike`: a ship in reach of some receiver is
  missing for at most a tick and, for each change, the timeout and a tick more (`MostQuiet`). The invariant
  (`Waits`) is a bargain: for each ship, the ticks it is missing and the ticks that the entries
  of receivers out of its reach have left to live are together within what the changes so far
  allow; a change may start a new timeout, nothing else may. The run asks for less than `Patient`
  allows, as its two receivers cannot outrank each other twice.
* `ChainProofs`, on `Losers`: the published list, for any verdicts, any table, any
  interval. What it lists has lost within the timeout (`ListedHasLost`): the invariant is that
  each entry is the last verdict on its flow and reference, and as old as that (`Agrees`). While there is
  room for every verdict (`RoomForAll`: a table that has a place for every flow and
  reference; past it the oldest verdict goes, see section 5) every loser is listed (`LoserIsListed`) and
  a winner that was listed by mistake is released by the next list (`WinnerIsReleased`, which needs
  the interval to be within the timeout: 2 to 5 s against 8 s in the code).
* `ChainProofs`, on `FilterChain`: `CutIsCut`, `NoEcho` and `NoGap` for any configurations, sources,
  timeouts and interleaving of the two processes. The argument follows a change down the
  chain, with `calm` as its clock. After 2 calm seconds a source that is on was heard this second or
  the one before, one that is off has been silent as long as the bus has been calm (`AgeInv`); so past
  the timeout each verdict is the one the configuration wants (`VerdictsRight`). The table then has the right
  verdict on whatever is sent, no entry of what is not sent that is younger than `calm`, and an entry for what
  is not wanted (`TableInv`: `EntriesRight`, `OthersOld`, `LosersHeld`, `WinnersHeld`, `KeysOfData`).
  An interval later the file was written from that table, and from then on what it `Says`, what
  n2k-filter has loaded and what it does with a frame (`Obeyed`) agree, one after the other
  (`FollowInv`). `LookInv` says when what is loaded is the file: a file replaced twice within
  a second, whose second version n2k-filter would not see, was published after a disturbance.
  Each theorem states what it takes to settle, as a bound on `Settle`:
  `CutStaysCut` an interval; `GapCloses` `GapTime` and an interval, where `GapTime` is the timeout and
  a second, one more if a source sends two data in one PGN; `EchoStops` `EchoTime` and an interval, where
  `EchoTime` is the timeout and a second, or the 8 s after which a verdict is forgotten if some configuration
  ignores a source or a PGN. `CutStaysCut` and `EchoStops` need n2k-filter to read the whole file
  (`Fits`; `ChainTruncated` shows what happens otherwise), `GapCloses` and `EchoStops` a table with room
  for every verdict (`RoomFor`) and sources that send more often than the timeouts (`Timely`). The
  run `Chain` is within all of these.
* `SentencesProofs`: bursts of a limited type are apart (`BurstsApart`) and pages
  stay whole (`PagesWhole`), for any limits: what the gate holds is never younger than what was written.
  `CarriesFresh`: each cached value that is still in its window is the last one told
  (`SaysWhatWasTold`). `MdaKept`, when the air temperature comes by a message that has the field
  (`AirIsTold`). `ExtremeShown`: the least depth and the greatest log shown last bound every
  reading that is still fresh: every reading the mapper still counts is bounded by what was shown
  (`LeastHeld`, `MostHeld`), and what the mapper holds is what was said.
* `BridgeProofs`: no client reads a torn line (`NoTornLine`), for any number of clients, any
  length of a line, any buffers. The invariant says of each connection that what its reader
  has of a line, what is on its way and what `send_all` has sent so far are one flow of whole lines
  but for the end (`Flows`, `Pending`); without the part on its way the reader's next unit
  could be anything. No broadcast ends before every client has had its turn
  (`NobodyPassedOver`): whoever stands before the place in the table was served, also when a closure
  moves the last entry into the gap (`TurnInv`). Every message arrives as what it is
  (`MessageKept`): a byte is found where a receiver looks for it by the number of the frame, and nothing
  else under that number (`ByteFound`). It rests on the arithmetic of `Ydraw`: an
  identifier tells PGN, source, priority and, below `pf = 240`, destination, for all of them
  (`IdentifierTells`), and for each length the fast-packet frames have each byte of the
  message exactly once (`EachByteOnce`).
* `MainLoopProofs`, on `MainLoop`: four of the five properties of the run `Reports`, for any feeds, any
  decisions of the arbitration, any sizes of the tables and the buffer, any intervals and any reports that fail.
  `ReportsAddUp` and `DeadStreamShown` take it that a message yields a sequence of sentences
  (`SentencesAreSeq`: `mapped_t` is an array), nothing else is assumed but the `ASSUME`s of the modules.
  * `LinesInOrder`: the text that waits, in the buffer and behind it in the pipe, begins where the last
    line ended (`From`, `Waiting`). That place is a cut of the text, or its end once the
    stream has ended, and what was handed on so far are the lines up to it (`HandedOn`). The heart of it is `CutsNext`: behind
    a cut there is no other before the next newline or the `LrBuf`th symbol, so that cutting the buffer
    as it fills and cutting the whole text by `Ends` are the same. That `Ends` is a closed formula
    (the distance from the newline before is a multiple of `LrBuf`) is what makes it provable.
  * `WindowExact`: what was told and what the window holds add up at every step (`Adds`), row by row
    for the PGNs that have one (`RowsAdd`), of which there is one each as long as there is room; `NewWindow` may only come
    with a report that has replaced the file (`AddsReported`).
  * `DeadShown`: between the last report and now lies at most the time of the reports that failed
    since (`Reach`), and what the last file says of the last message is as old as what was heard then
    (`Heard`). It needs `DeadAge < MaxAge` (`MainLoopAssumption`): `MaxAge` is where the model stops to count an age.
  * `MapTells`: every entry of the map is a flow that was heard, with what was last said of it and
    its age (`Tells`, `MapOf`); and a flow that has no entry found no room, which `crowd` counts
    (`NoRoomIsCrowd`) or has been silent for too long.
* `MainLoopProofs`, on `ConfigSave`: `PromiseHeld`, for any files, texts, saves and restarts. The
  invariant says that what is about to be written reads (`WriteInv`) and, as long as a promise
  stands, that the file is the one it was given for, and that whoever read another one has the
  signal still before it (`PromiseInv`). Of the parser nothing is used but that it accepts a text
  or does not.
* `SimControlProofs`: `InForce` for any gestures, failures and delays: versions of the
  control file only grow, the one looked at is never newer than the one there, and if they are
  the same what was read is what is there (`StampInv`, `ReadInv`). `AutoNoJump` for any inputs: what
  the page writes and the file says is a value or a centre (`SettingsInv`), and the speed of
  the boat is the value of the input that it came from (`InputInv`). `OnTime` for any periods
  of two ticks or more (200 ms is the shortest, 50 ms the tick; `--tick` goes up to 100 ms): a message that is late is
  scheduled from the place it should have gone at, so that the next wait is shorter by what it
  was late (`ScheduleInv`). With a tick as long as a period the lateness would add up; TLC shows that too.
* `ScanProofs`: the lemmas on `FirstOr0` and `Selected` that the proofs of the registry, the arbiter,
  the deduplication and the list of losers rest on.

Assumptions are the named `ASSUME`s of the modules, which TLC evaluates in every run.
Model-checked only: liveness (`Heals`, `BroadcastEnds`, `PromiseKept`, `ChainAsAsked`), what the
parser makes of a line (`ReadAsMeant`), the polars (`PolarRight`: products of unknowns), and what the merge of the
configuration writes (`WrittenMeansSent`, `CommentsKept`). Fairness, `ENABLED` and induction over data are out of the
prover's reach, so what the folds of `Ini` and `Jsonl` compute stays with TLC, and so do
the counts by sentence type of `Stats`, which no property is about.

## 5. What disagrees with its documentation

Two runs end in a counterexample on purpose (`findings` in `PROJECT.json`):

* `LosersMixed`: a (pgn, src) is published although one of its references wins, against
  the comment at `daemon.c` 211-212.
* `ChainTruncated`: with more losers than the filter reads, PGNs of `no_n2k` are forwarded,
  against `config.h` 116-118.

Observations that no run of the list shows. On the arbitration and its chain:

* After one missed claim, data are credited to the unit that had the address before, until the
  ISO requests repair it (`registry.c` 132; `README.md` 58-60 promises a stable identity).
* One rule for all the references of a PGN (`arbiter.c` 135): liveness is recorded per
  rule and source. A source that still sends one reference keeps a lower one from
  being retained for another reference that only the lower one sends.
* The comment at `daemon.c` 245-248 on eviction: with more verdicts than entries a verdict
  that keeps a winning flow from being dropped may be the one that goes.
* An AIS receiver that no rule ranks and that changes to a higher address is outranked by
  its own old entry until that expires (`aisdedup.c` 47).
* Two sounders over a bottom that keeps falling away: each finds the other's older depth
  smaller, and no DPT is written (`mapper.c` 123-136; `mapper.h` 23-24 promises the
  least one).
* A line of more than 511 characters is cut by `config_parse_string` (`config.c` 275)
  and split by `config_load` (`config.c` 258): the page may accept what n2k-mux refuses.
* A file that has a section twice: a key of the second one is written at the end of the first and
  its line is removed with the comment on it (`inimerge.c` 192, 211-233), against
  "réécrite … en gardant … le commentaire de fin de ligne" (`inimerge.h` 14-16). `CommentsKept`
  demands the comments of keys only of files that have each section once.

On what the loop reads and reports:

* `jsonl.c` goes round for ever on a `]` where the key of an object is expected
  (220, 270, 312). The analyzer does not write such a line, and none of the cut lines of the feeds is one.
* Of a line that is torn the last number may be shorter than it was sent, or 0
  (`ShortMessage`): the message is taken for a whole one.
* `lr_line` hands on the first 8191 characters of a line and drops the rest (`daemon.c` 131-147).
* A read error other than the end of the input is no end: `poll` comes back at once, for ever
  (`daemon.c` 127-136).
* A flow keeps the identity and the name that it was once shown with (`busmap.c` 63-64).
* When kplex stops reading without closing, the loop waits in its write, nothing is published, and
  the page shows a live chain: ages in the files are those of their writing.
* SIGTERM ends n2k-mux without the last publications.

On the simulator and its page:

* An input that goes to auto within the 250 ms of a drag is centred on the value before the drag, or
  on that of the file (`simulator.c` 387-404), against the comments in `web.c` 823-825 and
  `simulator.c` 173-176.
* A slider moved during a switch starts the command again, as the request carries the box;
  it comes to the same chain. The comment in `web.c` 1140-1142 has it that moving one starts nothing.
* A reload during a switch (the button, the Simulator tab, the language button: `web.c` 463-467, 577, 584)
  sets the box to the chain that ran so far, against the comment in `web.c` 459-460 ("on ne remet pas la
  case à l'ancien état sous la main de l'utilisateur"): `refreshState` asks `simSwitching`,
  `loadSim` does not. A request that waits for its 250 ms then carries the old box, and the switch never
  begins; one from a slider moved later undoes the switch. `ChainAsAsked` is stated with this exception:
  with an `asked` that `Reload` leaves alone TLC finds it violated.
* A slider moved within 3 s of the simulator's end, while systemd waits to start it again, stops
  the simulated chain: the box follows a state file that is not there.
* Asking for one chain and back before the first switch is over may end in the wrong one, and so
  may the stale box of a second page.
* `wind_random` switched on and off shifts the sinusoid; a polar that is changed under the same
  name is not read again; an empty cell in the first row of a polar shifts the columns behind it.
* The first message after a pause may be followed by one that comes early, by at most a turn.
* `n2k-mux-sim-run` does not pass on the `SIMSTATE` of the environment.

## 6. Not modelled

* Formatting and parsing of text: NMEA 0183 (`nmea0183.c`), HTTP and HTML (`web.c`), the JSON of
  the reports, white space, escapes, signs and fractions in `jsonl.c`. Pure functions, with unit tests.
* System calls of the sockets (`cansock.c`): modelled as inputs and outputs.
* The sailing of the simulator: trigonometry of wind and current, the random wind, AIS
  targets, the encoding of its messages; five of the six inputs, which differ in their ranges.
  The wind over the water is any of `SeaWinds`, and a turn takes no time; lateness is
  shorter than a turn. A state file that cannot be written (`state_write` leaves the old one) and the
  comment lines of the control file are left out. Its options (`--once`, `--duration`, `--no-ais`) are left out.
* What each section of the configuration makes of a value: only whether it is refused. Of the
  limits of the merge only that on entries: not `INIM_VAL_LEN`, not `INIM_MAX_SECTIONS`.
* The sending of the ISO requests, the options of n2k-mux, the messages on standard error.
* The FIFOs inside a chain (`n2k-mux-can-run`): only that the chain ends with any of its processes.
* systemd: a job that is cancelled before its stop begins is no job; limits on restarts do not bite.
* File systems that fill up in the middle of a `rename(2)`.

## 7. What is left

The order in which the modules were written is that of section 2. Next:

1. The restart of the simulated chain while the page is used, once the page tells a chain that
   starts again from one that does not run: today a slider moved then stops it, and
   `ChainAsAsked` is not asked with ends of the process.
2. The other inputs of the simulator with the wind that they share, in units of a circle.
3. A reader of the standard output that stops without leaving, with the ages that the page
   would have to judge by.
4. `PolarRight` as a theorem, with the interpolation bounded cell by cell.

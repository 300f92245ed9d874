------------------------------ MODULE MainLoop ------------------------------
(***************************************************************************)
(* The loop of n2k-mux (main in src/daemon.c) and what it reports to the   *)
(* page of n2k-mux-web: the statistics, the map of the bus and the list of *)
(* the sources, each a file replaced by rename.  The loop is driven by     *)
(* poll and not by the lines: a turn does the periodic work that is due,   *)
(* then takes a line, or waits at most DAEMON_POLL_MS for input.           *)
(*                                                                         *)
(* A turn is one step: the process has one thread, and others see of it    *)
(* its files only.  Time passes between turns, and no faster than the loop *)
(* goes round.  What the arbitration decides of a message is any of        *)
(* Decisions; the conversion and the throttle are Mapper and Throttle, of  *)
(* which the sentences that are written are all that is seen here.         *)
(***************************************************************************)
EXTENDS LineReader, Jsonl, Stats, BusMap

CONSTANTS
    Feeds,              \* what may come in: see Feed
    Decisions(_),       \* what arbiter_decide may say of a message
    Sentences(_),       \* the types of the sentences a message may yield
    SourcesInterval,    \* --sources-interval, in ticks
    StatsInterval,      \* --stats-interval, in ticks
    DeadAge             \* the age at which the page calls the stream dead

ASSUME MainLoopAssumption ==
    /\ SourcesInterval \in Nat \ {0}
    /\ StatsInterval \in Nat \ {0}
    /\ DeadAge \in Nat /\ DeadAge < MaxAge
    /\ \A f \in DOMAIN Feeds :
          LET text == Feeds[f].text IN
          /\ text \in Seq({text[i] : i \in DOMAIN text})
          /\ Feeds[f].stops \subseteq 1..Len(text)

(* What the upstream writes, with the lines that it is made of, each with  *)
(* its text and what it means; and the bounds: where a write may end, the  *)
(* time, the frames on the socket, the reports that may fail in a row, the *)
(* readers that may leave.                                                 *)
Feed(ls, text, stops, time, frames, fails, leave) ==
    [lines |-> ls, text |-> text, stops |-> stops, time |-> time,
     frames |-> frames, fails |-> fails, leave |-> leave]

VARIABLES
    feed, fed, open,    \* the upstream: its text, how much it wrote, alive
    pipe, lr,           \* written and not read; read and not handed on
    canq, sink,         \* frames in the socket; somebody reads our output
    st, map, seen,      \* statistics, map of the bus, addresses heard
    since,              \* ticks since the last publications
    files,              \* what the page can read
    phase, ran,         \* of the loop ("hung": in the parser); it went round
                        \* since the last tick
    clock,
    last, all, told,    \* history: the line handed on last, all that was counted,
    toldTime, quiet,    \* all that was reported and for how long; how long
    loud, late, flows   \* nothing / something was heard; reports that failed
                        \* in a row; the flows as they were heard

input == <<feed, fed, open, pipe>>
history == <<last, all, told, toldTime, quiet, loud, late, flows>>
vars == <<input, lr, canq, sink, st, map, seen, since, files, phase, ran,
          clock, history>>

FeedText == Feeds[feed].text

NoCount == [msgs |-> 0, frames |-> 0, measured |-> 0, sent |-> 0, pgns |-> <<>>]

NoFile == [have |-> FALSE]

Init ==
    /\ feed \in DOMAIN Feeds /\ fed = 0 /\ open = TRUE /\ pipe = <<>>
    /\ lr = ReaderInit
    /\ canq = 0 /\ sink = TRUE
    /\ st = StatsInit /\ map = MapInit /\ seen = {}
    /\ since = [sources |-> SourcesInterval, stats |-> 0]
    /\ files = [stats |-> NoFile, map |-> [at |-> 0, shown |-> {}], sources |-> {}]
    /\ phase = "loop" /\ ran = FALSE /\ clock = 0
    /\ last = [n |-> 0, line |-> <<>>] /\ all = NoCount /\ told = NoCount /\ toldTime = 0
    /\ quiet = 0 /\ loud = 0 /\ late = 0 /\ flows = <<>>

-----------------------------------------------------------------------------
(* The surroundings: the upstream writes and ends, even within a line, the *)
(* socket receives frames, the reader of the standard output leaves.       *)

Write(k) ==
    /\ open /\ pipe = <<>>
    /\ fed + k \in Feeds[feed].stops
    /\ pipe' = SubSeq(FeedText, fed + 1, fed + k)
    /\ fed' = fed + k
    /\ UNCHANGED <<feed, open, lr, canq, sink, st, map, seen, since, files, phase,
                   ran, clock, history>>

UpstreamEnds ==
    /\ open /\ open' = FALSE
    /\ UNCHANGED <<feed, fed, pipe, lr, canq, sink, st, map, seen, since, files,
                   phase, ran, clock, history>>

FrameArrives ==
    /\ canq + all.measured < Feeds[feed].frames
    /\ canq' = canq + 1
    /\ UNCHANGED <<input, lr, sink, st, map, seen, since, files, phase, ran, clock, history>>

ReaderLeaves ==
    /\ sink /\ Feeds[feed].leave > 0
    /\ sink' = FALSE
    /\ UNCHANGED <<input, lr, canq, st, map, seen, since, files, phase, ran, clock, history>>

-----------------------------------------------------------------------------
(* The periodic work of a turn.  ok tells whether files can be written; an *)
(* attempt counts as made either way.                                      *)

SourcesDue == since.sources >= SourcesInterval
StatsDue == since.stats >= StatsInterval

Measured == FramesSeen(st, canq)

(* A report goes to a temporary file that then takes the place of the one  *)
(* before, whole or not at all.                                            *)
Replaced(ok, old, new) == IF ok THEN new ELSE old

Published(ok, now, counts) ==
    [stats   |-> Replaced(ok /\ "stats" \in now, files.stats, [have |-> TRUE, st |-> counts]),
     map     |-> Replaced(ok /\ "sources" \in now, files.map,
                          [at |-> clock, shown |-> MapShown(Pruned(map))]),
     sources |-> Replaced(ok /\ "sources" \in now, files.sources, seen)]

Due == (IF SourcesDue THEN {"sources"} ELSE {}) \cup (IF StatsDue THEN {"stats"} ELSE {})

SinceThen(now, ok) ==
    [sources |-> IF "sources" \in now THEN 0 ELSE since.sources,
     stats   |-> IF "stats" \in now THEN 0 ELSE since.stats]

(* What a report adds to all that was told before, PGN by PGN.             *)
CountOf(a, p) == IF p \in DOMAIN a THEN a[p] ELSE 0

CountedIn(table, key) ==
    LET i == RowOf(table, key) IN IF i = NoSlot THEN 0 ELSE table[i].count

Plus(a, s) ==
    [msgs |-> a.msgs + s.msgs, frames |-> a.frames + s.frames,
     measured |-> a.measured + s.measured, sent |-> a.sent + s.sent,
     pgns |-> [p \in DOMAIN a.pgns \cup {s.pgns[i].key : i \in DOMAIN s.pgns} |->
                 CountOf(a.pgns, p) + CountedIn(s.pgns, p)]]

Publish(ok, now) ==
    /\ ~ ok => now # {} /\ late < Feeds[feed].fails
    /\ files' = Published(ok, now, Measured)
    /\ since' = SinceThen(now, ok)
    /\ late' = IF "stats" \notin now THEN late ELSE IF ok THEN 0 ELSE late + 1
    /\ told' = IF "stats" \in now /\ ok THEN Plus(told, Measured) ELSE told
    /\ toldTime' = IF "stats" \in now /\ ok THEN toldTime + st.window ELSE toldTime
    /\ canq' = 0
    /\ ran' = TRUE

(* The statistics and the map after the periodic work.                     *)
StNow(ok) == IF StatsDue THEN Reported(Measured, ok) ELSE Measured
MapNow == IF SourcesDue THEN Pruned(map) ELSE map

-----------------------------------------------------------------------------
(* The end of a turn: a line is waiting ...                                *)

Flow(m, d) == [pgn |-> m.pgn.num, src |-> m.src.num, disc |-> d.disc]

(* The other flows that may still hold a place in the table.               *)
Crowd(f) == Cardinality({g \in DOMAIN flows \ {f} : flows[g].ago < MapKeep + SourcesInterval})

HeardFlow(f, d) ==
    LET said == [ago |-> 0, result |-> d.result, name |-> d.name, crowd |-> Crowd(f)]
    IN [g \in DOMAIN flows \cup {f} |-> IF g = f THEN said ELSE flows[g]]

(* ... one that means something to the program: it is observed, counted,   *)
(* arbitrated and put on the map.                                          *)
Handle(m, d, ok) ==
    LET types   == IF d.result = "accept" THEN Sentences(m) ELSE <<>>
        counted == IF m.pgn.has THEN Counted(StNow(ok), m.pgn.num) ELSE StNow(ok)
        mapped  == m.pgn.has /\ m.src.has /\ Mappable(Flow(m, d), d)
    IN
    /\ st' = SentAll(counted, types)
    /\ map' = IF m.pgn.has /\ m.src.has THEN Mapped(MapNow, Flow(m, d), d) ELSE MapNow
    /\ seen' = IF m.src.has THEN seen \cup {m.src.num} ELSE seen
    /\ phase' = IF types # <<>> /\ ~ sink THEN "last" ELSE "loop"
    /\ flows' = IF mapped THEN HeardFlow(Flow(m, d), d) ELSE flows
    /\ quiet' = IF m.pgn.has THEN 0 ELSE quiet
    /\ all' = LET a == [all EXCEPT !.measured = @ + canq, !.sent = @ + Len(types)] IN
              IF ~ m.pgn.has THEN a
              ELSE [a EXCEPT !.msgs = @ + 1, !.frames = @ + FramesFor(m.pgn.num),
                             !.pgns = [p \in DOMAIN @ \cup {m.pgn.num} |->
                                 CountOf(@, p) + (IF p = m.pgn.num THEN 1 ELSE 0)]]

NothingHeard(ok) ==
    /\ st' = StNow(ok) /\ map' = MapNow
    /\ all' = [all EXCEPT !.measured = @ + canq]
    /\ UNCHANGED <<seen, flows, quiet>>

Understood(m, ok) ==
    \/ /\ m.ok = "yes"
       /\ \E d \in Decisions(m) : Handle(m, d, ok)
    \/ /\ m.ok # "yes"
       /\ NothingHeard(ok)
       /\ phase' = IF m.ok = "never" THEN "hung" ELSE phase

TakeLine(ok) ==
    /\ phase = "loop" /\ LineReady(lr)
    /\ Publish(ok, Due)
    /\ lr' = WithoutLine(lr)
    /\ last' = [n |-> last.n + 1, line |-> LineOf(lr)]
    /\ Understood(Parse(LineOf(lr)), ok)
    /\ UNCHANGED <<input, sink, clock, loud>>

(* ... or there is none: the loop ends with the stream, or waits.          *)
AtEof(ok) ==
    /\ phase = "loop" /\ ~ LineReady(lr) /\ lr.eof
    /\ Publish(ok, Due)
    /\ NothingHeard(ok)
    /\ phase' = "last"
    /\ UNCHANGED <<input, lr, sink, clock, last, loud>>

M_PollWakes == pipe # <<>> \/ ~ open

(* poll has a delay: it returns when there is nothing to read as well.     *)
PollWakes == TRUE

Poll(ok) ==
    /\ phase = "loop" /\ ~ LineReady(lr) /\ ~ lr.eof
    /\ PollWakes
    /\ Publish(ok, Due)
    /\ NothingHeard(ok)
    /\ lr' = Filled(lr, pipe, open)
    /\ pipe' = LeftIn(lr, pipe)
    /\ UNCHANGED <<feed, fed, open, sink, phase, clock, last, loud>>

(* The publications at the end, due or not.                                *)
Finish(ok) ==
    /\ phase = "last"
    /\ phase' = "ended"
    /\ LET now == {"sources", "stats"} IN
       /\ files' = Published(ok, now, st)
       /\ told' = IF ok THEN Plus(told, st) ELSE told
       /\ toldTime' = IF ok THEN toldTime + st.window ELSE toldTime
       /\ late' = IF ok THEN 0 ELSE late + 1
    /\ st' = Reported(st, ok)
    /\ map' = Pruned(map)
    /\ UNCHANGED <<input, lr, canq, sink, seen, since, ran, clock, last, all,
                   quiet, loud, flows>>

-----------------------------------------------------------------------------
Turn == \E ok \in BOOLEAN : TakeLine(ok) \/ AtEof(ok) \/ Poll(ok)

Blocked == phase = "loop" /\ ~ LineReady(lr) /\ ~ lr.eof /\ ~ PollWakes

Tick ==
    /\ phase = "loop" /\ (ran \/ Blocked) /\ clock < Feeds[feed].time
    /\ clock' = clock + 1 /\ ran' = FALSE
    /\ st' = Aged(st) /\ map' = MapAged(map)
    /\ since' = [sources |-> since.sources + 1, stats |-> since.stats + 1]
    /\ quiet' = quiet + 1
    /\ loud' = IF all.msgs > 0 /\ quiet + 1 <= DeadAge THEN loud + 1 ELSE 0
    /\ flows' = [f \in DOMAIN flows |-> [flows[f] EXCEPT !.ago = @ + 1]]
    /\ UNCHANGED <<input, lr, canq, sink, seen, files, phase, last, all, told,
                   toldTime, late>>

Next ==
    \/ \E k \in 1..Len(FeedText) : Write(k)
    \/ UpstreamEnds \/ FrameArrives \/ ReaderLeaves
    \/ Turn
    \/ \E ok \in BOOLEAN : Finish(ok)
    \/ Tick

Spec == Init /\ [][Next]_vars

-----------------------------------------------------------------------------
(* A text is cut into lines behind each newline, behind every LrBuf        *)
(* symbols after it that have none, and at its end.                        *)
Ends(text) ==
    {e \in DOMAIN text :
        \/ (e - Max({0} \cup {i \in 1..e : text[i] = Newline})) % LrBuf = 0
        \/ e = Len(text)}

LineTo(text, e) ==
    LET behind == Max({0} \cup {f \in Ends(text) : f < e})
    IN SubSeq(text, behind + 1, Min({e, behind + LineMax}))

(* The lines the loop gets are those that were written, in their order and *)
(* whole, however the reads cut the text up (lr_fill and lr_line); only a  *)
(* line longer than the buffer is cut, and of one longer than LineMax only *)
(* the front is seen.  At the end of the stream none is left.              *)
LinesInOrder ==
    LET written == SubSeq(FeedText, 1, fed)
        ends    == Ends(written)
    IN
    /\ last.n > 0 =>
          \E e \in ends :
             /\ Cardinality({f \in ends : f <= e}) = last.n
             /\ last.line = LineTo(written, e)
    /\ phase \in {"last", "ended"} /\ sink => last.n = Cardinality(ends)

(* What is left of a number, of a field and of a message that were cut off.*)
ShortNumber(got, sent) == \E k \in 0..9 : got = sent \div (10^k)

ShortField(got, sent) ==
    /\ got.key = sent.key
    /\ got.val.type = sent.val.type
    /\ ShortNumber(got.val.num, sent.val.num)
    /\ IsPrefix(got.val.str, sent.val.str)

ShortFields(got, sent) ==
    \/ IsPrefix(got, sent)
    \/ /\ got # <<>> /\ IsPrefix(Front(got), sent)
       /\ \/ Last(got).val.type = "null"
          \/ Len(got) <= Len(sent) /\ ShortField(Last(got), sent[Len(got)])

ShortMessage(got, sent) ==
    /\ got.src \in {sent.src, [has |-> FALSE, num |-> 0]}
    /\ ShortNumber(got.pgn.num, sent.pgn.num)
    /\ ShortFields(got.fields, sent.fields)
    /\ Len(got.list) <= Len(sent.list)
    /\ \A i \in DOMAIN got.list :
          IF i < Len(got.list) THEN got.list[i] = sent.list[i]
          ELSE ShortFields(got.list[i], sent.list[i])

(* Whether the line, which came whole or of which the front came, of some  *)
(* of the messages was read as one of them.                                *)
AsMeant(got, line, messages) ==
    IF messages = {} THEN got.ok = "no"
    ELSE \E f \in messages :
            IF Len(line) >= Len(f.text) THEN got = f.means
            ELSE got.ok # "never" /\ (got.ok = "yes" => ShortMessage(got, f.means))

(* jsonl_parse reads a line that came whole as the message that was sent,  *)
(* whatever its strings contain, and of one that was cut (the upstream     *)
(* ended, the line was longer than LineMax) what came of it: it refuses it,*)
(* or it misses fields, and the last of those it has may be a shorter      *)
(* number.  What is left of a line cut in two is refused or is not a       *)
(* message of its own; no line keeps the parser for ever.                  *)
ReadAsMeant ==
    last.n > 0 =>
        AsMeant(Parse(last.line), last.line,
                {f \in ToSet(Feeds[feed].lines) : IsPrefix(last.line, Append(f.text, Newline))})

(* No report is lost or counted twice (stats_observe, stats_write): what   *)
(* the files that replaced each other told, and what is left to tell, is   *)
(* all that was counted since the start, message by message and PGN by     *)
(* PGN, over all of the time, although some files could not be written.    *)
WindowExact ==
    LET sum == Plus(told, st) IN
    /\ sum.msgs = all.msgs /\ sum.frames = all.frames
    /\ sum.measured = all.measured
    /\ sum.sent = all.sent
    /\ \A i \in DOMAIN st.pgns :
          /\ CountOf(sum.pgns, st.pgns[i].key) = CountOf(all.pgns, st.pgns[i].key)
          /\ st.pgns[i].total = CountOf(all.pgns, st.pgns[i].key)
    /\ \A p \in DOMAIN all.pgns :
          Len(st.pgns) < MaxPgns => \E i \in DOMAIN st.pgns : st.pgns[i].key = p
    /\ toldTime + st.window = clock

(* updateLoad of the page: the banner says that the stream is dead if the  *)
(* file has no message or one older than DeadAge.                          *)
Banner ==
    \/ ~ files.stats.have
    \/ ~ files.stats.st.have
    \/ files.stats.st.ago > DeadAge

(* The page tells a dead stream from a quiet one (the comment of the loop  *)
(* of main and the one of updateLoad): the banner is there when nothing    *)
(* came for longer than DeadAge and the time of the reports since, those   *)
(* that failed included, and is gone when messages have come for as long.  *)
DeadShown ==
    LET lag == (late + 1) * StatsInterval IN
    /\ quiet > DeadAge + lag => Banner
    /\ loud > lag => ~ Banner

(* A map that is published tells of each flow what the arbitration last    *)
(* said of it and whether it is alive; it has every flow that was heard    *)
(* lately, unless too many others were when it was last heard, and none    *)
(* twice or that fell silent (busmap_observe, busmap_prune); and the list  *)
(* of sources has every address.                                           *)
MapIsTrue(shown) ==
    /\ \A e \in shown :
          /\ e.flow \in DOMAIN flows
          /\ flows[e.flow].ago <= MapKeep
          /\ e.result = flows[e.flow].result
          /\ flows[e.flow].name # NoName => e.name = flows[e.flow].name
          /\ e.alive <=> flows[e.flow].ago <= MapAlive
          /\ \A g \in shown : g.flow = e.flow => g = e
    /\ \A f \in DOMAIN flows :
          flows[f].ago <= MapKeep /\ flows[f].crowd < MapMax
              => \E e \in shown : e.flow = f

MapTells ==
    [][files'.map # files.map
         => MapIsTrue(files'.map.shown) /\ files'.sources = seen]_vars

=============================================================================

---------------------------- MODULE FilterChain ----------------------------
(***************************************************************************)
(* From a verdict to a dropped frame: the arbitration (Arbiter) judges the *)
(* messages of can0, the list of losers (DropSet) remembers and publishes  *)
(* the verdicts, n2k-filter (Filter) reads the same frames of can0 and     *)
(* drops those of the losers.  The two processes share nothing but the     *)
(* file; each of them handles the frames of a second in an order and at    *)
(* moments of its own.                                                     *)
(*                                                                         *)
(* A tick is a second.  Every source that is on sends each of its data     *)
(* once a second, and each process gets to handle them within the second.  *)
(* Two things are asked of the chain, a while after anything changed on    *)
(* the bus: the one voice that should be heard on vcan0 is, and no other.  *)
(***************************************************************************)
EXTENDS Arbiter, DropSet

CONSTANTS
    FDropMax,       \* FDROP_MAX
    Settle          \* the while: bound on the time the chain takes

ASSUME FilterChainAssumption ==
    /\ FDropMax \in Nat
    /\ Settle \in Nat
    /\ AnySrc \notin Addrs
    /\ None \notin Pgns \X Addrs

VARIABLES
    list, known, young, checked, at, frame, out,    \* n2k-filter
    heard,      \* the data the daemon handled this second
    sorted,     \* the flows the filter handled this second
    calm        \* seconds since anything changed, up to Settle

F == INSTANCE Filter

arbiter == <<cfg, ident, up, age, last, holder, churn>>
dropset == <<drop, file, since>>
filter == <<list, known, young, checked, at, frame, out>>

cvars == <<arbiter, dropset, filter, heard, sorted, calm>>

Sent == UNION {{<<a, d>> : d \in Emits[a]} : a \in up}

FlowsSent == {<<m[2][1], m[1]>> : m \in Sent}

(* Something changes: the chain has to settle again.                       *)
Disturb == calm' = 0

-----------------------------------------------------------------------------
CInit ==
    /\ Init /\ DInit /\ F!FInit
    /\ heard = {} /\ sorted = {}
    /\ calm = 0

(* The body of the main loop for a line: decide, then remember the verdict.*)
DaemonHears(a, d) ==
    /\ <<a, d>> \notin heard
    /\ Hear(a, d)
    /\ Observe(d[1], a, IF Ignored(Datum(a, d)) THEN <<>>
                          ELSE DiscriminantOf(Datum(a, d)), last'.result)
    /\ heard' = heard \cup {<<a, d>>}
    /\ UNCHANGED <<filter, sorted, calm>>

DaemonPublishes ==
    /\ \/ Publish(cfg.noN2k, TRUE) /\ F!Replaced /\ UNCHANGED <<churn, calm>>
       \/ /\ Publish(cfg.noN2k, FALSE)
          /\ Churn /\ Disturb /\ UNCHANGED filter
    /\ UNCHANGED <<cfg, ident, up, age, last, holder, heard, sorted>>

(* SIGHUP.                                                                 *)
DaemonReloads ==
    /\ Reload
    /\ Disturb
    /\ UNCHANGED <<dropset, filter, heard, sorted>>

(* Any of the processes ends, and the script that watches over them ends   *)
(* the others (wait -n): the chain is started again, with an empty registry*)
(* and the configuration the INI file holds by then.                       *)
ChainRestarts ==
    /\ Churn /\ Disturb
    /\ Restart(cfg.noN2k)
    /\ F!FRestart
    /\ cfg' \in Configs
    /\ ident' = [a \in Addrs |-> None]
    /\ ArbiterInit
    /\ UNCHANGED <<up, last, heard, sorted>>

(* The registry learns, or corrects, the identity at an address.           *)
DaemonLearns(a) ==
    /\ Learn(a)
    /\ Disturb
    /\ UNCHANGED <<dropset, filter, heard, sorted>>

SourceSwitched(a) ==
    /\ Switch(a)
    /\ Disturb
    /\ UNCHANGED <<dropset, filter, heard, sorted>>

FilterReads(flow) ==
    /\ flow \in FlowsSent \ sorted
    /\ F!Read(flow)
    /\ sorted' = sorted \cup {flow}
    /\ UNCHANGED <<arbiter, dropset, heard, calm>>

FilterWorks ==
    /\ F!Boot \/ F!BootStat \/ F!Load \/ F!Sort
    /\ UNCHANGED <<arbiter, dropset, heard, sorted, calm>>

(* A second passes once both processes are through with it.                *)
Second ==
    /\ Sent \subseteq heard
    /\ FlowsSent \subseteq sorted
    /\ at = "read"
    /\ Tick /\ DTick /\ F!FTick
    /\ heard' = {} /\ sorted' = {}
    /\ calm' = IF calm < Settle THEN calm + 1 ELSE Settle

CNext ==
    \/ \E a \in Addrs : \E d \in Emits[a] : DaemonHears(a, d)
    \/ DaemonPublishes
    \/ DaemonReloads
    \/ ChainRestarts
    \/ \E a \in Addrs : DaemonLearns(a) \/ SourceSwitched(a)
    \/ \E flow \in Pgns \X Addrs : FilterReads(flow)
    \/ FilterWorks
    \/ Second

CSpec == CInit /\ [][CNext]_cvars

-----------------------------------------------------------------------------
(* What the configuration wants of a datum, by the sources that are on: it *)
(* is not to be on vcan0 if its source has no place in the rule, or if a   *)
(* source that sends a datum of the same rule has a better one.            *)
Outranked(a, d) ==
    LET m == Datum(a, d) IN
    /\ Result(m) \in Competing
    /\ ModeFor(m) = "priority"
    /\ \E b \in up : \E e \in Emits[b] :
         /\ Result(Datum(b, e)) \in Competing
         /\ RuleFor(Datum(b, e)) = RuleFor(m)
         /\ SlotFor(Datum(b, e)) < SlotFor(m)

Unwanted(a, d) ==
    Outranked(a, d) \/ Result(Datum(a, d)) = "REJECT_NOT_IN_RULE"

Cut(flow) == \E i \in DOMAIN cfg.noN2k : cfg.noN2k[i] = flow[1]

DataOf(flow) == {d \in Emits[flow[2]] : d[1] = flow[1]}

Loses(flow) == \A d \in DataOf(flow) : Unwanted(flow[2], d)

Settled == calm = Settle /\ out # F!NoFrame

(* No gap: in the end no frame is missing on vcan0.  Whatever changed -    *)
(* the best source fell silent, came back or took another address, the     *)
(* chain was restarted, the configuration was replaced, a publication      *)
(* failed - Settle seconds later every frame that carries a datum the      *)
(* configuration retains is forwarded.                                     *)
NoGap == Settled /\ ~ Loses(out.flow) /\ ~ Cut(out.flow) => out.passed

(* No echo: nor is there one too many.                                     *)
NoEcho == Settled /\ Loses(out.flow) => ~ out.passed

(* config.h:116-118: a PGN of no_n2k is not sent on in N2K, whatever the   *)
(* arbitration says.                                                       *)
CutIsCut == Settled /\ Cut(out.flow) => ~ out.passed

=============================================================================

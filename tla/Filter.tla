------------------------------- MODULE Filter -------------------------------
(***************************************************************************)
(* n2k-filter (src/canfilter.c): forwards the frames of can0 to vcan0      *)
(* except those of the list it loaded from the file that n2k-mux           *)
(* publishes.  Once a second at most, on receiving a frame, it compares    *)
(* the file's modification time, in seconds, with the one it noted, and    *)
(* loads the file if they differ.                                          *)
(*                                                                         *)
(* The file is the one of DropSet.  Instead of two times, known says       *)
(* whether they are equal (dmtime = st_mtime), and young whether the       *)
(* file's is the current second: a file replaced twice in one second keeps *)
(* its modification time.                                                  *)
(***************************************************************************)
EXTENDS Naturals, Sequences

CONSTANTS
    AnySrc,      \* the source -1 of a cut PGN
    FDropMax,    \* FDROP_MAX
    None

VARIABLES
    file,       \* the lines of the file
    list,       \* dset
    known,      \* dmtime is the file's modification time
    young,      \* the file's modification time is the current second
    checked,    \* last_check is the current second
    at,         \* where main is
    frame,      \* the frame being handled
    out         \* the last frame of this second and whether it was forwarded

fvars == <<list, known, young, checked, at, frame, out>>

NoFrame == [flow |-> None, passed |-> FALSE]

(* drop_load stops at FDropMax lines.                                      *)
DropLoad == SubSeq(file, 1, IF Len(file) < FDropMax THEN Len(file)
                            ELSE FDropMax)

M_DropHasPgn(flow) == \E i \in DOMAIN list : list[i][1] = flow[1]
M_DropHasFlow(flow) == \E i \in DOMAIN list : list[i] = flow

DropHas(flow) ==
    \E i \in DOMAIN list :
        list[i][1] = flow[1] /\ list[i][2] \in {flow[2], AnySrc}

-----------------------------------------------------------------------------
FInit ==
    /\ list = <<>>
    /\ known = FALSE /\ young = FALSE /\ checked = FALSE
    /\ at = "boot"
    /\ frame = None
    /\ out = NoFrame

(* Before the first frame: load the file, then note its modification time. *)
Boot ==
    /\ at = "boot"
    /\ list' = DropLoad
    /\ at' = "stat"
    /\ UNCHANGED <<known, young, checked, frame, out>>

BootStat ==
    /\ at = "stat"
    /\ known' = TRUE
    /\ at' = "read"
    /\ UNCHANGED <<list, young, checked, frame, out>>

(* A frame arrives; the file is looked at if it was not yet this second.   *)
Read(flow) ==
    /\ at = "read"
    /\ frame' = flow
    /\ checked' = TRUE
    /\ IF ~ checked /\ ~ known
       THEN known' = TRUE /\ at' = "load"
       ELSE known' = known /\ at' = "drop"
    /\ UNCHANGED <<list, young, out>>

Load ==
    /\ at = "load"
    /\ list' = DropLoad
    /\ at' = "drop"
    /\ UNCHANGED <<known, young, checked, frame, out>>

Sort ==
    /\ at = "drop"
    /\ out' = [flow |-> frame, passed |-> ~ DropHas(frame)]
    /\ at' = "read"
    /\ frame' = None
    /\ UNCHANGED <<list, known, young, checked>>

(* n2k-filter is started again; the file may have been written meanwhile.  *)
FRestart ==
    /\ list' = <<>>
    /\ known' = FALSE /\ checked' = FALSE
    /\ at' = "boot"
    /\ frame' = None
    /\ young' \in BOOLEAN
    /\ UNCHANGED out

(* The file system's part: the file is replaced; a second passes.          *)
Replaced ==
    /\ known' = (known /\ young)
    /\ young' = TRUE
    /\ UNCHANGED <<list, checked, at, frame, out>>

FTick ==
    /\ young' = FALSE
    /\ checked' = FALSE
    /\ out' = NoFrame
    /\ UNCHANGED <<list, known, at, frame>>

=============================================================================

------------------------------ MODULE ConfigSave ----------------------------
(***************************************************************************)
(* From the editor of the page to the configuration in force.  The page    *)
(* (src/web.c, handle_config_post) validates the text it is sent, merges   *)
(* it into the file, keeps the file it replaces as .bak, replaces it by    *)
(* rename, and runs the command that sends SIGHUP; n2k-mux (src/daemon.c)  *)
(* sees the signal between two lines of its input and loads the file.      *)
(* Meanwhile somebody may replace the file by hand, and n2k-mux may end    *)
(* and be started again.                                                   *)
(***************************************************************************)
EXTENDS Ini

CONSTANTS
    Files,         \* files written by hand
    Texts,         \* texts that the page is sent
    MaxSaves, MaxEdits

VARIABLES
    file,          \* the file, as its readers see it
    bak,           \* the file .bak
    web,           \* where handle_config_post is
    towrite,       \* to_write
    daemon,        \* where n2k-mux is
    force,         \* the configuration in force, as the text it was read from
    hup,           \* g_reload
    loaded,        \* tmp, as the text that config_load read
    promised,      \* what the page has said to be in force soon
    sent,          \* the text of the last save
    saves, edits   \* how often, up to MaxSaves and MaxEdits

disk == <<file, bak>>
page == <<web, towrite, promised, sent, saves>>
mux == <<daemon, force, hup, loaded>>
svars == <<disk, page, mux, edits>>

Nothing == <<>>

NoPromise == [given |-> FALSE, text |-> Nothing]

SInit ==
    /\ file \in Files /\ Parses(file)
    /\ bak = Nothing
    /\ web = "idle" /\ towrite = Nothing
    /\ daemon = "run" /\ force = file /\ hup = FALSE /\ loaded = Nothing
    /\ promised = NoPromise
    /\ sent = Nothing
    /\ saves = 0 /\ edits = 0

-----------------------------------------------------------------------------
(* The page handles one request at a time.                                 *)

(* The merge is written if it is one and reads again, else the text.       *)
ToWrite(old, text) ==
    LET merged == Merge(old, text)
    IN IF old # Nothing /\ merged \notin {Nothing, Failed} /\ Parses(merged)
       THEN merged ELSE text

Save(text) ==
    /\ web = "idle" /\ saves < MaxSaves
    /\ Parses(text)
    /\ towrite' = ToWrite(file, text)
    /\ sent' = text
    /\ saves' = saves + 1
    /\ web' = "backup"
    /\ UNCHANGED <<disk, promised, mux, edits>>

(* backup_file reads the file once more; it may fail, and writes nothing   *)
(* for an empty one.                                                       *)
Backup ==
    /\ web = "backup"
    /\ bak' \in {bak, file} /\ (file = Nothing => bak' = bak)
    /\ web' = "replace"
    /\ UNCHANGED <<file, towrite, promised, sent, saves, mux, edits>>

Answered == web' = "idle" /\ towrite' = Nothing /\ sent' = Nothing

(* write_file_atomic, or the answer that the file cannot be written.       *)
Replace ==
    /\ web = "replace"
    /\ \/ file' = towrite /\ web' = "signal" /\ promised' = NoPromise
          /\ UNCHANGED <<towrite, sent>>
       \/ Answered /\ UNCHANGED <<file, promised>>
    /\ UNCHANGED <<bak, saves, mux, edits>>

Found == daemon # "down"

(* pkill -HUP finds n2k-mux, or the answer is that nothing was reloaded.   *)
(* (A file that a hand has put there since is none of the page's promise.) *)
Signal ==
    /\ web = "signal"
    /\ IF Found
       THEN /\ hup' = TRUE
            /\ promised' = [given |-> file = towrite, text |-> file]
       ELSE UNCHANGED <<hup, promised>>
    /\ Answered
    /\ UNCHANGED <<disk, saves, daemon, force, loaded, edits>>

-----------------------------------------------------------------------------
(* n2k-mux.  The signal is taken before the file is opened: one that comes *)
(* while the old file is read waits for the next turn.                     *)
NoticeSignal ==
    /\ daemon = "run" /\ hup
    /\ hup' = FALSE
    /\ daemon' = "load"
    /\ UNCHANGED <<disk, page, force, loaded, edits>>

(* config_load: the rename does not disturb who has the old file open.     *)
ReadFile ==
    /\ daemon = "load"
    /\ loaded' = file
    /\ daemon' = "take"
    /\ UNCHANGED <<disk, page, force, hup, edits>>

M_AfterReload == FALSE

AfterReload == hup

(* config_reload: all or nothing.                                          *)
Taken == IF Parses(loaded) THEN loaded ELSE force

Reload ==
    /\ daemon = "take"
    /\ force' = Taken
    /\ hup' = AfterReload
    /\ loaded' = Nothing
    /\ daemon' = "run"
    /\ UNCHANGED <<disk, page, edits>>

End ==
    /\ daemon # "down"
    /\ daemon' = "down" /\ hup' = FALSE /\ loaded' = Nothing
    /\ UNCHANGED <<disk, page, force, edits>>

(* systemd starts it again; with a file that does not read it ends at once *)
(* (n2k-mux.service gives up after ten minutes of that, not modelled).     *)
Start ==
    /\ daemon = "down" /\ Parses(file)
    /\ daemon' = "run" /\ force' = file
    /\ UNCHANGED <<disk, page, hup, loaded, edits>>

(* Somebody replaces the file, and sends no signal.                        *)
EditByHand ==
    /\ edits < MaxEdits /\ edits' = edits + 1
    /\ file' \in Files
    /\ promised' = NoPromise
    /\ UNCHANGED <<bak, web, towrite, sent, saves, mux>>

SNext ==
    \/ \E text \in Texts : Save(text)
    \/ Backup \/ Replace \/ Signal
    \/ NoticeSignal \/ ReadFile \/ Reload \/ End \/ Start
    \/ EditByHand

(* n2k-mux goes round its loop at least once in DAEMON_POLL_MS, the page   *)
(* finishes what it began, and systemd restarts n2k-mux.                   *)
SSpec ==
    /\ SInit /\ [][SNext]_svars
    /\ WF_svars(Backup) /\ WF_svars(Replace) /\ WF_svars(Signal)
    /\ WF_svars(NoticeSignal) /\ WF_svars(ReadFile) /\ WF_svars(Reload)
    /\ WF_svars(Start)

-----------------------------------------------------------------------------
(* What is written loads, and means what was sent: whatever the file was,  *)
(* no key of it comes back, and none of the new text is lost, doubled or   *)
(* moved to another section (web.c: handle_config_post, the merge that     *)
(* does not read again; inimerge.c: ini_merge).                            *)
WrittenMeansSent ==
    web = "backup" => Parses(towrite) /\ Meaning(towrite) = Meaning(sent)

Comments(f) == SelectSeq(f, LAMBDA l : l.kind = "text" /\ l # Empty)

(* The comments after the lines of one key of one section, in their order. *)
NotesOf(f, p) ==
    FoldLeftDomain(LAMBDA ns, i :
        IF f[i].kind = "key" /\ <<SectionAt(f, i), f[i].name>> = p
        THEN Append(ns, f[i].note) ELSE ns, <<>>, f)

OnceEach(f) ==
    \A i, j \in DOMAIN f :
       /\ f[i].kind = "section" /\ f[j].kind = "section"
       /\ Canon(f[i].name) = Canon(f[j].name)
       => i = j

NotesStay(f, text, out) ==
    \A p \in DOMAIN Meaning(f) \cap DOMAIN Meaning(text) :
        LET kept == 1..(IF Len(NotesOf(f, p)) < Len(NotesOf(text, p))
                        THEN Len(NotesOf(f, p)) ELSE Len(NotesOf(text, p)))
        IN \A i \in kept : NotesOf(out, p)[i] = NotesOf(f, p)[i]

(* The merge leaves out, adds and moves no comment; those after a key stay *)
(* with it as long as the text has the key, if the file has each section   *)
(* once (inimerge.h: what is kept as it is; inimerge.c: ini_merge).        *)
CommentsKept ==
    [][(web = "idle" /\ web' = "backup" /\ towrite' # sent')
          => /\ Comments(towrite') = Comments(file)
             /\ OnceEach(file) => NotesStay(file, sent', towrite')]_svars

(* Once the page has answered that the configuration is reloaded, and      *)
(* n2k-mux has nothing left to do for it, it is the one in force, whatever *)
(* signals, loads and restarts came between (daemon.c: main, g_reload).    *)
PromiseHeld ==
    (promised.given /\ daemon = "run" /\ ~hup) => force = promised.text

(* What the page promises n2k-mux does, unless the file is changed again.  *)
PromiseKept ==
    [](promised.given => <>(force = promised.text \/ ~promised.given))

=============================================================================

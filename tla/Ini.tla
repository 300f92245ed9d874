--------------------------------- MODULE Ini --------------------------------
(***************************************************************************)
(* The configuration file as text: what n2k-mux reads in it (src/config.c, *)
(* feed) and how the page of n2k-mux-web puts a regenerated text into the  *)
(* file without losing its comments (src/inimerge.c).                      *)
(*                                                                         *)
(* A file is a sequence of lines: the head of a section, a key with its    *)
(* value and the comment after it, or a text, which is a comment, an empty *)
(* line or something that nobody understands.  A value that the section    *)
(* refuses is Bad.  Lines fit in the 512 bytes of the readers, and a key   *)
(* is spelled in one way.                                                  *)
(***************************************************************************)
EXTENDS Naturals, Sequences, SequencesExt

CONSTANTS
    MaxEntries,    \* INIM_MAX_ENTRIES
    MaxLines       \* the lines that fit in the buffer of the merge

ASSUME IniAssumption == MaxEntries \in Nat /\ MaxLines \in Nat

Section(name)        == [kind |-> "section", name |-> name, val |-> "", note |-> ""]
Key(name, val, note) == [kind |-> "key", name |-> name, val |-> val, note |-> note]
Text(note)           == [kind |-> "text", name |-> "", val |-> "", note |-> note]

Bad == "bad"
Empty == Text("")
Junk == Text(Bad)

Failed == <<Junk>>

(* section_of and canon_section: the names that mean the same section.     *)
Canon(name) ==
    CASE name \in {"priorities", "priorites"} -> "priority"
      [] name = "rates" -> "rate"
      [] name = "talkers" -> "talker"
      [] name = "sentences" -> "sentence"
      [] OTHER -> name

KnownSections ==
    {"output", "sources", "priority", "ignore", "rate", "talker", "sentence"}

NoSection == ""

(* The section that line i of the file is in, or begins.                   *)
SectionAt(file, i) ==
    LET heads == {j \in 1..i : file[j].kind = "section"}
    IN IF heads = {} THEN NoSection
       ELSE Canon(file[CHOOSE j \in heads : \A k \in heads : k <= j].name)

Entries(file) ==
    FoldLeftDomain(LAMBDA es, i :
        IF file[i].kind = "key"
        THEN Append(es, [sec |-> SectionAt(file, i), key |-> file[i].name,
                         val |-> file[i].val])
        ELSE es, <<>>, file)

-----------------------------------------------------------------------------
(* config_parse_string, config_load: a line without sense or a value that  *)
(* its section refuses ends the reading; other sections are not read.      *)
Parses(file) ==
    \A i \in DOMAIN file :
       /\ file[i] # Junk
       /\ (file[i].kind = "key" /\ SectionAt(file, i) \in KnownSections)
             => file[i].val # Bad

(* What a file means: for each key of each section that is read, the       *)
(* values given to it, in their order.                                     *)
Meaning(file) ==
    LET es == Entries(file)
        places == {<<es[i].sec, es[i].key>> :
                      i \in {j \in DOMAIN es : es[j].sec \in KnownSections}}
        values(p) == SelectSeq(es, LAMBDA e : <<e.sec, e.key>> = p)
    IN [p \in places |-> [i \in DOMAIN values(p) |-> values(p)[i].val]]

-----------------------------------------------------------------------------
(* ini_merge.  acc is what is written so far, and which of the entries of  *)
(* the new text are in it.                                                 *)

SectionsOf(file) ==
    FoldLeft(LAMBDA ss, l :
        IF l.kind # "section" \/ Contains(ss, Canon(l.name)) THEN ss
        ELSE Append(ss, Canon(l.name)), <<>>, file)

Left(es, acc, sec) == {i \in DOMAIN es \ acc.done : es[i].sec = sec}

(* The entry that a line of the old file with that key takes: the first    *)
(* that none has taken.                                                    *)
M_Takes(es, acc, sec, key) == {i \in Left(es, [done |-> {}], sec) : es[i].key = key}

Takes(es, acc, sec, key) == {i \in Left(es, acc, sec) : es[i].key = key}

First(s) == CHOOSE i \in s : \A j \in s : i <= j

(* flush_section.                                                          *)
Flush(es, acc, sec) ==
    FoldLeftDomain(LAMBDA a, i :
        IF i \in Left(es, acc, sec)
        THEN [out |-> Append(a.out, Key(es[i].key, es[i].val, "")),
              done |-> a.done \cup {i}]
        ELSE a, acc, es)

Leave(es, acc, sec) == IF sec = NoSection THEN acc ELSE Flush(es, acc, sec)

(* The line of a key with the value of an entry: its spelling and the      *)
(* comment after it stay.                                                  *)
M_Rewritten(line, entry) == Key(line.name, entry.val, "")

Rewritten(line, entry) == [line EXCEPT !.val = entry.val]

MergeLine(es, old, acc, i) ==
    LET line == old[i]
        sec == IF i = 1 THEN NoSection ELSE SectionAt(old, i - 1)
        taken == Takes(es, acc, sec, line.name)
    IN CASE line.kind = "section" ->
              LET left == Leave(es, acc, sec)
              IN [left EXCEPT !.out = Append(@, line)]
         [] line.kind = "key" /\ taken = {} -> acc
         [] line.kind = "key" /\ taken # {} ->
              [out |-> Append(acc.out, Rewritten(line, es[First(taken)])),
               done |-> acc.done \cup {First(taken)}]
         [] line.kind = "text" -> [acc EXCEPT !.out = Append(@, line)]

(* The sections of the new text that the old one does not have.            *)
AddSection(es, acc, sec) ==
    IF Left(es, acc, sec) = {} THEN acc
    ELSE Flush(es, [acc EXCEPT !.out = @ \o <<Empty, Section(sec)>>], sec)

Merge(old, new) ==
    LET es == Entries(new)
        body == FoldLeftDomain(LAMBDA acc, i : MergeLine(es, old, acc, i),
                               [out |-> <<>>, done |-> {}], old)
        ended == IF old = <<>> THEN body
                 ELSE Leave(es, body, SectionAt(old, Len(old)))
        whole == FoldLeft(LAMBDA acc, sec :
                             IF Contains(SectionsOf(old), sec) THEN acc
                             ELSE AddSection(es, acc, sec),
                          ended, SectionsOf(new))
    IN IF Len(es) <= MaxEntries /\ Len(whole.out) <= MaxLines THEN whole.out
       ELSE Failed

=============================================================================

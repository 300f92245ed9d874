----------------------------- MODULE MCConfigSave ---------------------------
(* Files as hands write them: comments, a section twice or under an alias, *)
(* a key twice, keys before any section, a section nobody reads, a line    *)
(* without sense.  Texts as the page generates them, one of them too long. *)
EXTENDS ConfigSave

HeadNote == Text("head")
TailNote == Text("tail")

MCFiles ==
    {<<>>,
     <<HeadNote, Section("priority"), Key("a", "1", "why"), Key("b", "1", ""), TailNote>>,
     <<Section("priorities"), Key("a", "1", ""), Section("rate"), HeadNote,
       Key("a", "2", "slow"), Section("priority"), Key("b", "2", "")>>,
     <<Key("a", "1", ""), Section("rates"), Key("a", "1", ""), Key("a", "2", "twice")>>,
     <<Section("x"), Key("a", Bad, ""), HeadNote, Section("rate"), Key("b", "1", "")>>,
     <<Section("rate"), Junk, Key("a", "1", "")>>}

MCTexts ==
    LET text(p, r) == <<Section("priority")>> \o p \o <<Section("rate")>> \o r
        a == <<Key("a", "1", "")>>
        b == <<Key("b", "2", "")>>
        twice == <<Key("a", "2", ""), Key("a", "1", "")>>
    IN {text(a, b), text(b, a), text(<<>>, twice), text(twice, b), text(a \o b, <<>>),
        text(<<>>, <<>>), text(a \o b, twice), text(<<>>, <<Key("a", Bad, "")>>)}

=============================================================================

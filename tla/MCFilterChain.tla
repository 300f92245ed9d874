--------------------------- MODULE MCFilterChain ---------------------------
(* Wind from two sources, ranked one way or the other.                     *)
EXTENDS FilterChain, TLC

CONSTANTS a1, a2, ser1, ser2, mad, scx, wind, rot

App == <<"apparent">>
MCWords == {"apparent"}

MCNameOf == (ser1 :> mad) @@ (ser2 :> scx)

MCConfig(rules, cut) ==
    [rules |-> rules, nameOf |-> MCNameOf,
     ignoreSrc |-> {}, ignorePgn |-> {}, noN2k |-> cut, no0183 |-> {}]

MCWind(d, names) ==
    [pgn |-> wind, disc |-> d, pick |-> "priority", sources |-> names]

MCRanked == MCConfig(<< MCWind(<<>>, <<mad, scx>>) >>, <<>>)
MCOnlyScx == MCConfig(<< MCWind(<<>>, <<scx>>) >>, <<>>)
MCCutToo == MCConfig(<< MCWind(<<>>, <<mad, scx>>) >>, <<wind>>)

MCConfigs == {MCRanked, MCOnlyScx, MCCutToo}
MCCut == {MCCutToo}

MCEmitsWind == (a1 :> {<<wind, App>>}) @@ (a2 :> {<<wind, App>>})

=============================================================================

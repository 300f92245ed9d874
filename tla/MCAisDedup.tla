----------------------------- MODULE MCAisDedup -----------------------------
(* Two receivers of the same ships: both ranked, or one of them unknown to *)
(* the rules, or no rule at all.                                           *)
EXTENDS AisDedup, TLC

CONSTANTS ser1, ser2, emtrak, datahub, pos, stat

MCConfig(rules, cut) ==
    [rules |-> rules, nameOf |-> (ser1 :> emtrak) @@ (ser2 :> datahub),
     ignoreSrc |-> {}, ignorePgn |-> {}, noN2k |-> <<>>, no0183 |-> cut]

MCFusion(p, names) ==
    [pgn |-> p, disc |-> <<>>, pick |-> "fusion", sources |-> names]

MCConfigs ==
    {MCConfig(<<MCFusion(pos, <<datahub, emtrak>>),
                MCFusion(stat, <<datahub, emtrak>>)>>, {}),
     MCConfig(<<>>, {pos})}

MCWords == {"sea"}
MCReach == {<<0, 1>>, <<1, 1>>, <<0, 2>>}

=============================================================================

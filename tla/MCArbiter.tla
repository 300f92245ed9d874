----------------------------- MODULE MCArbiter -----------------------------
(* Wind with a rule per reference and a fall-back, depth under min, and    *)
(* two configurations that rank the two sources the other way round.       *)
EXTENDS Arbiter, TLC

CONSTANTS a1, a2, a3, ser1, ser2, ser3, mad, scx, ver,
          wind, depth, rot, control

App == <<"apparent">>
Tru == <<"true">>
TruBoat == <<"true", "boat">>

MCRuleOf(p, d, k, s) == [pgn |-> p, disc |-> d, pick |-> k, sources |-> s]

(* Only the identities in play have an entry.                              *)
MCNameOf == [i \in Idents |-> IF i = ser1 THEN mad
                              ELSE IF i = ser2 THEN scx ELSE ver]

MCWindDepth ==
    [rules |-> << MCRuleOf(wind, <<>>, "min", <<mad>>),
                  MCRuleOf(wind, Tru, "priority", <<mad, scx, ver>>),
                  MCRuleOf(depth, <<>>, "min", <<scx, mad>>) >>,
     nameOf |-> MCNameOf, ignoreSrc |-> {}, ignorePgn |-> {rot}, noN2k |-> <<>>, no0183 |-> {}]

MCSwapped ==
    [rules |-> << MCRuleOf(wind, <<>>, "priority", <<scx, mad>>) >>,
     nameOf |-> [MCNameOf EXCEPT ![ser2] = None],
     ignoreSrc |-> {}, ignorePgn |-> {}, noN2k |-> <<>>, no0183 |-> {}]

MCConfigs == {MCWindDepth, MCSwapped}

(* Two sources of every kind of message.                                   *)
MCEmitsTwo ==
    (a1 :> {<<wind, App>>, <<wind, TruBoat>>, <<depth, <<>>>>}) @@
    (a2 :> {<<wind, TruBoat>>, <<rot, <<>>>>, <<control, <<>>>>})

MCWords == {"apparent", "true", "boat"}

=============================================================================

------------------------------ MODULE MCLosers ------------------------------
(* Sources of one PGN, some of them with two references.                   *)
EXTENDS Losers, TLC

CONSTANTS wind, Sources, app, tru, gnd

MCFlows == {wind} \X Sources
MCCut == <<wind>>
MCSymmetry == Permutations(Sources) \cup Permutations(Discs)

=============================================================================

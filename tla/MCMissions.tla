----------------------------- MODULE MCMissions ------------------------------
(* Three of the eight nodes: two branches that join in the evidence. *)
EXTENDS Missions

CONSTANTS performance, formal, evidence, w1, w2

ThreeRoles == <<performance, formal, evidence>>
Join ==
  [n \in {performance, formal, evidence} |->
     IF n = evidence THEN {performance, formal} ELSE {}]
OnlyFormal == {formal}
TwoWorkers == {w1, w2}
=============================================================================

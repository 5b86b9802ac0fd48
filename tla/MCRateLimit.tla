---------------------------- MODULE MCRateLimit ----------------------------
(* RateLimit with small policies, for TLC. *)
EXTENDS RateLimit

\* Two attempts in two ticks, three in three.
MCLimit == [w \in Window |-> IF w = "minute" THEN 2 ELSE 3]
MCLength == [w \in Window |-> IF w = "minute" THEN 2 ELSE 3]
=============================================================================

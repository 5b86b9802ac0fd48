----------------------------- MODULE MCGateway -----------------------------
(* Gateway with one node and two requests, for TLC. *)
EXTENDS Gateway

CONSTANTS r1, r2

MCFiles == <<"0000_engine_init.sql", "0001.sql">>
=============================================================================

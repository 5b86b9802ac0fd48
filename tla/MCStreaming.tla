---------------------------- MODULE MCStreaming ----------------------------
(* StreamingDispatch with two requests, for TLC. *)
EXTENDS StreamingDispatch

CONSTANTS r1, r2

\* Only the workers fail.
NoFaults == [r \in Request |-> {}]

\* r1 has a wallet to rely on; everything goes wrong for r2, with which it
\* shares the balance, the circuits and the process.
MixedFaults ==
    [r \in Request |->
        IF r = r2 THEN {"wallet", "ratecard", "audit", "db", "registry", "payer", "client"}
        ELSE {"db", "audit", "crash", "registry", "quote", "client"}]
=============================================================================

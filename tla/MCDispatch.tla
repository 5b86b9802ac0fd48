----------------------------- MODULE MCDispatch -----------------------------
(* Dispatch with two requests, for TLC. *)
EXTENDS Dispatch

CONSTANTS r1, r2

\* Besides the answers of workers and daemons, only the token audit varies.
AuditFaults == [r \in Request |-> {"audit"}]

\* Everything goes wrong for r2, and the token audit for r1, which shares the
\* caller's balance, and the process, with it.
MixedFaults ==
    [r \in Request |->
        IF r = r2 THEN {"wallet", "db", "audit", "crash", "ratecard"} ELSE {"audit"}]
=============================================================================

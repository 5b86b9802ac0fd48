----------------------------- MODULE Settlement -----------------------------
(***************************************************************************)
(* What the engine promises of a request's money, whichever dispatcher     *)
(* serves it: the lifecycle "reserve -> commit OR reserve -> refund" of    *)
(* src/interfaces/wallet.ts, and the answer that may be given at each of   *)
(* its stages.  An abstract specification: Dispatch and StreamingDispatch  *)
(* implement it.                                                           *)
(***************************************************************************)
CONSTANTS Request

VARIABLES
    ledger,     \* the state of the request's reservation
    reply       \* what the client was told

vars == <<ledger, reply>>

Init ==
    /\ ledger = [r \in Request |-> "none"]
    /\ reply = [r \in Request |-> "pending"]

Set(f, r, v) == f' = [f EXCEPT ![r] = v]

\* Money is set aside at most once, before the client hears anything.
Open(r) ==
    /\ ledger[r] = "none" /\ reply[r] = "pending"
    /\ Set(ledger, r, "open")
    /\ UNCHANGED reply

Commit(r) ==
    /\ ledger[r] = "open" /\ reply[r] = "pending"
    /\ Set(ledger, r, "committed")
    /\ UNCHANGED reply

\* A refund may come with the error that caused it.
Refund(r) ==
    /\ ledger[r] = "open" /\ reply[r] = "pending"
    /\ Set(ledger, r, "refunded")
    /\ Set(reply, r, "error") \/ UNCHANGED reply

\* The answer comes once, when the money is settled; a success is not free
\* of charge: nothing was reserved or it was committed.
Answer(r, a) ==
    /\ reply[r] = "pending" /\ ledger[r] # "open"
    /\ a = "ok" => ledger[r] # "refunded"
    /\ Set(reply, r, a)
    /\ UNCHANGED ledger

Next ==
    \E r \in Request :
        \/ Open(r) \/ Commit(r) \/ Refund(r)
        \/ \E a \in {"ok", "error"} : Answer(r, a)

Spec == Init /\ [][Next]_vars
=============================================================================

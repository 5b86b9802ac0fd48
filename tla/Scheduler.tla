----------------------------- MODULE Scheduler -----------------------------
(***************************************************************************)
(* Timers as the probe loops use them (src/service/routing/scheduler.ts):  *)
(* schedule(cb, delay) arms a timer and returns a handle; when the timer   *)
(* fires, the callback runs until its awaits are over; cancel() disarms a  *)
(* timer that has not fired and does nothing otherwise.                    *)
(*                                                                         *)
(* A loop keeps the handle of the timer it armed last and no other.  The   *)
(* timers of one loop are a record: whether the kept handle is that of an  *)
(* armed timer, how many armed timers no handle reaches, and how many      *)
(* callbacks are suspended at an await.                                    *)
(***************************************************************************)
EXTENDS Naturals

Timers == [kept : BOOLEAN, strays : Nat, firing : Nat]

noTimers == [kept |-> FALSE, strays |-> 0, firing |-> 0]

\* schedule, and its handle stored over the one kept so far.
Schedule(t) ==
    [kept   |-> TRUE,
     strays |-> IF t.kept THEN t.strays + 1 ELSE t.strays,
     firing |-> t.firing]

\* cancel() on the kept handle; clearTimeout of a fired timer is a no-op.
Cancel(t) == [t EXCEPT !.kept = FALSE]

Armed(t) == t.kept \/ t.strays > 0

\* An armed timer fires: the kept one, or one that no handle reaches.
FireKept(t) == [kept |-> FALSE, strays |-> t.strays, firing |-> t.firing + 1]
FireStray(t) == [kept |-> t.kept, strays |-> t.strays - 1, firing |-> t.firing + 1]

\* u: the timers after one of the armed timers t has fired.
Fires(t, u) ==
    \/ t.kept /\ u = FireKept(t)
    \/ t.strays > 0 /\ u = FireStray(t)

\* A callback is over.
Returned(t) == [t EXCEPT !.firing = @ - 1]

\* The callbacks that are armed or under way: each will re-arm itself as long
\* as the loop is on.
Chains(t) == (IF t.kept THEN 1 ELSE 0) + t.strays + t.firing
=============================================================================

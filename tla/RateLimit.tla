----------------------------- MODULE RateLimit -----------------------------
(***************************************************************************)
(* The rate limiter of src/service/rateLimit for one caller (callers share *)
(* no key), and the preHandler of                                          *)
(* src/runtime/http/middleware/rateLimit.ts that calls it.                 *)
(*                                                                         *)
(* Redis holds a sorted set per window, with the times of the attempts it  *)
(* allowed, and the counter of the caller's concurrent requests.  A script *)
(* is one atomic step of Redis; everything else interleaves at the awaits  *)
(* of check and release.  Any Redis call may be rejected, with or without  *)
(* its effect; the limiter then fails open.                                *)
(*                                                                         *)
(* Time is a tick.  Redis' clock and the gateway's `now' run at one speed, *)
(* so a sorted set is how many members it has of each age, where the last  *)
(* age, Length[w], stands for every age that the next script purges.       *)
(*                                                                         *)
(* Bounds: each kind of fault happens at most once, MaxFaults in all.      *)
(***************************************************************************)
EXTENDS Integers, FiniteSets, Functions

CONSTANTS
    Request,        \* requests the caller has in flight at most
    Concurrent,     \* policy.concurrent
    Limit,          \* policy.perMinute and policy.perDay
    Length,         \* the ticks of a minute and of a day
    Ttl,            \* SEMAPHORE_TTL_SECONDS in ticks
    Faulty,         \* what may go wrong, once each
    MaxFaults

Window == {"minute", "day"}

\* A Redis command of check or release is rejected; the client leaves during
\* check; a request outlives the counter's key; the gateway dies.
FaultKind ==
    {"windows", "incr", "expire", "undo", "release", "client", "outlive", "crash"}

ASSUME RateLimitAssumption ==
    /\ IsFiniteSet(Request)
    /\ Concurrent \in Nat
    /\ Limit \in [Window -> Nat]
    /\ Length \in [Window -> Nat \ {0}]
    /\ Length["minute"] <= Length["day"]
    /\ Ttl \in Nat \ {0}
    /\ Faulty \subseteq FaultKind
    /\ MaxFaults \in Nat

VARIABLES
    zset,       \* zset[w][a]: members of age a in the sorted set of window w
    counter,    \* the value of the concurrency key, 0 if there is none
    ttl,        \* its remaining life: Absent, 1 .. Ttl or NoExpiry
    pc,         \* where check, the response or release of a request stands
    over,       \* INCR returned more than policy.concurrent
    failedOpen, \* req.rateLimit.failedOpen
    gone,       \* the connection closed before the listener was attached
    passed,     \* history: ages of the checks that both windows allowed
    faulted     \* the faults that happened

redisVars == <<zset, counter, ttl>>
reqVars == <<pc, over, failedOpen, gone>>
vars == <<redisVars, reqVars, passed, faulted>>

Absent == 0
NoExpiry == Ttl + 1

\* incr, expire, undo: in check, before that command.  open: the preHandler is
\* done, the request is dispatched and its response is open.
Pc == {"idle", "incr", "expire", "undo", "open", "releasing"}

\* The requests that the concurrency limit let through.
Admitted == {r \in Request : pc[r] = "open" /\ ~failedOpen[r]}

\* The requests that took a slot and have not given it back.
Owners == Admitted \cup {r \in Request : pc[r] \in {"expire", "undo", "releasing"}}

TypeOK ==
    /\ \A w \in Window : zset[w] \in [0 .. Length[w] -> Nat]
    /\ counter \in Nat
    /\ ttl \in Absent .. NoExpiry
    /\ pc \in [Request -> Pc]
    /\ over \in [Request -> BOOLEAN]
    /\ failedOpen \in [Request -> BOOLEAN]
    /\ gone \in [Request -> BOOLEAN]
    /\ passed \in [0 .. Length["day"] -> Nat]
    /\ faulted \subseteq Faulty
    /\ ttl = Absent => counter = 0

Init ==
    /\ zset = [w \in Window |-> [a \in 0 .. Length[w] |-> 0]]
    /\ counter = 0
    /\ ttl = Absent
    /\ pc = [r \in Request |-> "idle"]
    /\ over = [r \in Request |-> FALSE]
    /\ failedOpen = [r \in Request |-> FALSE]
    /\ gone = [r \in Request |-> FALSE]
    /\ passed = [a \in 0 .. Length["day"] |-> 0]
    /\ faulted = {}

Fault(kind) ==
    /\ kind \in Faulty \ faulted
    /\ Cardinality(faulted) < MaxFaults
    /\ faulted' = faulted \cup {kind}

----------------------------------------------------------------------------
(* The Redis commands *)

\* SLIDING_WINDOW_SCRIPT: purge, count, add the attempt if there is room.
\* (PEXPIRE drops a set whose newest member is old enough to be purged.)
Total(ages) == SumFunction(ages)

Add(ages) == [ages EXCEPT ![0] = @ + 1]

\* Mutation: purges with the wrong end of the window.
PurgedEarly(w) == [zset[w] EXCEPT ![Length[w]] = 0, ![Length[w] - 1] = 0]

Purged(w) == [zset[w] EXCEPT ![Length[w]] = 0]

Allowed(w) == Total(Purged(w)) < Limit[w]

checkWindow(w) == IF Allowed(w) THEN Add(Purged(w)) ELSE Purged(w)

\* INCR creates the key without an expiry.
RedisIncr ==
    /\ counter' = counter + 1
    /\ ttl' = IF ttl = Absent THEN NoExpiry ELSE ttl

\* Mutation: EXPIRE ... GT, which never applies to a key without an expiry.
RedisExpireGT ==
    /\ ttl' = IF ttl \in 1 .. Ttl THEN Ttl ELSE ttl
    /\ UNCHANGED counter

RedisExpire ==
    /\ ttl' = IF ttl = Absent THEN Absent ELSE Ttl
    /\ UNCHANGED counter

\* Mutation: a plain DECR, which goes below zero.
RedisDecrPlain ==
    /\ counter' = counter - 1
    /\ ttl' = IF ttl = Absent THEN NoExpiry ELSE ttl

\* DECR_BOUNDED_SCRIPT.
RedisDecr ==
    /\ counter' = IF counter <= 0 THEN 0 ELSE counter - 1
    /\ UNCHANGED ttl

\* A rejected command may have reached Redis.
RedisUnknown(command) == command \/ UNCHANGED <<counter, ttl>>

----------------------------------------------------------------------------
(* check *)

Goto(r, label) == pc' = [pc EXCEPT ![r] = label]

\* check returned: headers are set and the close listener is attached.
Open(r, failed) ==
    /\ Goto(r, "open")
    /\ failedOpen' = [failedOpen EXCEPT ![r] = failed]
    /\ over' = [over EXCEPT ![r] = FALSE]
    /\ UNCHANGED gone

\* The request is over: answered 429, or its slot is not its own any more.
Done(r) ==
    /\ Goto(r, "idle")
    /\ over' = [over EXCEPT ![r] = FALSE]
    /\ failedOpen' = [failedOpen EXCEPT ![r] = FALSE]
    /\ gone' = [gone EXCEPT ![r] = FALSE]

\* A new request.  Both scripts run, whatever the other one decides; a 429
\* changes nothing else.
CheckWindows(r) ==
    /\ pc[r] = "idle"
    /\ zset' = [w \in Window |-> checkWindow(w)]
    /\ \/ /\ \A w \in Window : Allowed(w)
          /\ Goto(r, "incr")
          /\ passed' = Add(passed)
       \/ /\ \E w \in Window : ~Allowed(w)
          /\ UNCHANGED <<pc, passed>>
    /\ UNCHANGED <<counter, ttl, over, failedOpen, gone, faulted>>

\* Promise.all rejects: each script may have run or not.
WindowsFail(r) ==
    /\ pc[r] = "idle"
    /\ Fault("windows")
    /\ \E ran \in SUBSET Window :
          zset' = [w \in Window |-> IF w \in ran THEN checkWindow(w) ELSE zset[w]]
    /\ Open(r, TRUE)
    /\ UNCHANGED <<counter, ttl, passed>>

\* acquireSlot: INCR, EXPIRE, and DECR if the count is above the limit.
Incr(r) ==
    /\ pc[r] = "incr"
    /\ RedisIncr
    /\ over' = [over EXCEPT ![r] = counter' > Concurrent]
    /\ Goto(r, "expire")
    /\ UNCHANGED <<zset, failedOpen, gone, passed, faulted>>

IncrFails(r) ==
    /\ pc[r] = "incr"
    /\ Fault("incr")
    /\ RedisUnknown(RedisIncr)
    /\ Open(r, TRUE)
    /\ UNCHANGED <<zset, passed>>

Expire(r) ==
    /\ pc[r] = "expire"
    /\ RedisExpire
    /\ IF over[r] THEN Goto(r, "undo") /\ UNCHANGED <<over, failedOpen, gone>>
                  ELSE Open(r, FALSE)
    /\ UNCHANGED <<zset, passed, faulted>>

\* The slot just taken is never given back.
ExpireFails(r) ==
    /\ pc[r] = "expire"
    /\ Fault("expire")
    /\ RedisUnknown(RedisExpire)
    /\ Open(r, TRUE)
    /\ UNCHANGED <<zset, passed>>

\* Mutation: answers 429 without giving the slot back.
UndoForgotten(r) ==
    /\ pc[r] = "undo"
    /\ UNCHANGED <<counter, ttl>>
    /\ Done(r)
    /\ UNCHANGED <<zset, passed, faulted>>

\* Answered 429, kind concurrent.
Undo(r) ==
    /\ pc[r] = "undo"
    /\ RedisDecr
    /\ Done(r)
    /\ UNCHANGED <<zset, passed, faulted>>

\* The request is above the limit and yet let through, failed open.
UndoFails(r) ==
    /\ pc[r] = "undo"
    /\ Fault("undo")
    /\ RedisUnknown(RedisDecr)
    /\ Open(r, TRUE)
    /\ UNCHANGED <<zset, passed>>

----------------------------------------------------------------------------
(* The connection, and release *)

\* The client leaves during check: its close event has no listener yet.
ClientLeaves(r) ==
    /\ pc[r] \in {"incr", "expire", "undo"}
    /\ ~gone[r]
    /\ Fault("client")
    /\ gone' = [gone EXCEPT ![r] = TRUE]
    /\ UNCHANGED <<redisVars, pc, over, failedOpen, passed>>

\* Mutation: releases also what it never acquired.
ReleasesFailedOpen(r) == ~gone[r]

\* A response emits close once.  release does nothing for a request that
\* failed open.
Releases(r) == ~gone[r] /\ ~failedOpen[r]

\* The response was sent, or the client left: the dispatch is over.
ResponseCloses(r) ==
    /\ pc[r] = "open"
    /\ IF Releases(r) THEN Goto(r, "releasing") /\ UNCHANGED <<over, failedOpen, gone>>
                      ELSE Done(r)
    /\ UNCHANGED <<redisVars, passed, faulted>>

Release(r) ==
    /\ pc[r] = "releasing"
    /\ RedisDecr
    /\ Done(r)
    /\ UNCHANGED <<zset, passed, faulted>>

ReleaseFails(r) ==
    /\ pc[r] = "releasing"
    /\ Fault("release")
    /\ RedisUnknown(RedisDecr)
    /\ Done(r)
    /\ UNCHANGED <<zset, passed>>

----------------------------------------------------------------------------
(* Environment *)

Aged(ages) ==
    LET last == Cardinality(DOMAIN ages) - 1
    IN  [a \in DOMAIN ages |->
           IF a = 0 THEN 0 ELSE IF a = last THEN ages[a] + ages[a - 1] ELSE ages[a - 1]]

\* The key of the counter expires when its life is over.
TimePasses ==
    /\ IF ttl = 1 /\ Owners # {} THEN Fault("outlive") ELSE UNCHANGED faulted
    /\ zset' = [w \in Window |-> Aged(zset[w])]
    /\ passed' = [Aged(passed) EXCEPT ![Length["day"]] = 0]
    /\ ttl' = IF ttl \in 1 .. Ttl THEN ttl - 1 ELSE ttl
    /\ counter' = IF ttl = 1 THEN 0 ELSE counter
    /\ UNCHANGED reqVars

\* The gateway dies: Redis remembers the slots of its requests.
Crash ==
    /\ Fault("crash")
    /\ pc' = [r \in Request |-> "idle"]
    /\ over' = [r \in Request |-> FALSE]
    /\ failedOpen' = [r \in Request |-> FALSE]
    /\ gone' = [r \in Request |-> FALSE]
    /\ UNCHANGED <<redisVars, passed>>

Step(r) == Incr(r) \/ Expire(r) \/ Undo(r) \/ ResponseCloses(r) \/ Release(r)

RedisFails(r) ==
    WindowsFail(r) \/ IncrFails(r) \/ ExpireFails(r) \/ UndoFails(r) \/ ReleaseFails(r)

Next ==
    \/ \E r \in Request : CheckWindows(r) \/ Step(r) \/ RedisFails(r) \/ ClientLeaves(r)
    \/ TimePasses
    \/ Crash

\* Redis answers or rejects, a dispatch ends, and time passes.  No request has
\* to arrive.
Fairness ==
    /\ WF_vars(TimePasses)
    /\ \A r \in Request : WF_vars(Step(r))

Spec == Init /\ [][Next]_vars /\ Fairness

----------------------------------------------------------------------------
(* Properties *)

\* The limiter never lets more requests through at a time than the policy
\* says: concurrent checks that overshoot the counter, slots given back twice,
\* late or never, requests that failed open and crashes included.  (A request
\* that outlives the key is forgotten, and later takes another's slot along.)
CapHolds == "outlive" \notin faulted => Cardinality(Admitted) <= Concurrent

\* As long as nothing went wrong every slot taken is some request's: neither a
\* 429 nor a release loses or invents one.
SlotsAccounted == faulted = {} => counter = Cardinality(Owners)

\* In no minute and no day do more attempts get past the windows than the
\* policy says, although the two sets are purged and filled independently and
\* record attempts that the other one refused.
WindowHolds ==
    \A w \in Window : SumFunctionOnSet(passed, 0 .. Length[w] - 1) <= Limit[w]

Quiet == \A r \in Request : pc[r] = "idle"

\* A caller that stops finds all its slots free later: what a missed close or
\* a failed DECR left behind expires with the key.  (A key whose EXPIRE did not
\* happen stays.)
SlotsReturn ==
    <>[]Quiet => <>[](counter = 0 \/ faulted \cap {"incr", "expire", "crash"} # {})

\* The safety net of the expiry catches orphaned slots.  (Fails: each attempt,
\* also one that is refused because of the orphan, renews the expiry.)
OrphansExpire == counter > Cardinality(Owners) ~> counter <= Cardinality(Owners)
=============================================================================

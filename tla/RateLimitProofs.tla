-------------------------- MODULE RateLimitProofs --------------------------
(***************************************************************************)
(* Proofs about the rate limiter, for every number of requests, every      *)
(* policy, and every choice of what goes wrong.                            *)
(***************************************************************************)
EXTENDS RateLimit, Sums

\* Where a request stands determines its flags.
Flags ==
    \A r \in Request :
        /\ failedOpen[r] => pc[r] = "open"
        /\ over[r] => pc[r] \in {"expire", "undo"}
        /\ gone[r] => pc[r] \in {"incr", "expire", "undo", "open"} /\ faulted # {}

\* The requests that are, or will be, let through: INCR has decided.
Destined == Admitted \cup {r \in Request : pc[r] = "expire" /\ ~over[r]}

\* The counter covers every slot in use, unless the key went away under one.
Covered == "outlive" \notin faulted => Cardinality(Owners) <= counter

DestinedFit == "outlive" \notin faulted => Cardinality(Destined) <= Concurrent

SlotInv == TypeOK /\ Flags /\ Covered /\ DestinedFit /\ SlotsAccounted

----------------------------------------------------------------------------
(* Types *)

\* A subset of a finite set is finite and no larger.
LEMMA CountBelow ==
    ASSUME NEW S, NEW T, IsFiniteSet(T), S \subseteq T
    PROVE  /\ IsFiniteSet(S)
           /\ Cardinality(S) \in Nat
           /\ Cardinality(T) \in Nat
           /\ Cardinality(S) <= Cardinality(T)
  BY FS_Subset, FS_CardinalityType

\* What the commands do to the counter's key: the type and the fact that an
\* absent key counts nothing.
KeyOK(c, t) == c \in Nat /\ t \in Absent .. NoExpiry /\ (t = Absent => c = 0)

\* Every command keeps the counter a natural number, 0 without a key.
LEMMA KeyCommands ==
    ASSUME KeyOK(counter, ttl), RateLimitAssumption,
           RedisIncr \/ RedisExpire \/ RedisDecr \/ UNCHANGED <<counter, ttl>>
    PROVE  KeyOK(counter', ttl')
  <1>1. Ttl \in Nat \ {0}
    BY DEF RateLimitAssumption
  <1>2. CASE RedisIncr
    BY <1>1, <1>2 DEF KeyOK, RedisIncr, Absent, NoExpiry
  <1>3. CASE RedisExpire
    BY <1>1, <1>3 DEF KeyOK, RedisExpire, Absent, NoExpiry
  <1>4. CASE RedisDecr
    BY <1>1, <1>4 DEF KeyOK, RedisDecr, Absent, NoExpiry
  <1>5. CASE UNCHANGED <<counter, ttl>>
    BY <1>5 DEF KeyOK
  <1>. QED BY <1>2, <1>3, <1>4, <1>5

\* Ages: adding, purging and growing older keep a histogram a histogram.
LEMMA AgesType ==
    ASSUME NEW n \in Nat \ {0}, NEW ages \in [0 .. n -> Nat]
    PROVE  /\ Add(ages) \in [0 .. n -> Nat]
           /\ [ages EXCEPT ![n] = 0] \in [0 .. n -> Nat]
           /\ Aged(ages) \in [0 .. n -> Nat]
  <1>1. Cardinality(DOMAIN ages) - 1 = n
    BY FS_Interval
  <1>2. \A a \in 0 .. n : a # 0 => a - 1 \in 0 .. n
    OBVIOUS
  <1>. QED BY <1>1, <1>2 DEF Add, Aged

\* SLIDING_WINDOW_SCRIPT keeps a sorted set one.
LEMMA CheckedType ==
    ASSUME TypeOK, RateLimitAssumption, NEW w \in Window
    PROVE  checkWindow(w) \in [0 .. Length[w] -> Nat]
  <1>1. Length[w] \in Nat \ {0} /\ zset[w] \in [0 .. Length[w] -> Nat]
    BY DEF TypeOK, RateLimitAssumption
  <1>2. Purged(w) \in [0 .. Length[w] -> Nat]
    BY <1>1, AgesType DEF Purged
  <1>. QED BY <1>1, <1>2, AgesType DEF checkWindow

\* Every step keeps the types.
LEMMA TypeStep ==
    ASSUME TypeOK, RateLimitAssumption, [Next]_vars
    PROVE  TypeOK'
  <1>. USE DEF KeyOK
  <1>1. KeyOK(counter, ttl) /\ Length["day"] \in Nat \ {0}
    BY DEF TypeOK, RateLimitAssumption, Window
  <1>2. KeyOK(counter', ttl')
    <2>1. CASE TimePasses
      <3>1. Ttl \in Nat \ {0}
        BY DEF RateLimitAssumption
      <3>. QED BY <1>1, <2>1, <3>1 DEF TimePasses, Absent, NoExpiry
    <2>2. CASE ~TimePasses
      <3>1. RedisIncr \/ RedisExpire \/ RedisDecr \/ UNCHANGED <<counter, ttl>>
        BY <2>2 DEF Next, Step, RedisFails, vars, redisVars, CheckWindows, WindowsFail,
              Incr, IncrFails, Expire, ExpireFails, Undo, UndoFails, ClientLeaves,
              ResponseCloses, Release, ReleaseFails, Crash, RedisUnknown
      <3>. QED BY <1>1, <3>1, KeyCommands
    <2>. QED BY <2>1, <2>2
  <1>3. \A w \in Window : zset'[w] \in [0 .. Length[w] -> Nat]
    <2>1. CASE UNCHANGED zset
      BY <2>1 DEF TypeOK
    <2>2. CASE \E r \in Request : CheckWindows(r) \/ WindowsFail(r)
      <3>1. \A w \in Window : zset'[w] \in {zset[w], checkWindow(w)}
        BY <2>2 DEF CheckWindows, WindowsFail
      <3>. QED BY <3>1, CheckedType DEF TypeOK
    <2>3. CASE TimePasses
      <3>1. SUFFICES ASSUME NEW w \in Window
                     PROVE  Aged(zset[w]) \in [0 .. Length[w] -> Nat]
        BY <2>3 DEF TimePasses
      <3>2. Length[w] \in Nat \ {0} /\ zset[w] \in [0 .. Length[w] -> Nat]
        BY DEF TypeOK, RateLimitAssumption
      <3>. QED BY <3>2, AgesType
    <2>. QED BY <2>1, <2>2, <2>3 DEF Next, Step, RedisFails, vars, redisVars, Incr,
                IncrFails, Expire, ExpireFails, Undo, UndoFails, ClientLeaves,
                ResponseCloses, Release, ReleaseFails, Crash
  <1>4. passed' \in [0 .. Length["day"] -> Nat]
    <2>1. CASE UNCHANGED passed
      BY <2>1 DEF TypeOK
    <2>2. CASE passed' = Add(passed)
      BY <1>1, <2>2, AgesType DEF TypeOK
    <2>3. CASE TimePasses
      BY <1>1, <2>3, AgesType DEF TypeOK, TimePasses
    <2>. QED BY <2>1, <2>2, <2>3 DEF Next, Step, RedisFails, vars, CheckWindows,
                WindowsFail, Incr, IncrFails, Expire, ExpireFails, Undo, UndoFails,
                ClientLeaves, ResponseCloses, Release, ReleaseFails, Crash
  <1>5. faulted' \subseteq Faulty
    BY DEF TypeOK, Next, Step, RedisFails, vars, CheckWindows, WindowsFail, Incr,
           IncrFails, Expire, ExpireFails, Undo, UndoFails, ClientLeaves,
           ResponseCloses, Release, ReleaseFails, Crash, TimePasses, Fault
  <1>6. /\ pc' \in [Request -> Pc]
        /\ over' \in [Request -> BOOLEAN]
        /\ failedOpen' \in [Request -> BOOLEAN]
        /\ gone' \in [Request -> BOOLEAN]
    <2>1. CASE UNCHANGED reqVars
      BY <2>1 DEF TypeOK, reqVars
    <2>2. CASE Crash
      BY <2>2 DEF Crash, Pc
    <2>3. CASE \E r \in Request : Open(r, TRUE) \/ Open(r, FALSE) \/ Done(r)
      BY <2>3 DEF TypeOK, Pc, Goto, Open, Done
    <2>4. CASE \E r \in Request, above \in BOOLEAN :
                  /\ Goto(r, "expire") /\ over' = [over EXCEPT ![r] = above]
                  /\ UNCHANGED <<failedOpen, gone>>
      BY <2>4 DEF TypeOK, Pc, Goto
    <2>8. CASE \E r \in Request : Incr(r)
      <3>1. PICK r \in Request : Incr(r)
        BY <2>8
      <3>2. (counter' > Concurrent) \in BOOLEAN
        OBVIOUS
      <3>. QED BY <3>1, <3>2, <2>4 DEF Incr
    <2>9. CASE \E r \in Request : ClientLeaves(r)
      BY <2>9 DEF TypeOK, ClientLeaves
    <2>5. CASE \E r \in Request, label \in Pc :
                  Goto(r, label) /\ UNCHANGED <<over, failedOpen, gone>>
      BY <2>5 DEF TypeOK, Pc, Goto
    <2>6. CASE \E r \in Request : CheckWindows(r)
      BY <2>6, <2>1, <2>5 DEF CheckWindows, reqVars, Pc
    <2>7. CASE \E r \in Request : Expire(r) \/ ResponseCloses(r)
      BY <2>7, <2>3, <2>5 DEF Expire, ResponseCloses, Pc
    <2>. QED BY <2>1, <2>2, <2>3, <2>6, <2>7, <2>8, <2>9 DEF Next, Step, RedisFails, vars,
                WindowsFail, IncrFails, ExpireFails, Undo, UndoFails, Release,
                ReleaseFails, TimePasses
  <1>. QED BY <1>2, <1>3, <1>4, <1>5, <1>6 DEF TypeOK

\* Initially everything is well typed.
LEMMA TypeInit == ASSUME RateLimitAssumption, Init PROVE TypeOK
  <1>1. Ttl \in Nat
    BY DEF RateLimitAssumption
  <1>. QED BY <1>1 DEF Init, TypeOK, Pc, Absent, NoExpiry

\* Types of the limiter for every policy and number of requests; in particular
\* the counter never goes below zero, also when its key expired under a request
\* that releases it later.
THEOREM RateLimitTypeCorrect == Spec => []TypeOK
  <1>1. Init => TypeOK
    BY RateLimitAssumption, TypeInit
  <1>2. TypeOK /\ [Next]_vars => TypeOK'
    BY RateLimitAssumption, TypeStep
  <1>. QED BY <1>1, <1>2, PTL DEF Spec

----------------------------------------------------------------------------
(* Slots *)

\* Every step keeps the flags.
LEMMA FlagsStep ==
    ASSUME TypeOK, Flags, [Next]_vars
    PROVE  Flags'
  <1>1. CASE UNCHANGED <<reqVars, faulted>> \/ TimePasses
    BY <1>1 DEF Flags, reqVars, TimePasses, Fault
  <1>2. CASE Crash
    BY <1>2 DEF Flags, TypeOK, Crash
  <1>3. CASE \E r \in Request : CheckWindows(r) \/ WindowsFail(r)
    BY <1>3 DEF Flags, TypeOK, CheckWindows, WindowsFail, Goto, Open, Fault
  <1>4. CASE \E r \in Request : Incr(r) \/ IncrFails(r)
    BY <1>4 DEF Flags, TypeOK, Incr, IncrFails, Goto, Open, Fault
  <1>5. CASE \E r \in Request : Expire(r) \/ ExpireFails(r)
    BY <1>5 DEF Flags, TypeOK, Expire, ExpireFails, Goto, Open, Fault
  <1>6. CASE \E r \in Request : Undo(r) \/ UndoFails(r) \/ ClientLeaves(r)
    BY <1>6 DEF Flags, TypeOK, Undo, UndoFails, ClientLeaves, Goto, Open, Done, Fault
  <1>7. CASE \E r \in Request : ResponseCloses(r) \/ Release(r) \/ ReleaseFails(r)
    BY <1>7 DEF Flags, TypeOK, ResponseCloses, Release, ReleaseFails, Releases, Goto,
                Done, Fault
  <1>. QED BY <1>1, <1>2, <1>3, <1>4, <1>5, <1>6, <1>7
           DEF Next, Step, RedisFails, vars

\* The four things a step can do to the slots.  Kept: nothing, or less is let
\* through.
Kept ==
    /\ Owners' = Owners
    /\ Destined' \subseteq Destined
    /\ counter' = counter
    /\ faulted' = faulted

\* A slot is taken, by a request that is let through only if it fits.
Taken(r) ==
    /\ r \in Request \ Owners
    /\ Owners' = Owners \cup {r}
    /\ counter' = counter + 1
    /\ Destined' \subseteq Destined \cup {r}
    /\ r \in Destined' => ~(counter' > Concurrent)
    /\ faulted' = faulted

\* A slot is given back.
Returned(r) ==
    /\ r \in Owners
    /\ Owners' = Owners \ {r}
    /\ RedisDecr
    /\ Destined' \subseteq Destined
    /\ faulted \subseteq faulted'

\* Something goes wrong and slots stay counted that nobody owns.
Lost ==
    /\ Owners' \subseteq Owners
    /\ Destined' \subseteq Destined
    /\ counter' >= counter
    /\ faulted \subseteq faulted'
    /\ faulted' # {}

\* The key expires: under nobody, or under a request that outlives it.
Expired ==
    \/ Owners' = {} /\ Destined' = {} /\ counter' = 0
    \/ "outlive" \in faulted'

\* Every step does one of those to the slots.
LEMMA SlotSteps ==
    ASSUME TypeOK, Flags, [Next]_vars
    PROVE  \/ Kept \/ Lost \/ Expired
           \/ \E r \in Request : Taken(r) \/ Returned(r)
  <1>. USE DEF Owners, Admitted, Destined
  <1>1. CASE UNCHANGED vars
    BY <1>1 DEF Kept, vars, redisVars, reqVars
  <1>2. CASE TimePasses
    <2>1. CASE ttl # 1
      BY <1>2, <2>1 DEF TimePasses, Kept, reqVars
    <2>2. CASE ttl = 1 /\ Owners = {}
      BY <1>2, <2>2 DEF TimePasses, Expired, reqVars
    <2>3. CASE ttl = 1 /\ Owners # {}
      BY <1>2, <2>3 DEF TimePasses, Fault, Expired
    <2>. QED BY <2>1, <2>2, <2>3
  <1>3. CASE Crash
    BY <1>3 DEF TypeOK, Crash, Fault, Lost, redisVars
  <1>4. ASSUME NEW r \in Request, CheckWindows(r)
        PROVE  Kept
    BY <1>4 DEF TypeOK, CheckWindows, Goto, Kept
  <1>5. ASSUME NEW r \in Request, WindowsFail(r) \/ ClientLeaves(r)
        PROVE  Lost
    BY <1>5 DEF TypeOK, WindowsFail, ClientLeaves, Open, Goto, Fault, Lost, redisVars
  <1>6. ASSUME NEW r \in Request, Incr(r)
        PROVE  Taken(r)
    <2>1. /\ pc[r] = "incr" /\ ~failedOpen[r]
          /\ pc' = [pc EXCEPT ![r] = "expire"] /\ failedOpen' = failedOpen
          /\ \A q \in Request \ {r} : over'[q] = over[q]
          /\ over'[r] = (counter' > Concurrent)
      BY <1>6 DEF TypeOK, Flags, Incr, Goto
    <2>2. r \in Request \ Owners /\ Owners' = Owners \cup {r}
      BY <2>1 DEF TypeOK
    <2>3. Destined' \subseteq Destined \cup {r}
      BY <2>1 DEF TypeOK
    <2>4. r \in Destined' => ~(counter' > Concurrent)
      BY <2>1 DEF TypeOK
    <2>. QED BY <1>6, <2>2, <2>3, <2>4 DEF Incr, RedisIncr, Taken
  <1>7. ASSUME NEW r \in Request, IncrFails(r)
        PROVE  Lost
    BY <1>7 DEF TypeOK, Flags, IncrFails, RedisUnknown, RedisIncr, Open, Goto, Fault, Lost
  <1>8. ASSUME NEW r \in Request, Expire(r)
        PROVE  Kept
    BY <1>8 DEF TypeOK, Flags, Expire, RedisExpire, Open, Goto, Kept
  <1>9. ASSUME NEW r \in Request, ExpireFails(r)
        PROVE  Lost
    BY <1>9 DEF TypeOK, Flags, ExpireFails, RedisUnknown, RedisExpire, Open, Goto, Fault,
                Lost
  <1>10. ASSUME NEW r \in Request, Undo(r) \/ Release(r)
         PROVE  Returned(r)
    BY <1>10 DEF TypeOK, Flags, Undo, Release, Done, Goto, Returned
  <1>11. ASSUME NEW r \in Request, UndoFails(r) \/ ReleaseFails(r)
         PROVE  Returned(r) \/ Lost
    <2>1. CASE RedisDecr
      BY <1>11, <2>1 DEF TypeOK, Flags, UndoFails, ReleaseFails, Open, Done, Goto, Fault,
                         Returned
    <2>2. CASE UNCHANGED <<counter, ttl>>
      BY <1>11, <2>2 DEF TypeOK, Flags, UndoFails, ReleaseFails, Open, Done, Goto, Fault,
                         Lost
    <2>. QED BY <1>11, <2>1, <2>2 DEF UndoFails, ReleaseFails, RedisUnknown
  <1>12. ASSUME NEW r \in Request, ResponseCloses(r)
         PROVE  Kept \/ Lost
    <2>1. CASE gone[r] /\ ~failedOpen[r]
      BY <1>12, <2>1 DEF TypeOK, Flags, ResponseCloses, Releases, Done, Goto, Lost,
                         redisVars
    <2>2. CASE failedOpen[r] \/ ~gone[r]
      BY <1>12, <2>2 DEF TypeOK, Flags, ResponseCloses, Releases, Done, Goto, Kept,
                         redisVars
    <2>. QED BY <2>1, <2>2
  <1>. QED BY <1>1, <1>2, <1>3, <1>4, <1>5, <1>6, <1>7, <1>8, <1>9, <1>10, <1>11, <1>12
           DEF Next, Step, RedisFails

\* Whatever a step does to the slots, the counter keeps covering them.
LEMMA CountsStep ==
    ASSUME RateLimitAssumption, SlotInv, TypeOK',
           \/ Kept \/ Lost \/ Expired
           \/ \E r \in Request : Taken(r) \/ Returned(r)
    PROVE  Covered' /\ DestinedFit' /\ SlotsAccounted'
  <1>. USE DEF Covered, DestinedFit, SlotsAccounted
  <1>1. /\ IsFiniteSet(Owners) /\ Destined \subseteq Owners
        /\ Owners' \subseteq Request /\ Destined' \subseteq Owners'
        /\ Concurrent \in Nat
    <2>1. Owners \subseteq Request /\ Owners' \subseteq Request
      BY DEF Owners, Admitted
    <2>2. IsFiniteSet(Request) /\ Concurrent \in Nat
      BY DEF RateLimitAssumption
    <2>3. Destined \subseteq Owners /\ Destined' \subseteq Owners'
      BY DEF Destined, Owners
    <2>. QED BY <2>1, <2>2, <2>3, CountBelow
  <1>2. /\ IsFiniteSet(Owners') /\ Cardinality(Owners') \in Nat
        /\ IsFiniteSet(Destined) /\ Cardinality(Owners) \in Nat
        /\ Cardinality(Destined) \in Nat
    BY <1>1, CountBelow DEF RateLimitAssumption
  <1>3. Cardinality(Destined') \in Nat /\ Cardinality(Destined') <= Cardinality(Owners')
    BY <1>1, <1>2, CountBelow
  <1>4. Destined' \subseteq Destined => Cardinality(Destined') <= Cardinality(Destined)
    BY <1>2, CountBelow
  <1>5. counter \in Nat /\ counter' \in Nat
    BY DEF SlotInv, TypeOK
  <1>6. CASE Kept
    BY <1>2, <1>3, <1>4, <1>5, <1>6 DEF SlotInv, Kept
  <1>7. CASE Lost
    <2>1. Cardinality(Owners') <= Cardinality(Owners)
      BY <1>2, <1>1, <1>7, CountBelow DEF Lost
    <2>. QED BY <1>2, <1>3, <1>4, <1>5, <1>7, <2>1 DEF SlotInv, Lost
  <1>8. CASE Expired
    BY <1>2, <1>5, <1>8, <1>1, FS_EmptySet DEF SlotInv, Expired
  <1>9. ASSUME NEW r \in Request, Taken(r)
        PROVE  Covered' /\ DestinedFit' /\ SlotsAccounted'
    <2>1. Cardinality(Owners') = Cardinality(Owners) + 1
      BY <1>1, <1>2, <1>9, FS_AddElement DEF Taken
    <2>2. Covered' /\ SlotsAccounted'
      BY <1>2, <1>5, <1>9, <2>1 DEF SlotInv, Taken
    <2>3. CASE r \in Destined'
      <3>1. counter' <= Concurrent
        BY <1>1, <1>5, <1>9, <2>3 DEF Taken
      <3>. QED BY <1>1, <1>2, <1>3, <1>5, <2>2, <3>1
    <2>4. CASE r \notin Destined'
      <3>1. Destined' \subseteq Destined
        BY <1>9, <2>4 DEF Taken
      <3>. QED BY <1>1, <1>2, <1>3, <1>4, <1>9, <2>2, <3>1 DEF SlotInv, Taken
    <2>. QED BY <2>2, <2>3, <2>4
  <1>10. ASSUME NEW r \in Request, Returned(r)
         PROVE  Covered' /\ DestinedFit' /\ SlotsAccounted'
    <2>1. Cardinality(Owners') = Cardinality(Owners) - 1
      BY <1>1, <1>10, FS_RemoveElement DEF Returned
    <2>. QED BY <1>2, <1>3, <1>4, <1>5, <1>10, <2>1 DEF SlotInv, Returned, RedisDecr
  <1>. QED BY <1>6, <1>7, <1>8, <1>9, <1>10

\* The invariant of every behaviour.
LEMMA SlotInvariant == Spec => []SlotInv
  <1>1. Init => SlotInv
    <2>1. SUFFICES ASSUME Init PROVE SlotInv
      OBVIOUS
    <2>2. TypeOK
      BY <2>1, RateLimitAssumption, TypeInit
    <2>3. Owners = {} /\ Destined = {} /\ counter = 0 /\ Flags
      BY <2>1 DEF Init, Owners, Admitted, Destined, Flags
    <2>. QED BY <2>2, <2>3, FS_EmptySet, RateLimitAssumption
             DEF SlotInv, Covered, DestinedFit, SlotsAccounted, RateLimitAssumption
  <1>2. SlotInv /\ [Next]_vars => SlotInv'
    <2>1. SUFFICES ASSUME SlotInv, [Next]_vars PROVE SlotInv'
      OBVIOUS
    <2>2. TypeOK' /\ Flags'
      BY <2>1, RateLimitAssumption, TypeStep, FlagsStep DEF SlotInv
    <2>3. Covered' /\ DestinedFit' /\ SlotsAccounted'
      BY <2>1, <2>2, RateLimitAssumption, SlotSteps, CountsStep DEF SlotInv
    <2>. QED BY <2>2, <2>3 DEF SlotInv
  <1>. QED BY <1>1, <1>2, PTL DEF Spec

\* However many checks race between INCR and the comparison with its result,
\* and whatever fails meanwhile, no more requests than the policy says are let
\* through at a time, as long as the key does not expire under one of them.
THEOREM CapAlwaysHolds == Spec => []CapHolds
  <1>1. SlotInv => CapHolds
    <2>1. SUFFICES ASSUME SlotInv, "outlive" \notin faulted
                   PROVE  Cardinality(Admitted) <= Concurrent
      BY DEF CapHolds
    <2>2. Admitted \subseteq Destined /\ IsFiniteSet(Destined)
      <3>1. Admitted \subseteq Destined /\ Destined \subseteq Request
        BY DEF Destined, Admitted
      <3>. QED BY <3>1, RateLimitAssumption, CountBelow DEF RateLimitAssumption
    <2>3. Concurrent \in Nat /\ Cardinality(Destined) <= Concurrent
      BY <2>1, RateLimitAssumption DEF SlotInv, DestinedFit, RateLimitAssumption
    <2>4. /\ Cardinality(Admitted) <= Cardinality(Destined)
          /\ Cardinality(Admitted) \in Nat /\ Cardinality(Destined) \in Nat
      BY <2>2, CountBelow
    <2>. QED BY <2>3, <2>4
  <1>. QED BY <1>1, SlotInvariant, PTL

\* As long as nothing went wrong, the counter is the number of requests that
\* hold a slot: no path through check and release loses or invents one.
THEOREM SlotsAlwaysAccounted == Spec => []SlotsAccounted
  <1>1. SlotInv => SlotsAccounted
    BY DEF SlotInv
  <1>. QED BY <1>1, SlotInvariant, PTL

----------------------------------------------------------------------------
(* Windows *)

\* A window's sorted set covers the attempts that got past both windows, age
\* by age, and what a script may still count of it is within the limit.
WindowsCover ==
    \A w \in Window :
        /\ \A a \in 0 .. Length[w] - 1 : passed[a] <= zset[w][a]
        /\ SumFunctionOnSet(zset[w], 0 .. Length[w] - 1) <= Limit[w]

\* The recent members of a sorted set: its sum over all ages but the last.
LEMMA RecentSum ==
    ASSUME NEW n \in Nat \ {0}, NEW ages \in [0 .. n -> Nat]
    PROVE  /\ IsFiniteSet(0 .. n - 1)
           /\ SumFunctionOnSet(ages, 0 .. n - 1) \in Nat
           /\ Total(ages) = ages[n] + SumFunctionOnSet(ages, 0 .. n - 1)
  <1>. DEFINE S == 0 .. n
              U == 0 .. n - 1
  <1>1. IsFiniteSet(S) /\ IsFiniteSet(U) /\ n \in S /\ S \ {n} = U
    <2>1. n \in Int /\ n - 1 \in Int /\ 0 \in Int
      OBVIOUS
    <2>2. IsFiniteSet(S) /\ IsFiniteSet(U)
      BY <2>1, FS_Interval
    <2>. QED BY <2>2
  <1>2. /\ \A a \in S : ages[a] \in Int
        /\ \A a \in U : ages[a] \in Nat
    OBVIOUS
  <1>3. Total(ages) = SumFunctionOnSet(ages, S)
    BY DEF Total, SumFunction
  <1>. HIDE DEF S, U
  <1>4. SumFunctionOnSet(ages, U) \in Nat
    BY <1>1, <1>2, SumIsNatural
  <1>5. SumFunctionOnSet(ages, S) = ages[n] + SumFunctionOnSet(ages, S \ {n})
    BY <1>1, <1>2, SumTakesOut
  <1>. QED BY <1>1, <1>3, <1>4, <1>5 DEF U

\* A script that has room adds one to what it counted.
LEMMA AddedSum ==
    ASSUME NEW n \in Nat \ {0}, NEW ages \in [0 .. n -> Nat], ages[n] = 0
    PROVE  SumFunctionOnSet(Add(ages), 0 .. n - 1) = Total(ages) + 1
  <1>. DEFINE U == 0 .. n - 1
              g == Add(ages)
  <1>1. IsFiniteSet(U) /\ 0 \in U
    BY RecentSum
  <1>2. /\ \A a \in U : ages[a] \in Int /\ g[a] \in Int
        /\ \A a \in U \ {0} : g[a] = ages[a]
        /\ g[0] = ages[0] + 1 /\ ages[0] \in Nat
    <2>1. g \in [0 .. n -> Nat]
      BY AgesType
    <2>. QED BY <2>1 DEF Add
  <1>3. SumFunctionOnSet(ages, U) \in Nat /\ Total(ages) = SumFunctionOnSet(ages, U)
    BY RecentSum
  <1>. HIDE DEF U, g
  <1>4. SumFunctionOnSet(g, U) = SumFunctionOnSet(ages, U) + (g[0] - ages[0])
    <2>. DEFINE new == 0
    <2>1. /\ \A a \in U : ages[a] \in Int /\ g[a] \in Int
          /\ \A a \in U \ {new} : g[a] = ages[a]
          /\ new \in U /\ IsFiniteSet(U)
      BY <1>1, <1>2
    <2>2. SumFunctionOnSet(g, U) = SumFunctionOnSet(ages, U) + (g[new] - ages[new])
      <3>. HIDE DEF new
      <3>. QED BY <2>1, SumFollowsTerm
    <2>. QED BY <2>2
  <1>5. SumFunctionOnSet(g, U) = Total(ages) + 1
    BY <1>2, <1>3, <1>4
  <1>. QED BY <1>5 DEF U, g

\* A tick moves every member but the oldest to the next age.
LEMMA AgedAt ==
    ASSUME NEW n \in Nat \ {0}, NEW ages \in [0 .. n -> Nat], NEW a \in 0 .. n, a # n
    PROVE  Aged(ages)[a] = IF a = 0 THEN 0 ELSE ages[a - 1]
  <1>1. Cardinality(DOMAIN ages) - 1 = n
    BY FS_Interval
  <1>. QED BY <1>1 DEF Aged

\* A tick brings no member back: the recent ones get fewer.
LEMMA AgedSum ==
    ASSUME NEW n \in Nat \ {0}, NEW ages \in [0 .. n -> Nat]
    PROVE  SumFunctionOnSet(Aged(ages), 0 .. n - 1) <= SumFunctionOnSet(ages, 0 .. n - 1)
  <1>. DEFINE U == 0 .. n - 1
              g == Aged(ages)
  <1>1. Cardinality(DOMAIN ages) - 1 = n
    BY FS_Interval
  <1>2. /\ g[0] = 0
        /\ \A a \in 1 .. n - 1 : g[a] = ages[a - 1] /\ ages[a - 1] \in Nat
        /\ \A a \in U : g[a] \in Int
    BY <1>1 DEF Aged
  <1>3. IsFiniteSet(U) /\ 0 \in U /\ U \ {0} = 1 .. n - 1 /\ n - 1 \in U /\ U \ {n - 1} = 0 .. n - 2
    BY RecentSum
  <1>4. \A a \in U : ages[a] \in Nat /\ ages[a] \in Int
    OBVIOUS
  <1>. HIDE DEF U, g
  <1>5. SumFunctionOnSet(g, U) = g[0] + SumFunctionOnSet(g, U \ {0})
    <2>. DEFINE new == 0
    <2>1. new \in U /\ IsFiniteSet(U) /\ \A a \in U : g[a] \in Int
      BY <1>2, <1>3
    <2>2. SumFunctionOnSet(g, U) = g[new] + SumFunctionOnSet(g, U \ {new})
      <3>. HIDE DEF new
      <3>. QED BY <2>1, SumTakesOut
    <2>. QED BY <2>2
  <1>6. SumFunctionOnSet(ages, U) = ages[n - 1] + SumFunctionOnSet(ages, U \ {n - 1})
    <2>. DEFINE last == n - 1
    <2>1. last \in U /\ IsFiniteSet(U) /\ \A a \in U : ages[a] \in Int
      BY <1>3, <1>4
    <2>2. SumFunctionOnSet(ages, U) = ages[last] + SumFunctionOnSet(ages, U \ {last})
      <3>. HIDE DEF last
      <3>. QED BY <2>1, SumTakesOut
    <2>. QED BY <2>2
  <1>7. SumFunctionOnSet(g, U \ {0}) = SumFunctionOnSet(ages, U \ {n - 1})
    <2>1. CASE n = 1
      <3>1. U \ {0} = {} /\ U \ {n - 1} = {}
        BY <2>1, <1>3
      <3>. QED BY <3>1, SumOfNothing
    <2>2. CASE n # 1
      <3>1. n - 2 \in Nat /\ (n - 2) + 1 = n - 1
        BY <2>2
      <3>2. \A a \in 0 .. n - 2 : ages[a] \in Int
        OBVIOUS
      <3>3. SumFunctionOnSet(g, 1 .. (n - 2) + 1) = SumFunctionOnSet(ages, 0 .. n - 2)
        <4>1. \A a \in 1 .. (n - 2) + 1 : g[a] = ages[a - 1]
          BY <1>2, <3>1
        <4>. QED BY <3>1, <3>2, <4>1, SumShifts, Zenon
      <3>. QED BY <1>3, <3>1, <3>3
    <2>. QED BY <2>1, <2>2
  <1>8. SumFunctionOnSet(ages, U \ {n - 1}) \in Nat
    <2>1. IsFiniteSet(U \ {n - 1}) /\ \A a \in U \ {n - 1} : ages[a] \in Nat
      BY <1>3, <1>4, FS_Subset
    <2>. QED BY <2>1, SumIsNatural
  <1>9. ages[n - 1] \in Nat
    BY <1>3, <1>4
  <1>10. SumFunctionOnSet(g, U) <= SumFunctionOnSet(ages, U)
    BY <1>2, <1>5, <1>6, <1>7, <1>8, <1>9
  <1>. QED BY <1>10 DEF U, g

\* A script keeps the recent members within the limit and drops none of them;
\* an attempt that it allows is one of them.
LEMMA CheckedWindow ==
    ASSUME TypeOK, RateLimitAssumption, WindowsCover, NEW w \in Window
    PROVE  /\ SumFunctionOnSet(checkWindow(w), 0 .. Length[w] - 1) <= Limit[w]
           /\ \A a \in 0 .. Length[w] - 1 : passed[a] <= checkWindow(w)[a]
           /\ Allowed(w) => \A a \in 0 .. Length[w] - 1 : Add(passed)[a] <= checkWindow(w)[a]
  <1>. DEFINE n == Length[w]
              U == 0 .. n - 1
              p == Purged(w)
  <1>1. /\ n \in Nat \ {0} /\ Limit[w] \in Nat
        /\ zset[w] \in [0 .. n -> Nat]
    BY DEF TypeOK, RateLimitAssumption
  <1>2. /\ p \in [0 .. n -> Nat] /\ p[n] = 0
        /\ \A a \in U : p[a] = zset[w][a]
    BY <1>1 DEF Purged
  <1>3. passed \in [0 .. Length["day"] -> Nat] /\ U \subseteq 0 .. Length["day"]
    <2>1. n <= Length["day"] /\ Length["day"] \in Nat
      BY DEF RateLimitAssumption, Window
    <2>. QED BY <1>1, <2>1 DEF TypeOK
  <1>4. \A a \in U : passed[a] <= p[a] /\ passed[a] \in Nat /\ p[a] \in Nat
    <2>1. \A a \in U : passed[a] <= zset[w][a]
      BY DEF WindowsCover
    <2>2. \A a \in U : passed[a] \in Nat /\ p[a] \in Nat
      <3>. HIDE DEF p
      <3>. QED BY <1>1, <1>2, <1>3
    <2>. HIDE DEF p, U
    <2>. QED BY <1>2, <2>1, <2>2
  <1>5. \A a \in U : Add(p)[a] = IF a = 0 THEN p[a] + 1 ELSE p[a]
    BY <1>1, <1>2 DEF Add
  <1>6. \A a \in U : Add(passed)[a] = IF a = 0 THEN passed[a] + 1 ELSE passed[a]
    BY <1>3 DEF Add
  <1>7. CASE Allowed(w)
    <2>1. checkWindow(w) = Add(p) /\ Total(p) < Limit[w]
      BY <1>7 DEF checkWindow, Allowed
    <2>2. SumFunctionOnSet(Add(p), U) = Total(p) + 1
      <3>. HIDE DEF p, n
      <3>. QED BY <1>1, <1>2, AddedSum
    <2>4. Total(p) \in Nat
      <3>. HIDE DEF p, n
      <3>1. /\ SumFunctionOnSet(p, U) \in Nat
            /\ Total(p) = p[n] + SumFunctionOnSet(p, U)
        BY <1>1, <1>2, RecentSum
      <3>. HIDE DEF U
      <3>. QED BY <1>2, <3>1
    <2>3. SumFunctionOnSet(Add(p), U) <= Limit[w]
      BY <1>1, <2>1, <2>2, <2>4
    <2>5. \A a \in U : passed[a] <= Add(p)[a] /\ Add(passed)[a] <= Add(p)[a]
      BY <1>4, <1>5, <1>6
    <2>. QED BY <2>1, <2>3, <2>5
  <1>8. CASE ~Allowed(w)
    <2>1. checkWindow(w) = p
      BY <1>8 DEF checkWindow
    <2>2. SumFunctionOnSet(p, U) = SumFunctionOnSet(zset[w], U)
      <3>1. IsFiniteSet(U)
        <4>1. 0 \in Int /\ n - 1 \in Int
          BY <1>1
        <4>. DEFINE low == 0
                    last == n - 1
        <4>. HIDE DEF n
        <4>2. low \in Int /\ last \in Int
          BY <4>1
        <4>3. IsFiniteSet(low .. last)
          <5>. HIDE DEF low, last
          <5>. QED BY <4>2, FS_Interval
        <4>. QED BY <4>3
      <3>. HIDE DEF p, U, n
      <3>2. \A a \in U : zset[w][a] \in Int /\ p[a] = zset[w][a]
        BY <1>2, <1>4
      <3>. QED BY <3>1, <3>2, SumOfSameTerms, Zenon
    <2>3. SumFunctionOnSet(zset[w], U) <= Limit[w]
      BY DEF WindowsCover
    <2>. QED BY <1>4, <1>8, <2>1, <2>2, <2>3
  <1>. QED BY <1>7, <1>8

\* Every step keeps the windows covered.
LEMMA CoverStep ==
    ASSUME TypeOK, RateLimitAssumption, WindowsCover, [Next]_vars
    PROVE  WindowsCover'
  <1>1. CASE UNCHANGED <<zset, passed>>
    BY <1>1 DEF WindowsCover
  <1>2. ASSUME NEW r \in Request, CheckWindows(r)
        PROVE  WindowsCover'
    <2>1. SUFFICES ASSUME NEW w \in Window
                   PROVE  /\ \A a \in 0 .. Length[w] - 1 : passed'[a] <= zset'[w][a]
                          /\ SumFunctionOnSet(zset'[w], 0 .. Length[w] - 1) <= Limit[w]
      BY DEF WindowsCover
    <2>2. zset'[w] = checkWindow(w)
      BY <1>2 DEF CheckWindows
    <2>3. (passed' = Add(passed) /\ Allowed(w)) \/ passed' = passed
      BY <1>2 DEF CheckWindows
    <2>. QED BY <2>2, <2>3, CheckedWindow
  <1>3. ASSUME NEW r \in Request, WindowsFail(r)
        PROVE  WindowsCover'
    <2>1. SUFFICES ASSUME NEW w \in Window
                   PROVE  /\ \A a \in 0 .. Length[w] - 1 : passed'[a] <= zset'[w][a]
                          /\ SumFunctionOnSet(zset'[w], 0 .. Length[w] - 1) <= Limit[w]
      BY DEF WindowsCover
    <2>2. zset'[w] \in {checkWindow(w), zset[w]} /\ passed' = passed
      BY <1>3 DEF WindowsFail
    <2>. QED BY <2>2, CheckedWindow DEF WindowsCover
  <1>4. CASE TimePasses
    <2>1. SUFFICES ASSUME NEW w \in Window
                   PROVE  /\ \A a \in 0 .. Length[w] - 1 : passed'[a] <= zset'[w][a]
                          /\ SumFunctionOnSet(zset'[w], 0 .. Length[w] - 1) <= Limit[w]
      BY DEF WindowsCover
    <2>. DEFINE n == Length[w]
                d == Length["day"]
    <2>2. /\ n \in Nat \ {0} /\ d \in Nat \ {0} /\ n <= d /\ Limit[w] \in Nat
          /\ zset[w] \in [0 .. n -> Nat] /\ passed \in [0 .. d -> Nat]
      BY DEF TypeOK, RateLimitAssumption, Window
    <2>3. zset'[w] = Aged(zset[w]) /\ passed' = [Aged(passed) EXCEPT ![d] = 0]
      BY <1>4 DEF TimePasses
    <2>. HIDE DEF n, d
    <2>5. SumFunctionOnSet(zset'[w], 0 .. n - 1) <= Limit[w]
      <3>1. SumFunctionOnSet(zset[w], 0 .. n - 1) <= Limit[w]
        BY DEF WindowsCover, n
      <3>2. SumFunctionOnSet(zset'[w], 0 .. n - 1) <= SumFunctionOnSet(zset[w], 0 .. n - 1)
        BY <2>2, <2>3, AgedSum
      <3>3. SumFunctionOnSet(zset[w], 0 .. n - 1) \in Nat /\ SumFunctionOnSet(zset'[w], 0 .. n - 1) \in Nat
        BY <2>2, <2>3, RecentSum, AgesType
      <3>. QED BY <2>2, <3>1, <3>2, <3>3
    <2>6. ASSUME NEW a \in 0 .. n - 1
          PROVE  passed'[a] <= zset'[w][a]
      <3>1. zset'[w][a] = IF a = 0 THEN 0 ELSE zset[w][a - 1]
        <4>1. a \in 0 .. n /\ a # n
          BY <2>2
        <4>. DEFINE z == zset[w]
        <4>2. n \in Nat \ {0} /\ z \in [0 .. n -> Nat]
          BY <2>2
        <4>3. Aged(z)[a] = IF a = 0 THEN 0 ELSE z[a - 1]
          <5>. HIDE DEF z
          <5>. QED BY <4>1, <4>2, AgedAt
        <4>. QED BY <2>3, <4>3
      <3>2. passed'[a] = IF a = 0 THEN 0 ELSE passed[a - 1]
        <4>1. a \in 0 .. d /\ a # d
          BY <2>2
        <4>2. Aged(passed)[a] = IF a = 0 THEN 0 ELSE passed[a - 1]
          BY <2>2, <4>1, AgedAt
        <4>3. Aged(passed) \in [0 .. d -> Nat]
          BY <2>2, AgesType
        <4>. QED BY <2>3, <4>1, <4>2, <4>3
      <3>3. a # 0 => passed[a - 1] <= zset[w][a - 1]
        <4>1. a # 0 => a - 1 \in 0 .. n - 1
          BY <2>2
        <4>. QED BY <4>1 DEF WindowsCover, n
      <3>. QED BY <3>1, <3>2, <3>3
    <2>. QED BY <2>5, <2>6 DEF n
  <1>. QED BY <1>1, <1>2, <1>3, <1>4
           DEF Next, Step, RedisFails, vars, redisVars, Incr, IncrFails, Expire, ExpireFails,
               Undo, UndoFails, ClientLeaves, ResponseCloses, Release, ReleaseFails, Crash

\* Initially the sorted sets are empty.
LEMMA CoverInit == ASSUME RateLimitAssumption, Init PROVE WindowsCover
  <1>1. SUFFICES ASSUME NEW w \in Window
                 PROVE  /\ \A a \in 0 .. Length[w] - 1 : passed[a] <= zset[w][a]
                        /\ SumFunctionOnSet(zset[w], 0 .. Length[w] - 1) <= Limit[w]
    BY DEF WindowsCover
  <1>. DEFINE n == Length[w]
              U == 0 .. n - 1
              zero == [a \in U |-> 0]
  <1>2. n \in Nat \ {0} /\ n <= Length["day"] /\ Length["day"] \in Nat /\ Limit[w] \in Nat
    BY DEF RateLimitAssumption, Window
  <1>3. zset[w] \in [0 .. n -> Nat] /\ \A a \in U : zset[w][a] = 0 /\ passed[a] = 0
    BY <1>2 DEF Init
  <1>4. IsFiniteSet(U)
    BY <1>2, FS_Interval
  <1>5. SumFunctionOnSet(zero, U) = 0
    <2>. HIDE DEF U
    <2>. QED BY <1>4, SumOfZeros
  <1>6. SumFunctionOnSet(zset[w], U) = SumFunctionOnSet(zero, U)
    <2>1. \A a \in U : zero[a] \in Int /\ zset[w][a] = zero[a]
      BY <1>3
    <2>. HIDE DEF U, zero
    <2>. QED BY <1>4, <2>1, SumOfSameTerms
  <1>. QED BY <1>2, <1>3, <1>5, <1>6

\* In no minute and no day do more attempts get past both windows than the
\* policy says, for every policy and every pair of windows, although the two
\* sets are purged and filled independently, record attempts that the other
\* one refused, and run or not when Redis fails.
THEOREM WindowsAlwaysHold == Spec => []WindowHolds
  <1>1. Init => WindowsCover
    BY RateLimitAssumption, CoverInit
  <1>2. TypeOK /\ WindowsCover /\ [Next]_vars => WindowsCover'
    BY RateLimitAssumption, CoverStep
  <1>3. TypeOK /\ WindowsCover => WindowHolds
    <2>1. SUFFICES ASSUME TypeOK, WindowsCover, NEW w \in Window
                   PROVE  SumFunctionOnSet(passed, 0 .. Length[w] - 1) <= Limit[w]
      BY DEF WindowHolds
    <2>. DEFINE n == Length[w]
                U == 0 .. n - 1
                z == zset[w]
    <2>2. /\ n \in Nat \ {0} /\ n <= Length["day"] /\ Length["day"] \in Nat /\ Limit[w] \in Nat
          /\ z \in [0 .. n -> Nat] /\ passed \in [0 .. Length["day"] -> Nat]
      BY <2>1, RateLimitAssumption DEF RateLimitAssumption, Window, TypeOK
    <2>3. IsFiniteSet(U) /\ \A a \in U : passed[a] \in Int /\ z[a] \in Int /\ passed[a] <= z[a]
      <3>1. IsFiniteSet(U)
        <4>1. n - 1 \in Int /\ 0 \in Int
          BY <2>2
        <4>. QED BY <4>1, FS_Interval
      <3>2. \A a \in U : passed[a] <= z[a]
        BY <2>1 DEF WindowsCover
      <3>3. \A a \in U : passed[a] \in Int /\ z[a] \in Int
        <4>. HIDE DEF z, n
        <4>. QED BY <2>2
      <3>. HIDE DEF U, z
      <3>. QED BY <3>1, <3>2, <3>3
    <2>4. SumFunctionOnSet(z, U) <= Limit[w]
      BY <2>1 DEF WindowsCover
    <2>. HIDE DEF U, z
    <2>5. /\ SumFunctionOnSet(passed, U) <= SumFunctionOnSet(z, U)
          /\ SumFunctionOnSet(passed, U) \in Int /\ SumFunctionOnSet(z, U) \in Int
      BY <2>3, SumGrows, SumTakesOut
    <2>6. SumFunctionOnSet(passed, U) <= Limit[w]
      BY <2>2, <2>4, <2>5
    <2>. QED BY <2>6 DEF U
  <1>. QED BY <1>1, <1>2, <1>3, RateLimitTypeCorrect, PTL DEF Spec
=============================================================================

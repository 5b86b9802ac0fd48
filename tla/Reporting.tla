------------------------------ MODULE Reporting -----------------------------
(***************************************************************************)
(* What the operator reads: the cap on a metric's series (metrics/capVec,  *)
(* under every metric of prometheus.ts) and the rollup of a caller's usage *)
(* records.                                                                *)
(***************************************************************************)
EXTENDS Integers, Sequences, FiniteSets, SequencesExt, FiniteSetsExt

(* labels.join(" "), of label values that are sequences of characters.     *)
Blank == " "
Join(labels) == FlattenSeq([i \in DOMAIN labels |-> IF i = 1 THEN labels[1] ELSE <<Blank>> \o labels[i]])

(* One call of inc, add, set or observe: exported holds the label tuples   *)
(* of the vec, alarms counts the calls of onExceed.                        *)
NewVec == [seen |-> {}, exceeded |-> FALSE, exported |-> {}, alarms |-> 0]

(* Mutation: off by one. *)
FullOver(vec, maxSeries) == Cardinality(vec.seen) > maxSeries
IsFull(vec, maxSeries)   == Cardinality(vec.seen) >= maxSeries

Update(vec, labels, maxSeries) ==
  LET key == Join(labels)
  IN  IF maxSeries <= 0 \/ key \in vec.seen
      THEN [vec EXCEPT !.exported = @ \cup {labels}]
      ELSE IF IsFull(vec, maxSeries)
      THEN [vec EXCEPT !.exceeded = TRUE, !.alarms = IF vec.exceeded THEN @ ELSE @ + 1]
      ELSE [vec EXCEPT !.seen = @ \cup {key}, !.exported = @ \cup {labels}]

AfterCalls(calls, maxSeries) ==
  LET after[n \in 0 .. Len(calls)] ==
        IF n = 0 THEN NewVec ELSE Update(after[n - 1], calls[n], maxSeries)
  IN  after[Len(calls)]

-----------------------------------------------------------------------------
(* The records of one caller in [from, to), by day, model or kind.  A row  *)
(* without a local count falls back to what the worker reported.           *)
(* Mutation: the window includes its end. *)
InWindowClosed(row, input) == row.caller = input.callerId /\ row.at >= input.from /\ row.at <= input.to
InWindow(row, input) == row.caller = input.callerId /\ row.at >= input.from /\ row.at < input.to

Tokens(row) == IF row.local # <<>> THEN row.local[1] ELSE IF row.reported # <<>> THEN row.reported[1] ELSE 0

Bucket(row, groupBy) ==
  CASE groupBy = "day"   -> row.at \div 2
    [] groupBy = "model" -> row.model
    [] OTHER             -> row.kind

Mine(rows, input)        == {i \in DOMAIN rows : InWindow(rows[i], input)}
Buckets(rows, input)     == {Bucket(rows[i], input.groupBy) : i \in Mine(rows, input)}
InBucket(rows, input, b) == {i \in Mine(rows, input) : Bucket(rows[i], input.groupBy) = b}

rollup(rows, input) ==
  [b \in Buckets(rows, input) |->
     LET Of == InBucket(rows, input, b)
         Count(status) == Cardinality({i \in Of : rows[i].status = status})
     IN  [tokens   |-> SumFunctionOnSet([i \in DOMAIN rows |-> Tokens(rows[i])], Of),
          requests |-> Cardinality(Of),
          cents    |-> SumFunctionOnSet([i \in DOMAIN rows |-> rows[i].cents], Of),
          success  |-> Count("success"),
          partial  |-> Count("partial"),
          failed   |-> Count("failed")]]

-----------------------------------------------------------------------------
(* Of label values without blanks no more than maxSeries tuples are ever   *)
(* exported; a tuple is dropped only for that reason, one that is exported *)
(* stays so, and the operator hears of it once.                            *)
CapHolds(calls, maxSeries) ==
  LET end == AfterCalls(calls, maxSeries)
      dropped == ToSet(calls) \ end.exported
  IN  maxSeries > 0 =>
        /\ Cardinality(end.exported) <= maxSeries
        /\ dropped # {} => Cardinality(end.exported) = maxSeries
        /\ \A k \in DOMAIN calls : AfterCalls(SubSeq(calls, 1, k), maxSeries).exported \subseteq end.exported
        /\ end.alarms = IF dropped = {} THEN 0 ELSE 1

(* What a rollup says of all buckets together.                             *)
Grand(rows, input, field) ==
  LET result == rollup(rows, input)
  IN  SumFunction([b \in DOMAIN result |-> result[b][field]])

(* Invoices add up: of two adjoining windows every record is in one, once, *)
(* whatever the buckets are.                                               *)
WindowsAddUp(rows, callerId, groupBy, from, middle, to) ==
  LET Window(a, b) == [callerId |-> callerId, from |-> a, to |-> b, groupBy |-> groupBy]
      Sum(a, b, field) == Grand(rows, Window(a, b), field)
  IN  /\ \A field \in {"cents", "requests", "tokens"} :
            Sum(from, to, field) = Sum(from, middle, field) + Sum(middle, to, field)
      /\ Sum(from, to, "requests") =
            Sum(from, to, "success") + Sum(from, to, "partial") + Sum(from, to, "failed")
=============================================================================

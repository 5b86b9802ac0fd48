-------------------------- MODULE AlgorithmsProofs -------------------------
(***************************************************************************)
(* Theorems about the pure algorithms, for every input.                    *)
(*                                                                         *)
(* Pricing: what is reserved covers what is charged, and how far a charge  *)
(* may be from its exact price.  The proofs rest on three facts of         *)
(* arithmetic: products and quotients that are rounded up are monotone,    *)
(* and rounding up adds less than one unit.  Then the rollups of usage     *)
(* records, the cap on a metric's series, the lookup of a rate, the events *)
(* of a stream and the ticket parameters and the price of a quote.         *)
(***************************************************************************)
EXTENDS Algorithms, Sums, SequenceTheorems

\* A product grows with its factor.
LEMMA TimesMonotone ==
  ASSUME NEW a \in Nat, NEW b \in Nat, NEW c \in Nat, a <= b
  PROVE  a * c \in Nat /\ a * c <= b * c
<1> DEFINE k == b - a
<1>1. k \in Nat /\ b = a + k
  OBVIOUS
<1> HIDE DEF k
<1>2. (a + k) * c = a * c + k * c
  BY <1>1
<1>3. k * c \in Nat /\ a * c \in Nat
  BY <1>1
<1> QED BY <1>1, <1>2, <1>3

\* So does a product of integers with a natural number.
LEMMA ProductMonotone ==
  ASSUME NEW a \in Int, NEW b \in Int, NEW c \in Nat, a <= b
  PROVE  a * c <= b * c
<1> DEFINE k == b - a
<1>1. k \in Nat /\ b = a + k
  OBVIOUS
<1> HIDE DEF k
<1>2. (a + k) * c = a * c + k * c
  BY <1>1
<1>3. k * c \in Nat /\ a * c \in Int
  BY <1>1
<1> QED BY <1>1, <1>2, <1>3

\* The remainder of a division is less than its divisor.
LEMMA DivBounds ==
  ASSUME NEW n \in Int, NEW d \in Nat \ {0}
  PROVE  /\ n \div d \in Int
         /\ d * (n \div d) <= n
         /\ n < d * (n \div d) + d
  OBVIOUS

\* A quotient grows with its dividend.
LEMMA DivMonotone ==
  ASSUME NEW a \in Int, NEW b \in Int, NEW d \in Nat \ {0}, a <= b
  PROVE  a \div d <= b \div d
  OBVIOUS

\* Rounding up is monotone and adds less than one.
LEMMA CeilDivBounds ==
  ASSUME NEW a \in Int, NEW d \in Nat \ {0}
  PROVE  /\ CeilDiv(a, d) \in Int
         /\ a <= CeilDiv(a, d) * d
         /\ CeilDiv(a, d) * d <= a + d - 1
<1> DEFINE q == (a + d - 1) \div d
<1>1. q \in Int /\ d * q <= a + d - 1 /\ a + d - 1 < d * q + d
  BY DivBounds
<1> QED BY <1>1 DEF CeilDiv

\* Rounding up grows with what is rounded.
LEMMA CeilDivMonotone ==
  ASSUME NEW a \in Int, NEW b \in Int, NEW d \in Nat \ {0}, a <= b
  PROVE  CeilDiv(a, d) <= CeilDiv(b, d)
  BY DivMonotone DEF CeilDiv

\* The cost of nothing negative is nothing negative.
LEMMA CeilDivNat ==
  ASSUME NEW a \in Nat, NEW d \in Nat \ {0}
  PROVE  CeilDiv(a, d) \in Nat
  BY CeilDivBounds DEF CeilDiv

\* A price per million, in cents.
LEMMA Units == MILLION * CENT \in Nat \ {0}
  BY PricingAssumption

\* A number that may be missing is one if it is there.
LEMMA HeadInNat ==
  ASSUME NEW s \in Seq(Nat), s # <<>>
  PROVE  s[1] \in Nat
  OBVIOUS

----------------------------------------------------------------------------
\* Chat: more tokens on either side never cost less.
LEMMA ChatCostMonotone ==
  ASSUME NEW p \in Nat, NEW q \in Nat, NEW c \in Nat, NEW m \in Nat, p <= q, c <= m,
         NEW rate \in [input : Nat, output : Nat]
  PROVE  computeCostCents(p, c, rate) <= computeCostCents(q, m, rate)
<1>1. p * rate.input \in Nat /\ p * rate.input <= q * rate.input
  BY TimesMonotone
<1>2. c * rate.output \in Nat /\ c * rate.output <= m * rate.output
  BY TimesMonotone
<1>3. q * rate.input \in Nat /\ m * rate.output \in Nat
  OBVIOUS
<1>4. p * rate.input + c * rate.output <= q * rate.input + m * rate.output
  BY <1>1, <1>2, <1>3
<1> QED BY <1>1, <1>2, <1>3, <1>4, Units, CeilDivMonotone DEF computeCostCents

\* What estimateReservation reserves for a chat covers what its worker's
\* usage costs, whatever the rate, as long as the worker counts no more
\* prompt tokens than the audit (or a token per three characters) and stays
\* within the completion limit.
THEOREM ChatReservationCovers ==
  ASSUME NEW config \in [defaultMaxTokensFree : Nat, defaultMaxTokensPrepaid : Nat],
         NEW req \in [chars : Nat, max_tokens : Seq(Nat)],
         NEW customerTier,
         NEW audited \in Seq(Nat),
         NEW usage \in [prompt_tokens : Nat, completion_tokens : Nat],
         NEW rate \in [input : Nat, output : Nat]
  PROVE  ChatIsCovered(config, req, customerTier, audited, usage, rate)
<1> DEFINE P == PromptEstimate(audited, req.chars)
           M == MaxCompletion(config, req, customerTier)
<1> SUFFICES ASSUME IF audited # <<>> THEN usage.prompt_tokens <= audited[1]
                                     ELSE 3 * (usage.prompt_tokens - 1) < req.chars,
                    usage.completion_tokens <= M
             PROVE  computeActualCost(usage, rate) <= estimateReservation(config, req, customerTier, audited, rate)
  BY DEF ChatIsCovered
<1>1. P \in Nat /\ usage.prompt_tokens <= P
  <2>1. CASE audited # <<>>
    <3>1. audited[1] \in Nat
      BY <2>1
    <3> QED BY <2>1, <3>1 DEF PromptEstimate, AtLeast
  <2>2. CASE audited = <<>>
    <3>1. usage.prompt_tokens <= CeilDiv(req.chars, 3) /\ CeilDiv(req.chars, 3) \in Nat
      BY <2>2 DEF CeilDiv
    <3> QED BY <2>2, <3>1 DEF PromptEstimate, AtLeast
  <2> QED BY <2>1, <2>2
<1>2. M \in Nat
  <2>1. req.max_tokens \in Seq(Nat)
    OBVIOUS
  <2>2. req.max_tokens # <<>> => req.max_tokens[1] \in Nat
    BY <2>1, HeadInNat
  <2>3. config.defaultMaxTokensFree \in Nat /\ config.defaultMaxTokensPrepaid \in Nat
    OBVIOUS
  <2> QED BY <2>2, <2>3 DEF MaxCompletion
<1> HIDE DEF P, M
<1>3. computeCostCents(usage.prompt_tokens, usage.completion_tokens, rate) <= computeCostCents(P, M, rate)
  BY <1>1, <1>2, ChatCostMonotone
<1> QED BY <1>3 DEF computeActualCost, estimateReservation, P, M

\* Embeddings: the same for a token per three characters of input.
THEOREM EmbeddingsReservationCovers ==
  ASSUME NEW chars \in Int, NEW promptTokens \in Nat, NEW rate \in Nat
  PROVE  EmbeddingsAreCovered(chars, promptTokens, rate)
<1> DEFINE P == AtLeast(1, CeilDiv(chars, 3))
<1> SUFFICES ASSUME 3 * (promptTokens - 1) < chars
             PROVE  computeInputOnlyCostCents(promptTokens, rate) <= computeInputOnlyCostCents(P, rate)
  BY DEF EmbeddingsAreCovered, computeEmbeddingsActualCost, estimateEmbeddingsReservation
<1>1. P \in Nat /\ promptTokens <= P
  BY DEF AtLeast, CeilDiv
<1> HIDE DEF P
<1>2. promptTokens * rate \in Nat /\ P * rate \in Nat /\ promptTokens * rate <= P * rate
  BY <1>1, TimesMonotone
<1>3. (promptTokens * rate) \div MILLION <= (P * rate) \div MILLION
  BY <1>2, DivMonotone, PricingAssumption
<1>4. (promptTokens * rate) \div MILLION \in Int /\ (P * rate) \div MILLION \in Int
  BY <1>2, DivBounds, PricingAssumption
<1> QED BY <1>3, <1>4, CeilDivMonotone, PricingAssumption DEF computeInputOnlyCostCents

\* Images: no more images than were asked for cost no more than was reserved.
THEOREM ImagesReservationCovers ==
  ASSUME NEW n \in Int, NEW returned \in Nat, NEW rate \in Nat
  PROVE  ImagesAreCovered(n, returned, rate)
<1>1. computePerImageCents(rate) \in Nat
  BY CeilDivNat, PricingAssumption DEF computePerImageCents
<1>2. ASSUME returned <= n
      PROVE  computePerImageCents(rate) * returned <= computePerImageCents(rate) * n
  <2> DEFINE c == computePerImageCents(rate)
  <2>1. c \in Nat
    BY <1>1
  <2> HIDE DEF c
  <2>2. returned * c <= n * c
    BY <1>2, <2>1, TimesMonotone
  <2>3. c * returned <= c * n
    BY <2>1, <2>2
  <2> QED BY <2>3 DEF c
<1> QED BY <1>2 DEF ImagesAreCovered, computeImagesActualCost, estimateImagesReservation

\* Transcriptions: audio of at least the assumed bitrate, no longer than the
\* cap, costs no more than its size in bytes was reserved for.  (halves is
\* the reported duration in half seconds.)
THEOREM TranscriptionReservationCovers ==
  ASSUME NEW bytes \in Int, NEW halves \in Nat, NEW rate \in Nat
  PROVE  TranscriptionIsCovered(bytes, halves, rate)
<1> DEFINE Q == CeilDiv(bytes, BYTES_PER_SEC)
           E == EstimatedSeconds(bytes)
           A == AtLeast(0, CeilDiv(halves, 2))
<1> SUFFICES ASSUME halves * BYTES_PER_SEC <= 2 * bytes, halves <= 2 * MAX_SECONDS
             PROVE  computePerSecondCents(A, rate) <= computePerSecondCents(E, rate)
  BY DEF TranscriptionIsCovered, computeTranscriptionsActualCost, estimateTranscriptionsReservation
<1>0. bytes \in Nat
  <2>1. halves * BYTES_PER_SEC \in Nat
    BY PricingAssumption
  <2> QED BY <2>1
<1>1. Q \in Nat /\ bytes <= Q * BYTES_PER_SEC
  BY <1>0, CeilDivBounds, CeilDivNat, PricingAssumption
<1>2. E = AtLeast(1, AtMost(MAX_SECONDS, Q))
  BY <1>0 DEF EstimatedSeconds, AtLeast
<1> HIDE DEF Q, E
<1>3. halves <= 2 * Q
  <2> SUFFICES ASSUME 2 * Q + 1 <= halves
               PROVE  FALSE
    BY <1>1
  <2>1. (2 * Q + 1) * BYTES_PER_SEC <= halves * BYTES_PER_SEC
    BY <1>1, TimesMonotone, PricingAssumption
  <2>2. (2 * Q + 1) * BYTES_PER_SEC = 2 * (Q * BYTES_PER_SEC) + BYTES_PER_SEC
    BY <1>1, PricingAssumption
  <2>3. Q * BYTES_PER_SEC \in Nat /\ halves * BYTES_PER_SEC \in Nat
    BY <1>1, PricingAssumption
  <2> QED BY <1>1, <2>1, <2>2, <2>3, PricingAssumption
<1>4. A \in Nat /\ A <= Q /\ A <= MAX_SECONDS
  BY <1>1, <1>3, PricingAssumption DEF AtLeast, CeilDiv
<1>5. E \in Nat /\ A <= E
  BY <1>1, <1>2, <1>4, PricingAssumption DEF AtLeast, AtMost
<1> HIDE DEF A
<1>6. PerSecond(rate) \in Nat
  BY DEF PerSecond
<1>7. A * PerSecond(rate) \in Nat /\ E * PerSecond(rate) \in Nat
      /\ A * PerSecond(rate) <= E * PerSecond(rate)
  BY <1>4, <1>5, <1>6, TimesMonotone
<1>8. AtLeast(0, A) = A /\ AtLeast(0, E) = E
  BY <1>4, <1>5 DEF AtLeast
<1> QED BY <1>7, <1>8, CeilDivMonotone, PricingAssumption DEF computePerSecondCents

\* A chat is charged its exact price, rounded up by less than a cent: never
\* below it.
THEOREM ChatChargeIsTight ==
  ASSUME NEW usage \in [prompt_tokens : Nat, completion_tokens : Nat],
         NEW rate \in [input : Nat, output : Nat]
  PROVE  ChatIsTight(usage, rate)
<1> DEFINE n == usage.prompt_tokens * rate.input + usage.completion_tokens * rate.output
           d == MILLION * CENT
           q == CeilDiv(n, d)
<1>1. n \in Nat /\ d \in Nat \ {0}
  BY Units
<1> HIDE DEF n, d
<1>2. q \in Int /\ n <= q * d /\ q * d <= n + d - 1
  BY <1>1, CeilDivBounds
<1> HIDE DEF q
<1>3. q * d - n \in 0 .. d - 1
  BY <1>1, <1>2
<1>4. q * MILLION * CENT = q * d
  BY <1>2, PricingAssumption DEF d
<1> QED BY <1>3, <1>4 DEF ChatIsTight, computeActualCost, computeCostCents, n, d, q

\* What is divided before it is rounded up loses less than a micro-cent.
LEMMA RoundedTwice ==
  ASSUME NEW units \in Nat, NEW rate \in Nat
  PROVE  UnitsAreTight(CeilDiv((units * rate) \div MILLION, CENT), units, rate)
<1> DEFINE M == MILLION
           x == units * rate
           q == x \div M
           c == CeilDiv(q, CENT)
           t == c * CENT
<1>1. x \in Nat /\ M \in Nat \ {0} /\ CENT \in Nat \ {0}
  BY PricingAssumption
<1> HIDE DEF x, M
<1>2. q \in Int /\ M * q <= x /\ x < M * q + M
  BY <1>1, DivBounds
<1> HIDE DEF q
<1>3. c \in Int /\ q <= t /\ t <= q + CENT - 1
  BY <1>1, <1>2, CeilDivBounds
<1>4. t \in Int
  BY <1>1, <1>3
<1>5. c * M * CENT = t * M
  <2> HIDE DEF c
  <2> QED BY <1>1, <1>3
<1> HIDE DEF t
<1>6. q * M <= t * M /\ t * M <= (q + CENT - 1) * M
  BY <1>1, <1>2, <1>3, <1>4, ProductMonotone
<1>7. (q + CENT - 1) * M = M * q + M * CENT - M /\ q * M = M * q
  BY <1>1, <1>2
<1> DEFINE a == M * q
           b == t * M
           d == M * CENT
<1>8. a \in Int /\ b \in Int /\ d \in Int
  BY <1>1, <1>2, <1>4
<1>9. a <= x /\ x < a + M /\ a <= b /\ b <= a + d - M
  BY <1>2, <1>6, <1>7
<1> HIDE DEF a, b, d
<1>10. b - x \in -(M - 1) .. d - 1
  BY <1>1, <1>8, <1>9
<1> QED BY <1>5, <1>10 DEF UnitsAreTight, x, q, c, M, b, d

\* Embeddings and speech are charged their exact price, rounded up by less
\* than a cent and never a micro-cent below it.
THEOREM UnitChargesAreTight ==
  ASSUME NEW units \in Nat, NEW rate \in Nat
  PROVE  /\ UnitsAreTight(computeEmbeddingsActualCost(units, rate), units, rate)
         /\ UnitsAreTight(computeSpeechActualCost(units, rate), units, rate)
<1>1. AtLeast(0, units) = units
  BY DEF AtLeast
<1> QED BY <1>1, RoundedTwice DEF computeEmbeddingsActualCost, computeSpeechActualCost,
                computeInputOnlyCostCents, computePerCharCents

\* What Algorithms draws for the two kinds of samples that are priced.
PricedSample ==
  /\ sample.kind = "chat" =>
       /\ sample.req \in [chars : Nat, max_tokens : Seq(Nat)]
       /\ sample.audited \in Seq(Nat)
       /\ sample.usage \in [prompt_tokens : Nat, completion_tokens : Nat]
       /\ sample.rate \in [input : Nat, output : Nat]
  /\ sample.kind = "units" =>
       sample.seen \in Int /\ sample.billed \in Nat /\ sample.rate \in Nat

\* A behaviour of Algorithms draws samples of these types.
LEMMA DrawsPriced == AlgorithmsSpec => []PricedSample
<1>1. Init => PricedSample
  BY DEF Init, PricedSample
<1>2. PricedSample /\ [Draw]_sample => PricedSample'
  <2> SUFFICES ASSUME PricedSample, [Draw]_sample PROVE PricedSample'
    OBVIOUS
  <2>0. Count \subseteq Nat /\ Price \subseteq Nat /\ Optional \subseteq Seq(Nat)
    BY AlgorithmsAssumption DEF Count, Price, Optional
  <2>1. CASE DrawChat
    <3>1. PICK chars \in Count, max_tokens, audited \in Optional, tier \in {"free", "prepaid"},
               prompt, output \in Count, input, out \in Price :
            sample' = [kind |-> "chat", req |-> [chars |-> chars, max_tokens |-> max_tokens],
                       tier |-> tier, audited |-> audited,
                       usage |-> [prompt_tokens |-> prompt, completion_tokens |-> output],
                       rate |-> [input |-> input, output |-> out]]
      BY <2>1, Zenon DEF DrawChat
    <3> QED BY <2>0, <3>1 DEF PricedSample
  <2>2. CASE DrawUnits
    <3>1. PICK seen \in -1 .. 3 * MaxCount, billed \in 0 .. 2 * MaxCount,
               price \in Price \cup {60 * p : p \in Price} \cup {400} :
            sample' = [kind |-> "units", seen |-> seen, billed |-> billed, rate |-> price]
      BY <2>2 DEF DrawUnits
    <3>2. seen \in Int /\ billed \in Nat
      BY AlgorithmsAssumption
    <3>3. price \in Nat
      <4>1. \A p \in Price : 60 * p \in Nat
        BY <2>0
      <4> QED BY <2>0, <4>1
    <3> QED BY <3>1, <3>2, <3>3 DEF PricedSample
  <2>3. CASE sample'.kind \notin {"chat", "units"}
    BY <2>3 DEF PricedSample
  <2>4. CASE UNCHANGED sample
    BY <2>4 DEF PricedSample
  <2>5. ~DrawChat /\ ~DrawUnits /\ Draw => sample'.kind \notin {"chat", "units"}
    BY DEF Draw, DrawGlob, DrawLookup, DrawRequest, DrawError, DrawQuote, DrawStream,
           DrawCalls, DrawRollup
  <2> QED BY <2>1, <2>2, <2>3, <2>4, <2>5
<1> QED BY <1>1, <1>2, PTL DEF AlgorithmsSpec

\* For all rates and counts, on every endpoint: the reservation covers the
\* charge of a worker that counts no more than the gateway could foresee.
THEOREM EstimatesAlwaysCover == AlgorithmsSpec => []EstimateCoversActual
<1>1. PricedSample => EstimateCoversActual
  <2> SUFFICES ASSUME PricedSample PROVE EstimateCoversActual
    OBVIOUS
  <2>1. Config \in [defaultMaxTokensFree : Nat, defaultMaxTokensPrepaid : Nat]
    BY DEF Config
  <2>2. ASSUME sample.kind = "chat"
        PROVE  ChatIsCovered(Config, sample.req, sample.tier, sample.audited, sample.usage, sample.rate)
    BY <2>1, <2>2, ChatReservationCovers DEF PricedSample
  <2>3. ASSUME sample.kind = "units"
        PROVE  /\ EmbeddingsAreCovered(sample.seen, sample.billed, sample.rate)
               /\ ImagesAreCovered(sample.seen, sample.billed, sample.rate)
               /\ TranscriptionIsCovered(sample.seen, sample.billed, sample.rate)
    BY <2>3, EmbeddingsReservationCovers, ImagesReservationCovers, TranscriptionReservationCovers
       DEF PricedSample
  <2> QED BY <2>2, <2>3 DEF EstimateCoversActual
<1> QED BY <1>1, DrawsPriced, PTL

\* For all rates and counts: chat is charged its exact price rounded up to a
\* cent, and what is priced by the unit no micro-cent less.
THEOREM ChargesAlwaysTight == AlgorithmsSpec => []ChargeIsTight
<1>1. PricedSample => ChargeIsTight
  <2> SUFFICES ASSUME PricedSample PROVE ChargeIsTight
    OBVIOUS
  <2>1. ASSUME sample.kind = "chat" PROVE ChatIsTight(sample.usage, sample.rate)
    BY <2>1, ChatChargeIsTight DEF PricedSample
  <2>2. ASSUME sample.kind = "units"
        PROVE  /\ UnitsAreTight(computeEmbeddingsActualCost(sample.billed, sample.rate), sample.billed, sample.rate)
               /\ UnitsAreTight(computeSpeechActualCost(sample.billed, sample.rate), sample.billed, sample.rate)
    BY <2>2, UnitChargesAreTight DEF PricedSample
  <2> QED BY <2>1, <2>2 DEF ChargeIsTight
<1> QED BY <1>1, DrawsPriced, PTL
-----------------------------------------------------------------------------
(***************************************************************************)
(* Rollups.  A rollup is a sum over buckets of sums over records; grouping *)
(* changes no sum, so each field of all buckets together is the sum of one *)
(* term per record of the window, and the records of two adjoining windows *)
(* are those of both.                                                      *)
(***************************************************************************)
Outcomes == {"success", "partial", "failed"}

\* What the table of usage records holds.
UsageRecord(C, M, K) ==
  [caller : C, at : Nat, model : M, kind : K, local : Seq(Nat), reported : Seq(Nat),
   cents : Nat, status : Outcomes]

Field == {"tokens", "requests", "cents"} \cup Outcomes

\* What one record adds to a field.
Term(row, field) ==
  IF field = "tokens" THEN Tokens(row)
  ELSE IF field = "cents" THEN row.cents
  ELSE IF field = "requests" \/ field = row.status THEN 1 ELSE 0

Terms(rows, field) == [i \in DOMAIN rows |-> Term(rows[i], field)]

\* A record adds an integer to each field, and one or nothing to a count.
LEMMA TermsAreCounts ==
  ASSUME NEW C, NEW M, NEW K, NEW rows \in Seq(UsageRecord(C, M, K)), NEW field \in Field
  PROVE  /\ \A i \in DOMAIN rows : Terms(rows, field)[i] \in Int
         /\ field \in {"requests"} \cup Outcomes => \A i \in DOMAIN rows : Terms(rows, field)[i] \in {0, 1}
<1> SUFFICES ASSUME NEW i \in DOMAIN rows
             PROVE  /\ Terms(rows, field)[i] \in Int
                    /\ field \in {"requests"} \cup Outcomes => Terms(rows, field)[i] \in {0, 1}
  OBVIOUS
<1>1. rows[i] \in UsageRecord(C, M, K)
  OBVIOUS
<1>2. rows[i].cents \in Int /\ rows[i].local \in Seq(Nat) /\ rows[i].reported \in Seq(Nat)
  BY <1>1 DEF UsageRecord
<1>3. Tokens(rows[i]) \in Int
  <2>1. ASSUME NEW s \in Seq(Nat), s # <<>> PROVE s[1] \in Nat
    BY <2>1
  <2> QED BY <1>2, <2>1 DEF Tokens
<1>4. Terms(rows, field)[i] = Term(rows[i], field)
  BY DEF Terms
<1>5. CASE field = "tokens"
  BY <1>3, <1>4, <1>5 DEF Term, Outcomes
<1>6. CASE field = "cents"
  BY <1>2, <1>4, <1>6 DEF Term, Outcomes
<1>7. CASE field = "requests"
  BY <1>4, <1>7 DEF Term
<1>8. CASE field \in Outcomes
  BY <1>4, <1>8 DEF Term, Outcomes
<1> QED BY <1>5, <1>6, <1>7, <1>8 DEF Field

\* In each bucket a rollup holds the sum of its records' terms.
LEMMA BucketSums ==
  ASSUME NEW C, NEW M, NEW K, NEW rows \in Seq(UsageRecord(C, M, K)), NEW input,
         NEW field \in Field, NEW b \in Buckets(rows, input)
  PROVE  rollup(rows, input)[b][field] = SumFunctionOnSet(Terms(rows, field), InBucket(rows, input, b))
<1> DEFINE Of == InBucket(rows, input, b)
           f == Terms(rows, field)
<1>1. IsFiniteSet(Of) /\ Of \subseteq DOMAIN rows
  <2>1. Of \subseteq 1 .. Len(rows)
    BY DEF InBucket, Mine
  <2> QED BY <2>1, FS_Interval, FS_Subset
<1> DEFINE Of1(status) == {i \in Of : rows[i].status = status}
           entry == [tokens   |-> SumFunctionOnSet([i \in DOMAIN rows |-> Tokens(rows[i])], Of),
                     requests |-> Cardinality(Of),
                     cents    |-> SumFunctionOnSet([i \in DOMAIN rows |-> rows[i].cents], Of),
                     success  |-> Cardinality(Of1("success")),
                     partial  |-> Cardinality(Of1("partial")),
                     failed   |-> Cardinality(Of1("failed"))]
<1>0. rollup(rows, input)[b] = entry
  BY DEF rollup
<1>2. CASE field = "tokens"
  <2>1. f = [i \in DOMAIN rows |-> Tokens(rows[i])]
    BY <1>2 DEF Terms, Term
  <2>2. entry[field] = SumFunctionOnSet([i \in DOMAIN rows |-> Tokens(rows[i])], Of)
    BY <1>2
  <2> QED BY <1>0, <2>1, <2>2
<1>3. CASE field = "cents"
  <2>1. f = [i \in DOMAIN rows |-> rows[i].cents]
    BY <1>3 DEF Terms, Term
  <2>2. entry[field] = SumFunctionOnSet([i \in DOMAIN rows |-> rows[i].cents], Of)
    BY <1>3
  <2> QED BY <1>0, <2>1, <2>2
<1>4. ASSUME field \in {"requests"} \cup Outcomes
      PROVE  Cardinality({i \in Of : f[i] = 1}) = SumFunctionOnSet(f, Of)
  <2>1. \A i \in Of : f[i] \in {0, 1}
    BY <1>1, <1>4, TermsAreCounts
  <2> HIDE DEF Of, f
  <2> QED BY <1>1, <2>1, SumCounts
<1>5. CASE field = "requests"
  <2>1. {i \in Of : f[i] = 1} = Of
    <3>1. f = [i \in DOMAIN rows |-> 1]
      BY <1>5 DEF Terms, Term
    <3> HIDE DEF Of, f
    <3> QED BY <1>1, <3>1
  <2>2. rollup(rows, input)[b][field] = Cardinality(Of)
    BY <1>0, <1>5
  <2> QED BY <1>4, <1>5, <2>1, <2>2
<1>6. CASE field \in Outcomes
  <2>1. {i \in Of : f[i] = 1} = {i \in Of : rows[i].status = field}
    BY <1>1, <1>6 DEF Terms, Term, Outcomes
  <2>2. rollup(rows, input)[b][field] = Cardinality({i \in Of : rows[i].status = field})
    <3>1. entry[field] = Cardinality(Of1(field))
      <4> HIDE DEF Of, Of1
      <4> QED BY <1>6 DEF Outcomes
    <3> QED BY <1>0, <3>1
  <2> QED BY <1>4, <1>6, <2>1, <2>2
<1> QED BY <1>2, <1>3, <1>5, <1>6 DEF Field

\* Grouping changes no sum.
LEMMA GroupingIsNeutral ==
  ASSUME NEW C, NEW M, NEW K, NEW rows \in Seq(UsageRecord(C, M, K)), NEW input, NEW field \in Field
  PROVE  Grand(rows, input, field) = SumFunctionOnSet(Terms(rows, field), Mine(rows, input))
<1> DEFINE f == Terms(rows, field)
           S == Mine(rows, input)
           class == [i \in DOMAIN rows |-> Bucket(rows[i], input.groupBy)]
           B == Buckets(rows, input)
           g == [b \in B |-> rollup(rows, input)[b][field]]
           h == [b \in B |-> SumFunctionOnSet(f, {i \in S : class[i] = b})]
<1>1. IsFiniteSet(S) /\ S \subseteq DOMAIN rows
  <2>1. S \subseteq 1 .. Len(rows)
    BY DEF Mine
  <2> QED BY <2>1, FS_Interval, FS_Subset
<1>2. IsFiniteSet(B) /\ \A i \in S : class[i] \in B
  <2>1. B = {class[i] : i \in S}
    BY <1>1 DEF Buckets
  <2>2. IsFiniteSet({class[i] : i \in S})
    <3> DEFINE T == {class[i] : i \in S}
               F == [i \in S |-> class[i]]
    <3>1. F \in Surjection(S, T)
      <4> HIDE DEF class, S
      <4> QED BY DEF Surjection
    <3> HIDE DEF F, T, S
    <3>2. IsFiniteSet(T)
      BY <1>1, <3>1, FS_Surjection
    <3> QED BY <3>2 DEF T
  <2> QED BY <2>1, <2>2
<1>3. \A i \in S : f[i] \in Int
  BY <1>1, TermsAreCounts
<1>4. g = h
  <2>1. ASSUME NEW b \in B PROVE rollup(rows, input)[b][field] = SumFunctionOnSet(f, {i \in S : class[i] = b})
    <3>1. InBucket(rows, input, b) = {i \in S : class[i] = b}
      BY <1>1 DEF InBucket
    <3>2. rollup(rows, input)[b][field] = SumFunctionOnSet(Terms(rows, field), InBucket(rows, input, b))
      BY BucketSums
    <3> QED BY <3>1, <3>2
  <2> QED BY <2>1
<1>5. Grand(rows, input, field) = SumFunctionOnSet(g, B)
  <2>1. DOMAIN rollup(rows, input) = B
    BY DEF rollup
  <2> QED BY <2>1 DEF Grand, SumFunction
<1> HIDE DEF f, S, class, B
<1>6. SumFunctionOnSet(h, B) = SumFunctionOnSet(f, S)
  BY <1>1, <1>2, <1>3, SumByClass
<1> HIDE DEF g, h
<1>7. Grand(rows, input, field) = SumFunctionOnSet(f, S)
  BY <1>4, <1>5, <1>6
<1> QED BY <1>7 DEF f, S

\* For every table of usage records and every way to group them: of two
\* adjoining windows a record is billed in one, once, and is a success, a
\* partial answer or a failure.
THEOREM WindowsAlwaysAddUp ==
  ASSUME NEW C, NEW M, NEW K, NEW rows \in Seq(UsageRecord(C, M, K)), NEW callerId, NEW groupBy,
         NEW from \in Nat, NEW middle \in Nat, NEW to \in Nat, from <= middle, middle <= to
  PROVE  WindowsAddUp(rows, callerId, groupBy, from, middle, to)
<1> DEFINE Window(a, b) == [callerId |-> callerId, from |-> a, to |-> b, groupBy |-> groupBy]
           Part(a, b) == Mine(rows, Window(a, b))
           Sum(a, b, field) == Grand(rows, Window(a, b), field)
<1>1. ASSUME NEW a, NEW b PROVE IsFiniteSet(Part(a, b)) /\ Part(a, b) \subseteq DOMAIN rows
  <2>1. Part(a, b) \subseteq 1 .. Len(rows)
    BY DEF Mine
  <2> QED BY <2>1, FS_Interval, FS_Subset
<1>2. Part(from, to) = Part(from, middle) \cup Part(middle, to) /\ Part(from, middle) \cap Part(middle, to) = {}
  <2>1. \A i \in DOMAIN rows : rows[i].at \in Nat
    <3>1. \A i \in DOMAIN rows : rows[i] \in UsageRecord(C, M, K)
      OBVIOUS
    <3> QED BY <3>1 DEF UsageRecord
  <2>2. ASSUME NEW i \in DOMAIN rows, NEW a, NEW b
        PROVE  i \in Part(a, b) <=> rows[i].caller = callerId /\ rows[i].at >= a /\ rows[i].at < b
    BY DEF Mine, InWindow
  <2>3. ASSUME NEW i \in DOMAIN rows
        PROVE  /\ i \in Part(from, to) <=> i \in Part(from, middle) \/ i \in Part(middle, to)
               /\ ~(i \in Part(from, middle) /\ i \in Part(middle, to))
    <3> HIDE DEF Part
    <3> QED BY <2>1, <2>2
  <2> HIDE DEF Part
  <2> QED BY <1>1, <2>3
<1>3. ASSUME NEW field \in Field
      PROVE  Sum(from, to, field) = Sum(from, middle, field) + Sum(middle, to, field)
  <2> DEFINE f == Terms(rows, field)
             P == Part(from, middle)
             Q == Part(middle, to)
  <2>1. IsFiniteSet(P) /\ IsFiniteSet(Q) /\ P \cap Q = {} /\ Part(from, to) = P \cup Q
    BY <1>1, <1>2
  <2>2. \A i \in P \cup Q : f[i] \in Int
    <3>1. P \cup Q \subseteq DOMAIN rows
      BY <1>1
    <3> HIDE DEF P, Q
    <3> QED BY <3>1, TermsAreCounts
  <2>3. /\ Sum(from, to, field) = SumFunctionOnSet(f, Part(from, to))
        /\ Sum(from, middle, field) = SumFunctionOnSet(f, P)
        /\ Sum(middle, to, field) = SumFunctionOnSet(f, Q)
    BY GroupingIsNeutral
  <2> HIDE DEF f, P, Q, Part, Sum
  <2>4. SumFunctionOnSet(f, P \cup Q) = SumFunctionOnSet(f, P) + SumFunctionOnSet(f, Q)
    BY <2>1, <2>2, SumOfUnion
  <2> QED BY <2>1, <2>3, <2>4
<1>4. Sum(from, to, "requests") =
        Sum(from, to, "success") + Sum(from, to, "partial") + Sum(from, to, "failed")
  <2> DEFINE D == Part(from, to)
             f(field) == Terms(rows, field)
             u == [i \in DOMAIN rows |-> f("success")[i] + f("partial")[i]]
  <2>1. ASSUME NEW i \in D
        PROVE  /\ f("success")[i] \in Int /\ f("partial")[i] \in Int /\ f("failed")[i] \in Int /\ u[i] \in Int
               /\ u[i] = f("success")[i] + f("partial")[i]
               /\ f("requests")[i] = u[i] + f("failed")[i]
    <3>1. i \in DOMAIN rows /\ rows[i].status \in Outcomes
      <4>1. i \in DOMAIN rows
        BY <1>1
      <4>2. rows[i] \in UsageRecord(C, M, K)
        BY <4>1
      <4> QED BY <4>1, <4>2 DEF UsageRecord
    <3>2. /\ \A field \in Outcomes : f(field)[i] = IF rows[i].status = field THEN 1 ELSE 0
          /\ f("requests")[i] = 1
      <4>1. f("requests")[i] = 1
        <5>1. Term(rows[i], "requests") = 1
          BY DEF Term
        <5> QED BY <3>1, <5>1 DEF Terms
      <4>2. ASSUME NEW field \in Outcomes PROVE f(field)[i] = IF rows[i].status = field THEN 1 ELSE 0
        BY <3>1, <4>2 DEF Terms, Term, Outcomes
      <4> QED BY <4>1, <4>2
    <3>3. u[i] = f("success")[i] + f("partial")[i]
      BY <3>1
    <3>4. /\ f("success")[i] \in Int /\ f("partial")[i] \in Int /\ f("failed")[i] \in Int
          /\ f("requests")[i] = (f("success")[i] + f("partial")[i]) + f("failed")[i]
      <4> HIDE DEF f
      <4> QED BY <3>1, <3>2 DEF Outcomes
    <3> HIDE DEF f, u
    <3> QED BY <3>3, <3>4
  <2>2. IsFiniteSet(D)
    BY <1>1
  <2>3. \A field \in Field : Sum(from, to, field) = SumFunctionOnSet(f(field), D)
    BY GroupingIsNeutral
  <2>4. {"requests", "success", "partial", "failed"} \subseteq Field
    BY DEF Field, Outcomes
  <2> HIDE DEF D, f, u, Sum, Part
  <2>5. SumFunctionOnSet(u, D) = SumFunctionOnSet(f("success"), D) + SumFunctionOnSet(f("partial"), D)
    BY <2>1, <2>2, SumAddsTerms
  <2>6. SumFunctionOnSet(f("requests"), D) = SumFunctionOnSet(u, D) + SumFunctionOnSet(f("failed"), D)
    BY <2>1, <2>2, SumAddsTerms
  <2> QED BY <2>3, <2>4, <2>5, <2>6
<1> HIDE DEF Sum
<1>5. \A field \in {"cents", "requests", "tokens"} :
        Sum(from, to, field) = Sum(from, middle, field) + Sum(middle, to, field)
  BY <1>3 DEF Field
<1> QED BY <1>4, <1>5 DEF WindowsAddUp, Sum

\* What Algorithms draws for the samples that are rolled up.
LedgerSample ==
  sample.kind = "rollup" =>
    /\ sample.rows \in Seq(UsageRecord({"c", "d"}, {"m", "n"}, {"chat", "images"}))
    /\ sample.from \in Nat /\ sample.middle \in Nat /\ sample.to \in Nat
    /\ sample.from <= sample.middle /\ sample.middle <= sample.to

\* A behaviour of Algorithms draws ledgers of this type.
LEMMA DrawsLedgers == AlgorithmsSpec => []LedgerSample
<1>1. Init => LedgerSample
  BY DEF Init, LedgerSample
<1>2. LedgerSample /\ [Draw]_sample => LedgerSample'
  <2> SUFFICES ASSUME LedgerSample, [Draw]_sample PROVE LedgerSample'
    OBVIOUS
  <2>1. CASE DrawRollup
    <3> DEFINE Other == [caller : {"c"}, at : 0 .. 2, model : {"m", "n"}, kind : {"chat"},
                         local : {<<>>}, reported : {<<>>}, cents : {1}, status : {"failed"}]
               Record == UsageRecord({"c", "d"}, {"m", "n"}, {"chat", "images"})
    <3>1. PICK row \in Rows, other \in Other, groupBy \in {"day", "model", "capability"},
               from \in 0 .. 1, middle \in 1 .. 2, to \in 2 .. 3 :
            sample' = [kind |-> "rollup", rows |-> <<row, other>>, groupBy |-> groupBy,
                       from |-> from, middle |-> middle, to |-> to]
      BY <2>1, Zenon DEF DrawRollup
    <3>2. row \in Record /\ other \in Record
      <4>1. <<>> \in Seq(Nat) /\ <<1>> \in Seq(Nat) /\ <<2>> \in Seq(Nat)
        OBVIOUS
      <4> DEFINE Tuple == {<<>>, <<1>>, <<2>>}
      <4>2. Tuple \subseteq Seq(Nat)
        BY <4>1
      <4>3. {<<>>, <<1>>} \subseteq Tuple /\ {<<2>>} \subseteq Tuple /\ {<<>>} \subseteq Tuple
        OBVIOUS
      <4>4. row \in [caller : {"c", "d"}, at : Nat, model : {"m", "n"}, kind : {"chat", "images"},
                    local : Tuple, reported : Tuple, cents : Nat, status : Outcomes]
        <5> HIDE DEF Tuple
        <5> QED BY <4>3 DEF Rows, Outcomes
      <4>5. other \in [caller : {"c", "d"}, at : Nat, model : {"m", "n"}, kind : {"chat", "images"},
                      local : Tuple, reported : Tuple, cents : Nat, status : Outcomes]
        <5> HIDE DEF Tuple
        <5> QED BY <4>3 DEF Outcomes
      <4> HIDE DEF Tuple
      <4> QED BY <4>2, <4>4, <4>5 DEF UsageRecord
    <3> HIDE DEF Other, Record
    <3>3. <<row, other>> \in Seq(Record)
      BY <3>2
    <3>4. from \in Nat /\ middle \in Nat /\ to \in Nat /\ from <= middle /\ middle <= to
      OBVIOUS
    <3> QED BY <3>1, <3>3, <3>4 DEF LedgerSample, Record
  <2>2. ~DrawRollup /\ Draw => sample'.kind # "rollup"
    BY DEF Draw, DrawGlob, DrawLookup, DrawChat, DrawUnits, DrawRequest, DrawError, DrawQuote,
           DrawStream, DrawCalls
  <2>3. CASE sample'.kind # "rollup"
    BY <2>3 DEF LedgerSample
  <2>4. CASE UNCHANGED sample
    BY <2>4 DEF LedgerSample
  <2> QED BY <2>1, <2>2, <2>3, <2>4
<1> QED BY <1>1, <1>2, PTL DEF AlgorithmsSpec

\* The rollups of adjoining windows add up in every sample.
THEOREM RollupsAlwaysAddUp == AlgorithmsSpec => []RollupsAddUp
<1>1. LedgerSample => RollupsAddUp
  BY WindowsAlwaysAddUp DEF LedgerSample, RollupsAddUp
<1> QED BY <1>1, DrawsLedgers, PTL

-----------------------------------------------------------------------------
(***************************************************************************)
(* The cap on a metric's series.  The vec after n calls is the value of a  *)
(* recursive function; that the function exists, and what it preserves, is *)
(* shown for the smallest n where it would fail.                           *)
(***************************************************************************)
\* after[k] is the vec after the first k of n calls.
Runs(after, calls, maxSeries, n) ==
  after = [k \in 0 .. n |-> IF k = 0 THEN NewVec ELSE Update(after[k - 1], calls[k], maxSeries)]

\* Calls can be made one after the other.
LEMMA RunsExist ==
  ASSUME NEW calls, NEW maxSeries, NEW n \in Nat
  PROVE  \E after : Runs(after, calls, maxSeries, n)
<1> DEFINE C == {k \in Nat : ~ \E after : Runs(after, calls, maxSeries, k)}
<1>1. SUFFICES ASSUME C # {} PROVE FALSE
  OBVIOUS
<1>2. PICK k \in C : \A j \in C : k <= j
  <2> HIDE DEF C
  <2>1. C \in SUBSET Nat
    BY DEF C
  <2> QED BY <1>1, <2>1, LeastNumber
<1>3. CASE k = 0
  <2> DEFINE f == [j \in 0 .. k |-> NewVec]
  <2>1. f = [j \in 0 .. k |-> IF j = 0 THEN NewVec ELSE Update(f[j - 1], calls[j], maxSeries)]
    BY <1>3
  <2>2. Runs(f, calls, maxSeries, k)
    <3> HIDE DEF f
    <3> QED BY <2>1 DEF Runs
  <2> QED BY <1>2, <2>2
<1>4. CASE k # 0
  <2>1. k - 1 \in Nat /\ k - 1 \notin C
    <3>1. k \in Nat
      BY <1>2
    <3>2. k - 1 \in Nat /\ ~(k <= k - 1)
      BY <1>4, <3>1
    <3> HIDE DEF C
    <3> QED BY <1>2, <3>2
  <2>2. PICK g : Runs(g, calls, maxSeries, k - 1)
    BY <2>1
  <2> DEFINE f == [j \in 0 .. k |-> IF j = 0 THEN NewVec ELSE Update(g[j - 1], calls[j], maxSeries)]
  <2>3. ASSUME NEW j \in 0 .. k - 1 PROVE f[j] = g[j]
    <3>1. g[j] = IF j = 0 THEN NewVec ELSE Update(g[j - 1], calls[j], maxSeries)
      BY <2>2 DEF Runs
    <3>2. j \in 0 .. k
      BY <1>2
    <3> QED BY <3>1, <3>2
  <2>4. f = [j \in 0 .. k |-> IF j = 0 THEN NewVec ELSE Update(f[j - 1], calls[j], maxSeries)]
    <3>1. ASSUME NEW j \in 0 .. k, j # 0 PROVE f[j - 1] = g[j - 1]
      <4>1. j - 1 \in 0 .. k - 1
        BY <1>2, <3>1
      <4> HIDE DEF f
      <4> QED BY <2>3, <4>1
    <3>2. \A j \in 0 .. k : j # 0 => f[j - 1] = g[j - 1]
      BY <3>1
    <3> DEFINE h == f
    <3>3. \A j \in 0 .. k : j # 0 => h[j - 1] = g[j - 1]
      BY <3>2
    <3> HIDE DEF h
    <3>4. f = [j \in 0 .. k |-> IF j = 0 THEN NewVec ELSE Update(h[j - 1], calls[j], maxSeries)]
      BY <3>3
    <3> QED BY <3>4 DEF h
  <2>5. Runs(f, calls, maxSeries, k)
    <3> HIDE DEF f
    <3> QED BY <2>4 DEF Runs
  <2> QED BY <1>2, <2>5
<1> QED BY <1>3, <1>4

\* A prefix of the calls leaves what the calls had left by then.
LEMMA RunsAgree ==
  ASSUME NEW L, NEW calls \in Seq(L), NEW maxSeries,
         NEW after, Runs(after, calls, maxSeries, Len(calls)), NEW k \in 0 .. Len(calls)
  PROVE  AfterCalls(SubSeq(calls, 1, k), maxSeries) = after[k]
<1> DEFINE p == SubSeq(calls, 1, k)
           h == CHOOSE g : Runs(g, p, maxSeries, k)
           C == {j \in Nat : j <= k /\ h[j] # after[j]}
<1>1. Len(p) = k /\ (\A j \in 1 .. k : p[j] = calls[j]) /\ k \in Nat
  OBVIOUS
<1>2. Runs(h, p, maxSeries, k)
  BY <1>1, RunsExist
<1>3. AfterCalls(p, maxSeries) = h[k]
  BY <1>1 DEF AfterCalls, Runs
<1> HIDE DEF p, h
<1>4. C = {}
  <2>1. SUFFICES ASSUME C # {} PROVE FALSE
    OBVIOUS
  <2>2. PICK j \in C : \A i \in C : j <= i
    <3> HIDE DEF C
    <3>1. C \in SUBSET Nat
      BY DEF C
    <3> QED BY <2>1, <3>1, LeastNumber
  <2>3. j \in 0 .. k /\ j \in 0 .. Len(calls) /\ h[j] # after[j] /\ Len(calls) \in Nat
    BY <1>1, <2>2
  <2>4. /\ h[j] = IF j = 0 THEN NewVec ELSE Update(h[j - 1], p[j], maxSeries)
        /\ after[j] = IF j = 0 THEN NewVec ELSE Update(after[j - 1], calls[j], maxSeries)
    BY <1>2, <2>3 DEF Runs
  <2>5. j # 0 => h[j - 1] = after[j - 1] /\ p[j] = calls[j]
    <3>1. SUFFICES ASSUME j # 0 PROVE h[j - 1] = after[j - 1] /\ p[j] = calls[j]
      OBVIOUS
    <3>2. j - 1 \in Nat /\ j - 1 <= k /\ ~(j <= j - 1) /\ j \in 1 .. k
      BY <1>1, <2>3, <3>1
    <3>3. j - 1 \notin C
      <4> HIDE DEF C
      <4> QED BY <2>2, <3>2
    <3> QED BY <1>1, <3>2, <3>3
  <2> QED BY <2>3, <2>4, <2>5
<1>5. h[k] = after[k]
  BY <1>1, <1>4
<1> QED BY <1>3, <1>5 DEF p

\* The labels of the first n calls.
Called(calls, n) == {calls[i] : i \in 1 .. n}

\* What a vec holds after n calls with labels of L, when its cap is positive.
VecInv(vec, L, calls, maxSeries, n) ==
  /\ vec \in [seen : SUBSET {Join(l) : l \in L}, exceeded : BOOLEAN, exported : SUBSET L, alarms : Nat]
  /\ vec.seen = {Join(l) : l \in vec.exported}
  /\ vec.exported \subseteq Called(calls, n)
  /\ IsFiniteSet(vec.exported) /\ IsFiniteSet(vec.seen)
  /\ Cardinality(vec.seen) = Cardinality(vec.exported)
  /\ Cardinality(vec.exported) <= maxSeries
  /\ vec.exceeded = (Called(calls, n) \ vec.exported # {})
  /\ vec.exceeded => Cardinality(vec.exported) = maxSeries
  /\ vec.alarms = IF vec.exceeded THEN 1 ELSE 0

\* A call exports its labels, drops them at the cap, or changes nothing.
LEMMA CallKeepsCap ==
  ASSUME NEW L, \A a, b \in L : Join(a) = Join(b) => a = b,
         NEW calls \in Seq(L), NEW maxSeries \in Nat \ {0},
         NEW n \in Nat, n + 1 <= Len(calls), NEW vec, VecInv(vec, L, calls, maxSeries, n)
  PROVE  /\ VecInv(Update(vec, calls[n + 1], maxSeries), L, calls, maxSeries, n + 1)
         /\ vec.exported \subseteq Update(vec, calls[n + 1], maxSeries).exported
<1> DEFINE l == calls[n + 1]
           key == Join(l)
           new == Update(vec, l, maxSeries)
           old == Called(calls, n)
           now == Called(calls, n + 1)
           V == [seen : SUBSET {Join(x) : x \in L}, exceeded : BOOLEAN, exported : SUBSET L, alarms : Nat]
<1>1. l \in L /\ now = old \cup {l}
  <2>1. n + 1 \in 1 .. Len(calls) /\ 1 .. n + 1 = 1 .. n \cup {n + 1}
    OBVIOUS
  <2>2. now = old \cup {l}
    BY <2>1 DEF Called
  <2> QED BY <2>1, <2>2
<1>2. /\ vec \in V
      /\ vec.seen = {Join(x) : x \in vec.exported}
      /\ vec.exported \subseteq old
      /\ IsFiniteSet(vec.exported) /\ IsFiniteSet(vec.seen)
      /\ Cardinality(vec.seen) = Cardinality(vec.exported)
      /\ Cardinality(vec.exported) <= maxSeries
      /\ vec.exceeded = (old \ vec.exported # {})
      /\ vec.exceeded => Cardinality(vec.exported) = maxSeries
      /\ vec.alarms = IF vec.exceeded THEN 1 ELSE 0
  BY DEF VecInv
<1>3. vec.exported \subseteq L /\ (key \in vec.seen <=> l \in vec.exported) /\ Cardinality(vec.exported) \in Nat
  BY <1>1, <1>2, FS_CardinalityType
<1>4. SUFFICES /\ new \in V
               /\ new.seen = {Join(x) : x \in new.exported}
               /\ new.exported \subseteq now
               /\ IsFiniteSet(new.exported) /\ IsFiniteSet(new.seen)
               /\ Cardinality(new.seen) = Cardinality(new.exported)
               /\ Cardinality(new.exported) <= maxSeries
               /\ new.exceeded = (now \ new.exported # {})
               /\ new.exceeded => Cardinality(new.exported) = maxSeries
               /\ new.alarms = IF new.exceeded THEN 1 ELSE 0
               /\ vec.exported \subseteq new.exported
  BY DEF VecInv
<1> HIDE DEF l, old, now
<1>5. CASE key \in vec.seen
  <2>1. new = vec
    <3>1. new = [vec EXCEPT !.exported = vec.exported \cup {l}]
      BY <1>5 DEF Update
    <3>2. vec.exported \cup {l} = vec.exported
      BY <1>3, <1>5
    <3> QED BY <1>2, <3>1, <3>2
  <2>2. now \ vec.exported = old \ vec.exported
    BY <1>1, <1>3, <1>5
  <2> HIDE DEF new, V
  <2> QED BY <1>1, <1>2, <2>1, <2>2
<1>6. CASE key \notin vec.seen /\ IsFull(vec, maxSeries)
  <2>1. new = [vec EXCEPT !.exceeded = TRUE, !.alarms = IF vec.exceeded THEN vec.alarms ELSE vec.alarms + 1]
    BY <1>6 DEF Update
  <2>2. /\ new.seen = vec.seen /\ new.exported = vec.exported /\ new.exceeded = TRUE
        /\ new.alarms = IF vec.exceeded THEN vec.alarms ELSE vec.alarms + 1
    BY <1>2, <2>1
  <2>3. Cardinality(vec.exported) = maxSeries
    BY <1>2, <1>3, <1>6 DEF IsFull
  <2>4. l \in now \ vec.exported
    BY <1>1, <1>3, <1>6
  <2>5. new.alarms = 1
    BY <1>2, <2>2
  <2>6. new \in V
    <3> DEFINE count == IF vec.exceeded THEN vec.alarms ELSE vec.alarms + 1
    <3>1. new = [seen |-> vec.seen, exceeded |-> TRUE, exported |-> vec.exported, alarms |-> count]
      BY <1>2, <2>1
    <3>2. vec.seen \in SUBSET {Join(x) : x \in L} /\ vec.exported \in SUBSET L /\ count \in Nat
      BY <1>2
    <3> HIDE DEF new, count
    <3> QED BY <3>1, <3>2
  <2> HIDE DEF new, V
  <2> QED BY <1>1, <1>2, <2>2, <2>3, <2>4, <2>5, <2>6
<1>7. CASE key \notin vec.seen /\ ~IsFull(vec, maxSeries)
  <2>1. new = [vec EXCEPT !.seen = vec.seen \cup {key}, !.exported = vec.exported \cup {l}]
    BY <1>7 DEF Update
  <2>2. /\ new.seen = vec.seen \cup {key} /\ new.exported = vec.exported \cup {l}
        /\ new.exceeded = vec.exceeded /\ new.alarms = vec.alarms
    BY <1>2, <2>1
  <2>3. Cardinality(vec.exported) < maxSeries
    BY <1>2, <1>3, <1>7 DEF IsFull
  <2>4. /\ IsFiniteSet(new.exported) /\ Cardinality(new.exported) = Cardinality(vec.exported) + 1
        /\ IsFiniteSet(new.seen) /\ Cardinality(new.seen) = Cardinality(vec.seen) + 1
    <3> DEFINE s == vec.seen
               e == vec.exported
    <3>1. IsFiniteSet(e) /\ IsFiniteSet(s) /\ l \notin e /\ key \notin s
      BY <1>2, <1>3, <1>7
    <3> HIDE DEF s, e, key, new
    <3>2. /\ IsFiniteSet(e \cup {l}) /\ Cardinality(e \cup {l}) = Cardinality(e) + 1
          /\ IsFiniteSet(s \cup {key}) /\ Cardinality(s \cup {key}) = Cardinality(s) + 1
      BY <3>1, FS_AddElement
    <3> QED BY <2>2, <3>2 DEF s, e
  <2>5. vec.exceeded = FALSE /\ old \ vec.exported = {}
    BY <1>2, <1>3, <2>3
  <2>6. now \ new.exported = {}
    BY <1>1, <2>2, <2>5
  <2>7. new \in V
    <3> DEFINE s == vec.seen \cup {key}
               e == vec.exported \cup {l}
    <3>1. new = [seen |-> s, exceeded |-> vec.exceeded, exported |-> e, alarms |-> vec.alarms]
      BY <1>2, <2>1
    <3>2. s \in SUBSET {Join(x) : x \in L} /\ e \in SUBSET L
      BY <1>1, <1>2
    <3>3. vec.exceeded \in BOOLEAN /\ vec.alarms \in Nat
      BY <1>2
    <3> HIDE DEF new, s, e
    <3> QED BY <3>1, <3>2, <3>3
  <2>8. new.seen = {Join(x) : x \in new.exported}
    BY <1>2, <2>2
  <2> HIDE DEF new, V
  <2> QED BY <1>1, <1>2, <1>3, <2>2, <2>3, <2>4, <2>5, <2>6, <2>7, <2>8
<1> QED BY <1>5, <1>6, <1>7

\* Whatever the calls, as long as the key tells their labels apart: the cap
\* holds, nothing is dropped below it, what is exported stays, one alarm.
LEMMA CapKept ==
  ASSUME NEW L, \A a, b \in L : Join(a) = Join(b) => a = b,
         NEW calls \in Seq(L), NEW maxSeries \in Int
  PROVE  CapHolds(calls, maxSeries)
<1>1. SUFFICES ASSUME maxSeries > 0 PROVE CapHolds(calls, maxSeries)
  BY DEF CapHolds
<1> DEFINE N == Len(calls)
<1>2. N \in Nat /\ maxSeries \in Nat \ {0}
  BY <1>1
<1>3. PICK after : Runs(after, calls, maxSeries, N)
  BY <1>2, RunsExist
<1>4. \A k \in 0 .. N : AfterCalls(SubSeq(calls, 1, k), maxSeries) = after[k]
  BY <1>3, RunsAgree
<1>5. AfterCalls(calls, maxSeries) = after[N] /\ N \in 0 .. N /\ Called(calls, N) = ToSet(calls)
  <2>1. SubSeq(calls, 1, N) = calls /\ N \in 0 .. N
    OBVIOUS
  <2>2. Called(calls, N) = ToSet(calls)
    BY DEF Called, ToSet
  <2> QED BY <1>4, <2>1, <2>2
<1> DEFINE Inv(k) == VecInv(after[k], L, calls, maxSeries, k)
<1>6. Inv(0)
  <2> DEFINE zero == 0
  <2>1. after[zero] = NewVec
    BY <1>2, <1>3 DEF Runs
  <2>2. Called(calls, zero) = {}
    BY DEF Called
  <2>3. VecInv(NewVec, L, calls, maxSeries, zero)
    <3>1. /\ NewVec \in [seen : SUBSET {Join(l) : l \in L}, exceeded : BOOLEAN, exported : SUBSET L, alarms : Nat]
          /\ NewVec.seen = {} /\ NewVec.exported = {} /\ NewVec.exceeded = FALSE /\ NewVec.alarms = 0
      BY DEF NewVec
    <3>2. IsFiniteSet({}) /\ Cardinality({}) = 0 /\ {Join(l) : l \in {}} = {}
      BY FS_EmptySet
    <3> HIDE DEF zero
    <3> QED BY <1>2, <2>2, <3>1, <3>2 DEF VecInv
  <2> QED BY <2>1, <2>3
<1>7. ASSUME NEW k \in 0 .. N, k # N, Inv(k)
      PROVE  Inv(k + 1) /\ after[k].exported \subseteq after[k + 1].exported
  <2>1. k \in Nat /\ k + 1 <= N /\ k + 1 \in 0 .. N /\ k + 1 # 0 /\ (k + 1) - 1 = k
    BY <1>2, <1>7
  <2>2. after[k + 1] = Update(after[k], calls[k + 1], maxSeries)
    BY <1>3, <2>1 DEF Runs
  <2> QED BY <1>2, <1>7, <2>1, <2>2, CallKeepsCap
<1> DEFINE Good(k) == Inv(k) /\ \A j \in 0 .. k : after[j].exported \subseteq after[k].exported
           C == {k \in Nat : k <= N /\ ~Good(k)}
<1> HIDE DEF Inv, N
<1>8. C = {}
  <2>1. SUFFICES ASSUME C # {} PROVE FALSE
    OBVIOUS
  <2>2. PICK k \in C : \A j \in C : k <= j
    <3> HIDE DEF C
    <3>1. C \in SUBSET Nat
      BY DEF C
    <3> QED BY <2>1, <3>1, LeastNumber
  <2>3. k \in Nat /\ k <= N /\ ~Good(k)
    BY <2>2
  <2>4. CASE k = 0
    <3>1. \A j \in 0 .. k : j = k
      BY <2>4
    <3> QED BY <1>6, <2>3, <2>4, <3>1
  <2>5. CASE k # 0
    <3> DEFINE j == k - 1
    <3>1. j \in Nat /\ j <= N /\ ~(k <= j) /\ j \in 0 .. N /\ j # N /\ k = j + 1
      BY <1>2, <2>3, <2>5
    <3>2. Good(j)
      <4>1. j \notin C
        <5> HIDE DEF C, j
        <5> QED BY <2>2, <3>1
      <4> QED BY <3>1, <4>1
    <3> HIDE DEF j
    <3>3. Inv(k) /\ after[j].exported \subseteq after[k].exported
      BY <1>7, <3>1, <3>2
    <3>4. \A i \in 0 .. k : i = k \/ i \in 0 .. j
      BY <3>1
    <3> QED BY <2>3, <3>2, <3>3, <3>4
  <2> QED BY <2>4, <2>5
<1>9. Good(N)
  BY <1>2, <1>8
<1> DEFINE end == AfterCalls(calls, maxSeries)
           dropped == ToSet(calls) \ end.exported
<1>10. VecInv(end, L, calls, maxSeries, N)
  BY <1>5, <1>9 DEF Inv
<1>11. \A k \in DOMAIN calls : AfterCalls(SubSeq(calls, 1, k), maxSeries).exported \subseteq end.exported
  <2>1. \A k \in DOMAIN calls : k \in 0 .. N
    BY DEF N
  <2> QED BY <1>4, <1>5, <1>9, <2>1
<1>12. dropped = Called(calls, N) \ end.exported
  BY <1>5
<1> HIDE DEF end
<1>13. /\ Cardinality(end.exported) <= maxSeries
       /\ dropped # {} => Cardinality(end.exported) = maxSeries
       /\ end.alarms = IF dropped = {} THEN 0 ELSE 1
  <2> HIDE DEF dropped
  <2> QED BY <1>10, <1>12 DEF VecInv
<1> QED BY <1>11, <1>13 DEF CapHolds, end

\* A word to which a blank and a label are appended.
Followed(x, u) == x \o (<<Blank>> \o u)

\* Labels have no blanks.
Label(Char) == Seq(Char)

\* Words are labels of characters of Char, with blanks between them.
Word(Char) == Seq(Char \cup {Blank})

\* w is the word x, a blank and the label u.
Appended(w, x, u) ==
  /\ Len(w) = Len(x) + 1 + Len(u)
  /\ \A i \in 1 .. Len(x) : w[i] = x[i]
  /\ w[Len(x) + 1] = Blank
  /\ \A i \in 1 .. Len(u) : w[Len(x) + 1 + i] = u[i]

\* Where the characters of a word go to when a label follows it.
LEMMA LabelAppended ==
  ASSUME NEW Char, NEW x \in Word(Char), NEW u \in Label(Char)
  PROVE  Followed(x, u) \in Word(Char) /\ Appended(Followed(x, u), x, u)
<1> DEFINE t == <<Blank>> \o u
           w == x \o t
<1>1. u \in Word(Char)
  BY DEF Word, Label
<1>2. /\ t \in Word(Char) /\ Len(t) = 1 + Len(u) /\ t[1] = Blank
      /\ \A i \in 1 .. Len(u) : t[1 + i] = u[i]
  BY <1>1 DEF Word, Label
<1> HIDE DEF t
<1>3. w \in Word(Char) /\ Len(w) = Len(x) + Len(t)
  <2> DEFINE S == Char \cup {Blank}
  <2>1. x \in Seq(S) /\ t \in Seq(S)
    BY <1>2 DEF Word, Label
  <2> HIDE DEF S
  <2>2. x \o t \in Seq(S) /\ Len(x \o t) = Len(x) + Len(t)
    BY <2>1
  <2> QED BY <2>2 DEF S, Word, Label
<1>4. (\A i \in 1 .. Len(x) : w[i] = x[i]) /\ (\A j \in 1 .. Len(t) : w[Len(x) + j] = t[j])
  BY <1>2 DEF Word, Label
<1>5. Len(x) \in Nat /\ Len(u) \in Nat
  BY <1>1 DEF Word, Label
<1>6. 1 \in 1 .. Len(t) /\ \A i \in 1 .. Len(u) : 1 + i \in 1 .. Len(t) /\ Len(x) + (1 + i) = Len(x) + 1 + i
  BY <1>2, <1>5
<1> HIDE DEF w
<1>7. w[Len(x) + 1] = Blank /\ \A i \in 1 .. Len(u) : w[Len(x) + 1 + i] = u[i]
  BY <1>2, <1>4, <1>6
<1>8. Len(w) = Len(x) + 1 + Len(u)
  BY <1>2, <1>3, <1>5
<1>9. Appended(w, x, u)
  BY <1>4, <1>7, <1>8 DEF Appended
<1> QED BY <1>3, <1>9 DEF w, t, Followed

\* A word is its characters.
LEMMA SameWord ==
  ASSUME NEW S, NEW x \in Seq(S), NEW y \in Seq(S), Len(x) = Len(y), \A i \in 1 .. Len(x) : x[i] = y[i]
  PROVE  x = y
  OBVIOUS

\* A word ends in the label behind its last blank.
LEMMA LastBlank ==
  ASSUME NEW Char, Blank \notin Char,
         NEW x \in Word(Char), NEW y \in Word(Char),
         NEW u \in Label(Char), NEW v \in Label(Char),
         Followed(x, u) = Followed(y, v)
  PROVE  x = y /\ u = v
<1> DEFINE w == Followed(x, u)
<1>0. Appended(w, x, u) /\ Appended(w, y, v)
  BY LabelAppended
<1> HIDE DEF w
<1>1. /\ Len(w) = Len(x) + 1 + Len(u)
      /\ \A i \in 1 .. Len(x) : w[i] = x[i]
      /\ w[Len(x) + 1] = Blank
      /\ \A i \in 1 .. Len(u) : w[Len(x) + 1 + i] = u[i]
  BY <1>0 DEF Appended
<1>2. /\ Len(w) = Len(y) + 1 + Len(v)
      /\ \A i \in 1 .. Len(y) : w[i] = y[i]
      /\ w[Len(y) + 1] = Blank
      /\ \A i \in 1 .. Len(v) : w[Len(y) + 1 + i] = v[i]
  BY <1>0 DEF Appended
<1>3. Len(x) \in Nat /\ Len(y) \in Nat /\ Len(u) \in Nat /\ Len(v) \in Nat
  BY DEF Word, Label
<1>4. (\A i \in 1 .. Len(u) : u[i] \in Char) /\ (\A i \in 1 .. Len(v) : v[i] \in Char)
  BY DEF Label
<1>5. ASSUME Len(x) < Len(y) PROVE FALSE
  <2> DEFINE i == Len(y) - Len(x)
  <2>1. i \in 1 .. Len(u) /\ Len(x) + 1 + i = Len(y) + 1
    BY <1>1, <1>2, <1>3, <1>5
  <2> HIDE DEF i
  <2> QED BY <1>1, <1>2, <1>4, <2>1
<1>6. ASSUME Len(y) < Len(x) PROVE FALSE
  <2> DEFINE i == Len(x) - Len(y)
  <2>1. i \in 1 .. Len(v) /\ Len(y) + 1 + i = Len(x) + 1
    BY <1>1, <1>2, <1>3, <1>6
  <2> HIDE DEF i
  <2> QED BY <1>1, <1>2, <1>4, <2>1
<1>7. Len(x) = Len(y) /\ Len(u) = Len(v)
  BY <1>1, <1>2, <1>3, <1>5, <1>6
<1>8. \A i \in 1 .. Len(x) : x[i] = y[i]
  BY <1>1, <1>2, <1>7
<1>9. \A i \in 1 .. Len(u) : u[i] = v[i]
  BY <1>1, <1>2, <1>7
<1>10. x = y
  BY <1>7, <1>8, SameWord DEF Word, Label
<1>11. u = v
  BY <1>7, <1>9, SameWord DEF Label
<1> QED BY <1>10, <1>11

\* joined[i] is the key of the first i of n labels.
Joined(joined, labels, n) ==
  joined = [i \in 1 .. n |-> IF i = 1 THEN labels[1] ELSE Followed(joined[i - 1], labels[i])]

\* The key is built label by label.
LEMMA JoinIsBuilt ==
  ASSUME NEW n \in Nat \ {0}, NEW W, NEW labels \in [1 .. n -> W], \E f : Joined(f, labels, n)
  PROVE  \E f : Joined(f, labels, n) /\ Join(labels) = f[n]
<1> DEFINE part == [i \in DOMAIN labels |-> IF i = 1 THEN labels[1] ELSE <<Blank>> \o labels[i]]
           Flat(f) == f = [i \in 1 .. n |-> IF i = 1 THEN part[i] ELSE f[i - 1] \o part[i]]
<1>1. part = [i \in 1 .. n |-> IF i = 1 THEN labels[1] ELSE <<Blank>> \o labels[i]]
  OBVIOUS
<1>2. Len(part) = n
  BY <1>1
<1>3. FlattenSeq(part) = (CHOOSE f : Flat(f))[n]
  <2> HIDE DEF part
  <2> QED BY <1>2 DEF FlattenSeq
<1>4. ASSUME NEW f PROVE Flat(f) <=> Joined(f, labels, n)
  <2>1. \A i \in 1 .. n : (IF i = 1 THEN part[i] ELSE f[i - 1] \o part[i]) =
                          (IF i = 1 THEN labels[1] ELSE Followed(f[i - 1], labels[i]))
    BY <1>1 DEF Followed
  <2> HIDE DEF part
  <2> QED BY <2>1 DEF Joined
<1> HIDE DEF Flat, part
<1>5. PICK g : Flat(g)
  BY <1>4
<1>6. Flat(CHOOSE f : Flat(f))
  BY <1>5
<1>7. Join(labels) = (CHOOSE f : Flat(f))[n]
  BY <1>3 DEF Join, part
<1> QED BY <1>4, <1>6, <1>7

\* Labels can be joined one after the other, and the key is a word.
LEMMA JoinedExists ==
  ASSUME NEW n \in Nat \ {0}, NEW labels
  PROVE  \E f : Joined(f, labels, n)
<1> DEFINE C == {k \in Nat : k # 0 /\ ~ \E f : Joined(f, labels, k)}
<1>1. SUFFICES ASSUME C # {} PROVE FALSE
  OBVIOUS
<1>2. PICK k \in C : \A j \in C : k <= j
  <2> HIDE DEF C
  <2>1. C \in SUBSET Nat
    BY DEF C
  <2> QED BY <1>1, <2>1, LeastNumber
<1>3. k \in Nat /\ k # 0 /\ ~ \E f : Joined(f, labels, k)
  BY <1>2
<1>4. CASE k = 1
  <2> DEFINE f == [i \in 1 .. k |-> labels[1]]
  <2>1. f = [i \in 1 .. k |-> IF i = 1 THEN labels[1] ELSE Followed(f[i - 1], labels[i])]
    BY <1>4
  <2>2. Joined(f, labels, k)
    <3> HIDE DEF f
    <3> QED BY <2>1 DEF Joined
  <2> QED BY <1>3, <2>2
<1>5. CASE k # 1
  <2>1. k - 1 \in Nat /\ k - 1 # 0 /\ ~(k <= k - 1)
    BY <1>3, <1>5
  <2>2. k - 1 \notin C
    <3> HIDE DEF C
    <3> QED BY <1>2, <2>1
  <2>3. PICK g : Joined(g, labels, k - 1)
    BY <2>1, <2>2
  <2> DEFINE f == [i \in 1 .. k |-> IF i = 1 THEN labels[1] ELSE Followed(g[i - 1], labels[i])]
  <2>4. ASSUME NEW i \in 1 .. k - 1 PROVE f[i] = g[i]
    <3>1. g[i] = IF i = 1 THEN labels[1] ELSE Followed(g[i - 1], labels[i])
      BY <2>3 DEF Joined
    <3>2. i \in 1 .. k
      BY <1>3
    <3> QED BY <3>1, <3>2
  <2> DEFINE h == f
  <2>5. \A i \in 1 .. k : i # 1 => h[i - 1] = g[i - 1]
    <3> HIDE DEF f
    <3>1. \A i \in 1 .. k : i # 1 => i - 1 \in 1 .. k - 1
      BY <1>3
    <3> QED BY <2>4, <3>1
  <2>6. f = [i \in 1 .. k |-> IF i = 1 THEN labels[1] ELSE Followed(h[i - 1], labels[i])]
    <3> HIDE DEF h
    <3> QED BY <2>5
  <2>7. Joined(f, labels, k)
    <3> HIDE DEF f
    <3> QED BY <2>6 DEF Joined, h
  <2> QED BY <1>3, <2>7
<1> QED BY <1>4, <1>5

\* The keys of two tuples of labels without blanks differ as the tuples do.
LEMMA JoinTellsApart ==
  ASSUME NEW Char, Blank \notin Char, NEW n \in Nat,
         NEW a \in [1 .. n -> Label(Char)], NEW b \in [1 .. n -> Label(Char)], Join(a) = Join(b)
  PROVE  a = b
<1>1. CASE n = 0
  BY <1>1
<1>2. CASE n # 0
  <2>0. n \in Nat \ {0}
    BY <1>2
  <2>1. PICK f : Joined(f, a, n) /\ Join(a) = f[n]
    BY <2>0, JoinedExists, JoinIsBuilt
  <2>2. PICK g : Joined(g, b, n) /\ Join(b) = g[n]
    BY <2>0, JoinedExists, JoinIsBuilt
  <2> DEFINE Apart(k) == f[k] = g[k] => \A i \in 1 .. k : a[i] = b[i]
             Good(k) == f[k] \in Word(Char) /\ g[k] \in Word(Char) /\ Apart(k)
             C == {k \in Nat : k \in 1 .. n /\ ~Good(k)}
  <2>3. C = {}
    <3>1. SUFFICES ASSUME C # {} PROVE FALSE
      OBVIOUS
    <3>2. PICK k \in C : \A j \in C : k <= j
      <4> HIDE DEF C
      <4>1. C \in SUBSET Nat
        BY DEF C
      <4> QED BY <3>1, <4>1, LeastNumber
    <3>3. k \in 1 .. n /\ ~Good(k) /\ a[k] \in Label(Char) /\ b[k] \in Label(Char)
      BY <3>2
    <3>4. /\ f[k] = IF k = 1 THEN a[1] ELSE Followed(f[k - 1], a[k])
          /\ g[k] = IF k = 1 THEN b[1] ELSE Followed(g[k - 1], b[k])
      BY <2>1, <2>2, <3>3 DEF Joined
    <3>5. CASE k = 1
      <4>1. f[k] = a[k] /\ g[k] = b[k]
        BY <3>4, <3>5
      <4>2. Apart(k)
        <5>1. \A i \in 1 .. k : i = k
          BY <3>5
        <5> QED BY <4>1, <5>1
      <4>3. f[k] \in Word(Char) /\ g[k] \in Word(Char)
        BY <3>3, <4>1 DEF Word, Label
      <4> QED BY <3>3, <4>2, <4>3
    <3>6. CASE k # 1
      <4> DEFINE j == k - 1
      <4>1. j \in Nat /\ j \in 1 .. n /\ ~(k <= j) /\ k = j + 1
        BY <2>0, <3>3, <3>6
      <4>2. Good(j)
        <5>1. j \notin C
          <6> HIDE DEF C, j
          <6> QED BY <3>2, <4>1
        <5> QED BY <4>1, <5>1
      <4>3. f[k] = Followed(f[j], a[k]) /\ g[k] = Followed(g[j], b[k])
        BY <3>4, <3>6
      <4> HIDE DEF j
      <4>4. f[k] \in Word(Char) /\ g[k] \in Word(Char)
        BY <3>3, <4>2, <4>3, LabelAppended
      <4>5. ASSUME f[k] = g[k] PROVE f[j] = g[j] /\ a[k] = b[k]
        <5> DEFINE p == f[j]
                   q == g[j]
                   u == a[k]
                   v == b[k]
        <5>1. p \in Word(Char) /\ q \in Word(Char)
          BY <4>2
        <5>2. u \in Label(Char) /\ v \in Label(Char) /\ Followed(p, u) = Followed(q, v)
          BY <3>3, <4>3, <4>5
        <5> HIDE DEF p, q, u, v
        <5>3. p = q /\ u = v
          BY <5>1, <5>2, LastBlank
        <5> QED BY <5>3 DEF p, q, u, v
      <4>6. Apart(k)
        <5>1. \A i \in 1 .. k : i = k \/ i \in 1 .. j
          BY <4>1
        <5> QED BY <4>2, <4>5, <5>1
      <4> QED BY <3>3, <4>4, <4>6
    <3> QED BY <3>5, <3>6
  <2>4. Apart(n)
    <3>1. n \in Nat /\ n \in 1 .. n
      BY <2>0
    <3> HIDE DEF Good
    <3>2. Good(n)
      BY <2>3, <3>1
    <3> QED BY <3>2 DEF Good
  <2>5. \A i \in 1 .. n : a[i] = b[i]
    BY <2>1, <2>2, <2>4
  <2> QED BY <2>5
<1> QED BY <1>1, <1>2

\* For every number of labels, every cap and every sequence of calls: of
\* label values without blanks no more series are exported than the cap
\* allows, none is dropped below it, none goes, and the alarm comes once.
THEOREM SeriesAlwaysCapped ==
  ASSUME NEW Char, Blank \notin Char, NEW n \in Nat,
         NEW calls \in Seq([1 .. n -> Label(Char)]), NEW maxSeries \in Int
  PROVE  CapHolds(calls, maxSeries)
<1> DEFINE L == [1 .. n -> Label(Char)]
<1>1. \A a, b \in L : Join(a) = Join(b) => a = b
  BY JoinTellsApart
<1> HIDE DEF L
<1>2. calls \in Seq(L)
  BY DEF L
<1> QED BY <1>1, <1>2, CapKept

\* What Algorithms draws for the samples that are counted.
CallSample ==
  sample.kind = "calls" =>
    sample.calls \in Seq([1 .. 2 -> Label({"a", "b"})]) /\ sample.maxSeries \in Int

\* A behaviour of Algorithms draws calls of two labels.
LEMMA DrawsCalls == AlgorithmsSpec => []CallSample
<1>1. Init => CallSample
  BY DEF Init, CallSample
<1>2. CallSample /\ [Draw]_sample => CallSample'
  <2> SUFFICES ASSUME CallSample, [Draw]_sample PROVE CallSample'
    OBVIOUS
  <2>1. CASE DrawCalls
    <3> DEFINE Drawn == {<<<<"a">>, <<"b">>>>, <<<<"a">>, <<"a">>>>, <<<<"a", "b">>, <<>>>>}
               L == [1 .. 2 -> Label({"a", "b"})]
    <3>1. PICK calls \in SeqOf(Drawn, 4), maxSeries \in 0 .. 2 :
            sample' = [kind |-> "calls", calls |-> calls, maxSeries |-> maxSeries]
      BY <2>1, Zenon DEF DrawCalls
    <3>2. Drawn \subseteq L
      <4>1. <<"a">> \in Label({"a", "b"}) /\ <<"b">> \in Label({"a", "b"})
            /\ <<"a", "b">> \in Label({"a", "b"}) /\ <<>> \in Label({"a", "b"})
        BY DEF Label
      <4>2. ASSUME NEW W, NEW u \in W, NEW v \in W PROVE <<u, v>> \in [1 .. 2 -> W]
        OBVIOUS
      <4> QED BY <4>1, <4>2
    <3> HIDE DEF Drawn, L
    <3>3. calls \in Seq(L)
      <4>1. PICK m \in 0 .. 4 : calls \in [1 .. m -> Drawn]
        BY DEF SeqOf
      <4>2. m \in Nat /\ calls \in [1 .. m -> L]
        BY <3>2, <4>1
      <4> QED BY <4>2
    <3> QED BY <3>1, <3>3 DEF CallSample, L
  <2>2. ~DrawCalls /\ Draw => sample'.kind # "calls"
    BY DEF Draw, DrawGlob, DrawLookup, DrawChat, DrawUnits, DrawRequest, DrawError, DrawQuote,
           DrawStream, DrawRollup
  <2>3. CASE sample'.kind # "calls"
    BY <2>3 DEF CallSample
  <2>4. CASE UNCHANGED sample
    BY <2>4 DEF CallSample
  <2> QED BY <2>1, <2>2, <2>3, <2>4
<1> QED BY <1>1, <1>2, PTL DEF AlgorithmsSpec

\* The cap holds in every sample.
THEOREM CardinalityAlwaysBounded == AlgorithmsSpec => []CardinalityBounded
<1>1. Blank \notin {"a", "b"}
  BY DEF Blank
<1>2. CallSample => CardinalityBounded
  <2> DEFINE two == 2
  <2>1. two \in Nat
    OBVIOUS
  <2> HIDE DEF two
  <2> QED BY <1>1, <2>1, SeriesAlwaysCapped DEF CallSample, CardinalityBounded, two
<1> QED BY <1>2, DrawsCalls, PTL

-----------------------------------------------------------------------------
(***************************************************************************)
(* The lookup of a rate.  A glob's match is a recursive function of the    *)
(* rests of the glob and of the input: one table satisfies its equation,   *)
(* that of the rests the input can be cut into pieces for, and no other,   *)
(* as the place with the least left to read where another one differed     *)
(* would show.                                                             *)
(***************************************************************************)
\* The rest of the glob from i on describes the rest of the input from j on.
Cuts(glob, input, i, j) ==
  \E cut \in [i .. Len(glob) + 1 -> 1 .. Len(input) + 1] :
    /\ cut[i] = j /\ cut[Len(glob) + 1] = Len(input) + 1
    /\ \A k \in i .. Len(glob) : StandsFor(glob[k], input, cut[k], cut[k + 1])

\* Nothing is left of the glob.
LEMMA CutsEnd ==
  ASSUME NEW glob, NEW input, Len(glob) \in Nat, Len(input) \in Nat, NEW j \in 1 .. Len(input) + 1
  PROVE  Cuts(glob, input, Len(glob) + 1, j) <=> j = Len(input) + 1
<1> DEFINE n == Len(glob) + 1
<1>1. \A k \in n .. Len(glob) : FALSE
  OBVIOUS
<1>2. n \in n .. Len(glob) + 1 /\ Len(input) + 1 \in 1 .. Len(input) + 1
  OBVIOUS
<1>3. ASSUME j = Len(input) + 1 PROVE Cuts(glob, input, n, j)
  <2> DEFINE cut == [k \in n .. Len(glob) + 1 |-> j]
  <2>1. cut \in [n .. Len(glob) + 1 -> 1 .. Len(input) + 1] /\ cut[n] = j /\ cut[Len(glob) + 1] = Len(input) + 1
    BY <1>2, <1>3
  <2> HIDE DEF cut, n
  <2> QED BY <1>1, <2>1 DEF Cuts
<1>4. ASSUME Cuts(glob, input, n, j) PROVE j = Len(input) + 1
  BY <1>4 DEF Cuts
<1> QED BY <1>3, <1>4

\* The first character of the rest stands for a first piece.
LEMMA CutsFirst ==
  ASSUME NEW glob, NEW input, Len(glob) \in Nat, Len(input) \in Nat,
         NEW i \in 1 .. Len(glob), NEW j \in 1 .. Len(input) + 1
  PROVE  Cuts(glob, input, i, j) <=>
           \E k \in 1 .. Len(input) + 1 : StandsFor(glob[i], input, j, k) /\ Cuts(glob, input, i + 1, k)
<1> DEFINE N == Len(glob) + 1
           M == Len(input) + 1
<1>0. i \in Nat /\ i + 1 \in i .. N /\ i \in i .. N /\ i \in i .. Len(glob) /\ N \in i + 1 .. N /\ N \in i .. N /\ N # i
  OBVIOUS
<1>1. ASSUME Cuts(glob, input, i, j)
      PROVE  \E k \in 1 .. M : StandsFor(glob[i], input, j, k) /\ Cuts(glob, input, i + 1, k)
  <2>1. PICK cut \in [i .. N -> 1 .. M] :
          /\ cut[i] = j /\ cut[N] = M
          /\ \A k \in i .. Len(glob) : StandsFor(glob[k], input, cut[k], cut[k + 1])
    BY <1>1 DEF Cuts
  <2> DEFINE rest == [k \in i + 1 .. N |-> cut[k]]
  <2>2. \A k \in i + 1 .. N : k \in i .. N
    OBVIOUS
  <2>3. rest \in [i + 1 .. N -> 1 .. M] /\ rest[i + 1] = cut[i + 1] /\ rest[N] = M
    BY <1>0, <2>1, <2>2
  <2>4. ASSUME NEW k \in i + 1 .. Len(glob) PROVE StandsFor(glob[k], input, rest[k], rest[k + 1])
    <3>1. k \in i .. Len(glob) /\ k \in i + 1 .. N /\ k + 1 \in i + 1 .. N
      OBVIOUS
    <3>2. rest[k] = cut[k] /\ rest[k + 1] = cut[k + 1]
      BY <3>1
    <3> HIDE DEF rest
    <3> QED BY <2>1, <3>1, <3>2
  <2>5. Cuts(glob, input, i + 1, cut[i + 1])
    <3> HIDE DEF rest
    <3> QED BY <2>3, <2>4 DEF Cuts
  <2>6. StandsFor(glob[i], input, j, cut[i + 1]) /\ cut[i + 1] \in 1 .. M
    BY <1>0, <2>1
  <2> QED BY <2>5, <2>6
<1>2. ASSUME NEW k \in 1 .. M, StandsFor(glob[i], input, j, k), Cuts(glob, input, i + 1, k)
      PROVE  Cuts(glob, input, i, j)
  <2>1. PICK rest \in [i + 1 .. N -> 1 .. M] :
          /\ rest[i + 1] = k /\ rest[N] = M
          /\ \A l \in i + 1 .. Len(glob) : StandsFor(glob[l], input, rest[l], rest[l + 1])
    BY <1>2 DEF Cuts
  <2> DEFINE cut == [l \in i .. N |-> IF l = i THEN j ELSE rest[l]]
  <2>2. \A l \in i .. N : l = i \/ l \in i + 1 .. N
    OBVIOUS
  <2>3. cut \in [i .. N -> 1 .. M] /\ cut[i] = j /\ cut[N] = M
    BY <1>0, <2>1, <2>2
  <2>4. ASSUME NEW l \in i .. Len(glob) PROVE StandsFor(glob[l], input, cut[l], cut[l + 1])
    <3>1. l \in i .. N /\ l + 1 \in i .. N /\ l + 1 # i
      OBVIOUS
    <3>2. cut[l] = (IF l = i THEN j ELSE rest[l]) /\ cut[l + 1] = rest[l + 1]
      BY <3>1
    <3>3. l = i \/ l \in i + 1 .. Len(glob)
      OBVIOUS
    <3> HIDE DEF cut
    <3>4. CASE l = i
      BY <1>2, <2>1, <3>2, <3>4
    <3>5. CASE l # i
      BY <2>1, <3>2, <3>3, <3>5
    <3> QED BY <3>4, <3>5
  <2> HIDE DEF cut
  <2> QED BY <2>3, <2>4 DEF Cuts
<1> QED BY <1>1, <1>2

\* A star stands for nothing, or for a character and what it stands for next.
LEMMA CutsStar ==
  ASSUME NEW glob, NEW input, Len(glob) \in Nat, Len(input) \in Nat,
         NEW i \in 1 .. Len(glob), NEW j \in 1 .. Len(input) + 1, glob[i] = "*"
  PROVE  Cuts(glob, input, i, j) <=>
           \/ Cuts(glob, input, i + 1, j)
           \/ j <= Len(input) /\ input[j] \notin NEWLINE /\ Cuts(glob, input, i, j + 1)
<1> DEFINE M == Len(input) + 1
<1>1. ASSUME NEW a \in 1 .. M, NEW k \in 1 .. M
      PROVE  StandsFor(glob[i], input, a, k) <=> a <= k /\ \A l \in a .. k - 1 : input[l] \notin NEWLINE
  BY DEF StandsFor
<1>2. ASSUME Cuts(glob, input, i + 1, j) PROVE Cuts(glob, input, i, j)
  <2>1. StandsFor(glob[i], input, j, j)
    BY <1>1
  <2> QED BY <1>2, <2>1, CutsFirst
<1>3. ASSUME j <= Len(input), input[j] \notin NEWLINE, Cuts(glob, input, i, j + 1) PROVE Cuts(glob, input, i, j)
  <2>1. j + 1 \in 1 .. M
    BY <1>3
  <2>2. PICK k \in 1 .. M : StandsFor(glob[i], input, j + 1, k) /\ Cuts(glob, input, i + 1, k)
    BY <1>3, <2>1, CutsFirst
  <2>3. j + 1 <= k /\ \A l \in j + 1 .. k - 1 : input[l] \notin NEWLINE
    BY <1>1, <2>1, <2>2
  <2>4. \A l \in j .. k - 1 : l = j \/ l \in j + 1 .. k - 1
    OBVIOUS
  <2>5. StandsFor(glob[i], input, j, k)
    BY <1>1, <1>3, <2>3, <2>4
  <2> QED BY <2>2, <2>5, CutsFirst
<1>4. ASSUME Cuts(glob, input, i, j)
      PROVE  \/ Cuts(glob, input, i + 1, j)
             \/ j <= Len(input) /\ input[j] \notin NEWLINE /\ Cuts(glob, input, i, j + 1)
  <2>1. PICK k \in 1 .. M : StandsFor(glob[i], input, j, k) /\ Cuts(glob, input, i + 1, k)
    BY <1>4, CutsFirst
  <2>2. j <= k /\ \A l \in j .. k - 1 : input[l] \notin NEWLINE
    BY <1>1, <2>1
  <2>3. CASE k = j
    BY <2>1, <2>3
  <2>4. CASE k # j
    <3>1. j <= Len(input) /\ j \in j .. k - 1 /\ j + 1 \in 1 .. M /\ j + 1 <= k
      BY <2>2, <2>4
    <3>2. \A l \in j + 1 .. k - 1 : l \in j .. k - 1
      OBVIOUS
    <3>3. StandsFor(glob[i], input, j + 1, k)
      BY <1>1, <2>2, <3>1, <3>2
    <3>4. Cuts(glob, input, i, j + 1)
      BY <2>1, <3>1, <3>3, CutsFirst
    <3> QED BY <2>2, <3>1, <3>4
  <2> QED BY <2>3, <2>4
<1> QED BY <1>2, <1>3, <1>4

\* Any other character stands for one.
LEMMA CutsOne ==
  ASSUME NEW glob, NEW input, Len(glob) \in Nat, Len(input) \in Nat,
         NEW i \in 1 .. Len(glob), NEW j \in 1 .. Len(input) + 1, glob[i] # "*"
  PROVE  Cuts(glob, input, i, j) <=>
           /\ j <= Len(input)
           /\ IF glob[i] = "?" THEN input[j] \notin NEWLINE ELSE input[j] = glob[i]
           /\ Cuts(glob, input, i + 1, j + 1)
<1> DEFINE M == Len(input) + 1
<1>1. ASSUME NEW k \in 1 .. M
      PROVE  StandsFor(glob[i], input, j, k) <=>
               k = j + 1 /\ IF glob[i] = "?" THEN input[j] \notin NEWLINE ELSE input[j] = glob[i]
  <2>1. k = j + 1 => \A l \in j .. k - 1 : l = j
    OBVIOUS
  <2>2. k = j + 1 => j \in j .. k - 1 /\ j <= k
    OBVIOUS
  <2>3. glob[i] \in {"*", "?"} <=> glob[i] = "?"
    OBVIOUS
  <2> QED BY <2>1, <2>2, <2>3 DEF StandsFor
<1>2. ASSUME Cuts(glob, input, i, j)
      PROVE  /\ j <= Len(input)
             /\ IF glob[i] = "?" THEN input[j] \notin NEWLINE ELSE input[j] = glob[i]
             /\ Cuts(glob, input, i + 1, j + 1)
  <2>1. PICK k \in 1 .. M : StandsFor(glob[i], input, j, k) /\ Cuts(glob, input, i + 1, k)
    BY <1>2, CutsFirst
  <2>2. k = j + 1 /\ IF glob[i] = "?" THEN input[j] \notin NEWLINE ELSE input[j] = glob[i]
    BY <1>1, <2>1
  <2>3. j <= Len(input)
    BY <2>2
  <2> QED BY <2>1, <2>2, <2>3
<1>3. ASSUME j <= Len(input),
             IF glob[i] = "?" THEN input[j] \notin NEWLINE ELSE input[j] = glob[i],
             Cuts(glob, input, i + 1, j + 1)
      PROVE  Cuts(glob, input, i, j)
  <2>1. j + 1 \in 1 .. M
    BY <1>3
  <2>2. StandsFor(glob[i], input, j, j + 1)
    BY <1>1, <1>3, <2>1
  <2> QED BY <1>3, <2>1, <2>2, CutsFirst
<1> QED BY <1>2, <1>3

\* What one step of the match says, of a table m of the answers for the rests.
Step(m, glob, input, i, j) ==
  IF i > Len(glob) THEN j > Len(input)
  ELSE IF glob[i] = "*"
  THEN m[<<i + 1, j>>] \/ ((j <= Len(input) /\ input[j] \notin NEWLINE) /\ m[<<i, j + 1>>])
  ELSE IF glob[i] = "?" THEN (j <= Len(input) /\ input[j] \notin NEWLINE) /\ m[<<i + 1, j + 1>>]
  ELSE j <= Len(input) /\ input[j] = glob[i] /\ m[<<i + 1, j + 1>>]

\* The rests of the glob and the rests of the input.
Place(glob, input) == (1 .. Len(glob) + 1) \X (1 .. Len(input) + 1)

\* A table of all the answers.
Table(m, glob, input) == m = [at \in Place(glob, input) |-> Step(m, glob, input, at[1], at[2])]

\* The match, with its table in place.
LEMMA MatchDefinition ==
  ASSUME NEW glob, NEW input
  PROVE  globMatch(glob, input) = (CHOOSE m : Table(m, glob, input))[<<1, 1>>]
  BY DEF globMatch, Table, Step, Place

\* The step, with what it looks up given.
LEMMA StepMeansCuts ==
  ASSUME NEW m, NEW glob, NEW input, Len(glob) \in Nat, Len(input) \in Nat,
         NEW i \in 1 .. Len(glob) + 1, NEW j \in 1 .. Len(input) + 1,
         i <= Len(glob) => (m[<<i + 1, j>>] <=> Cuts(glob, input, i + 1, j)),
         i <= Len(glob) /\ j <= Len(input) => (m[<<i, j + 1>>] <=> Cuts(glob, input, i, j + 1)),
         i <= Len(glob) /\ j <= Len(input) => (m[<<i + 1, j + 1>>] <=> Cuts(glob, input, i + 1, j + 1))
  PROVE  Step(m, glob, input, i, j) <=> Cuts(glob, input, i, j)
<1>1. CASE i > Len(glob)
  <2>1. i = Len(glob) + 1 /\ (j > Len(input) <=> j = Len(input) + 1)
    BY <1>1
  <2>2. Step(m, glob, input, i, j) <=> j > Len(input)
    BY <1>1 DEF Step
  <2> QED BY <2>1, <2>2, CutsEnd
<1>2. CASE ~(i > Len(glob)) /\ glob[i] = "*"
  <2>1. i \in 1 .. Len(glob) /\ i <= Len(glob)
    BY <1>2
  <2>2. Step(m, glob, input, i, j) <=>
          m[<<i + 1, j>>] \/ ((j <= Len(input) /\ input[j] \notin NEWLINE) /\ m[<<i, j + 1>>])
    BY <1>2, Zenon DEF Step
  <2>3. Cuts(glob, input, i, j) <=>
           \/ Cuts(glob, input, i + 1, j)
           \/ j <= Len(input) /\ input[j] \notin NEWLINE /\ Cuts(glob, input, i, j + 1)
    BY <1>2, <2>1, CutsStar
  <2> QED BY <2>1, <2>2, <2>3, Zenon
<1>3. CASE ~(i > Len(glob)) /\ glob[i] # "*"
  <2>1. i \in 1 .. Len(glob) /\ i <= Len(glob)
    BY <1>3
  <2>2. Step(m, glob, input, i, j) <=>
           /\ j <= Len(input)
           /\ IF glob[i] = "?" THEN input[j] \notin NEWLINE ELSE input[j] = glob[i]
           /\ m[<<i + 1, j + 1>>]
    <3>1. CASE glob[i] = "?"
      BY <1>3, <3>1, Zenon DEF Step
    <3>2. CASE glob[i] # "?"
      BY <1>3, <3>2, Zenon DEF Step
    <3> QED BY <3>1, <3>2
  <2>3. Cuts(glob, input, i, j) <=>
           /\ j <= Len(input)
           /\ IF glob[i] = "?" THEN input[j] \notin NEWLINE ELSE input[j] = glob[i]
           /\ Cuts(glob, input, i + 1, j + 1)
    BY <1>3, <2>1, CutsOne
  <2> QED BY <2>1, <2>2, <2>3, Zenon
<1> QED BY <1>1, <1>2, <1>3

\* The cuts are a table ...
LEMMA TableExists ==
  ASSUME NEW glob, NEW input, Len(glob) \in Nat, Len(input) \in Nat
  PROVE  \E m : Table(m, glob, input)
<1> DEFINE W == [at \in Place(glob, input) |-> Cuts(glob, input, at[1], at[2])]
<1>1. ASSUME NEW i \in 1 .. Len(glob) + 1, NEW j \in 1 .. Len(input) + 1
      PROVE  W[<<i, j>>] <=> Cuts(glob, input, i, j)
  <2>1. <<i, j>> \in Place(glob, input)
    BY DEF Place
  <2> QED BY <2>1
<1> HIDE DEF W
<1>2. ASSUME NEW at \in Place(glob, input)
      PROVE  Step(W, glob, input, at[1], at[2]) <=> Cuts(glob, input, at[1], at[2])
  <2>1. at[1] \in 1 .. Len(glob) + 1 /\ at[2] \in 1 .. Len(input) + 1
    BY DEF Place
  <2> DEFINE i == at[1]
             j == at[2]
  <2>2. i \in 1 .. Len(glob) + 1 /\ j \in 1 .. Len(input) + 1
    BY <2>1
  <2> HIDE DEF i, j
  <2>3. /\ i <= Len(glob) => i + 1 \in 1 .. Len(glob) + 1
        /\ j <= Len(input) => j + 1 \in 1 .. Len(input) + 1
    BY <2>2
  <2>4. /\ i <= Len(glob) => (W[<<i + 1, j>>] <=> Cuts(glob, input, i + 1, j))
        /\ i <= Len(glob) /\ j <= Len(input) => (W[<<i, j + 1>>] <=> Cuts(glob, input, i, j + 1))
        /\ i <= Len(glob) /\ j <= Len(input) => (W[<<i + 1, j + 1>>] <=> Cuts(glob, input, i + 1, j + 1))
    BY <1>1, <2>2, <2>3, Zenon
  <2>5. Step(W, glob, input, i, j) <=> Cuts(glob, input, i, j)
    BY <2>2, <2>4, StepMeansCuts, Zenon
  <2> QED BY <2>5, Zenon DEF i, j
<1>3. ASSUME NEW at \in Place(glob, input)
      PROVE  Step(W, glob, input, at[1], at[2]) = Cuts(glob, input, at[1], at[2])
  <2> DEFINE i == at[1]
             j == at[2]
  <2>1. CASE i > Len(glob)
    <3>1. Cuts(glob, input, i, j) \in BOOLEAN
      BY DEF Cuts
    <3>2. Step(W, glob, input, i, j) \in BOOLEAN
      <4>1. i \in 1 .. Len(glob) + 1 /\ j \in 1 .. Len(input) + 1
        BY DEF Place
      <4>2. Step(W, glob, input, i, j) = (j > Len(input))
        BY <2>1, Zenon DEF Step
      <4> HIDE DEF i, j
      <4>3. (j > Len(input)) \in BOOLEAN
        BY <4>1
      <4> QED BY <4>2, <4>3, Zenon
    <3>3. Step(W, glob, input, i, j) <=> Cuts(glob, input, i, j)
      BY <1>2
    <3> QED BY <3>1, <3>2, <3>3, Zenon
  <2>2. CASE ~(i > Len(glob)) /\ glob[i] = "*"
    BY <2>2, <1>2 DEF Step, Cuts
  <2>3. CASE ~(i > Len(glob)) /\ glob[i] # "*" /\ glob[i] = "?"
    BY <2>3, <1>2 DEF Step, Cuts
  <2>4. CASE ~(i > Len(glob)) /\ glob[i] # "*" /\ glob[i] # "?"
    BY <2>4, <1>2 DEF Step, Cuts
  <2> QED BY <2>1, <2>2, <2>3, <2>4, Zenon
<1>4. W = [at \in Place(glob, input) |-> Step(W, glob, input, at[1], at[2])]
  BY <1>3, Zenon DEF W
<1> QED BY <1>4, Zenon DEF Table

\* ... and the only one.
LEMMA TableMeansCuts ==
  ASSUME NEW m, NEW glob, NEW input, Len(glob) \in Nat, Len(input) \in Nat, Table(m, glob, input),
         NEW p \in 1 .. Len(glob) + 1, NEW q \in 1 .. Len(input) + 1
  PROVE  m[<<p, q>>] <=> Cuts(glob, input, p, q)
<1> DEFINE N == Len(glob) + 1
           M == Len(input) + 1
           Left(i, j) == (N - i) + (M - j)
           Wrong(i, j) == ~(m[<<i, j>>] <=> Cuts(glob, input, i, j))
           C == {n \in Nat : \E i \in 1 .. N, j \in 1 .. M : n = Left(i, j) /\ Wrong(i, j)}
<1> HIDE DEF Wrong
<1>1. ASSUME NEW i \in 1 .. N, NEW j \in 1 .. M PROVE Left(i, j) \in Nat
  OBVIOUS
<1>2. SUFFICES ASSUME Wrong(p, q) PROVE FALSE
  BY Zenon DEF Wrong
<1>3. C \in SUBSET Nat /\ Left(p, q) \in C
  BY <1>1, <1>2
<1>4. PICK n \in C : \A k \in C : n <= k
  <2> HIDE DEF C
  <2> QED BY <1>3, LeastNumber
<1>5. PICK i \in 1 .. N, j \in 1 .. M : n = Left(i, j) /\ Wrong(i, j)
  BY <1>4
<1>6. ASSUME NEW a \in 1 .. N, NEW b \in 1 .. M, Left(a, b) < Left(i, j) PROVE ~Wrong(a, b)
  <2>1. Left(a, b) \in Nat /\ Left(i, j) \in Nat
    BY <1>1
  <2>2. ~(n <= Left(a, b))
    BY <1>5, <1>6, <2>1
  <2>3. Left(a, b) \notin C
    BY <1>4, <2>2
  <2> QED BY <2>1, <2>3
<1>7. /\ i <= Len(glob) => i + 1 \in 1 .. N /\ Left(i + 1, j) < Left(i, j)
      /\ j <= Len(input) => j + 1 \in 1 .. M /\ Left(i, j + 1) < Left(i, j)
      /\ i <= Len(glob) /\ j <= Len(input) => Left(i + 1, j + 1) < Left(i, j)
  OBVIOUS
<1> HIDE DEF Left
<1>8. /\ i <= Len(glob) => ~Wrong(i + 1, j)
      /\ i <= Len(glob) /\ j <= Len(input) => ~Wrong(i, j + 1)
      /\ i <= Len(glob) /\ j <= Len(input) => ~Wrong(i + 1, j + 1)
  BY <1>6, <1>7
<1>9. Step(m, glob, input, i, j) <=> Cuts(glob, input, i, j)
  <2>1. /\ i <= Len(glob) => (m[<<i + 1, j>>] <=> Cuts(glob, input, i + 1, j))
        /\ i <= Len(glob) /\ j <= Len(input) => (m[<<i, j + 1>>] <=> Cuts(glob, input, i, j + 1))
        /\ i <= Len(glob) /\ j <= Len(input) => (m[<<i + 1, j + 1>>] <=> Cuts(glob, input, i + 1, j + 1))
    BY <1>8, Zenon DEF Wrong
  <2> QED BY <2>1, StepMeansCuts, Zenon
<1>10. m[<<i, j>>] = Step(m, glob, input, i, j)
  <2>1. <<i, j>> \in Place(glob, input) /\ <<i, j>>[1] = i /\ <<i, j>>[2] = j
    BY DEF Place
  <2>2. m = [at \in Place(glob, input) |-> Step(m, glob, input, at[1], at[2])]
    BY Zenon DEF Table
  <2>3. \A at \in Place(glob, input) : m[at] = Step(m, glob, input, at[1], at[2])
    BY <2>2, Zenon
  <2> QED BY <2>1, <2>3, Zenon
<1>11. Wrong(i, j)
  BY <1>5
<1> QED BY <1>9, <1>10, <1>11, Zenon DEF Wrong

\* The match of glob.ts, for any glob and any input: it holds exactly when the input can be
\* cut into pieces the glob's characters stand for.
THEOREM GlobsMatchWhatTheySay ==
  ASSUME NEW glob, NEW input, Len(glob) \in Nat, DOMAIN glob = 1 .. Len(glob), Len(input) \in Nat
  PROVE  globMatch(glob, input) <=> GlobMeans(glob, input)
<1> DEFINE m == CHOOSE f : Table(f, glob, input)
<1>1. Table(m, glob, input)
  BY TableExists, Zenon
<1>2. globMatch(glob, input) = m[<<1, 1>>]
  BY MatchDefinition, Zenon
<1> HIDE DEF m
<1>3. 1 \in 1 .. Len(glob) + 1 /\ 1 \in 1 .. Len(input) + 1
  OBVIOUS
<1> DEFINE one == 1
<1>4. m[<<one, one>>] <=> Cuts(glob, input, one, one)
  <2>1. one \in 1 .. Len(glob) + 1 /\ one \in 1 .. Len(input) + 1
    BY <1>3
  <2> HIDE DEF one
  <2> QED BY <1>1, <2>1, TableMeansCuts
<1>5. Cuts(glob, input, 1, 1) <=> GlobMeans(glob, input)
  BY Zenon DEF Cuts, GlobMeans
<1> QED BY <1>2, <1>4, <1>5, Zenon

\* The places of a sequence where a wanted element is.
Hits(s, wanted) == {i \in 1 .. Len(s) : s[i] \in wanted}

\* The first wanted element of a sequence, or none.
LEMMA FirstIsTheFirst ==
  ASSUME NEW s, Len(s) \in Nat, NEW wanted
  PROVE  /\ Hits(s, wanted) = {} => First(s, wanted) = <<>>
         /\ Hits(s, wanted) # {} =>
              \E i \in Hits(s, wanted) :
                (\A k \in Hits(s, wanted) : i <= k) /\ First(s, wanted) = <<s[i]>>
<1> DEFINE H == Hits(s, wanted)
           i == SelectInSeq(s, LAMBDA e : e \in wanted)
<1>1. i = IF H # {} THEN Min(H) ELSE 0
  BY DEF SelectInSeq, Hits
<1>2. First(s, wanted) = IF i = 0 THEN <<>> ELSE <<s[i]>>
  BY DEF First
<1>3. H \in SUBSET Nat /\ \A k \in H : k # 0
  BY DEF Hits
<1>4. CASE H = {}
  <2>1. i = 0
    BY <1>1, <1>4
  <2> QED BY <1>2, <1>4, <2>1
<1>5. CASE H # {}
  <2> HIDE DEF H
  <2>1. PICK least \in H : \A k \in H : least <= k
    BY <1>3, <1>5, LeastNumber
  <2>2. Min(H) \in H /\ \A k \in H : Min(H) <= k
    BY <2>1 DEF Min
  <2>3. i = Min(H) /\ i # 0
    BY <1>1, <1>3, <1>5, <2>2
  <2> HIDE DEF i
  <2>4. First(s, wanted) = <<s[i]>>
    BY <1>2, <2>3
  <2> QED BY <1>5, <2>2, <2>3, <2>4 DEF H
<1> QED BY <1>4, <1>5

\* The lookup of a rate, for any card, any patterns and any model: the entry of that name, else
\* the first pattern that describes the whole name.
THEOREM RatesAreTheCards ==
  ASSUME NEW Char, NEW Entry, NEW Pattern, NEW card, NEW model \in Seq(Char),
         card.entries \in Seq(Entry), card.patterns \in Seq(Pattern),
         \A p \in Pattern : p.pattern \in Seq(Char)
  PROVE  RateMeans(card, model, ByModel(card, model))
<1> DEFINE es == card.entries
           ps == card.patterns
           named == Named(card, model)
           matching == Matching(card, model)
           entry == First(es, named)
           pattern == First(ps, matching)
           exact == {i \in DOMAIN es : es[i].model = model}
           hits == {i \in DOMAIN ps : GlobMeans(ps[i].pattern, model)}
<1>1. /\ Len(es) \in Nat /\ DOMAIN es = 1 .. Len(es)
      /\ Len(ps) \in Nat /\ DOMAIN ps = 1 .. Len(ps)
  OBVIOUS
<1>2. ByModel(card, model) = IF entry # <<>> THEN entry
                             ELSE IF pattern # <<>> THEN <<pattern[1].entry>> ELSE <<>>
  BY Zenon DEF ByModel, Lookup
<1>3. Hits(es, named) = exact
  BY <1>1 DEF Hits, Named, ToSet
<1>4. Hits(ps, matching) = hits
  <2>1. ASSUME NEW i \in DOMAIN ps
        PROVE  globMatch(ps[i].pattern, model) <=> GlobMeans(ps[i].pattern, model)
    <3>1. ps[i] \in Pattern
      OBVIOUS
    <3> DEFINE glob == ps[i].pattern
    <3>2. glob \in Seq(Char)
      BY <3>1
    <3> HIDE DEF glob
    <3>3. Len(glob) \in Nat /\ DOMAIN glob = 1 .. Len(glob) /\ Len(model) \in Nat
      BY <3>2
    <3>4. globMatch(glob, model) <=> GlobMeans(glob, model)
      BY <3>3, GlobsMatchWhatTheySay
    <3> QED BY <3>4 DEF glob
  <2>2. \A i \in DOMAIN ps : ps[i] \in matching <=> globMatch(ps[i].pattern, model)
    BY Zenon DEF Matching, ToSet
  <2>3. Hits(ps, matching) = {i \in DOMAIN ps : ps[i] \in matching}
    BY <1>1 DEF Hits
  <2> HIDE DEF ps, matching
  <2> QED BY <2>1, <2>2, <2>3
<1>5. RateMeans(card, model, ByModel(card, model)) <=>
        IF exact # {} THEN \E i \in exact : ByModel(card, model) = <<es[i]>>
        ELSE IF hits = {} THEN ByModel(card, model) = <<>>
        ELSE \E i \in hits : (\A k \in hits : i <= k) /\ ByModel(card, model) = <<ps[i].entry>>
  BY Zenon DEF RateMeans
<1> HIDE DEF es, ps, named, matching, exact, hits
<1>6. /\ exact = {} => entry = <<>>
      /\ exact # {} => \E i \in exact : entry = <<es[i]>>
  BY <1>1, <1>3, FirstIsTheFirst
<1>7. /\ hits = {} => pattern = <<>>
      /\ hits # {} => \E i \in hits : (\A k \in hits : i <= k) /\ pattern = <<ps[i]>>
  BY <1>1, <1>4, FirstIsTheFirst
<1> HIDE DEF entry, pattern
<1>8. CASE exact # {}
  <2>1. PICK i \in exact : entry = <<es[i]>>
    BY <1>6, <1>8
  <2>2. entry # <<>>
    BY <2>1
  <2> QED BY <1>2, <1>5, <1>8, <2>1, <2>2
<1>9. CASE exact = {} /\ hits = {}
  <2>1. ByModel(card, model) = <<>>
    BY <1>2, <1>6, <1>7, <1>9
  <2> QED BY <1>5, <1>9, <2>1
<1>10. CASE exact = {} /\ hits # {}
  <2>1. PICK i \in hits : (\A k \in hits : i <= k) /\ pattern = <<ps[i]>>
    BY <1>7, <1>10
  <2>2. entry = <<>> /\ pattern # <<>> /\ pattern[1] = ps[i]
    BY <1>6, <1>10, <2>1
  <2>3. ByModel(card, model) = <<ps[i].entry>>
    BY <1>2, <2>2
  <2> QED BY <1>5, <1>10, <2>1, <2>3
<1> QED BY <1>8, <1>9, <1>10

-----------------------------------------------------------------------------
\* A sequence of at most n elements is a sequence.
LEMMA ShortSequences ==
  ASSUME NEW S, NEW n \in Nat
  PROVE  SeqOf(S, n) \subseteq Seq(S)
<1> SUFFICES ASSUME NEW s \in SeqOf(S, n) PROVE s \in Seq(S)
  OBVIOUS
<1>1. PICK m \in 0 .. n : s \in [1 .. m -> S]
  BY DEF SeqOf
<1>2. m \in Nat
  OBVIOUS
<1> QED BY <1>1, <1>2

\* The characters, the entries and the patterns a behaviour draws.
Letter == {"a", "b", "NL", "*", "?", "p"}

Rated    == {[model |-> m, rate |-> 1] : m \in {<<"a">>, <<"a", "b">>}}
Patterned == {[pattern |-> p, entry |-> [model |-> <<"p">>, rate |-> Len(p)]] :
               p \in {<<"*">>, <<"a", "?">>, <<"a", "*", "b">>}}

\* What a behaviour draws when it draws a glob or a rate card.
NamedSample ==
  /\ sample.kind = "glob" => sample.glob \in Seq(Letter) /\ sample.model \in Seq(Letter)
  /\ sample.kind = "lookup" => /\ sample.model \in Seq(Letter)
                               /\ sample.card.entries \in Seq(Rated)
                               /\ sample.card.patterns \in Seq(Patterned)

\* A behaviour of Algorithms draws globs, names and cards of these types.
LEMMA DrawsNames == AlgorithmsSpec => []NamedSample
<1>1. Init => NamedSample
  BY DEF Init, NamedSample
<1>2. NamedSample /\ [Draw]_sample => NamedSample'
  <2> SUFFICES ASSUME NamedSample, [Draw]_sample PROVE NamedSample'
    OBVIOUS
  <2> DEFINE two == 2
             three == 3
  <2>0. Models \subseteq Seq(Letter) /\ Globs \subseteq Seq(Letter)
    <3> DEFINE S == {"a", "b", "NL"}
               T == {"a", "b", "*", "?"}
    <3>1. S \subseteq Letter /\ T \subseteq Letter /\ three \in Nat
      BY DEF Letter
    <3>2. Models = SeqOf(S, three) /\ Globs = SeqOf(T, three)
      BY DEF Models, Globs
    <3> HIDE DEF S, T, three
    <3>3. SeqOf(S, three) \subseteq Seq(S) /\ SeqOf(T, three) \subseteq Seq(T)
      BY <3>1, ShortSequences
    <3>4. Seq(S) \subseteq Seq(Letter) /\ Seq(T) \subseteq Seq(Letter)
      BY <3>1
    <3> QED BY <3>2, <3>3, <3>4
  <2>1. CASE DrawGlob
    <3>1. PICK glob \in Globs, model \in Models : sample' = [kind |-> "glob", glob |-> glob, model |-> model]
      BY <2>1, Zenon DEF DrawGlob
    <3>2. glob \in Seq(Letter) /\ model \in Seq(Letter)
      BY <2>0
    <3> QED BY <3>1, <3>2 DEF NamedSample
  <2>2. CASE DrawLookup
    <3>1. PICK entries \in Entries, patterns \in Patterns, model \in Models :
            sample' = [kind |-> "lookup", card |-> [entries |-> entries, patterns |-> patterns],
                       model |-> model]
      BY <2>2, Zenon DEF DrawLookup
    <3>2. model \in Seq(Letter)
      BY <2>0
    <3>3. entries \in Seq(Rated)
      <4> DEFINE word(m) == [model |-> m, rate |-> 1]
      <4>1. PICK e \in Rated : entries = <<>> \/ entries = <<e>>
        <5>1. entries = <<>> \/ \E m \in {<<"a">>, <<"a", "b">>} : entries = <<word(m)>>
          BY Zenon DEF Entries
        <5>2. \A m \in {<<"a">>, <<"a", "b">>} : word(m) \in Rated
          BY Zenon DEF Rated
        <5>3. word(<<"a">>) \in Rated
          BY Zenon DEF Rated
        <5> HIDE DEF word
        <5> QED BY <5>1, <5>2, <5>3, Zenon
      <4> DEFINE R == Rated
      <4> HIDE DEF word, R
      <4>2. e \in R
        BY DEF R
      <4>3. <<>> \in Seq(R) /\ <<e>> \in Seq(R)
        BY <4>2
      <4>4. entries \in Seq(R)
        BY <4>1, <4>3, Zenon
      <4> QED BY <4>4 DEF R
    <3>4. patterns \in Seq(Patterned)
      <4>1. two \in Nat /\ Patterns = SeqOf(Patterned, two)
        BY DEF Patterns, Patterned
      <4> HIDE DEF two
      <4> QED BY <4>1, ShortSequences
    <3> QED BY <3>1, <3>2, <3>3, <3>4 DEF NamedSample
  <2>3. ~DrawGlob /\ ~DrawLookup /\ Draw => sample'.kind \notin {"glob", "lookup"}
    BY DEF Draw, DrawChat, DrawUnits, DrawRequest, DrawError, DrawQuote, DrawStream, DrawCalls, DrawRollup
  <2>4. CASE sample'.kind \notin {"glob", "lookup"}
    BY <2>4 DEF NamedSample
  <2>5. CASE UNCHANGED sample
    BY <2>5 DEF NamedSample
  <2> QED BY <2>1, <2>2, <2>3, <2>4, <2>5
<1> QED BY <1>1, <1>2, PTL DEF AlgorithmsSpec

\* Every sampled glob matches what it says, every sampled card answers with its rate.
THEOREM RateIsAlwaysTheCards == AlgorithmsSpec => []RateIsTheCards
<1>1. NamedSample => RateIsTheCards
  <2> SUFFICES ASSUME NamedSample PROVE RateIsTheCards
    OBVIOUS
  <2>1. ASSUME sample.kind = "glob"
        PROVE  globMatch(sample.glob, sample.model) <=> GlobMeans(sample.glob, sample.model)
    <3> DEFINE glob == sample.glob
               model == sample.model
    <3>1. glob \in Seq(Letter) /\ model \in Seq(Letter)
      BY <2>1 DEF NamedSample
    <3> HIDE DEF glob, model
    <3>2. Len(glob) \in Nat /\ DOMAIN glob = 1 .. Len(glob) /\ Len(model) \in Nat
      BY <3>1
    <3>3. globMatch(glob, model) <=> GlobMeans(glob, model)
      BY <3>2, GlobsMatchWhatTheySay
    <3> QED BY <3>3 DEF glob, model
  <2>2. ASSUME sample.kind = "lookup"
        PROVE  RateMeans(sample.card, sample.model, ByModel(sample.card, sample.model))
    <3> DEFINE card == sample.card
               model == sample.model
    <3>1. model \in Seq(Letter) /\ card.entries \in Seq(Rated) /\ card.patterns \in Seq(Patterned)
      BY <2>2 DEF NamedSample
    <3>2. \A p \in Patterned : p.pattern \in Seq(Letter)
      <4>1. <<"*">> \in Seq(Letter) /\ <<"a", "?">> \in Seq(Letter) /\ <<"a", "*", "b">> \in Seq(Letter)
        BY DEF Letter
      <4> DEFINE Drawn == {<<"*">>, <<"a", "?">>, <<"a", "*", "b">>}
      <4>2. \A w \in Drawn : w \in Seq(Letter)
        BY <4>1, Zenon
      <4>3. Patterned = {[pattern |-> w, entry |-> [model |-> <<"p">>, rate |-> Len(w)]] : w \in Drawn}
        BY DEF Patterned
      <4> HIDE DEF Drawn
      <4>4. \A p \in Patterned : \E w \in Drawn : p.pattern = w
        BY <4>3
      <4> QED BY <4>2, <4>4, Zenon
    <3> HIDE DEF card, model
    <3>3. RateMeans(card, model, ByModel(card, model))
      BY <3>1, <3>2, RatesAreTheCards
    <3> QED BY <3>3 DEF card, model
  <2> QED BY <2>1, <2>2, Zenon DEF RateIsTheCards
<1> QED BY <1>1, DrawsNames, PTL

-----------------------------------------------------------------------------
(***************************************************************************)
(* Streams.  Each chunk is parsed byte by byte and each stream is read chunk*)
(* by chunk, so reading a stream is parsing all its bytes in one; the events*)
(* and what is left over then are the bytes.                               *)
(***************************************************************************)
\* f is the recursive function with which FlattenSeq puts sequences together.
Flat(f, seqs, n) == f = [i \in 1 .. n |-> IF i = 1 THEN seqs[1] ELSE f[i - 1] \o seqs[i]]

\* Flattening goes from left to right.
LEMMA FlattenUnfolds ==
  ASSUME NEW S, NEW seqs \in Seq(Seq(S))
  PROVE  \E f \in [0 .. Len(seqs) -> Seq(S)] :
            /\ f[0] = <<>>
            /\ \A i \in 1 .. Len(seqs) : f[i] = f[i - 1] \o seqs[i]
            /\ FlattenSeq(seqs) = f[Len(seqs)]
<1> DEFINE n == Len(seqs)
           T == Seq(S)
           step == [x \in (1 .. n) \X T |-> x[2] \o seqs[x[1]]]
<1>0. n \in Nat /\ <<>> \in T /\ \A i \in 1 .. n : seqs[i] \in T
  OBVIOUS
<1>1. step \in [(1 .. n) \X T -> T]
  <2>1. ASSUME NEW x \in (1 .. n) \X T PROVE x[2] \o seqs[x[1]] \in T
    <3>1. x[2] \in Seq(S) /\ seqs[x[1]] \in Seq(S)
      BY <1>0
    <3> QED BY <3>1
  <2> HIDE DEF T, n
  <2> QED BY <2>1
<1>2. PICK h : Steps(h, n, T, <<>>, step)
  <2> HIDE DEF n, T, step
  <2> QED BY <1>0, <1>1, StepByStep
<1> USE DEF Steps
<1>3. \A i \in 1 .. n : h[i] = h[i - 1] \o seqs[i]
  <2> SUFFICES ASSUME NEW i \in 1 .. n PROVE h[i] = h[i - 1] \o seqs[i]
    OBVIOUS
  <2>1. i - 1 \in 0 .. n
    BY <1>0
  <2>2. <<i, h[i - 1]>> \in (1 .. n) \X T
    <3> HIDE DEF T, n
    <3> QED BY <1>2, <2>1
  <2>3. step[<<i, h[i - 1]>>] = h[i - 1] \o seqs[i]
    <3> HIDE DEF T, n
    <3> QED BY <2>2
  <2> HIDE DEF step, T, n
  <2> QED BY <1>2, <2>3
<1> HIDE DEF step
<1>4. CASE n = 0
  <2>1. FlattenSeq(seqs) = <<>>
    BY <1>4 DEF FlattenSeq
  <2> QED BY <1>2, <1>3, <1>4, <2>1
<1>5. CASE n # 0
  <2> DEFINE F == CHOOSE f : Flat(f, seqs, n)
             g == [i \in 1 .. n |-> h[i]]
  <2>0. FlattenSeq(seqs) = F[n]
    BY <1>5 DEF FlattenSeq, Flat
  <2>1. \A i \in 1 .. n : g[i] = h[i]
    OBVIOUS
  <2>2. \A i \in 1 .. n : h[i] = IF i = 1 THEN seqs[1] ELSE g[i - 1] \o seqs[i]
    <3> SUFFICES ASSUME NEW i \in 1 .. n PROVE h[i] = IF i = 1 THEN seqs[1] ELSE g[i - 1] \o seqs[i]
      OBVIOUS
    <3>1. CASE i = 1
      <4>1. h[1] = <<>> \o seqs[1] /\ seqs[1] \in Seq(S)
        <5> HIDE DEF n, g, F
        <5>1. 1 - 1 = 0 /\ h[0] = <<>> /\ 1 \in 1 .. n
          BY <1>2, <3>1
        <5>2. h[1] = h[1 - 1] \o seqs[1]
          BY <1>3, <5>1
        <5> QED BY <1>0, <3>1, <5>1, <5>2
      <4> QED BY <3>1, <4>1, ConcatEmptySeq
    <3>2. CASE i # 1
      <4>1. i - 1 \in 1 .. n
        BY <1>0, <3>2
      <4> QED BY <1>3, <2>1, <3>2, <4>1
    <3> QED BY <3>1, <3>2
  <2>3. g = [i \in 1 .. n |-> IF i = 1 THEN seqs[1] ELSE g[i - 1] \o seqs[i]]
    <3> DEFINE k == g
    <3>1. \A i \in 1 .. n : h[i] = IF i = 1 THEN seqs[1] ELSE k[i - 1] \o seqs[i]
      BY <2>2
    <3> HIDE DEF k, n
    <3>2. g = [i \in 1 .. n |-> IF i = 1 THEN seqs[1] ELSE k[i - 1] \o seqs[i]]
      BY <3>1
    <3> QED BY <3>2 DEF k
  <2>4. Flat(g, seqs, n)
    <3> HIDE DEF g, n
    <3> QED BY <2>3 DEF Flat
  <2>5. Flat(F, seqs, n)
    <3> HIDE DEF g, n
    <3> QED BY <2>4
  <2> DEFINE G == {i \in 0 .. n : i # 0 => F[i] = h[i]}
  <2>6. \A i \in 1 .. n : F[i] = IF i = 1 THEN seqs[1] ELSE F[i - 1] \o seqs[i]
    <3> HIDE DEF F, n
    <3> QED BY <2>5 DEF Flat
  <2>7. ASSUME NEW i \in 1 .. n, i - 1 \in G PROVE i \in G
    <3>1. CASE i = 1
      <4>1. F[1] = seqs[1] /\ h[1] = seqs[1]
        BY <2>2, <2>6, <3>1
      <4> QED BY <3>1, <4>1
    <3>2. CASE i # 1
      <4>1. i - 1 \in 1 .. n /\ F[i - 1] = h[i - 1]
        BY <1>0, <2>7, <3>2
      <4> HIDE DEF F
      <4>2. F[i] = h[i]
        BY <1>3, <2>6, <3>2, <4>1
      <4> QED BY <4>2
    <3> QED BY <3>1, <3>2
  <2>8. \A i \in 0 .. n : i \in G
    <3>1. 0 \in G
      BY <1>0
    <3> HIDE DEF G, n
    <3> QED BY <1>0, <2>7, <3>1, UpTo
  <2>9. F[n] = h[n]
    BY <1>0, <1>5, <2>8
  <2> QED BY <1>2, <1>3, <2>0, <2>9
<1> QED BY <1>4, <1>5

\* Flattening one sequence more appends it.
LEMMA FlattenAppend ==
  ASSUME NEW S, NEW seqs \in Seq(Seq(S)), NEW s \in Seq(S)
  PROVE  /\ FlattenSeq(seqs) \in Seq(S)
         /\ FlattenSeq(Append(seqs, s)) = FlattenSeq(seqs) \o s
<1> DEFINE n == Len(seqs)
           T == Seq(S)
           more == Append(seqs, s)
<1>1. /\ n \in Nat /\ more \in Seq(T) /\ Len(more) = n + 1 /\ more[n + 1] = s
      /\ \A i \in 1 .. n : more[i] = seqs[i]
  <2> HIDE DEF T
  <2>1. seqs \in Seq(T) /\ s \in T
    BY DEF T
  <2> QED BY <2>1, AppendProperties, LenProperties
<1>2. PICK f \in [0 .. n -> T] :
        /\ f[0] = <<>>
        /\ \A i \in 1 .. n : f[i] = f[i - 1] \o seqs[i]
        /\ FlattenSeq(seqs) = f[n]
  BY FlattenUnfolds
<1>3. PICK g \in [0 .. n + 1 -> T] :
        /\ g[0] = <<>>
        /\ \A i \in 1 .. n + 1 : g[i] = g[i - 1] \o more[i]
        /\ FlattenSeq(more) = g[n + 1]
  <2> HIDE DEF more, n
  <2>1. \E g \in [0 .. Len(more) -> Seq(S)] :
          /\ g[0] = <<>>
          /\ \A i \in 1 .. Len(more) : g[i] = g[i - 1] \o more[i]
          /\ FlattenSeq(more) = g[Len(more)]
    BY <1>1, FlattenUnfolds
  <2>2. Len(more) = n + 1
    BY <1>1
  <2> HIDE DEF T
  <2> QED BY <2>1, <2>2, Zenon DEF T
<1> HIDE DEF more, n, T
<1> DEFINE G == {i \in 0 .. n : f[i] = g[i]}
<1>4. \A i \in 0 .. n : i \in G
  <2>1. 0 \in G
    BY <1>1, <1>2, <1>3
  <2>2. ASSUME NEW i \in 1 .. n, i - 1 \in G PROVE i \in G
    <3>1. i \in 1 .. n + 1 /\ i \in 0 .. n
      BY <1>1
    <3> QED BY <1>1, <1>2, <1>3, <2>2, <3>1
  <2> HIDE DEF G
  <2> QED BY <1>1, <2>1, <2>2, UpTo
<1>5. f[n] = g[n] /\ f[n] \in T
  BY <1>1, <1>2, <1>4
<1>6. g[n + 1] = g[n] \o s
  <2>1. n + 1 \in 1 .. n + 1 /\ (n + 1) - 1 = n
    BY <1>1
  <2>2. g[n + 1] = g[(n + 1) - 1] \o more[n + 1]
    BY <1>3, <2>1
  <2> QED BY <1>1, <2>1, <2>2
<1> QED BY <1>2, <1>3, <1>5, <1>6 DEF T, more

\* What has arrived of a stream and was not yielded.
Parser(Byte) == [rest : Seq(Byte), queue : Seq(Seq(Byte))]

\* fed is the recursive function with which feed takes the bytes of a chunk.
Fed(fed, parser, chunk) ==
    fed = [i \in 0 .. Len(chunk) |-> IF i = 0 THEN parser ELSE Parsed(fed[i - 1], chunk[i])]

\* A byte leaves a parser a parser.
LEMMA ParsedIsParser ==
  ASSUME NEW Byte, NEW p \in Parser(Byte), NEW byte \in Byte
  PROVE  Parsed(p, byte) \in Parser(Byte)
<1> DEFINE T == Seq(Byte)
<1>1. p.rest \in T /\ p.queue \in Seq(T) /\ <<>> \in T
  BY DEF Parser
<1>2. Append(p.rest, byte) \in T
  BY <1>1
<1> HIDE DEF T
<1>3. Append(p.queue, p.rest) \in Seq(T)
  BY <1>1
<1>4. Parsed(p, byte) \in [rest : T, queue : Seq(T)]
  BY <1>1, <1>2, <1>3 DEF Parsed
<1> QED BY <1>4 DEF T, Parser

\* A chunk is parsed byte by byte.
LEMMA FeedUnfolds ==
  ASSUME NEW Byte, NEW parser \in Parser(Byte), NEW chunk \in Seq(Byte)
  PROVE  \E f \in [0 .. Len(chunk) -> Parser(Byte)] :
            /\ f[0] = parser
            /\ \A i \in 1 .. Len(chunk) : f[i] = Parsed(f[i - 1], chunk[i])
            /\ feed(parser, chunk) = f[Len(chunk)]
<1> DEFINE n == Len(chunk)
           P == Parser(Byte)
           step == [x \in (1 .. n) \X P |-> Parsed(x[2], chunk[x[1]])]
<1>0. n \in Nat /\ \A i \in 1 .. n : chunk[i] \in Byte
  OBVIOUS
<1>1. step \in [(1 .. n) \X P -> P]
  <2>1. ASSUME NEW x \in (1 .. n) \X P PROVE Parsed(x[2], chunk[x[1]]) \in P
    <3>1. x[1] \in 1 .. n /\ x[2] \in P
      OBVIOUS
    <3>2. chunk[x[1]] \in Byte
      BY <1>0, <3>1
    <3> QED BY <3>1, <3>2, ParsedIsParser
  <2> HIDE DEF P, n
  <2> QED BY <2>1
<1>2. PICK h : Steps(h, n, P, parser, step)
  <2> HIDE DEF n, P, step
  <2>1. parser \in P
    BY DEF P
  <2> QED BY <1>0, <1>1, <2>1, StepByStep
<1>3. h \in [0 .. n -> P] /\ h[0] = parser /\ \A i \in 1 .. n : h[i] = step[<<i, h[i - 1]>>]
  BY <1>2 DEF Steps
<1>4. \A i \in 1 .. n : h[i] = Parsed(h[i - 1], chunk[i])
  <2> SUFFICES ASSUME NEW i \in 1 .. n PROVE h[i] = Parsed(h[i - 1], chunk[i])
    OBVIOUS
  <2> HIDE DEF n, P
  <2>1. i - 1 \in 0 .. n
    BY <1>0
  <2>2. <<i, h[i - 1]>> \in (1 .. n) \X P
    BY <1>3, <2>1
  <2>3. step[<<i, h[i - 1]>>] = Parsed(h[i - 1], chunk[i])
    BY <2>2
  <2> HIDE DEF step
  <2> QED BY <1>3, <2>3
<1>5. Fed(h, parser, chunk)
  <2> HIDE DEF n, P, step
  <2>1. \A i \in 0 .. n : h[i] = IF i = 0 THEN parser ELSE Parsed(h[i - 1], chunk[i])
    BY <1>0, <1>3, <1>4
  <2>2. h = [i \in 0 .. n |-> h[i]]
    BY <1>3
  <2>3. h = [i \in 0 .. n |-> IF i = 0 THEN parser ELSE Parsed(h[i - 1], chunk[i])]
    BY <2>1, <2>2
  <2> QED BY <2>3 DEF Fed, n
<1> DEFINE F == CHOOSE f : Fed(f, parser, chunk)
<1>6. Fed(F, parser, chunk) /\ feed(parser, chunk) = F[n]
  <2>1. feed(parser, chunk) = F[n]
    BY DEF feed, Fed
  <2> HIDE DEF n, P, step
  <2> QED BY <1>5, <2>1
<1> HIDE DEF F, P, step
<1>7. F[0] = parser /\ \A i \in 1 .. n : F[i] = Parsed(F[i - 1], chunk[i])
  BY <1>0, <1>6 DEF Fed
<1> DEFINE G == {j \in 0 .. n : F[j] \in P}
<1>8. \A i \in 0 .. n : i \in G
  <2>1. 0 \in G
    BY <1>0, <1>7 DEF P
  <2>2. ASSUME NEW i \in 1 .. n, i - 1 \in G PROVE i \in G
    BY <1>0, <1>7, <2>2, ParsedIsParser DEF P
  <2> HIDE DEF G, n
  <2> QED BY <1>0, <2>1, <2>2, UpTo
<1>9. F \in [0 .. n -> P]
  <2> HIDE DEF n
  <2>1. F = [i \in 0 .. n |-> IF i = 0 THEN parser ELSE Parsed(F[i - 1], chunk[i])]
    BY <1>6 DEF Fed, n
  <2>2. \A i \in 0 .. n : F[i] \in P
    BY <1>8
  <2> DEFINE e(i) == IF i = 0 THEN parser ELSE Parsed(F[i - 1], chunk[i])
  <2>3. \A i \in 0 .. n : e(i) = F[i]
    BY <2>1
  <2>4. F = [i \in 0 .. n |-> e(i)]
    BY <2>1
  <2> HIDE DEF e
  <2> QED BY <2>2, <2>3, <2>4
<1> QED BY <1>6, <1>7, <1>9 DEF P

\* No event of these has an end in it.
Whole(events) == \A i \in DOMAIN events : Ends(events[i]) = {}

\* One event more.
LEMMA SentAppend ==
  ASSUME NEW Byte, "|" \in Byte, NEW es \in Seq(Seq(Byte)), NEW e \in Seq(Byte)
  PROVE  /\ Sent(es) \in Seq(Byte)
         /\ Sent(Append(es, e)) = Sent(es) \o Append(e, "|")
         /\ Whole(es) /\ Ends(e) = {} => Whole(Append(es, e))
<1> DEFINE T == Seq(Byte)
           ended(x) == [i \in DOMAIN x |-> Append(x[i], "|")]
           more == Append(es, e)
           n == Len(es)
<1>1. \A x \in T : Append(x, "|") \in T
  OBVIOUS
<1>2. /\ n \in Nat /\ DOMAIN es = 1 .. n /\ \A i \in 1 .. n : es[i] \in T
      /\ more \in Seq(T) /\ Len(more) = n + 1 /\ DOMAIN more = 1 .. n + 1 /\ more[n + 1] = e
      /\ \A i \in 1 .. n : more[i] = es[i]
  <2> HIDE DEF T
  <2>1. es \in Seq(T) /\ e \in T
    BY DEF T
  <2> QED BY <2>1
<1> HIDE DEF T, more, n
<1>3. ended(es) \in Seq(T) /\ ended(more) \in Seq(T) /\ Append(e, "|") \in T
  BY <1>1, <1>2 DEF T
<1>4. ended(more) = Append(ended(es), Append(e, "|"))
  <2> DEFINE a == ended(more)
             b == Append(ended(es), Append(e, "|"))
  <2>1. Len(ended(es)) = n /\ Len(a) = n + 1
    BY <1>2
  <2>2. b \in Seq(T) /\ Len(b) = n + 1 /\ b[n + 1] = Append(e, "|") /\ \A i \in 1 .. n : b[i] = ended(es)[i]
    <3> HIDE DEF ended
    <3> QED BY <1>3, <2>1, AppendProperties
  <2>3. \A i \in 1 .. n + 1 : a[i] = b[i]
    <3> SUFFICES ASSUME NEW i \in 1 .. n + 1 PROVE a[i] = b[i]
      OBVIOUS
    <3>1. a[i] = Append(more[i], "|")
      BY <1>2
    <3>2. CASE i = n + 1
      BY <1>2, <2>2, <3>1, <3>2
    <3>3. CASE i # n + 1
      <4>1. i \in 1 .. n
        BY <1>2, <3>3
      <4>2. ended(es)[i] = Append(es[i], "|")
        BY <1>2, <4>1
      <4> QED BY <1>2, <2>2, <3>1, <4>1, <4>2
    <3> QED BY <3>2, <3>3
  <2> HIDE DEF ended
  <2>4. a \in Seq(T)
    BY <1>3
  <2> HIDE DEF a, b
  <2>5. a = b
    BY <2>1, <2>2, <2>3, <2>4, SeqEqual
  <2> QED BY <2>5 DEF a, b
<1>5. Sent(es) = FlattenSeq(ended(es)) /\ Sent(more) = FlattenSeq(ended(more))
  BY DEF Sent
<1> HIDE DEF ended
<1>6. FlattenSeq(ended(es)) \in Seq(Byte)
      /\ FlattenSeq(Append(ended(es), Append(e, "|"))) = FlattenSeq(ended(es)) \o Append(e, "|")
  BY <1>3, FlattenAppend DEF T
<1>7. Whole(es) /\ Ends(e) = {} => Whole(more)
  <2> SUFFICES ASSUME Whole(es), Ends(e) = {}, NEW i \in 1 .. n + 1 PROVE Ends(more[i]) = {}
    BY <1>2 DEF Whole
  <2>1. CASE i = n + 1
    BY <1>2, <2>1
  <2>2. CASE i # n + 1
    <3>1. i \in 1 .. n
      BY <1>2, <2>2
    <3> QED BY <1>2, <3>1 DEF Whole
  <2> QED BY <2>1, <2>2
<1> QED BY <1>4, <1>5, <1>6, <1>7 DEF more

\* Nothing was sent in no event.
LEMMA SentNothing == Sent(<<>>) = <<>>
  BY DEF Sent, FlattenSeq

\* Appending to what comes last.
LEMMA AppendAfter ==
  ASSUME NEW S, NEW s \in Seq(S), NEW t \in Seq(S), NEW e \in S
  PROVE  /\ s \o t \in Seq(S)
         /\ s \o Append(t, e) = Append(s \o t, e)
<1>1. s \o t \in Seq(S) /\ <<e>> \in Seq(S)
  OBVIOUS
<1>2. Append(t, e) = t \o <<e>> /\ Append(s \o t, e) = (s \o t) \o <<e>>
  BY <1>1, AppendIsConcat
<1> QED BY <1>1, <1>2, ConcatAssociative

\* What a parser has taken.
Taken(parser) == Sent(parser.queue) \o parser.rest

\* Every event of the queue is one, and no end is left in the rest.
Tidy(parser) == Whole(parser.queue) /\ Ends(parser.rest) = {}

\* A byte is taken, and ends an event or does not.
LEMMA ParsedTakes ==
  ASSUME NEW Byte, "|" \in Byte, NEW p \in Parser(Byte), NEW byte \in Byte
  PROVE  /\ Taken(p) \in Seq(Byte)
         /\ Taken(Parsed(p, byte)) = Append(Taken(p), byte)
         /\ Tidy(p) => Tidy(Parsed(p, byte))
<1> DEFINE T == Seq(Byte)
           r == p.rest
           q == p.queue
           s == Sent(q)
<1>1. r \in T /\ q \in Seq(T)
  BY DEF Parser
<1> HIDE DEF r, q
<1>2. /\ s \in T
      /\ Sent(Append(q, r)) = s \o Append(r, "|")
      /\ Whole(q) /\ Ends(r) = {} => Whole(Append(q, r))
  BY <1>1, SentAppend
<1>3. Taken(p) = s \o r
  BY DEF Taken, q, r
<1> HIDE DEF s
<1>4. s \in T /\ r \in T /\ s \o r \in T
  BY <1>1, <1>2
<1>5. \A b \in Byte : s \o Append(r, b) = Append(s \o r, b)
  BY <1>4, AppendAfter
<1>6. CASE byte = "|"
  <2>1. Parsed(p, byte).rest = <<>> /\ Parsed(p, byte).queue = Append(q, r)
    BY <1>6 DEF Parsed, q, r
  <2>2. Taken(Parsed(p, byte)) = (s \o Append(r, "|")) \o <<>>
    BY <1>2, <2>1 DEF Taken
  <2>3. s \o Append(r, "|") \in T
    BY <1>4
  <2>4. Taken(Parsed(p, byte)) = s \o Append(r, byte)
    BY <1>6, <2>2, <2>3, ConcatEmptySeq
  <2>5. Tidy(p) => Tidy(Parsed(p, byte))
    <3>1. Ends(<<>>) = {}
      BY DEF Ends
    <3> QED BY <1>2, <2>1, <3>1 DEF Tidy, q, r
  <2> QED BY <1>3, <1>4, <1>5, <2>4, <2>5
<1>7. CASE byte # "|"
  <2>1. Parsed(p, byte).rest = Append(r, byte) /\ Parsed(p, byte).queue = q
    BY <1>7 DEF Parsed, q, r
  <2>2. Taken(Parsed(p, byte)) = s \o Append(r, byte)
    BY <2>1 DEF Taken, s
  <2>3. Ends(r) = {} => Ends(Append(r, byte)) = {}
    BY <1>1, <1>7 DEF Ends
  <2>4. Tidy(p) => Tidy(Parsed(p, byte))
    BY <2>1, <2>3 DEF Tidy, q, r
  <2> QED BY <1>3, <1>4, <1>5, <2>2, <2>4
<1> QED BY <1>6, <1>7

\* A chunk without its last byte.
LEMMA ChunkUpTo ==
  ASSUME NEW Byte, NEW s \in Seq(Byte), NEW chunk \in Seq(Byte), NEW i \in 1 .. Len(chunk)
  PROVE  /\ s \o SubSeq(chunk, 1, i - 1) \in Seq(Byte)
         /\ s \o SubSeq(chunk, 1, i) = Append(s \o SubSeq(chunk, 1, i - 1), chunk[i])
<1> DEFINE before == SubSeq(chunk, 1, i - 1)
           b == chunk[i]
<1>1. Len(chunk) \in Nat /\ 1 \in 1 .. Len(chunk) /\ b \in Byte
  OBVIOUS
<1>2. SubSeq(chunk, 1, i) = before \o <<b>>
  BY <1>1, SubSeqRecursiveSecond
<1>3. before \in Seq(Byte)
  <2>1. \A j \in 1 .. i - 1 : chunk[j] \in Byte
    BY <1>1
  <2> QED BY <2>1, SubSeqProperties
<1> HIDE DEF before, b
<1>4. before \o <<b>> = Append(before, b)
  BY <1>1, <1>3, AppendIsConcat
<1>5. s \o before \in Seq(Byte) /\ s \o Append(before, b) = Append(s \o before, b)
  BY <1>1, <1>3, AppendAfter
<1> QED BY <1>2, <1>4, <1>5 DEF before, b

\* A chunk is taken, byte by byte.
LEMMA FeedTakes ==
  ASSUME NEW Byte, "|" \in Byte, NEW p \in Parser(Byte), NEW chunk \in Seq(Byte)
  PROVE  /\ feed(p, chunk) \in Parser(Byte)
         /\ Taken(feed(p, chunk)) = Taken(p) \o chunk
         /\ Tidy(p) => Tidy(feed(p, chunk))
<1> DEFINE n == Len(chunk)
           t == Taken(p)
<1>1. PICK f \in [0 .. n -> Parser(Byte)] :
        /\ f[0] = p
        /\ \A i \in 1 .. n : f[i] = Parsed(f[i - 1], chunk[i])
        /\ feed(p, chunk) = f[n]
  BY FeedUnfolds
<1>2. n \in Nat /\ (\A i \in 1 .. n : chunk[i] \in Byte) /\ "|" \in Byte
  OBVIOUS
<1> DEFINE G == {i \in 0 .. n : /\ Taken(f[i]) = t \o SubSeq(chunk, 1, i)
                                /\ Tidy(p) => Tidy(f[i])}
<1>3. t \in Seq(Byte)
  BY <1>2, ParsedTakes
<1> HIDE DEF t
<1>4. 0 \in G
  <2>1. SubSeq(chunk, 1, 0) = <<>>
    BY SubSeqEmpty
  <2>2. t \o <<>> = t
    BY <1>3, ConcatEmptySeq
  <2>3. Taken(f[0]) = t \o SubSeq(chunk, 1, 0) /\ f[0] = p
    BY <1>1, <2>1, <2>2, Zenon DEF t
  <2>4. 0 \in 0 .. n
    BY <1>2
  <2> QED BY <2>3, <2>4, Zenon
<1>5. ASSUME NEW i \in 1 .. n, i - 1 \in G PROVE i \in G
  <2>1. i - 1 \in 0 .. n /\ i \in 0 .. n /\ f[i - 1] \in Parser(Byte) /\ chunk[i] \in Byte
    <3> HIDE DEF n
    <3> QED BY <1>1, <1>2
  <2>2. Taken(f[i - 1]) = t \o SubSeq(chunk, 1, i - 1) /\ (Tidy(p) => Tidy(f[i - 1]))
    BY <1>5
  <2>3. f[i] = Parsed(f[i - 1], chunk[i])
    BY <1>1
  <2>4. /\ Taken(f[i]) = Append(Taken(f[i - 1]), chunk[i])
        /\ Tidy(f[i - 1]) => Tidy(f[i])
    BY <1>2, <2>1, <2>3, ParsedTakes
  <2>5. Taken(f[i]) = t \o SubSeq(chunk, 1, i)
    BY <1>3, <2>2, <2>4, ChunkUpTo
  <2> QED BY <2>1, <2>2, <2>4, <2>5
<1>6. \A i \in 0 .. n : i \in G
  <2> HIDE DEF G
  <2> QED BY <1>2, <1>4, <1>5, UpTo
<1>7. n \in 0 .. n /\ SubSeq(chunk, 1, n) = chunk
  BY <1>2, SubSeqFull
<1> HIDE DEF n
<1>8. n \in G
  BY <1>6, <1>7
<1> QED BY <1>1, <1>7, <1>8 DEF t

\* A parser of a new stream.
NewParser == [rest |-> <<>>, queue |-> <<>>]

\* It is one for any bytes.
LEMMA NewParserIsParser ==
  ASSUME NEW Byte
  PROVE  NewParser \in Parser(Byte)
<1> DEFINE T == Seq(Byte)
<1>1. <<>> \in T /\ <<>> \in Seq(T)
  OBVIOUS
<1> HIDE DEF T
<1>2. NewParser \in [rest : T, queue : Seq(T)]
  BY <1>1 DEF NewParser
<1> QED BY <1>2 DEF T, Parser

\* A chunk that is one byte longer.
LEMMA FeedAppend ==
  ASSUME NEW Byte, NEW p \in Parser(Byte), NEW chunk \in Seq(Byte), NEW byte \in Byte
  PROVE  feed(p, Append(chunk, byte)) = Parsed(feed(p, chunk), byte)
<1> DEFINE n == Len(chunk)
           more == Append(chunk, byte)
<1>1. /\ n \in Nat /\ more \in Seq(Byte) /\ Len(more) = n + 1 /\ more[n + 1] = byte
      /\ \A i \in 1 .. n : more[i] = chunk[i]
  OBVIOUS
<1>2. PICK f \in [0 .. n -> Parser(Byte)] :
        /\ f[0] = p
        /\ \A i \in 1 .. n : f[i] = Parsed(f[i - 1], chunk[i])
        /\ feed(p, chunk) = f[n]
  BY FeedUnfolds
<1> HIDE DEF n, more
<1>3. PICK g \in [0 .. n + 1 -> Parser(Byte)] :
        /\ g[0] = p
        /\ \A i \in 1 .. n + 1 : g[i] = Parsed(g[i - 1], more[i])
        /\ feed(p, more) = g[n + 1]
  <2>1. \E g \in [0 .. Len(more) -> Parser(Byte)] :
          /\ g[0] = p
          /\ \A i \in 1 .. Len(more) : g[i] = Parsed(g[i - 1], more[i])
          /\ feed(p, more) = g[Len(more)]
    BY <1>1, FeedUnfolds
  <2> QED BY <1>1, <2>1, Zenon
<1> DEFINE G == {i \in 0 .. n : f[i] = g[i]}
<1>4. \A i \in 0 .. n : i \in G
  <2>1. 0 \in G
    BY <1>1, <1>2, <1>3
  <2>2. ASSUME NEW i \in 1 .. n, i - 1 \in G PROVE i \in G
    <3>1. i \in 1 .. n + 1 /\ i \in 0 .. n
      BY <1>1
    <3> QED BY <1>1, <1>2, <1>3, <2>2, <3>1
  <2> HIDE DEF G
  <2> QED BY <1>1, <2>1, <2>2, UpTo
<1>5. f[n] = g[n]
  BY <1>1, <1>4
<1>6. g[n + 1] = Parsed(g[n], byte)
  <2>1. n + 1 \in 1 .. n + 1 /\ (n + 1) - 1 = n
    BY <1>1
  <2>2. g[n + 1] = Parsed(g[(n + 1) - 1], more[n + 1])
    BY <1>3, <2>1
  <2> QED BY <1>1, <2>1, <2>2
<1> QED BY <1>2, <1>3, <1>5, <1>6 DEF more

\* No byte changes nothing.
LEMMA FeedNothing ==
  ASSUME NEW Byte, NEW p \in Parser(Byte), NEW chunk \in Seq(Byte)
  PROVE  Len(chunk) = 0 => feed(p, chunk) = p
<1>1. PICK f \in [0 .. Len(chunk) -> Parser(Byte)] :
        /\ f[0] = p
        /\ \A i \in 1 .. Len(chunk) : f[i] = Parsed(f[i - 1], chunk[i])
        /\ feed(p, chunk) = f[Len(chunk)]
  BY FeedUnfolds
<1> QED BY <1>1

\* p with the events y before those of its queue.
Behind(y, p) == [rest |-> p.rest, queue |-> y \o p.queue]

\* A byte is parsed alike, whatever events are before those of the queue.
LEMMA ParsedBehind ==
  ASSUME NEW Byte, NEW p \in Parser(Byte), NEW y \in Seq(Seq(Byte)), NEW byte
  PROVE  Parsed(Behind(y, p), byte) = Behind(y, Parsed(p, byte))
<1> DEFINE T == Seq(Byte)
           q == p.queue
           r == p.rest
<1>1. r \in T /\ q \in Seq(T) /\ y \in Seq(T)
  BY DEF Parser
<1> HIDE DEF T, q, r
<1>2. Append(y \o q, r) = y \o Append(q, r)
  <2>1. \A s, t \in Seq(T) : \A e \in T : s \o Append(t, e) = Append(s \o t, e)
    BY AppendAfter
  <2> QED BY <1>1, <2>1
<1> QED BY <1>2 DEF Parsed, Behind, q, r

\* Reading on from what is left of some bytes is reading the bytes and the chunk in one.
LEMMA FeedGoesOn ==
  ASSUME NEW Byte, NEW bytes \in Seq(Byte), NEW chunk \in Seq(Byte),
         NEW p \in Parser(Byte), NEW y \in Seq(Seq(Byte)), feed(NewParser, bytes) = Behind(y, p)
  PROVE  feed(NewParser, bytes \o chunk) = Behind(y, feed(p, chunk))
<1> DEFINE n == Len(chunk)
<1>1. PICK f \in [0 .. n -> Parser(Byte)] :
        /\ f[0] = p
        /\ \A i \in 1 .. n : f[i] = Parsed(f[i - 1], chunk[i])
        /\ feed(p, chunk) = f[n]
  BY FeedUnfolds
<1>2. n \in Nat /\ \A i \in 1 .. n : chunk[i] \in Byte
  OBVIOUS
<1> DEFINE G == {i \in 0 .. n : feed(NewParser, bytes \o SubSeq(chunk, 1, i)) = Behind(y, f[i])}
<1>3. 0 \in G
  <2>1. SubSeq(chunk, 1, 0) = <<>> /\ bytes \o <<>> = bytes
    BY SubSeqEmpty, ConcatEmptySeq
  <2>2. 0 \in 0 .. n
    BY <1>2
  <2> QED BY <1>1, <2>1, <2>2
<1>4. ASSUME NEW i \in 1 .. n, i - 1 \in G PROVE i \in G
  <2> DEFINE s == bytes \o SubSeq(chunk, 1, i - 1)
  <2>1. i - 1 \in 0 .. n /\ i \in 0 .. n /\ f[i - 1] \in Parser(Byte) /\ chunk[i] \in Byte
    <3> HIDE DEF n
    <3> QED BY <1>1, <1>2
  <2>2. feed(NewParser, s) = Behind(y, f[i - 1])
    BY <1>4
  <2>3. s \in Seq(Byte) /\ bytes \o SubSeq(chunk, 1, i) = Append(s, chunk[i])
    BY ChunkUpTo
  <2> HIDE DEF s
  <2>4. feed(NewParser, Append(s, chunk[i])) = Parsed(feed(NewParser, s), chunk[i])
    BY <2>1, <2>3, FeedAppend, NewParserIsParser
  <2>5. f[i] = Parsed(f[i - 1], chunk[i])
    BY <1>1
  <2>6. Parsed(Behind(y, f[i - 1]), chunk[i]) = Behind(y, f[i])
    BY <2>1, <2>5, ParsedBehind
  <2>7. feed(NewParser, bytes \o SubSeq(chunk, 1, i)) = Behind(y, f[i])
    BY <2>2, <2>3, <2>4, <2>6
  <2> QED BY <2>1, <2>7
<1>5. \A i \in 0 .. n : i \in G
  <2> HIDE DEF G, n
  <2> QED BY <1>2, <1>3, <1>4, UpTo
<1>6. n \in 0 .. n /\ SubSeq(chunk, 1, n) = chunk
  BY <1>2, SubSeqFull
<1> HIDE DEF n
<1>7. n \in G
  BY <1>5, <1>6
<1> QED BY <1>1, <1>6, <1>7

\* What streamSseEvents holds between two reads.
Stream(Byte) == [rest : Seq(Byte), queue : Seq(Seq(Byte)), yielded : Seq(Seq(Byte))]

NewStream == [rest |-> <<>>, queue |-> <<>>, yielded |-> <<>>]

\* after is the recursive function with which streamSseEvents reads.
After(after, chunks, reads) ==
    after = [n \in 0 .. reads |-> IF n = 0 THEN NewStream ELSE Read(after[n - 1], chunks[n])]

\* A read yields what its chunk ended, and leaves nothing queued.
LEMMA ReadYields ==
  ASSUME NEW Byte, "|" \in Byte, NEW stream \in Stream(Byte), NEW chunk \in Seq(Byte)
  PROVE  /\ Read(stream, chunk) \in Stream(Byte)
         /\ Read(stream, chunk).queue = <<>>
         /\ [rest |-> Read(stream, chunk).rest, queue |-> Read(stream, chunk).yielded]
              = Behind(stream.yielded, feed([rest |-> stream.rest, queue |-> stream.queue], chunk))
<1> DEFINE T == Seq(Byte)
           parser == [rest |-> stream.rest, queue |-> stream.queue]
           fed == feed(parser, chunk)
           y == stream.yielded
           next == Read(stream, chunk)
<1>1. parser \in Parser(Byte) /\ y \in Seq(Seq(Byte)) /\ "|" \in Byte
  BY DEF Stream, Parser
<1>2. next = [rest |-> fed.rest, queue |-> <<>>, yielded |-> y \o fed.queue]
  BY DEF Read, Drain
<1> HIDE DEF parser, y, next
<1>3. fed \in Parser(Byte)
  BY <1>1, FeedTakes
<1>4. next \in Stream(Byte)
  <2> HIDE DEF fed
  <2>1. fed.rest \in T /\ fed.queue \in Seq(T) /\ y \in Seq(T) /\ <<>> \in Seq(T)
    BY <1>1, <1>3 DEF Parser
  <2> HIDE DEF T
  <2>2. y \o fed.queue \in Seq(T)
    BY <2>1
  <2> QED BY <1>2, <2>1, <2>2 DEF Stream, T
<1>5. [rest |-> next.rest, queue |-> next.yielded] = Behind(y, fed)
  BY <1>2 DEF Behind
<1> QED BY <1>2, <1>4, <1>5 DEF next, y, parser

\* A stream is read chunk by chunk.
LEMMA StreamUnfolds ==
  ASSUME NEW Byte, "|" \in Byte, NEW chunks \in Seq(Seq(Byte)), NEW reads \in 0 .. Len(chunks)
  PROVE  \E f \in [0 .. reads -> Stream(Byte)] :
            /\ f[0] = NewStream
            /\ \A n \in 1 .. reads : f[n] = Read(f[n - 1], chunks[n])
            /\ streamSseEvents(chunks, reads) = f[reads].yielded
<1> DEFINE S == Stream(Byte)
           T == Seq(Byte)
           step == [x \in (1 .. reads) \X S |-> Read(x[2], chunks[x[1]])]
<1>0. /\ reads \in Nat /\ \A n \in 1 .. reads : chunks[n] \in T
      /\ "|" \in Byte
  <2>1. chunks \in Seq(T)
    OBVIOUS
  <2> HIDE DEF T
  <2> QED BY <2>1
<1>1. NewStream \in S
  <2>1. <<>> \in T /\ <<>> \in Seq(T)
    OBVIOUS
  <2> HIDE DEF T
  <2>2. NewStream \in [rest : T, queue : Seq(T), yielded : Seq(T)]
    BY <2>1 DEF NewStream
  <2> QED BY <2>2 DEF Stream, T
<1> HIDE DEF S, T
<1>2. \A s \in S : \A n \in 1 .. reads : Read(s, chunks[n]) \in S
  BY <1>0, ReadYields DEF S, T
<1>3. step \in [(1 .. reads) \X S -> S]
  <2>1. ASSUME NEW x \in (1 .. reads) \X S PROVE Read(x[2], chunks[x[1]]) \in S
    <3>1. x[1] \in 1 .. reads /\ x[2] \in S
      OBVIOUS
    <3> QED BY <1>2, <3>1
  <2> QED BY <2>1
<1>4. PICK h : Steps(h, reads, S, NewStream, step)
  <2> HIDE DEF step
  <2> QED BY <1>0, <1>1, <1>3, StepByStep
<1>5. /\ h \in [0 .. reads -> S] /\ h[0] = NewStream
      /\ \A n \in 1 .. reads : h[n] = step[<<n, h[n - 1]>>]
  BY <1>4 DEF Steps
<1>6. \A n \in 1 .. reads : h[n] = Read(h[n - 1], chunks[n])
  <2> SUFFICES ASSUME NEW n \in 1 .. reads PROVE h[n] = Read(h[n - 1], chunks[n])
    OBVIOUS
  <2>1. n - 1 \in 0 .. reads
    BY <1>0
  <2>2. <<n, h[n - 1]>> \in (1 .. reads) \X S
    BY <1>5, <2>1
  <2>3. step[<<n, h[n - 1]>>] = Read(h[n - 1], chunks[n])
    BY <2>2
  <2> HIDE DEF step
  <2> QED BY <1>5, <2>3
<1> HIDE DEF step
<1>7. After(h, chunks, reads)
  <2>1. \A n \in 0 .. reads : h[n] = IF n = 0 THEN NewStream ELSE Read(h[n - 1], chunks[n])
    BY <1>0, <1>5, <1>6
  <2>2. h = [n \in 0 .. reads |-> h[n]]
    BY <1>5
  <2>3. h = [n \in 0 .. reads |-> IF n = 0 THEN NewStream ELSE Read(h[n - 1], chunks[n])]
    BY <2>1, <2>2
  <2> QED BY <2>3 DEF After
<1> DEFINE F == CHOOSE f : After(f, chunks, reads)
<1>8. After(F, chunks, reads) /\ streamSseEvents(chunks, reads) = F[reads].yielded
  <2>1. streamSseEvents(chunks, reads) = F[reads].yielded
    BY DEF streamSseEvents, After, NewStream
  <2> QED BY <1>7, <2>1
<1> HIDE DEF F
<1>9. F[0] = NewStream /\ \A n \in 1 .. reads : F[n] = Read(F[n - 1], chunks[n])
  BY <1>0, <1>8 DEF After
<1> DEFINE G == {n \in 0 .. reads : F[n] \in S}
<1>10. \A n \in 0 .. reads : n \in G
  <2>1. 0 \in G
    BY <1>0, <1>1, <1>9
  <2>2. ASSUME NEW n \in 1 .. reads, n - 1 \in G PROVE n \in G
    BY <1>0, <1>2, <1>9, <2>2
  <2> HIDE DEF G
  <2> QED BY <1>0, <2>1, <2>2, UpTo
<1>11. F \in [0 .. reads -> S]
  <2> DEFINE e(n) == IF n = 0 THEN NewStream ELSE Read(F[n - 1], chunks[n])
  <2>1. F = [n \in 0 .. reads |-> e(n)]
    BY <1>8 DEF After
  <2>2. \A n \in 0 .. reads : F[n] \in S
    BY <1>10
  <2> HIDE DEF e
  <2>3. \A n \in 0 .. reads : e(n) = F[n]
    BY <2>1
  <2> QED BY <2>1, <2>2, <2>3
<1> QED BY <1>8, <1>9, <1>11 DEF S

\* The bytes that some reads return.
Bytes(chunks, reads) == FlattenSeq(SubSeq(chunks, 1, reads))

\* A stream yields what one read of all its bytes would.
LEMMA StreamIsOneFeed ==
  ASSUME NEW Byte, "|" \in Byte, NEW chunks \in Seq(Seq(Byte)), NEW reads \in 0 .. Len(chunks)
  PROVE  /\ Bytes(chunks, reads) \in Seq(Byte)
         /\ streamSseEvents(chunks, reads) = feed(NewParser, Bytes(chunks, reads)).queue
<1> DEFINE T == Seq(Byte)
           bytes(n) == Bytes(chunks, n)
<1>0. "|" \in Byte
  OBVIOUS
<1>1. PICK f \in [0 .. reads -> Stream(Byte)] :
        /\ f[0] = NewStream
        /\ \A n \in 1 .. reads : f[n] = Read(f[n - 1], chunks[n])
        /\ streamSseEvents(chunks, reads) = f[reads].yielded
  BY StreamUnfolds
<1>2. /\ reads \in Nat /\ chunks \in Seq(T) /\ Len(chunks) \in Nat /\ reads <= Len(chunks)
      /\ \A n \in 1 .. Len(chunks) : chunks[n] \in T
  <2>1. chunks \in Seq(T)
    OBVIOUS
  <2> HIDE DEF T
  <2> QED BY <2>1
<1> HIDE DEF T
<1>3. ASSUME NEW n \in 1 .. reads, bytes(n - 1) \in T
      PROVE  bytes(n) = bytes(n - 1) \o chunks[n] /\ bytes(n) \in T
  <2> DEFINE before == SubSeq(chunks, 1, n - 1)
             c == chunks[n]
  <2>1. before \in Seq(T) /\ c \in T
    <3>1. \A i \in 1 .. n - 1 : chunks[i] \in T
      BY <1>2
    <3> QED BY <1>2, <3>1, SubSeqProperties
  <2>2. SubSeq(chunks, 1, n) = before \o <<c>>
    <3>1. 1 \in 1 .. Len(chunks) /\ n \in 1 .. Len(chunks)
      BY <1>2
    <3> QED BY <1>2, <3>1, SubSeqRecursiveSecond
  <2> HIDE DEF before, c
  <2>3. SubSeq(chunks, 1, n) = Append(before, c)
    BY <2>1, <2>2, AppendIsConcat
  <2>4. FlattenSeq(Append(before, c)) = FlattenSeq(before) \o c
    BY <2>1, FlattenAppend DEF T
  <2>5. bytes(n - 1) = FlattenSeq(before) /\ bytes(n) = FlattenSeq(Append(before, c))
    BY <2>3 DEF Bytes, before
  <2>6. FlattenSeq(before) \o c \in T
    BY <1>3, <2>1, <2>5 DEF T
  <2> QED BY <2>4, <2>5, <2>6 DEF c
<1> DEFINE G == {n \in 0 .. reads :
                   /\ bytes(n) \in T
                   /\ f[n].queue = <<>>
                   /\ feed(NewParser, bytes(n)) = [rest |-> f[n].rest, queue |-> f[n].yielded]}
<1>4. 0 \in G
  <2>1. SubSeq(chunks, 1, 0) = <<>>
    BY SubSeqEmpty
  <2>2. bytes(0) = <<>> /\ <<>> \in T
    BY <2>1 DEF FlattenSeq, Bytes, T
  <2>3. feed(NewParser, <<>>) = NewParser
    <3> DEFINE none == <<>>
    <3>1. none \in Seq(Byte) /\ Len(none) = 0
      OBVIOUS
    <3> HIDE DEF none
    <3>2. feed(NewParser, none) = NewParser
      BY <3>1, FeedNothing, NewParserIsParser
    <3> QED BY <3>2 DEF none
  <2>4. f[0].queue = <<>> /\ [rest |-> f[0].rest, queue |-> f[0].yielded] = NewParser /\ 0 \in 0 .. reads
    BY <1>1, <1>2 DEF NewStream, NewParser
  <2> HIDE DEF bytes
  <2> QED BY <2>2, <2>3, <2>4
<1>5. ASSUME NEW n \in 1 .. reads, n - 1 \in G PROVE n \in G
  <2> DEFINE s == f[n - 1]
             c == chunks[n]
             b == bytes(n - 1)
  <2>1. n - 1 \in 0 .. reads /\ n \in 0 .. reads /\ s \in Stream(Byte) /\ c \in Seq(Byte)
    BY <1>1, <1>2 DEF T
  <2>2. b \in T /\ s.queue = <<>> /\ feed(NewParser, b) = [rest |-> s.rest, queue |-> s.yielded]
    BY <1>5
  <2>3. f[n] = Read(s, c)
    BY <1>1
  <2>4. bytes(n) = b \o c /\ bytes(n) \in T
    BY <1>3, <2>2
  <2> HIDE DEF s, c, b
  <2> DEFINE p == [rest |-> s.rest, queue |-> s.queue]
  <2>5. p \in Parser(Byte) /\ s.yielded \in Seq(Seq(Byte)) /\ Behind(s.yielded, p) = [rest |-> s.rest, queue |-> s.yielded]
    <3>1. p \in Parser(Byte) /\ s.yielded \in Seq(T)
      BY <2>1 DEF Stream, Parser, T
    <3>2. s.yielded \o <<>> = s.yielded
      BY <3>1, ConcatEmptySeq
    <3> QED BY <2>2, <3>1, <3>2 DEF Behind, T
  <2> HIDE DEF p
  <2>6. feed(NewParser, b \o c) = Behind(s.yielded, feed(p, c))
    BY <2>1, <2>2, <2>5, FeedGoesOn DEF T
  <2>7. /\ Read(s, c).queue = <<>>
        /\ [rest |-> Read(s, c).rest, queue |-> Read(s, c).yielded]
              = Behind(s.yielded, feed(p, c))
    BY <1>0, <2>1, ReadYields DEF p
  <2> HIDE DEF bytes
  <2> QED BY <2>1, <2>3, <2>4, <2>6, <2>7
<1>6. reads \in G
  <2>1. \A n \in 0 .. reads : n \in G
    <3> HIDE DEF G
    <3> QED BY <1>2, <1>4, <1>5, UpTo
  <2> HIDE DEF G
  <2> QED BY <1>2, <2>1
<1> QED BY <1>1, <1>6 DEF T

\* The events of a stream, for any bytes cut into any chunks and any number of reads: those that
\* ended in what was read, each whole, once and in order.
THEOREM StreamsAreUncut ==
  ASSUME NEW Byte, "|" \in Byte, NEW chunks \in Seq(Seq(Byte)), NEW reads \in 0 .. Len(chunks)
  PROVE  EventsSurvive(chunks, reads)
<1> DEFINE T == Seq(Byte)
           all == Bytes(chunks, reads)
           fed == feed(NewParser, all)
           yielded == fed.queue
           rest == fed.rest
           sent == Sent(yielded)
<1>0. "|" \in Byte
  OBVIOUS
<1>1. all \in T /\ streamSseEvents(chunks, reads) = yielded
  BY StreamIsOneFeed
<1>2. fed \in Parser(Byte) /\ Taken(fed) = Taken(NewParser) \o all /\ (Tidy(NewParser) => Tidy(fed))
  <2> HIDE DEF all
  <2> QED BY <1>0, <1>1, FeedTakes, NewParserIsParser
<1>3. Taken(NewParser) = <<>> /\ Tidy(NewParser)
  BY SentNothing DEF Taken, Tidy, NewParser, Whole, Ends
<1>4. EventsSurvive(chunks, reads)
       <=> /\ \A i \in DOMAIN yielded : Ends(yielded[i]) = {}
           /\ \E k \in 0 .. Len(all) : sent = SubSeq(all, 1, k) /\ \A i \in Ends(all) : i <= k
  <2> HIDE DEF fed
  <2> QED BY <1>1 DEF EventsSurvive, Bytes
<1> HIDE DEF fed, all
<1>5. Whole(yielded) /\ Ends(rest) = {} /\ sent \o rest = all
  BY <1>1, <1>2, <1>3, ConcatEmptySeq DEF Taken, Tidy
<1>6. sent \in T /\ rest \in T
  <2>1. rest \in T /\ yielded \in Seq(Seq(Byte)) /\ <<>> \in Seq(Byte)
    BY <1>2 DEF Parser
  <2> HIDE DEF yielded, rest
  <2> QED BY <1>0, <2>1, SentAppend DEF sent
<1> HIDE DEF yielded, rest, sent
<1> DEFINE k == Len(sent)
<1>7. k \in 0 .. Len(all) /\ Len(all) = k + Len(rest) /\ k \in Nat /\ DOMAIN all = 1 .. Len(all)
  BY <1>1, <1>5, <1>6, ConcatProperties
<1>8. sent = SubSeq(all, 1, k)
  <2> DEFINE head == SubSeq(all, 1, k)
  <2>1. head \in T /\ Len(head) = k /\ \A i \in 1 .. k : head[i] = all[i]
    <3>1. \A i \in 1 .. k : all[i] \in Byte
      BY <1>1, <1>7
    <3> QED BY <1>7, <3>1, SubSeqProperties
  <2>2. \A i \in 1 .. k : all[i] = sent[i]
    BY <1>5, <1>6, <1>7, ConcatProperties
  <2> HIDE DEF head
  <2>3. sent = head
    BY <1>6, <2>1, <2>2, SeqEqual
  <2> QED BY <2>3 DEF head
<1>9. \A i \in Ends(all) : i <= k
  <2> SUFFICES ASSUME NEW i \in 1 .. Len(all), all[i] = "|", ~(i <= k) PROVE FALSE
    BY <1>7 DEF Ends
  <2>1. i - k \in 1 .. Len(rest) /\ all[i] = rest[i - k]
    BY <1>5, <1>6, <1>7, ConcatProperties
  <2> QED BY <1>5, <1>6, <2>1 DEF Ends
<1> QED BY <1>4, <1>5, <1>7, <1>8, <1>9 DEF Whole

\* The same bytes yield the same events, whatever chunks they came in.
THEOREM CutsDoNotMatter ==
  ASSUME NEW Byte, "|" \in Byte,
         NEW chunks \in Seq(Seq(Byte)), NEW reads \in 0 .. Len(chunks),
         NEW others \in Seq(Seq(Byte)), NEW rounds \in 0 .. Len(others),
         FlattenSeq(SubSeq(chunks, 1, reads)) = FlattenSeq(SubSeq(others, 1, rounds))
  PROVE  streamSseEvents(chunks, reads) = streamSseEvents(others, rounds)
<1>1. Bytes(chunks, reads) = Bytes(others, rounds) /\ "|" \in Byte
  BY DEF Bytes
<1>2. streamSseEvents(chunks, reads) = feed(NewParser, Bytes(chunks, reads)).queue
  BY <1>1, StreamIsOneFeed
<1>3. streamSseEvents(others, rounds) = feed(NewParser, Bytes(others, rounds)).queue
  BY <1>1, StreamIsOneFeed
<1> QED BY <1>1, <1>2, <1>3

\* What a behaviour draws when it draws a stream.
StreamSample ==
  sample.kind = "stream" =>
    sample.chunks \in Seq(Seq({"x", "|"})) /\ sample.reads \in 0 .. Len(sample.chunks)

\* A behaviour of Algorithms draws streams of such bytes.
LEMMA DrawsStreams == AlgorithmsSpec => []StreamSample
<1>1. Init => StreamSample
  BY DEF Init, StreamSample
<1>2. StreamSample /\ [Draw]_sample => StreamSample'
  <2> SUFFICES ASSUME StreamSample, [Draw]_sample PROVE StreamSample'
    OBVIOUS
  <2>1. CASE DrawStream
    <3> DEFINE three == 3
               Byte == {"x", "|"}
               Chunks == SeqOf(Byte, three)
    <3>1. PICK chunks \in SeqOf(Chunks, three) : \E reads \in 0 .. Len(chunks) :
            sample' = [kind |-> "stream", chunks |-> chunks, reads |-> reads]
      BY <2>1, Zenon DEF DrawStream
    <3>2. three \in Nat
      OBVIOUS
    <3> HIDE DEF Byte, three
    <3>3. Chunks \subseteq Seq(Byte)
      BY <3>2, ShortSequences
    <3>4. chunks \in Seq(Chunks)
      <4> HIDE DEF Chunks
      <4> QED BY <3>2, ShortSequences
    <3> HIDE DEF Chunks
    <3>5. chunks \in Seq(Seq(Byte))
      BY <3>3, <3>4, SeqMonotonic
    <3> QED BY <3>1, <3>5 DEF StreamSample, Byte
  <2>2. ~DrawStream /\ Draw => sample'.kind # "stream"
    BY DEF Draw, DrawGlob, DrawLookup, DrawChat, DrawUnits, DrawRequest, DrawError, DrawQuote,
           DrawCalls, DrawRollup
  <2>3. CASE sample'.kind # "stream"
    BY <2>3 DEF StreamSample
  <2>4. CASE UNCHANGED sample
    BY <2>4 DEF StreamSample
  <2> QED BY <2>1, <2>2, <2>3, <2>4
<1> QED BY <1>1, <1>2, PTL DEF AlgorithmsSpec

\* Every sampled stream yields its events whole, once and in order, however it was cut.
THEOREM StreamIsAlwaysUncut == AlgorithmsSpec => []StreamIsUncut
<1>1. StreamSample => StreamIsUncut
  <2> SUFFICES ASSUME StreamSample, sample.kind = "stream" PROVE EventsSurvive(sample.chunks, sample.reads)
    BY DEF StreamIsUncut
  <2> DEFINE Byte == {"x", "|"}
  <2>1. "|" \in Byte /\ sample.chunks \in Seq(Seq(Byte)) /\ sample.reads \in 0 .. Len(sample.chunks)
    BY DEF StreamSample
  <2> HIDE DEF Byte
  <2> QED BY <2>1, StreamsAreUncut
<1> QED BY <1>1, DrawsStreams, PTL

-----------------------------------------------------------------------------
(***************************************************************************)
(* Quotes.  A number is read from its digits from left to right, in which  *)
(* two digits weigh what a byte does, and is written by its remainders.    *)
(***************************************************************************)
\* value is the recursive function with which Value adds up the digits.
Valued(value, digits, base) ==
    value = [i \in 0 .. Len(digits) |-> IF i = 0 THEN 0 ELSE value[i - 1] * base + digits[i]]

\* A number is read digit by digit.
LEMMA ValueUnfolds ==
  ASSUME NEW base \in Nat, NEW digits \in Seq(Nat)
  PROVE  \E f \in [0 .. Len(digits) -> Nat] :
            /\ f[0] = 0
            /\ \A i \in 1 .. Len(digits) : f[i] = f[i - 1] * base + digits[i]
            /\ Value(digits, base) = f[Len(digits)]
<1> DEFINE n == Len(digits)
           step == [x \in (1 .. n) \X Nat |-> x[2] * base + digits[x[1]]]
<1>0. n \in Nat /\ \A i \in 1 .. n : digits[i] \in Nat
  OBVIOUS
<1>1. \A v \in Nat : \A d \in Nat : v * base + d \in Nat
  OBVIOUS
<1>2. step \in [(1 .. n) \X Nat -> Nat]
  <2>1. ASSUME NEW x \in (1 .. n) \X Nat PROVE x[2] * base + digits[x[1]] \in Nat
    <3>1. x[1] \in 1 .. n /\ x[2] \in Nat
      OBVIOUS
    <3> QED BY <1>0, <1>1, <3>1
  <2> HIDE DEF n
  <2> QED BY <2>1
<1>3. PICK h : Steps(h, n, Nat, 0, step)
  <2> HIDE DEF n, step
  <2> QED BY <1>0, <1>2, StepByStep
<1>4. h \in [0 .. n -> Nat] /\ h[0] = 0 /\ \A i \in 1 .. n : h[i] = step[<<i, h[i - 1]>>]
  BY <1>3 DEF Steps
<1>5. \A i \in 1 .. n : h[i] = h[i - 1] * base + digits[i]
  <2> SUFFICES ASSUME NEW i \in 1 .. n PROVE h[i] = h[i - 1] * base + digits[i]
    OBVIOUS
  <2> HIDE DEF n
  <2>1. i - 1 \in 0 .. n
    BY <1>0
  <2>2. <<i, h[i - 1]>> \in (1 .. n) \X Nat
    BY <1>4, <2>1
  <2>3. step[<<i, h[i - 1]>>] = h[i - 1] * base + digits[i]
    BY <2>2
  <2> HIDE DEF step
  <2> QED BY <1>4, <2>3
<1> HIDE DEF n, step
<1>6. Valued(h, digits, base)
  <2>1. \A i \in 0 .. n : h[i] = IF i = 0 THEN 0 ELSE h[i - 1] * base + digits[i]
    BY <1>0, <1>4, <1>5
  <2>2. h = [i \in 0 .. n |-> h[i]]
    BY <1>4
  <2>3. h = [i \in 0 .. n |-> IF i = 0 THEN 0 ELSE h[i - 1] * base + digits[i]]
    BY <2>1, <2>2
  <2> QED BY <2>3 DEF Valued, n
<1> DEFINE F == CHOOSE f : Valued(f, digits, base)
<1>7. Valued(F, digits, base) /\ Value(digits, base) = F[n]
  <2>1. Value(digits, base) = F[n]
    BY DEF Value, Valued, n
  <2> QED BY <1>6, <2>1
<1> HIDE DEF F
<1> DEFINE e(i) == IF i = 0 THEN 0 ELSE F[i - 1] * base + digits[i]
           G == {i \in 0 .. n : F[i] \in Nat}
<1>8. F = [i \in 0 .. n |-> e(i)]
  BY <1>7 DEF Valued, n
<1>9. F[0] = 0 /\ \A i \in 1 .. n : F[i] = F[i - 1] * base + digits[i]
  BY <1>0, <1>8
<1>10. \A i \in 0 .. n : i \in G
  <2>1. 0 \in G
    BY <1>0, <1>9
  <2>2. ASSUME NEW i \in 1 .. n, i - 1 \in G PROVE i \in G
    <3>1. i \in 0 .. n /\ digits[i] \in Nat /\ F[i - 1] \in Nat
      BY <1>0, <2>2
    <3>2. F[i - 1] * base + digits[i] \in Nat
      BY <1>1, <3>1, Zenon
    <3>3. F[i] \in Nat
      BY <1>9, <3>2, Zenon
    <3> HIDE DEF e
    <3> QED BY <3>1, <3>3
  <2> HIDE DEF G, e
  <2> QED BY <1>0, <2>1, <2>2, UpTo
<1>11. F \in [0 .. n -> Nat]
  <2> HIDE DEF e
  <2>1. \A i \in 0 .. n : e(i) \in Nat
    BY <1>8, <1>10
  <2> QED BY <1>8, <2>1
<1> QED BY <1>7, <1>9, <1>11 DEF n

\* One digit more.
LEMMA ValueAppend ==
  ASSUME NEW base \in Nat, NEW digits \in Seq(Nat), NEW d \in Nat
  PROVE  /\ Value(digits, base) \in Nat
         /\ Value(Append(digits, d), base) = Value(digits, base) * base + d
<1> DEFINE n == Len(digits)
           more == Append(digits, d)
<1>1. /\ n \in Nat /\ more \in Seq(Nat) /\ Len(more) = n + 1 /\ more[n + 1] = d
      /\ \A i \in 1 .. n : more[i] = digits[i]
  OBVIOUS
<1>2. PICK f \in [0 .. n -> Nat] :
        /\ f[0] = 0
        /\ \A i \in 1 .. n : f[i] = f[i - 1] * base + digits[i]
        /\ Value(digits, base) = f[n]
  BY ValueUnfolds
<1> HIDE DEF more, n
<1>3. PICK g \in [0 .. n + 1 -> Nat] :
        /\ g[0] = 0
        /\ \A i \in 1 .. n + 1 : g[i] = g[i - 1] * base + more[i]
        /\ Value(more, base) = g[n + 1]
  <2>1. \E g \in [0 .. Len(more) -> Nat] :
          /\ g[0] = 0
          /\ \A i \in 1 .. Len(more) : g[i] = g[i - 1] * base + more[i]
          /\ Value(more, base) = g[Len(more)]
    BY <1>1, ValueUnfolds
  <2>2. Len(more) = n + 1
    BY <1>1
  <2> QED BY <2>1, <2>2, Zenon
<1> DEFINE G == {i \in 0 .. n : f[i] = g[i]}
<1>4. \A i \in 0 .. n : i \in G
  <2>1. 0 \in G
    BY <1>1, <1>2, <1>3
  <2>2. ASSUME NEW i \in 1 .. n, i - 1 \in G PROVE i \in G
    <3>0. f[i - 1] = g[i - 1]
      BY <2>2
    <3> HIDE DEF G
    <3>1. i \in 1 .. n + 1 /\ i \in 0 .. n /\ f[i - 1] = g[i - 1] /\ more[i] = digits[i]
      <4>1. n \in Nat /\ more[i] = digits[i]
        BY <1>1
      <4> QED BY <3>0, <4>1
    <3>2. f[i] = f[i - 1] * base + digits[i] /\ g[i] = g[i - 1] * base + more[i]
      BY <1>2, <1>3, <3>1
    <3>3. f[i] = g[i]
      BY <3>1, <3>2, Zenon
    <3> QED BY <3>1, <3>3 DEF G
  <2> HIDE DEF G
  <2> QED BY <1>1, <2>1, <2>2, UpTo
<1>5. f[n] = g[n] /\ f[n] \in Nat
  BY <1>1, <1>2, <1>4
<1>6. g[n + 1] = g[n] * base + d
  <2>1. n + 1 \in 1 .. n + 1 /\ (n + 1) - 1 = n
    BY <1>1
  <2>2. g[n + 1] = g[(n + 1) - 1] * base + more[n + 1]
    BY <1>3, <2>1
  <2> QED BY <1>1, <2>1, <2>2
<1> QED BY <1>2, <1>3, <1>5, <1>6 DEF more

\* No digits are worth nothing.
LEMMA ValueOfNothing ==
  ASSUME NEW base \in Nat
  PROVE  Value(<<>>, base) = 0
<1>1. <<>> \in Seq(Nat) /\ Len(<<>>) = 0
  OBVIOUS
<1>2. \E f \in [0 .. Len(<<>>) -> Nat] : f[0] = 0 /\ Value(<<>>, base) = f[Len(<<>>)]
  BY <1>1, ValueUnfolds
<1> QED BY <1>1, <1>2

\* A zero in front changes nothing.
LEMMA ValuePadded ==
  ASSUME NEW digits \in Seq(Nat)
  PROVE  <<0>> \o digits \in Seq(Nat) /\ Value(<<0>> \o digits, 16) = Value(digits, 16)
<1> DEFINE n == Len(digits)
           more == <<0>> \o digits
<1>1. /\ n \in Nat /\ more \in Seq(Nat) /\ Len(more) = n + 1 /\ more[1] = 0
      /\ \A i \in 1 .. n : more[i + 1] = digits[i]
  OBVIOUS
<1>2. PICK f \in [0 .. n -> Nat] :
        /\ f[0] = 0
        /\ \A i \in 1 .. n : f[i] = f[i - 1] * 16 + digits[i]
        /\ Value(digits, 16) = f[n]
  BY ValueUnfolds
<1> HIDE DEF more, n
<1>3. PICK g \in [0 .. n + 1 -> Nat] :
        /\ g[0] = 0
        /\ \A i \in 1 .. n + 1 : g[i] = g[i - 1] * 16 + more[i]
        /\ Value(more, 16) = g[n + 1]
  <2>1. \E g \in [0 .. Len(more) -> Nat] :
          /\ g[0] = 0
          /\ \A i \in 1 .. Len(more) : g[i] = g[i - 1] * 16 + more[i]
          /\ Value(more, 16) = g[Len(more)]
    BY <1>1, ValueUnfolds
  <2>2. Len(more) = n + 1
    BY <1>1
  <2> QED BY <2>1, <2>2, Zenon
<1> DEFINE G == {i \in 0 .. n : f[i] = g[i + 1]}
<1>4. 0 \in G
  <2>1. 1 \in 1 .. n + 1 /\ 1 - 1 = 0
    BY <1>1
  <2>2. g[1] = g[1 - 1] * 16 + more[1]
    BY <1>3, <2>1
  <2> QED BY <1>1, <1>2, <1>3, <2>1, <2>2
<1>5. ASSUME NEW i \in 1 .. n, i - 1 \in G PROVE i \in G
  <2>1. i + 1 \in 1 .. n + 1 /\ i \in 0 .. n /\ (i + 1) - 1 = i /\ (i - 1) + 1 = i
    BY <1>1
  <2>2. g[i + 1] = g[(i + 1) - 1] * 16 + more[i + 1] /\ f[i] = f[i - 1] * 16 + digits[i]
    BY <1>2, <1>3, <2>1
  <2>3. f[i - 1] = g[(i - 1) + 1]
    BY <1>5
  <2> QED BY <1>1, <2>1, <2>2, <2>3
<1>6. \A i \in 0 .. n : i \in G
  <2> HIDE DEF G
  <2> QED BY <1>1, <1>4, <1>5, UpTo
<1>7. f[n] = g[n + 1]
  BY <1>1, <1>6
<1> QED BY <1>1, <1>2, <1>3, <1>7 DEF more

\* Nibbles and bytes.
Digit == 0 .. 15
Octet == 0 .. 255

\* hexes is the recursive function with which HexOf writes the numbers up to n.
Hexes(hexes, n) ==
    hexes = [k \in 0 .. n |-> IF k = 0 THEN <<>> ELSE Append(hexes[k \div 16], k % 16)]

\* Every number can be written.
LEMMA HexesExist ==
  ASSUME NEW n \in Nat
  PROVE  \E f : Hexes(f, n)
<1> DEFINE G == {m \in 0 .. n : \E f : Hexes(f, m)}
<1>1. 0 \in G
  <2> DEFINE f == [k \in 0 .. 0 |-> <<>>]
  <2>1. f = [k \in 0 .. 0 |-> IF k = 0 THEN <<>> ELSE Append(f[k \div 16], k % 16)]
    OBVIOUS
  <2>2. Hexes(f, 0)
    <3> HIDE DEF f
    <3> QED BY <2>1 DEF Hexes
  <2> HIDE DEF f
  <2> QED BY <2>2
<1>2. ASSUME NEW m \in 1 .. n, m - 1 \in G PROVE m \in G
  <2>1. PICK g : Hexes(g, m - 1)
    BY <1>2
  <2> DEFINE f == [k \in 0 .. m |-> IF k = 0 THEN <<>> ELSE Append(g[k \div 16], k % 16)]
  <2>2. \A k \in 0 .. m - 1 : f[k] = g[k]
    <3> SUFFICES ASSUME NEW k \in 0 .. m - 1 PROVE f[k] = g[k]
      OBVIOUS
    <3>1. g[k] = IF k = 0 THEN <<>> ELSE Append(g[k \div 16], k % 16)
      BY <2>1 DEF Hexes
    <3>2. k \in 0 .. m
      OBVIOUS
    <3> QED BY <3>1, <3>2
  <2> DEFINE h == f
  <2>3. \A k \in 0 .. m : k # 0 => h[k \div 16] = g[k \div 16]
    <3> SUFFICES ASSUME NEW k \in 0 .. m, k # 0 PROVE h[k \div 16] = g[k \div 16]
      OBVIOUS
    <3>1. k \div 16 \in 0 .. m - 1
      OBVIOUS
    <3> HIDE DEF f
    <3> QED BY <2>2, <3>1
  <2>4. f = [k \in 0 .. m |-> IF k = 0 THEN <<>> ELSE Append(f[k \div 16], k % 16)]
    <3> HIDE DEF h
    <3>1. f = [k \in 0 .. m |-> IF k = 0 THEN <<>> ELSE Append(h[k \div 16], k % 16)]
      BY <2>3
    <3> QED BY <3>1 DEF h
  <2>5. Hexes(f, m)
    <3> HIDE DEF f
    <3> QED BY <2>4 DEF Hexes
  <2> HIDE DEF f
  <2> QED BY <2>5
<1>3. \A m \in 0 .. n : m \in G
  <2> HIDE DEF G
  <2> QED BY <1>1, <1>2, UpTo
<1> QED BY <1>3

\* What is written of a number reads as the number, and begins with no zero.
LEMMA HexOfReads ==
  ASSUME NEW n \in Nat
  PROVE  /\ HexOf(n) \in Seq(Digit)
         /\ Value(HexOf(n), 16) = n
         /\ HexOf(n) # <<>> => HexOf(n)[1] # 0
<1> DEFINE F == CHOOSE f : Hexes(f, n)
<1>1. Hexes(F, n) /\ HexOf(n) = F[n]
  <2>1. HexOf(n) = F[n]
    BY DEF HexOf, Hexes
  <2> QED BY <2>1, HexesExist
<1> HIDE DEF F
<1>2. F[0] = <<>> /\ \A k \in 1 .. n : F[k] = Append(F[k \div 16], k % 16)
  <2> DEFINE e(k) == IF k = 0 THEN <<>> ELSE Append(F[k \div 16], k % 16)
  <2>1. F = [k \in 0 .. n |-> e(k)]
    BY <1>1 DEF Hexes
  <2> HIDE DEF e
  <2>2. \A k \in 0 .. n : F[k] = e(k)
    BY <2>1
  <2>3. 0 \in 0 .. n /\ \A k \in 1 .. n : k \in 0 .. n /\ k # 0
    OBVIOUS
  <2> QED BY <2>2, <2>3, Zenon DEF e
<1> DEFINE Good(k) == /\ F[k] \in Seq(Digit)
                      /\ Value(F[k], 16) = k
                      /\ k = 0 => F[k] = <<>>
                      /\ k # 0 => F[k] # <<>> /\ F[k][1] # 0
           G == {k \in 0 .. n : Good(k)}
<1>3. ASSUME NEW k \in 0 .. n, \A j \in 0 .. k - 1 : j \in G PROVE k \in G
  <2>1. CASE k = 0
    <3>1. F[k] = <<>> /\ Value(<<>>, 16) = 0 /\ <<>> \in Seq(Digit)
      BY <1>2, <2>1, ValueOfNothing
    <3> QED BY <2>1, <3>1
  <2>2. CASE k # 0
    <3> DEFINE j == k \div 16
               d == k % 16
    <3>1. j \in 0 .. k - 1 /\ d \in Digit /\ k = j * 16 + d /\ k \in 1 .. n /\ j \in Nat /\ d \in Nat
      BY <2>2 DEF Digit
    <3>2. F[k] = Append(F[j], d)
      BY <1>2, <3>1
    <3> HIDE DEF j, d
    <3>3. Good(j)
      BY <1>3, <3>1
    <3>4. F[j] \in Seq(Digit) /\ F[j] \in Seq(Nat)
      <4>1. Digit \subseteq Nat
        BY DEF Digit
      <4>2. F[j] \in Seq(Digit)
        BY <3>3, Zenon
      <4> HIDE DEF Good
      <4> QED BY <4>1, <4>2, SeqMonotonic
    <3>5. Value(F[k], 16) = k
      <4>1. Value(Append(F[j], d), 16) = Value(F[j], 16) * 16 + d
        BY <3>1, <3>4, ValueAppend
      <4> QED BY <3>1, <3>2, <3>3, <4>1
    <3>6. F[k] \in Seq(Digit) /\ F[k] # <<>>
      BY <3>1, <3>2, <3>4, AppendProperties
    <3>7. F[k][1] # 0
      <4>1. CASE j = 0
        <5>1. d # 0
          BY <2>2, <3>1, <4>1
        <5>2. F[j] = <<>>
          BY <3>3, <4>1, Zenon
        <5> HIDE DEF Good
        <5> QED BY <3>2, <5>1, <5>2
      <4>2. CASE j # 0
        <5>1. F[j] # <<>> /\ F[j][1] # 0
          BY <3>3, <4>2
        <5>2. 1 \in 1 .. Len(F[j])
          BY <3>4, <5>1
        <5>3. Append(F[j], d)[1] = F[j][1]
          BY <3>1, <3>4, <5>2, AppendProperties
        <5> QED BY <3>2, <5>1, <5>3
      <4> QED BY <4>1, <4>2
    <3> QED BY <2>2, <3>5, <3>6, <3>7
  <2> QED BY <2>1, <2>2
<1>4. \A k \in 0 .. n : k \in G
  <2> HIDE DEF G
  <2> QED BY <1>3, UpToFromAll
<1>5. Good(n)
  BY <1>4
<1> QED BY <1>1, <1>5

\* A digit is a number.
LEMMA DigitsAreNumbers ==
  ASSUME NEW hex \in Seq(Digit)
  PROVE  hex \in Seq(Nat)
<1>1. Digit \subseteq Nat
  BY DEF Digit
<1> QED BY <1>1, SeqMonotonic

\* Two digits make a byte.
LEMMA OctetOfDigits ==
  ASSUME NEW x \in Digit, NEW y \in Digit
  PROVE  /\ x \in Nat /\ y \in Nat /\ 16 * x + y \in Octet
         /\ x # 0 \/ y # 0 => 16 * x + y # 0
  BY DEF Digit, Octet

\* Whole bytes keep the value of their digits.
LEMMA BytesOfHex ==
  ASSUME NEW hex \in Seq(Digit), Len(hex) % 2 = 0
  PROVE  /\ hexToBytes(hex) \in Seq(Octet)
         /\ Len(hexToBytes(hex)) = Len(hex) \div 2
         /\ \A i \in 1 .. Len(hex) \div 2 : hexToBytes(hex)[i] = 16 * hex[2 * i - 1] + hex[2 * i]
         /\ Value(hexToBytes(hex), 256) = Value(hex, 16)
<1> DEFINE m == Len(hex) \div 2
           b == hexToBytes(hex)
<1>1. m \in Nat /\ Len(hex) = 2 * m
  OBVIOUS
<1>2. \A i \in 1 .. Len(hex) : hex[i] \in Digit
  OBVIOUS
<1>3. b = [i \in 1 .. m |-> 16 * hex[2 * i - 1] + hex[2 * i]]
  BY DEF hexToBytes
<1> HIDE DEF m, b
<1>4. \A i \in 1 .. m : b[i] = 16 * hex[2 * i - 1] + hex[2 * i] /\ hex[2 * i - 1] \in Digit /\ hex[2 * i] \in Digit
  <2> SUFFICES ASSUME NEW i \in 1 .. m
               PROVE  b[i] = 16 * hex[2 * i - 1] + hex[2 * i] /\ hex[2 * i - 1] \in Digit /\ hex[2 * i] \in Digit
    OBVIOUS
  <2>1. 2 * i - 1 \in 1 .. Len(hex) /\ 2 * i \in 1 .. Len(hex)
    BY <1>1
  <2> QED BY <1>2, <1>3, <2>1
<1>5. \A i \in 1 .. m : b[i] \in Octet
  BY <1>4, OctetOfDigits
<1>6. b \in Seq(Octet) /\ b \in Seq(Nat) /\ Len(b) = m
  <2> DEFINE e(i) == 16 * hex[2 * i - 1] + hex[2 * i]
  <2>1. b = [i \in 1 .. m |-> e(i)]
    BY <1>3
  <2> HIDE DEF e
  <2>2. b \in [1 .. m -> Octet]
    <3>1. \A i \in 1 .. m : e(i) = b[i]
      BY <2>1
    <3> QED BY <1>5, <2>1, <3>1
  <2>3. b \in Seq(Octet) /\ Len(b) = m
    BY <1>1, <2>2
  <2>4. Octet \subseteq Nat
    BY DEF Octet
  <2> QED BY <2>3, <2>4, SeqMonotonic
<1>7. PICK f \in [0 .. Len(hex) -> Nat] :
        /\ f[0] = 0
        /\ \A i \in 1 .. Len(hex) : f[i] = f[i - 1] * 16 + hex[i]
        /\ Value(hex, 16) = f[Len(hex)]
  BY DigitsAreNumbers, ValueUnfolds
<1>8. PICK g \in [0 .. m -> Nat] :
        /\ g[0] = 0
        /\ \A i \in 1 .. m : g[i] = g[i - 1] * 256 + b[i]
        /\ Value(b, 256) = g[m]
  <2>1. \E g \in [0 .. Len(b) -> Nat] :
          /\ g[0] = 0
          /\ \A i \in 1 .. Len(b) : g[i] = g[i - 1] * 256 + b[i]
          /\ Value(b, 256) = g[Len(b)]
    BY <1>6, ValueUnfolds
  <2> QED BY <1>6, <2>1, Zenon
<1> DEFINE G == {i \in 0 .. m : g[i] = f[2 * i]}
<1>9. \A i \in 0 .. m : i \in G
  <2>1. 0 \in G
    BY <1>1, <1>7, <1>8
  <2>2. ASSUME NEW i \in 1 .. m, i - 1 \in G PROVE i \in G
    <3> DEFINE j == 2 * (i - 1)
    <3>1. j \in 0 .. Len(hex) /\ j + 1 \in 1 .. Len(hex) /\ j + 2 \in 1 .. Len(hex) /\ i \in 0 .. m
          /\ 2 * i - 1 = j + 1 /\ 2 * i = j + 2 /\ (j + 1) - 1 = j /\ (j + 2) - 1 = j + 1
      BY <1>1
    <3>2. g[i - 1] = f[j]
      BY <2>2
    <3>3. g[i] = g[i - 1] * 256 + b[i]
      BY <1>8
    <3>4. f[j + 1] = f[(j + 1) - 1] * 16 + hex[j + 1] /\ f[j + 2] = f[(j + 2) - 1] * 16 + hex[j + 2]
      <4> HIDE DEF j
      <4> QED BY <1>7, <3>1
    <3>5. b[i] = 16 * hex[j + 1] + hex[j + 2] /\ hex[j + 1] \in Nat /\ hex[j + 2] \in Nat
      <4>1. b[i] = 16 * hex[2 * i - 1] + hex[2 * i] /\ hex[2 * i - 1] \in Digit /\ hex[2 * i] \in Digit
        BY <1>4
      <4>2. hex[2 * i - 1] \in Nat /\ hex[2 * i] \in Nat
        BY <4>1, OctetOfDigits
      <4> HIDE DEF j
      <4> QED BY <3>1, <4>1, <4>2, Zenon
    <3>6. f[j] \in Nat
      BY <1>7, <3>1
    <3> HIDE DEF j
    <3>7. g[i] = f[j + 2]
      BY <3>1, <3>2, <3>3, <3>4, <3>5, <3>6
    <3> QED BY <3>1, <3>7
  <2> HIDE DEF G
  <2> QED BY <1>1, <2>1, <2>2, UpTo
<1>10. g[m] = f[Len(hex)]
  BY <1>1, <1>9
<1> QED BY <1>4, <1>6, <1>7, <1>8, <1>10 DEF b, m

\* Bytes are written as the digits they were read from.
LEMMA HexOfBytes ==
  ASSUME NEW hex \in Seq(Digit), Len(hex) % 2 = 0
  PROVE  bytesToHex(hexToBytes(hex)) = hex
<1> DEFINE b == hexToBytes(hex)
           m == Len(hex) \div 2
           back == bytesToHex(b)
           e(i) == IF i % 2 = 1 THEN b[(i + 1) \div 2] \div 16 ELSE b[i \div 2] % 16
<1>1. m \in Nat /\ Len(hex) = 2 * m
  OBVIOUS
<1>2. \A i \in 1 .. Len(hex) : hex[i] \in Digit
  OBVIOUS
<1>3. Len(b) = m /\ \A i \in 1 .. m : b[i] = 16 * hex[2 * i - 1] + hex[2 * i]
  BY BytesOfHex
<1>4. back = [i \in 1 .. 2 * Len(b) |-> e(i)]
  BY DEF bytesToHex
<1> HIDE DEF b, m, back
<1>5. \A i \in 1 .. Len(hex) : e(i) = hex[i]
  <2> SUFFICES ASSUME NEW i \in 1 .. Len(hex) PROVE e(i) = hex[i]
    OBVIOUS
  <2>1. CASE i % 2 = 1
    <3> DEFINE j == (i + 1) \div 2
    <3>1. j \in 1 .. m /\ 2 * j - 1 = i /\ 2 * j \in 1 .. Len(hex)
      BY <1>1, <2>1
    <3>2. e(i) = b[j] \div 16
      BY <2>1
    <3> HIDE DEF j, e
    <3>3. b[j] = 16 * hex[i] + hex[2 * j] /\ hex[i] \in Digit /\ hex[2 * j] \in Digit
      BY <1>2, <1>3, <3>1
    <3>4. \A x, y \in 0 .. 15 : (16 * x + y) \div 16 = x
      OBVIOUS
    <3> QED BY <3>2, <3>3, <3>4 DEF Digit
  <2>2. CASE i % 2 # 1
    <3> DEFINE j == i \div 2
    <3>1. j \in 1 .. m /\ 2 * j = i /\ 2 * j - 1 \in 1 .. Len(hex)
      BY <1>1, <2>2
    <3>2. e(i) = b[j] % 16
      BY <2>2
    <3> HIDE DEF j, e
    <3>3. b[j] = 16 * hex[2 * j - 1] + hex[i] /\ hex[i] \in Digit /\ hex[2 * j - 1] \in Digit
      BY <1>2, <1>3, <3>1
    <3>4. \A x, y \in 0 .. 15 : (16 * x + y) % 16 = y
      OBVIOUS
    <3> QED BY <3>2, <3>3, <3>4 DEF Digit
  <2> QED BY <2>1, <2>2
<1>6. back = [i \in 1 .. Len(hex) |-> e(i)]
  <2>1. 2 * Len(b) = Len(hex)
    BY <1>1, <1>3
  <2> HIDE DEF e
  <2> QED BY <1>4, <2>1
<1> HIDE DEF e
<1>7. hex = [i \in 1 .. Len(hex) |-> hex[i]]
  OBVIOUS
<1>8. back = hex
  BY <1>5, <1>6, <1>7
<1> QED BY <1>8 DEF back, b

\* A number's bytes are worth the number, and the first is not zero.
LEMMA BytesOfNumber ==
  ASSUME NEW n \in Nat
  PROVE  LET buf == bigintToBigEndianBytes(n)
         IN  /\ Value(buf, 256) = n
             /\ buf # <<>> => buf[1] # 0
<1> DEFINE hex == HexOf(n)
           padded == Padded(hex)
           buf == bigintToBigEndianBytes(n)
<1>1. hex \in Seq(Digit) /\ Value(hex, 16) = n /\ (hex # <<>> => hex[1] # 0)
  BY HexOfReads
<1>2. buf = hexToBytes(padded)
  BY DEF bigintToBigEndianBytes
<1> HIDE DEF hex, buf
<1>3. Len(hex) \in Nat
  BY <1>1
<1>4. /\ padded \in Seq(Digit) /\ Len(padded) % 2 = 0 /\ Value(padded, 16) = n
      /\ padded # <<>> => padded[1] # 0 \/ (padded[2] # 0 /\ padded[1] = 0)
  <2>1. CASE Len(hex) % 2 = 1
    <3>1. padded = <<0>> \o hex
      BY <2>1 DEF Padded
    <3>2. <<0>> \in Seq(Digit)
      BY DEF Digit
    <3> HIDE DEF padded
    <3>3. padded \in Seq(Digit) /\ Len(padded) = 1 + Len(hex) /\ padded[1] = 0 /\ padded[2] = hex[1]
      <4>1. Len(hex) >= 1
        BY <1>3, <2>1
      <4> QED BY <1>1, <1>3, <3>1, <3>2, <4>1
    <3>4. hex # <<>>
      BY <2>1
    <3>5. Value(padded, 16) = n
      BY <1>1, <3>1, DigitsAreNumbers, ValuePadded
    <3> QED BY <1>1, <1>3, <2>1, <3>3, <3>4, <3>5
  <2>2. CASE Len(hex) % 2 # 1
    <3>1. padded = hex
      BY <2>2 DEF Padded
    <3> HIDE DEF padded
    <3> QED BY <1>1, <1>3, <2>2, <3>1
  <2> QED BY <2>1, <2>2
<1> HIDE DEF padded
<1>5. /\ buf \in Seq(Octet) /\ Len(buf) = Len(padded) \div 2 /\ Value(buf, 256) = n
      /\ \A i \in 1 .. Len(padded) \div 2 : buf[i] = 16 * padded[2 * i - 1] + padded[2 * i]
  BY <1>2, <1>4, BytesOfHex
<1>6. ASSUME buf # <<>> PROVE buf[1] # 0
  <2>1. Len(buf) \in Nat /\ Len(buf) # 0 /\ Len(padded) \in Nat
    BY <1>4, <1>5, <1>6
  <2>2. 1 \in 1 .. Len(padded) \div 2 /\ padded # <<>> /\ 1 \in 1 .. Len(padded) /\ 2 \in 1 .. Len(padded)
    BY <1>5, <2>1
  <2>3. padded[1] \in Digit /\ padded[2] \in Digit
    BY <1>4, <2>2
  <2>4. buf[1] = 16 * padded[1] + padded[2]
    BY <1>5, <2>2
  <2>5. padded[1] # 0 \/ padded[2] # 0
    BY <1>4, <2>2
  <2> QED BY <2>3, <2>4, <2>5, OctetOfDigits
<1> QED BY <1>5, <1>6 DEF buf

\* acc is the recursive function with which Dearest looks at the prices.
Dearer(acc, prices) ==
    acc = [i \in 0 .. Len(prices) |->
             IF i = 0 THEN prices[1] ELSE IF prices[i].price > acc[i - 1].price THEN prices[i] ELSE acc[i - 1]]

\* No price is above the dearest, which is one of them.
LEMMA DearestIsDearest ==
  ASSUME NEW M, NEW prices \in Seq([model : M, price : Nat]), prices # <<>>
  PROVE  \E i \in 1 .. Len(prices) :
            /\ Dearest(prices) = prices[i]
            /\ \A j \in 1 .. Len(prices) : prices[j].price <= prices[i].price
<1> DEFINE n == Len(prices)
           P == {prices[i] : i \in 1 .. n}
           pick(i, p) == IF prices[i].price > p.price THEN prices[i] ELSE p
           step == [x \in (1 .. n) \X P |-> pick(x[1], x[2])]
<1>0. /\ n \in Nat /\ 1 \in 1 .. n /\ prices[1] \in P
      /\ \A i \in 1 .. n : prices[i] \in P /\ prices[i].price \in Nat
  <2> DEFINE R == [model : M, price : Nat]
  <2>1. prices \in Seq(R) /\ \A r \in R : r.price \in Nat
    OBVIOUS
  <2> HIDE DEF R
  <2>2. n \in Nat /\ n # 0 /\ \A i \in 1 .. n : prices[i] \in R
    BY <2>1
  <2> QED BY <2>1, <2>2
<1> HIDE DEF n
<1>1. \A i \in 1 .. n : \A p \in P : pick(i, p) \in P
  BY <1>0
<1>2. \A p \in P : p.price \in Nat
  BY <1>0
<1>3. step \in [(1 .. n) \X P -> P]
  <2> HIDE DEF P, pick
  <2>1. ASSUME NEW x \in (1 .. n) \X P PROVE pick(x[1], x[2]) \in P
    BY <1>1
  <2> QED BY <2>1
<1>4. PICK h : Steps(h, n, P, prices[1], step)
  <2> HIDE DEF step, P
  <2> QED BY <1>0, <1>3, StepByStep
<1>5. h \in [0 .. n -> P] /\ h[0] = prices[1] /\ \A i \in 1 .. n : h[i] = step[<<i, h[i - 1]>>]
  BY <1>4 DEF Steps
<1>6. \A i \in 1 .. n : h[i] = pick(i, h[i - 1])
  <2> SUFFICES ASSUME NEW i \in 1 .. n PROVE h[i] = pick(i, h[i - 1])
    OBVIOUS
  <2> HIDE DEF P, pick
  <2>1. i - 1 \in 0 .. n
    BY <1>0
  <2>2. <<i, h[i - 1]>> \in (1 .. n) \X P
    BY <1>5, <2>1
  <2>3. step[<<i, h[i - 1]>>] = pick(i, h[i - 1])
    BY <2>2
  <2> HIDE DEF step
  <2> QED BY <1>5, <2>3
<1> HIDE DEF step, P
<1>7. Dearer(h, prices)
  <2> DEFINE e(i) == IF i = 0 THEN prices[1] ELSE pick(i, h[i - 1])
  <2>1. \A i \in 0 .. n : h[i] = e(i)
    <3> HIDE DEF pick
    <3> QED BY <1>0, <1>5, <1>6
  <2>2. h = [i \in 0 .. n |-> h[i]]
    BY <1>5
  <2>3. h = [i \in 0 .. n |-> e(i)]
    <3> HIDE DEF e
    <3> QED BY <2>1, <2>2
  <2> QED BY <2>3 DEF Dearer, n
<1> DEFINE F == CHOOSE f : Dearer(f, prices)
<1>8. Dearer(F, prices) /\ Dearest(prices) = F[n]
  <2>1. Dearest(prices) = F[n]
    BY DEF Dearest, Dearer, n
  <2> QED BY <1>7, <2>1
<1> HIDE DEF F
<1>9. F[0] = prices[1] /\ \A i \in 1 .. n : F[i] = pick(i, F[i - 1])
  <2> DEFINE e(i) == IF i = 0 THEN prices[1] ELSE pick(i, F[i - 1])
  <2>1. F = [i \in 0 .. n |-> e(i)]
    BY <1>8 DEF Dearer, n
  <2> HIDE DEF e
  <2>2. \A i \in 0 .. n : F[i] = e(i)
    BY <2>1
  <2>3. 0 \in 0 .. n /\ \A i \in 1 .. n : i \in 0 .. n /\ i # 0
    BY <1>0
  <2> HIDE DEF pick
  <2> QED BY <2>2, <2>3 DEF e
<1> DEFINE G == {i \in 0 .. n : F[i] \in P /\ \A j \in 1 .. i : prices[j].price <= F[i].price}
<1>10. \A i \in 0 .. n : i \in G
  <2>1. 0 \in G
    BY <1>0, <1>9
  <2>2. ASSUME NEW i \in 1 .. n, i - 1 \in G PROVE i \in G
    <3>1. F[i - 1] \in P /\ F[i - 1].price \in Nat /\ prices[i].price \in Nat /\ i \in 0 .. n
      BY <1>0, <1>2, <2>2
    <3>2. F[i] = pick(i, F[i - 1])
      BY <1>9
    <3>3. F[i] \in P
      BY <1>1, <3>1, <3>2
    <3>4. F[i].price >= F[i - 1].price /\ F[i].price >= prices[i].price /\ F[i].price \in Nat
      BY <1>2, <3>1, <3>2, <3>3
    <3>5. ASSUME NEW j \in 1 .. i PROVE prices[j].price <= F[i].price
      <4>1. CASE j = i
        BY <3>4, <4>1
      <4>2. CASE j # i
        <5>1. j \in 1 .. i - 1 /\ j \in 1 .. n
          BY <1>0, <4>2
        <5>2. prices[j].price <= F[i - 1].price /\ prices[j].price \in Nat
          BY <1>0, <2>2, <5>1
        <5> QED BY <3>1, <3>4, <5>2
      <4> QED BY <4>1, <4>2
    <3> QED BY <3>1, <3>3, <3>5
  <2> HIDE DEF G, pick
  <2> QED BY <1>0, <2>1, <2>2, UpTo
<1>11. F[n] \in P /\ \A j \in 1 .. n : prices[j].price <= F[n].price
  BY <1>0, <1>10
<1>12. PICK i \in 1 .. n : F[n] = prices[i]
  BY <1>11 DEF P
<1> QED BY <1>8, <1>11, <1>12 DEF n

\* A set of numbers up to a bound has a greatest.
LEMMA GreatestNumber ==
  ASSUME NEW n \in Nat, NEW C \in SUBSET (1 .. n), C # {}
  PROVE  Max(C) \in C
<1> DEFINE D == {n - i : i \in C}
<1>1. D \in SUBSET Nat /\ D # {}
  <2>1. \A i \in C : n - i \in Nat
    OBVIOUS
  <2>2. \A d \in D : d \in Nat
    BY <2>1
  <2>3. PICK i \in C : TRUE
    OBVIOUS
  <2>4. n - i \in D
    OBVIOUS
  <2> HIDE DEF D
  <2> QED BY <2>2, <2>4
<1>2. PICK d \in D : \A e \in D : d <= e
  <2> HIDE DEF D
  <2> QED BY <1>1, LeastNumber
<1>3. PICK i \in C : d = n - i
  BY <1>2
<1>4. \A j \in C : i >= j
  <2> SUFFICES ASSUME NEW j \in C PROVE i >= j
    OBVIOUS
  <2>1. n - j \in D
    OBVIOUS
  <2>2. d <= n - j
    BY <1>2, <2>1
  <2> HIDE DEF D
  <2> QED BY <1>3, <2>2
<1> HIDE DEF D
<1> QED BY <1>3, <1>4 DEF Max

\* A quote's price, for any number of models: one of theirs, and none is above it.
THEOREM PriceCoversEveryModel ==
  ASSUME NEW M, NEW wire, wire.model_prices \in Seq([model : M, price : Nat]), wire.model_prices # <<>>
  PROVE  PriceCoversModels(wire)
<1> DEFINE ps == wire.model_prices
           n == Len(ps)
           price == wireQuoteToDomain(wire).pricePerUnitWei
           all == wireQuoteToDomain(wire).modelPrices
           models == {ps[i].model : i \in DOMAIN ps}
           of(m) == {i \in 1 .. n : ps[i].model = m}
           last(m) == SelectLastInSeq(ps, LAMBDA x : x.model = m)
<1>1. n \in Nat /\ DOMAIN ps = 1 .. n
  OBVIOUS
<1>2. PICK i \in 1 .. n : Dearest(ps) = ps[i] /\ \A j \in 1 .. n : ps[j].price <= ps[i].price
  BY DearestIsDearest
<1>3. price = Dearest(ps).price /\ all = [m \in models |-> ps[last(m)].price]
  BY DEF wireQuoteToDomain
<1>4. ASSUME NEW m \in models PROVE last(m) \in 1 .. n
  <2>1. of(m) # {}
    BY <1>1
  <2>2. last(m) = Max(of(m))
    BY <2>1 DEF SelectLastInSeq
  <2>3. of(m) \in SUBSET (1 .. n)
    OBVIOUS
  <2> HIDE DEF of, last, n
  <2>4. Max(of(m)) \in of(m)
    BY <1>1, <2>1, <2>3, GreatestNumber
  <2> QED BY <2>2, <2>3, <2>4
<1> HIDE DEF last, ps, n, models, price, all
<1>5. DOMAIN all = models /\ \A m \in models : all[m] = ps[last(m)].price
  BY <1>3
<1>6. \A m \in DOMAIN all : all[m] <= price
  BY <1>2, <1>3, <1>4, <1>5
<1>7. \E j \in DOMAIN ps : ps[j].price = price
  BY <1>1, <1>2, <1>3
<1> QED BY <1>6, <1>7 DEF PriceCoversModels, all, price, ps

\* What the schemas let through as a quote: numbers and bytes in hex, the recipient an address of
\* whole bytes, and a price for at least one model.
Quote(M) ==
  {w \in [recipient : Seq(Digit), face_value_wei : Seq(Digit), win_prob : Seq(Digit),
          recipient_rand_hash : Seq(Digit), seed : Seq(Digit), expiration_block : Seq(Digit),
          creation_round : Nat, creation_round_block_hash : Seq(Digit),
          model_prices : Seq([model : M, price : Nat])] :
     Len(w.recipient) % 2 = 0 /\ w.model_prices # <<>>}

\* A quote's ticket parameters, for any numbers and bytes: the daemon gets each number with its
\* value and no leading zero, and whole bytes as they were; its form reads back as the gateway's.
THEOREM TicketsSurvive ==
  ASSUME NEW M, NEW wire \in Quote(M)
  PROVE  TicketSurvives(wire)
<1> DEFINE domain == wireQuoteToDomain(wire).ticketParams
           sent == domainTicketParamsToWire(domain)
           back == wireTicketParamsToDomain(sent)
           face == Value(wire.face_value_wei, 16)
           block == Value(wire.expiration_block, 16)
           Even(hex) == Len(hex) % 2 = 0
           Opaque == {"winProb", "recipientRandHash", "seed", "creationRoundBlockHash"}
<1>1. /\ wire.recipient \in Seq(Digit) /\ wire.face_value_wei \in Seq(Digit) /\ wire.win_prob \in Seq(Digit)
      /\ wire.recipient_rand_hash \in Seq(Digit) /\ wire.seed \in Seq(Digit)
      /\ wire.expiration_block \in Seq(Digit) /\ wire.creation_round_block_hash \in Seq(Digit)
      /\ Even(wire.recipient)
  <2> DEFINE H == Seq(Digit)
             P == Seq([model : M, price : Nat])
  <2>1. wire \in [recipient : H, face_value_wei : H, win_prob : H, recipient_rand_hash : H, seed : H,
                 expiration_block : H, creation_round : Nat, creation_round_block_hash : H, model_prices : P]
        /\ Even(wire.recipient)
    BY DEF Quote
  <2> HIDE DEF H, P, Even
  <2>2. /\ wire.recipient \in H /\ wire.face_value_wei \in H /\ wire.win_prob \in H
        /\ wire.recipient_rand_hash \in H /\ wire.seed \in H
        /\ wire.expiration_block \in H /\ wire.creation_round_block_hash \in H
    BY <2>1
  <2> QED BY <2>1, <2>2 DEF H
<1>2. face \in Nat /\ block \in Nat
  <2>1. ASSUME NEW hex \in Seq(Digit) PROVE Value(hex, 16) \in Nat
    <3>1. hex \in Seq(Nat) /\ 16 \in Nat /\ 0 \in Nat
      BY DigitsAreNumbers
    <3> QED BY <3>1, ValueAppend
  <2> QED BY <1>1, <2>1
<1>3. domain = [recipient |-> wire.recipient, faceValueWei |-> face, winProb |-> wire.win_prob,
                recipientRandHash |-> wire.recipient_rand_hash, seed |-> wire.seed,
                expirationBlock |-> block, creationRound |-> wire.creation_round,
                creationRoundBlockHash |-> wire.creation_round_block_hash]
  BY DEF wireQuoteToDomain
<1> HIDE DEF domain, face, block
<1>4. sent = [recipient |-> hexToBytes(domain.recipient),
              faceValue |-> bigintToBigEndianBytes(domain.faceValueWei),
              winProb |-> hexToBytes(domain.winProb),
              recipientRandHash |-> hexToBytes(domain.recipientRandHash),
              seed |-> hexToBytes(domain.seed),
              expirationBlock |-> bigintToBigEndianBytes(domain.expirationBlock),
              creationRound |-> domain.creationRound,
              creationRoundBlockHash |-> hexToBytes(domain.creationRoundBlockHash)]
  BY DEF domainTicketParamsToWire
<1> HIDE DEF sent
<1>5. back = [recipient |-> bytesToHex(sent.recipient),
              faceValueWei |-> bigEndianBytesToBigint(sent.faceValue),
              winProb |-> bytesToHex(sent.winProb),
              recipientRandHash |-> bytesToHex(sent.recipientRandHash),
              seed |-> bytesToHex(sent.seed),
              expirationBlock |-> bigEndianBytesToBigint(sent.expirationBlock),
              creationRound |-> sent.creationRound,
              creationRoundBlockHash |-> bytesToHex(sent.creationRoundBlockHash)]
  BY DEF wireTicketParamsToDomain
<1> HIDE DEF back
<1>6. ASSUME NEW n \in Nat
      PROVE  LET buf == bigintToBigEndianBytes(n) IN Value(buf, 256) = n /\ (buf # <<>> => buf[1] # 0)
  BY BytesOfNumber
<1>7. /\ Value(sent.faceValue, 256) = face /\ (sent.faceValue # <<>> => sent.faceValue[1] # 0)
      /\ Value(sent.expirationBlock, 256) = block /\ (sent.expirationBlock # <<>> => sent.expirationBlock[1] # 0)
      /\ sent.creationRound = wire.creation_round
  <2>1. /\ sent.faceValue = bigintToBigEndianBytes(face)
        /\ sent.expirationBlock = bigintToBigEndianBytes(block)
        /\ sent.creationRound = wire.creation_round
    BY <1>3, <1>4
  <2> QED BY <1>2, <1>6, <2>1
<1>8. ASSUME NEW k \in Opaque \cup {"recipient"}
      PROVE  /\ domain[k] \in Seq(Digit) /\ sent[k] = hexToBytes(domain[k])
             /\ Even(domain[k]) => bytesToHex(sent[k]) = domain[k]
  <2>1. domain[k] \in Seq(Digit)
    BY <1>1, <1>3
  <2>2. sent[k] = hexToBytes(domain[k])
    BY <1>4
  <2> QED BY <2>1, <2>2, HexOfBytes
<1>9. ASSUME \A k \in Opaque : Even(domain[k])
      PROVE  back = domain
  <2>1. \A k \in Opaque \cup {"recipient"} : bytesToHex(sent[k]) = domain[k]
    <3>1. domain["recipient"] = wire.recipient
      BY <1>3
    <3> QED BY <1>1, <1>8, <1>9, <3>1
  <2>2. /\ bytesToHex(sent.recipient) = wire.recipient /\ bytesToHex(sent.winProb) = wire.win_prob
        /\ bytesToHex(sent.recipientRandHash) = wire.recipient_rand_hash /\ bytesToHex(sent.seed) = wire.seed
        /\ bytesToHex(sent.creationRoundBlockHash) = wire.creation_round_block_hash
    BY <1>3, <2>1
  <2>3. bigEndianBytesToBigint(sent.faceValue) = face /\ bigEndianBytesToBigint(sent.expirationBlock) = block
    BY <1>7 DEF bigEndianBytesToBigint
  <2> QED BY <1>3, <1>5, <1>7, <2>2, <2>3
<1> QED BY <1>7, <1>8, <1>9 DEF TicketSurvives, domain, sent, back, face, block

\* What a behaviour draws when it draws a quote.
QuoteSample == sample.kind = "quote" => sample.wire \in Quote({"a", "b"})

\* A behaviour of Algorithms draws quotes that the schemas let through.
LEMMA DrawsQuotes == AlgorithmsSpec => []QuoteSample
<1>1. Init => QuoteSample
  BY DEF Init, QuoteSample
<1>2. QuoteSample /\ [Draw]_sample => QuoteSample'
  <2> SUFFICES ASSUME QuoteSample, [Draw]_sample PROVE QuoteSample'
    OBVIOUS
  <2>1. CASE DrawQuote
    <3> DEFINE three == 3
               Price0 == [model : {"a", "b"}, price : 0 .. 2]
               PriceN == [model : {"a", "b"}, price : Nat]
               H == Seq(Digit)
    <3>1. PICK face \in Hex, block \in Hex, opaque \in Hex, prices \in Prices :
            sample' = [kind |-> "quote",
                       wire |-> [recipient |-> <<10, 1>>, face_value_wei |-> face, win_prob |-> opaque,
                                 recipient_rand_hash |-> <<0, 1>>, seed |-> opaque, expiration_block |-> block,
                                 creation_round |-> 7, creation_round_block_hash |-> opaque,
                                 model_prices |-> prices]]
      BY <2>1, Zenon DEF DrawQuote
    <3>2. Hex \subseteq H
      <4>1. /\ <<>> \in H /\ <<5>> \in H /\ <<0, 5>> \in H /\ <<1, 0>> \in H
            /\ <<0, 15, 1>> \in H /\ <<1, 0, 0, 10>> \in H
        BY DEF Digit
      <4> HIDE DEF H
      <4> QED BY <4>1 DEF Hex
    <3>3. <<10, 1>> \in H /\ <<0, 1>> \in H /\ Len(<<10, 1>>) % 2 = 0
      BY DEF Digit
    <3>4. prices \in Seq(PriceN) /\ prices # <<>>
      <4>1. three \in Nat /\ Prices = SeqOf(Price0, three) \ {<<>>}
        BY DEF Prices
      <4>2. Price0 \subseteq PriceN
        OBVIOUS
      <4> HIDE DEF three, Price0, PriceN
      <4>3. prices \in Seq(Price0) /\ prices # <<>>
        BY <4>1, ShortSequences
      <4> QED BY <4>2, <4>3, SeqMonotonic
    <3> HIDE DEF H, PriceN
    <3>5. face \in H /\ block \in H /\ opaque \in H
      BY <3>2
    <3> DEFINE pair == <<10, 1>>
               hash == <<0, 1>>
    <3>6. pair \in H /\ hash \in H /\ Len(pair) % 2 = 0
      BY <3>3
    <3> HIDE DEF pair, hash
    <3> DEFINE w == [recipient |-> pair, face_value_wei |-> face, win_prob |-> opaque,
                     recipient_rand_hash |-> hash, seed |-> opaque, expiration_block |-> block,
                     creation_round |-> 7, creation_round_block_hash |-> opaque, model_prices |-> prices]
    <3>7. w \in Quote({"a", "b"})
      <4>1. w \in [recipient : H, face_value_wei : H, win_prob : H, recipient_rand_hash : H, seed : H,
                   expiration_block : H, creation_round : Nat, creation_round_block_hash : H,
                   model_prices : Seq(PriceN)]
        BY <3>4, <3>5, <3>6
      <4>2. Len(w.recipient) % 2 = 0 /\ w.model_prices # <<>>
        BY <3>4, <3>6
      <4> HIDE DEF w
      <4> QED BY <4>1, <4>2 DEF Quote, H, PriceN
    <3>8. sample'.wire = w
      BY <3>1 DEF pair, hash
    <3> HIDE DEF w
    <3> QED BY <3>7, <3>8 DEF QuoteSample
  <2>2. ~DrawQuote /\ Draw => sample'.kind # "quote"
    BY DEF Draw, DrawGlob, DrawLookup, DrawChat, DrawUnits, DrawRequest, DrawError, DrawStream,
           DrawCalls, DrawRollup
  <2>3. CASE sample'.kind # "quote"
    BY <2>3 DEF QuoteSample
  <2>4. CASE UNCHANGED sample
    BY <2>4 DEF QuoteSample
  <2> QED BY <2>1, <2>2, <2>3, <2>4
<1> QED BY <1>1, <1>2, PTL DEF AlgorithmsSpec

\* Every sampled quote reaches the daemon as it was quoted, at a price that covers its models.
THEOREM QuotesAlwaysSurvive == AlgorithmsSpec => []QuoteSurvives
<1>1. QuoteSample => QuoteSurvives
  <2> SUFFICES ASSUME QuoteSample, sample.kind = "quote"
               PROVE  TicketSurvives(sample.wire) /\ PriceCoversModels(sample.wire)
    BY DEF QuoteSurvives
  <2> DEFINE M == {"a", "b"}
             wire == sample.wire
  <2>1. wire \in Quote(M)
    BY DEF QuoteSample
  <2> HIDE DEF M, wire
  <2>2. TicketSurvives(wire)
    BY <2>1, TicketsSurvive
  <2>3. wire.model_prices \in Seq([model : M, price : Nat]) /\ wire.model_prices # <<>>
    <3> DEFINE H == Seq(Digit)
               P == Seq([model : M, price : Nat])
    <3>1. wire \in [recipient : H, face_value_wei : H, win_prob : H, recipient_rand_hash : H, seed : H,
                   expiration_block : H, creation_round : Nat, creation_round_block_hash : H, model_prices : P]
          /\ wire.model_prices # <<>>
      BY <2>1 DEF Quote
    <3> HIDE DEF H, P
    <3>2. wire.model_prices \in P
      BY <3>1
    <3> QED BY <3>1, <3>2 DEF P
  <2>4. PriceCoversModels(wire)
    BY <2>3, PriceCoversEveryModel
  <2> QED BY <2>2, <2>4 DEF wire
<1> QED BY <1>1, DrawsQuotes, PTL
=============================================================================

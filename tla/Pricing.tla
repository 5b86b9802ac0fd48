------------------------------- MODULE Pricing -------------------------------
(***************************************************************************)
(* What a request may cost and what it costs (service/pricing): the lookup *)
(* of a rate by exact model name or by glob, the estimate that is reserved *)
(* and the actual cost that is committed, for the five endpoints.          *)
(*                                                                         *)
(* A rate is the integer the code computes from the rate card's dollars:   *)
(* micro-cents per million tokens or characters, per image, per minute.    *)
(* A text is a sequence of characters, a result that may be missing is a   *)
(* sequence of at most one element.                                        *)
(***************************************************************************)
EXTENDS Integers, Sequences, SequencesExt

CONSTANTS
  MILLION,         \* the units a token or character rate is given for
  CENT,            \* micro-cents per cent, 10000
  BYTES_PER_SEC,   \* TRANSCRIPTIONS_BITRATE_BYTES_PER_SEC
  MAX_SECONDS,     \* TRANSCRIPTIONS_MAX_RESERVE_SECONDS
  NEWLINE          \* the characters that "." of a regular expression does not match

ASSUME PricingAssumption ==
  /\ MILLION \in Nat \ {0}
  /\ CENT \in Nat \ {0}
  /\ BYTES_PER_SEC \in Nat \ {0}
  /\ MAX_SECONDS \in Nat \ {0}

AtLeast(m, n) == IF n < m THEN m ELSE n
AtMost(m, n)  == IF n > m THEN m ELSE n
CeilDiv(n, d) == (n + d - 1) \div d

-----------------------------------------------------------------------------
(* Globs.  The code compiles a glob to an anchored regular expression:     *)
(* "*" becomes ".*", "?" becomes ".", everything else stands for itself.   *)
globMatch(glob, input) ==
  LET m[at \in (1 .. Len(glob) + 1) \X (1 .. Len(input) + 1)] ==
        LET i == at[1]
            j == at[2]
            Wild == j <= Len(input) /\ input[j] \notin NEWLINE
        IN  IF i > Len(glob) THEN j > Len(input)
            ELSE IF glob[i] = "*" THEN m[<<i + 1, j>>] \/ (Wild /\ m[<<i, j + 1>>])
            ELSE IF glob[i] = "?" THEN Wild /\ m[<<i + 1, j + 1>>]
            ELSE j <= Len(input) /\ input[j] = glob[i] /\ m[<<i + 1, j + 1>>]
  IN  m[<<1, 1>>]

First(s, wanted) ==
  LET i == SelectInSeq(s, LAMBDA e : e \in wanted) IN IF i = 0 THEN <<>> ELSE <<s[i]>>

(* Exact entries first, then the patterns in their order.                  *)
Lookup(card, exact, matching) ==
  LET entry   == First(card.entries, exact)
      pattern == First(card.patterns, matching)
  IN  IF entry # <<>> THEN entry
      ELSE IF pattern # <<>> THEN <<pattern[1].entry>> ELSE <<>>

Named(card, model)    == {e \in ToSet(card.entries) : e.model = model}
Matching(card, model) == {p \in ToSet(card.patterns) : globMatch(p.pattern, model)}

(* Mutation: patterns come before exact entries. *)
ByModelPatternFirst(card, model) ==
  Lookup(card, IF Matching(card, model) = {} THEN Named(card, model) ELSE {}, Matching(card, model))

ByModel(card, model) == Lookup(card, Named(card, model), Matching(card, model))

resolveChatTier(config, model)           == ByModel(config.tiers, model)
resolveEmbeddingsRate(config, model)     == ByModel(config.embeddings, model)
resolveSpeechRate(config, model)         == ByModel(config.speech, model)
resolveTranscriptionsRate(config, model) == ByModel(config.transcriptions, model)

resolveImagesRate(config, model, size, quality) ==
  Lookup(config.images,
         {e \in Named(config.images, model) : e.size = size /\ e.quality = quality},
         {p \in Matching(config.images, model) : p.size = size /\ p.quality = quality})

(* The price entry of a tier; none is an error of the rate card.           *)
rateForTier(config, tier) == First(config.rateCard, {e \in ToSet(config.rateCard) : e.tier = tier})

-----------------------------------------------------------------------------
(* Costs, in cents.                                                        *)
(* Mutation: each side is divided before they are added. *)
computeCostCentsPerSide(promptTokens, outputTokens, rate) ==
  CeilDiv((promptTokens * rate.input) \div MILLION + (outputTokens * rate.output) \div MILLION, CENT)

computeCostCents(promptTokens, outputTokens, rate) ==
  CeilDiv(promptTokens * rate.input + outputTokens * rate.output, MILLION * CENT)

computeInputOnlyCostCents(promptTokens, rate) == CeilDiv((promptTokens * rate) \div MILLION, CENT)

computePerCharCents(chars, rate) == CeilDiv((chars * rate) \div MILLION, CENT)

computePerImageCents(rate) == CeilDiv(rate, CENT)

(* Math.round of the micro-cents per second.                               *)
PerSecond(rate) == (2 * rate + 60) \div 120
computePerSecondCents(seconds, rate) == CeilDiv(AtLeast(0, seconds) * PerSecond(rate), CENT)

-----------------------------------------------------------------------------
(* Estimates, from what the gateway sees before the call.                  *)
(* Mutation: the estimate is rounded down. *)
PromptEstimateFloored(audited, chars) == AtLeast(1, IF audited # <<>> THEN audited[1] ELSE chars \div 3)
PromptEstimate(audited, chars) ==
  AtLeast(1, IF audited # <<>> THEN audited[1] ELSE CeilDiv(chars, 3))

MaxCompletion(config, req, customerTier) ==
  IF req.max_tokens # <<>> THEN req.max_tokens[1]
  ELSE IF customerTier = "free" THEN config.defaultMaxTokensFree
  ELSE config.defaultMaxTokensPrepaid

estimateReservation(config, req, customerTier, audited, rate) ==
  computeCostCents(PromptEstimate(audited, req.chars), MaxCompletion(config, req, customerTier), rate)

estimateEmbeddingsReservation(chars, rate) ==
  computeInputOnlyCostCents(AtLeast(1, CeilDiv(chars, 3)), rate)

estimateImagesReservation(n, rate) == computePerImageCents(rate) * n

estimateSpeechReservation(chars, rate) == computePerCharCents(AtLeast(0, chars), rate)

(* Mutation: the duration is rounded down. *)
EstimatedSecondsFloored(bytes) == AtLeast(1, AtMost(MAX_SECONDS, AtLeast(0, bytes) \div BYTES_PER_SEC))
EstimatedSeconds(bytes) ==
  AtLeast(1, AtMost(MAX_SECONDS, CeilDiv(AtLeast(0, bytes), BYTES_PER_SEC)))
estimateTranscriptionsReservation(bytes, rate) == computePerSecondCents(EstimatedSeconds(bytes), rate)

(* Actual costs, from what the worker reports.                             *)
computeActualCost(usage, rate) == computeCostCents(usage.prompt_tokens, usage.completion_tokens, rate)
computeEmbeddingsActualCost(promptTokens, rate)   == computeInputOnlyCostCents(promptTokens, rate)
computeImagesActualCost(returnedCount, rate)      == computePerImageCents(rate) * returnedCount
computeSpeechActualCost(charsBilled, rate)        == computePerCharCents(AtLeast(0, charsBilled), rate)
computeTranscriptionsActualCost(halves, rate)     == computePerSecondCents(AtLeast(0, CeilDiv(halves, 2)), rate)

-----------------------------------------------------------------------------
(* What a glob says: the input can be cut into as many pieces, such that   *)
(* each character of the glob stands for its piece.                        *)
StandsFor(char, input, from, to) ==
  /\ from <= to
  /\ char # "*" => to = from + 1
  /\ \A j \in from .. to - 1 :
       IF char \in {"*", "?"} THEN input[j] \notin NEWLINE ELSE input[j] = char

GlobMeans(glob, input) ==
  \E cut \in [1 .. Len(glob) + 1 -> 1 .. Len(input) + 1] :
    /\ cut[1] = 1 /\ cut[Len(glob) + 1] = Len(input) + 1
    /\ \A i \in DOMAIN glob : StandsFor(glob[i], input, cut[i], cut[i + 1])

(* What the interface promises of a card (interfaces/rateCardResolver.ts):  *)
(* an exact entry decides, else the first pattern of its order.            *)
RateMeans(card, model, found) ==
  LET exact == {i \in DOMAIN card.entries : card.entries[i].model = model}
      hits  == {i \in DOMAIN card.patterns : GlobMeans(card.patterns[i].pattern, model)}
  IN  IF exact # {} THEN \E i \in exact : found = <<card.entries[i]>>
      ELSE IF hits = {} THEN found = <<>>
      ELSE \E i \in hits : (\A k \in hits : i <= k) /\ found = <<card.patterns[i].entry>>

(* A worker that counts no more than the gateway foresaw costs no more     *)
(* than was reserved.  A prompt has at most what its audit counted, or one *)
(* token for three characters; audio has at least 64 kbit per second.      *)
ChatIsCovered(config, req, customerTier, audited, usage, rate) ==
  /\ IF audited # <<>> THEN usage.prompt_tokens <= audited[1]
                       ELSE 3 * (usage.prompt_tokens - 1) < req.chars
  /\ usage.completion_tokens <= MaxCompletion(config, req, customerTier)
  => computeActualCost(usage, rate) <= estimateReservation(config, req, customerTier, audited, rate)

EmbeddingsAreCovered(chars, promptTokens, rate) ==
  3 * (promptTokens - 1) < chars =>
    computeEmbeddingsActualCost(promptTokens, rate) <= estimateEmbeddingsReservation(chars, rate)

ImagesAreCovered(n, returned, rate) ==
  returned <= n => computeImagesActualCost(returned, rate) <= estimateImagesReservation(n, rate)

TranscriptionIsCovered(bytes, halves, rate) ==
  (halves * BYTES_PER_SEC <= 2 * bytes /\ halves <= 2 * MAX_SECONDS) =>
    computeTranscriptionsActualCost(halves, rate) <= estimateTranscriptionsReservation(bytes, rate)

(* Rounding: chat is never under its exact price and less than a cent over *)
(* it; what is divided before it is rounded up may lose a micro-cent.      *)
ChatIsTight(usage, rate) ==
  LET exact == usage.prompt_tokens * rate.input + usage.completion_tokens * rate.output
  IN  computeActualCost(usage, rate) * MILLION * CENT - exact \in 0 .. MILLION * CENT - 1

UnitsAreTight(cents, units, rate) ==
  cents * MILLION * CENT - units * rate \in -(MILLION - 1) .. MILLION * CENT - 1
=============================================================================

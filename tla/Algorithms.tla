------------------------------ MODULE Algorithms -----------------------------
(***************************************************************************)
(* The gateway's pure algorithms, evaluated on samples: a behaviour draws  *)
(* one input for one algorithm and ends.                                   *)
(***************************************************************************)
EXTENDS Pricing, HttpErrors, NodeWire, Reporting

CONSTANTS MaxPrice, MaxCount     \* bounds on the sampled rates and counts

ASSUME AlgorithmsAssumption == MaxPrice \in Nat /\ MaxCount \in Nat

VARIABLE sample

-----------------------------------------------------------------------------
(* Rate cards: globs and names over two letters and a newline, NL.         *)
Globs  == SeqOf({"a", "b", "*", "?"}, 3)
Models == SeqOf({"a", "b", "NL"}, 3)

DrawGlob ==
  /\ sample.kind = "none"
  /\ \E glob \in Globs, model \in Models :
       sample' = [kind |-> "glob", glob |-> glob, model |-> model]

Entries  == {<<>>} \cup {<<[model |-> m, rate |-> 1]>> : m \in {<<"a">>, <<"a", "b">>}}
Patterns == SeqOf({[pattern |-> p, entry |-> [model |-> <<"p">>, rate |-> Len(p)]] :
                     p \in {<<"*">>, <<"a", "?">>, <<"a", "*", "b">>}}, 2)

DrawLookup ==
  /\ sample.kind = "none"
  /\ \E entries \in Entries, patterns \in Patterns, model \in Models :
       sample' = [kind |-> "lookup", card |-> [entries |-> entries, patterns |-> patterns],
                  model |-> model]

-----------------------------------------------------------------------------
(* Requests and what their workers report.                                 *)
Count    == 0 .. MaxCount
Price    == 0 .. MaxPrice
Config   == [defaultMaxTokensFree |-> 1, defaultMaxTokensPrepaid |-> 3]
Optional == {<<>>, <<2>>}

DrawChat ==
  /\ sample.kind = "none"
  /\ \E chars \in Count, max_tokens, audited \in Optional, tier \in {"free", "prepaid"},
        prompt, output \in Count, input, out \in Price :
       sample' = [kind |-> "chat", req |-> [chars |-> chars, max_tokens |-> max_tokens],
                  tier |-> tier, audited |-> audited,
                  usage |-> [prompt_tokens |-> prompt, completion_tokens |-> output],
                  rate |-> [input |-> input, output |-> out]]

(* One unit at a time: prompt tokens, characters, images or half seconds.  *)
DrawUnits ==
  /\ sample.kind = "none"
  /\ \E seen \in -1 .. 3 * MaxCount, billed \in 0 .. 2 * MaxCount,
        price \in Price \cup {60 * p : p \in Price} \cup {400} :
       sample' = [kind |-> "units", seen |-> seen, billed |-> billed, rate |-> price]

-----------------------------------------------------------------------------
(* A request's way to its answer, and every class of error.                *)
DrawRequest ==
  /\ sample.kind = "none"
  /\ \E route \in Route, resolved \in Resolutions, limited \in BOOLEAN :
       \E body \in Bodies(route), thrown \in Raised(route) \cup {"none"} :
         sample' = [kind |-> "request", route |-> route, resolved |-> resolved,
                    limited |-> limited, body |-> body, thrown |-> thrown]

DrawError ==
  /\ sample.kind = "none"
  /\ \E class \in ErrorClass : sample' = [kind |-> "error", class |-> class]

-----------------------------------------------------------------------------
(* A worker's quote and a worker's stream.                                 *)
Hex    == {<<>>, <<5>>, <<0, 5>>, <<1, 0>>, <<0, 15, 1>>, <<1, 0, 0, 10>>}
Prices == SeqOf([model : {"a", "b"}, price : 0 .. 2], 3) \ {<<>>}

DrawQuote ==
  /\ sample.kind = "none"
  /\ \E face, block, opaque \in Hex, prices \in Prices :
       sample' = [kind |-> "quote",
                  wire |-> [recipient |-> <<10, 1>>, face_value_wei |-> face, win_prob |-> opaque,
                            recipient_rand_hash |-> <<0, 1>>, seed |-> opaque, expiration_block |-> block,
                            creation_round |-> 7, creation_round_block_hash |-> opaque,
                            model_prices |-> prices]]

DrawStream ==
  /\ sample.kind = "none"
  /\ \E chunks \in SeqOf(SeqOf({"x", "|"}, 3), 3) : \E reads \in 0 .. Len(chunks) :
       sample' = [kind |-> "stream", chunks |-> chunks, reads |-> reads]

-----------------------------------------------------------------------------
(* Calls of a metric with two labels, and usage records.                   *)
DrawCalls ==
  /\ sample.kind = "none"
  /\ \E calls \in SeqOf({<<<<"a">>, <<"b">>>>, <<<<"a">>, <<"a">>>>, <<<<"a", "b">>, <<>>>>}, 4),
        maxSeries \in 0 .. 2 :
       sample' = [kind |-> "calls", calls |-> calls, maxSeries |-> maxSeries]

Rows == [caller : {"c", "d"}, at : 0 .. 3, model : {"m"}, kind : {"chat", "images"},
         local : {<<>>, <<1>>}, reported : {<<2>>}, cents : {3}, status : {"success", "partial"}]

DrawRollup ==
  /\ sample.kind = "none"
  /\ \E row \in Rows, other \in [caller : {"c"}, at : 0 .. 2, model : {"m", "n"}, kind : {"chat"},
                                local : {<<>>}, reported : {<<>>}, cents : {1}, status : {"failed"}],
        groupBy \in {"day", "model", "capability"}, from \in 0 .. 1, middle \in 1 .. 2, to \in 2 .. 3 :
       sample' = [kind |-> "rollup", rows |-> <<row, other>>, groupBy |-> groupBy,
                  from |-> from, middle |-> middle, to |-> to]

Init == sample = [kind |-> "none"]
Draw ==
  \/ DrawGlob \/ DrawLookup \/ DrawChat \/ DrawUnits \/ DrawRequest
  \/ DrawError \/ DrawQuote \/ DrawStream \/ DrawCalls \/ DrawRollup
AlgorithmsSpec == Init /\ [][Draw]_sample

-----------------------------------------------------------------------------
(* A model's rate is its own entry's, or that of the first pattern that    *)
(* describes the whole of its name, never across a newline.                *)
RateIsTheCards ==
  /\ sample.kind = "glob" =>
       (globMatch(sample.glob, sample.model) <=> GlobMeans(sample.glob, sample.model))
  /\ sample.kind = "lookup" => RateMeans(sample.card, sample.model, ByModel(sample.card, sample.model))

(* What was reserved covers what is charged when the worker's count stays  *)
(* within what the gateway could foresee.                                  *)
EstimateCoversActual ==
  /\ sample.kind = "chat" => ChatIsCovered(Config, sample.req, sample.tier, sample.audited, sample.usage, sample.rate)
  /\ sample.kind = "units" =>
       /\ EmbeddingsAreCovered(sample.seen, sample.billed, sample.rate)
       /\ ImagesAreCovered(sample.seen, sample.billed, sample.rate)
       /\ TranscriptionIsCovered(sample.seen, sample.billed, sample.rate)

(* A charge is the exact price rounded up to a cent, for chat; the other   *)
(* endpoints may lose less than a micro-cent before they round.            *)
ChargeIsTight ==
  /\ sample.kind = "chat" => ChatIsTight(sample.usage, sample.rate)
  /\ sample.kind = "units" =>
       /\ UnitsAreTight(computeEmbeddingsActualCost(sample.billed, sample.rate), sample.billed, sample.rate)
       /\ UnitsAreTight(computeSpeechActualCost(sample.billed, sample.rate), sample.billed, sample.rate)

(* The answer is a 4xx exactly when the caller can do something about it   *)
(* (but for the two cases of TakenForInternal, which are a 500), and an    *)
(* error is answered by its nearest class, alike on every route.           *)
ErrorsBlameTheRightSide ==
  /\ sample.kind = "request" =>
       BlamesTheCaller(sample.route, sample.resolved, sample.limited, sample.body, sample.thrown)
  /\ sample.kind = "error" => NearestDecides(sample.class) /\ SameOnEveryRoute(sample.class)

(* The ticket parameters the daemon gets are those the worker quoted, and  *)
(* the price that sizes the tickets covers every model of the quote.       *)
QuoteSurvives ==
  sample.kind = "quote" => TicketSurvives(sample.wire) /\ PriceCoversModels(sample.wire)

(* A stream's events do not depend on how its bytes were cut.              *)
StreamIsUncut == sample.kind = "stream" => EventsSurvive(sample.chunks, sample.reads)

(* A metric exports no more series than its cap, and says so once.         *)
CardinalityBounded == sample.kind = "calls" => CapHolds(sample.calls, sample.maxSeries)

(* The rollups of adjoining windows add up to the rollup of both.          *)
RollupsAddUp ==
  sample.kind = "rollup" =>
    WindowsAddUp(sample.rows, "c", sample.groupBy, sample.from, sample.middle, sample.to)
=============================================================================

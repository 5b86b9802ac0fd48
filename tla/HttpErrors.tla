----------------------------- MODULE HttpErrors -----------------------------
(***************************************************************************)
(* From an error to the answer the caller sees (runtime/http): the classes *)
(* of errors, the ordered instanceof tests of toHttpError, the tests each  *)
(* route's catch block makes before it, and the order in which a route     *)
(* refuses a request.                                                      *)
(***************************************************************************)
EXTENDS Integers, Sequences, SequencesExt

Super ==
  [BillingError |-> "Error", BalanceInsufficientError |-> "BillingError",
   QuotaExceededError |-> "BillingError", ReservationNotOpenError |-> "BillingError",
   CustomerNotFoundError |-> "BillingError", TierMismatchError |-> "BillingError",
   UnknownCallerTierError |-> "BillingError",
   AuthError |-> "Error", MalformedAuthorizationError |-> "AuthError",
   InvalidApiKeyError |-> "AuthError", AccountSuspendedError |-> "AuthError",
   AccountClosedError |-> "AuthError",
   PaymentsError |-> "Error", QuoteExpiredError |-> "PaymentsError",
   PayerDaemonNotHealthyError |-> "PaymentsError",
   PayerDaemonError |-> "Error", PayerDaemonUnavailableError |-> "PayerDaemonError",
   PayerDaemonProtocolError |-> "PayerDaemonError",
   RoutingError |-> "Error", ModelNotFoundError |-> "RoutingError",
   NodesError |-> "Error", NoHealthyNodesError |-> "NodesError",
   ServiceRegistryUnavailableError |-> "Error", RateLimitExceededError |-> "Error",
   UpstreamNodeError |-> "Error", MissingUsageError |-> "Error",
   FreeTierUnsupportedError |-> "Error", ZodError |-> "Error", SyntaxError |-> "Error"]

ErrorClass == DOMAIN Super \cup {"Error"}

(* What "instanceof" is true of, the error's own class first.              *)
Lineage[class \in ErrorClass] ==
  <<class>> \o IF class = "Error" THEN <<>> ELSE Lineage[Super[class]]

-----------------------------------------------------------------------------
Rule(classes, status, code) == [classes |-> classes, status |-> status, code |-> code]
Unclassified == Rule({"Error"}, 500, "internal_error")

Specific ==
  <<Rule({"AuthError"}, 401, "invalid_api_key"),
    Rule({"BalanceInsufficientError"}, 402, "insufficient_quota"),
    Rule({"QuotaExceededError"}, 429, "insufficient_quota"),
    Rule({"ModelNotFoundError"}, 404, "model_not_found"),
    Rule({"NoHealthyNodesError"}, 503, "service_unavailable"),
    Rule({"PayerDaemonUnavailableError", "PayerDaemonNotHealthyError"}, 503, "service_unavailable"),
    Rule({"QuoteExpiredError"}, 503, "service_unavailable"),
    Rule({"RateLimitExceededError"}, 429, "rate_limit_exceeded"),
    Rule({"UpstreamNodeError", "MissingUsageError"}, 503, "service_unavailable")>>
General ==
  <<Rule({"PaymentsError", "PayerDaemonError"}, 500, "internal_error"),
    Rule({"RoutingError", "NodesError", "BillingError"}, 500, "internal_error")>>
Invalid == Rule({"ZodError"}, 400, "invalid_request_error")

(* Mutation: the general classes are tested first. *)
RulesGeneralFirst == General \o Specific \o <<Invalid, Unclassified>>
Rules == Specific \o General \o <<Invalid, Unclassified>>

Applies(rule, class) == \E i \in DOMAIN Lineage[class] : Lineage[class][i] \in rule.classes
Decide(rules, class) ==
  LET rule == rules[SelectInSeq(rules, LAMBDA r : Applies(r, class))]
  IN  [status |-> rule.status, code |-> rule.code]
toHttpError(class) == Decide(Rules, class)

-----------------------------------------------------------------------------
Route == {"chat", "stream", "embeddings", "images", "speech", "transcriptions"}

FreeTier    == Rule({"FreeTierUnsupportedError"}, 402, "insufficient_quota")
WorkerFault == Rule({"UpstreamNodeError", "MissingUsageError"}, 503, "service_unavailable")

(* A route's own tests; streaming goes to toHttpError directly.            *)
Catch(route) ==
  CASE route = "stream" -> <<>>
    [] route = "chat"   -> <<WorkerFault>>
    [] route = "speech" -> <<FreeTier, Rule({"UpstreamNodeError"}, 503, "service_unavailable")>>
    [] OTHER            -> <<FreeTier, WorkerFault>>

Answer(route, class) == Decide(Catch(route) \o Rules, class)

(* The classes a route's dispatcher throws: by every dispatcher, and by    *)
(* some; a worker's 2xx body that is no JSON throws where it is parsed.    *)
Raised(route) ==
  {"ModelNotFoundError", "BalanceInsufficientError", "QuotaExceededError",
   "NoHealthyNodesError", "ServiceRegistryUnavailableError", "UpstreamNodeError",
   "PayerDaemonNotHealthyError", "QuoteExpiredError", "PayerDaemonError",
   "PayerDaemonUnavailableError", "PayerDaemonProtocolError", "Error"}
  \cup (IF route \in {"chat", "stream"} THEN {} ELSE {"FreeTierUnsupportedError", "UnknownCallerTierError"})
  \cup (IF route \in {"chat", "embeddings", "images", "transcriptions"} THEN {"MissingUsageError"} ELSE {})
  \cup (IF route \in {"chat", "embeddings", "images"} THEN {"SyntaxError"} ELSE {})

(* What a route finds its body to be.  Transcriptions drains its multipart *)
(* body itself: the library throws for one that it cannot read or whose    *)
(* fields are too large, and a file over the limit is cut.  Elsewhere what *)
(* is no JSON never gets to the route.                                     *)
Bodies(route) ==
  {"valid", "invalid"} \cup (IF route = "transcriptions" THEN {"unreadable", "oversized"} ELSE {})

BodyStatus ==
  [invalid |-> toHttpError("ZodError").status, unreadable |-> toHttpError("Error").status,
   oversized |-> 413]

(* A request: what the resolver answers or throws, what the limiter says,  *)
(* what its body is, and what the dispatcher ends with ("none" is an       *)
(* answer).  Whatever a resolver throws goes to Fastify, which answers 500. *)
Resolutions == {"caller", "nobody", "AuthError", "OtherError"}

Status(route, resolved, limited, body, thrown) ==
  CASE resolved \in {"AuthError", "OtherError"} -> 500
    [] resolved = "nobody"                      -> 401
    [] resolved = "caller" /\ limited           -> 429
    [] OTHER -> IF body # "valid" THEN BodyStatus[body]
                ELSE IF thrown = "none" THEN 200
                ELSE Answer(route, thrown).status

-----------------------------------------------------------------------------
(* The errors a caller can do something about.                             *)
CallersFault ==
  {"ModelNotFoundError", "BalanceInsufficientError", "QuotaExceededError", "FreeTierUnsupportedError"}

(* The caller's doing, whatever it is answered.                            *)
ByTheCaller(resolved, limited, body, thrown) ==
  \/ resolved \in {"nobody", "AuthError"}
  \/ resolved = "caller" /\ (limited \/ body # "valid" \/ thrown \in CallersFault)

(* Two of them get the answer of an internal error: a resolver's AuthError *)
(* and an upload that the multipart library cannot read.                   *)
TakenForInternal(resolved, limited, body) ==
  \/ resolved = "AuthError"
  \/ resolved = "caller" /\ ~limited /\ body = "unreadable"

BlamesTheCaller(route, resolved, limited, body, thrown) ==
  LET status == Status(route, resolved, limited, body, thrown)
  IN  /\ status \in 400 .. 499 <=> /\ ByTheCaller(resolved, limited, body, thrown)
                                   /\ ~TakenForInternal(resolved, limited, body)
      /\ TakenForInternal(resolved, limited, body) => status = 500

(* The test that decides is the one for the nearest class of the lineage   *)
(* that any test names, whatever their order.                              *)
NearestDecides(class) ==
  LET named(c) == \E i \in DOMAIN Rules : c \in Rules[i].classes
      nearest  == Lineage[class][SelectInSeq(Lineage[class], named)]
  IN  \E i \in DOMAIN Rules :
        /\ nearest \in Rules[i].classes
        /\ toHttpError(class) = [status |-> Rules[i].status, code |-> Rules[i].code]

SameOnEveryRoute(class) ==
  \A r, s \in {r \in Route : class \in Raised(r)} : Answer(r, class) = Answer(s, class)
=============================================================================

----------------------------- MODULE MCAlgorithms ---------------------------
(***************************************************************************)
(* Algorithms, and samples of the messages of the generated gRPC code.     *)
(***************************************************************************)
EXTENDS Algorithms, PaymentsWire, RegistryWire

-----------------------------------------------------------------------------
(* Messages: nothing, everything, and everything with one field missing or *)
(* given another value, at every depth.                                    *)
Services ==
  [PayerDaemon |-> PayerDaemonService, PayeeDaemon |-> PayeeDaemonService,
   Resolver |-> ResolverService, Publisher |-> PublisherService,
   Payee |-> [paymentBytes |-> <<Payment, Payment>>]]

Typical(type) ==
  CASE type = "bool"              -> TRUE
    [] type \in {"string", "bytes"} -> "a"
    [] type = "date"              -> 1234
    [] type = "enum"              -> 1
    [] OTHER                      -> 5

Unusual(type) ==
  CASE type = "bool"              -> {FALSE}
    [] type \in {"string", "bytes"} -> {""}
    [] type = "date"              -> {-1500}
    [] type = "enum"              -> {0, 9}
    [] type = "int64"             -> {0, -16, 16}
    [] OTHER                      -> {0}

RECURSIVE Full(_)
Full(schema) ==
  [n \in Names(schema) |->
     LET f == FieldOf(schema, n)
     IN  IF f.type = "message" THEN <<Full(f.of)>>
         ELSE IF f.rule # "one" THEN <<Typical(f.type)>>
         ELSE Typical(f.type)]

RECURSIVE Objects(_)
Objects(schema) ==
  LET full == Full(schema)
      Values(f) ==
        IF f.type = "message"
        THEN {<<o>> : o \in Objects(f.of)} \cup
             (IF f.rule = "many" THEN {<<o, Full(f.of)>> : o \in Objects(f.of)} ELSE {})
        ELSE CASE f.rule = "opt"  -> {<<v>> : v \in Unusual(f.type)}
               [] f.rule = "many" -> {<<Typical(f.type), v>> : v \in Unusual(f.type)}
               [] f.rule = "one"  -> Unusual(f.type)
      Missing(n) == [k \in Names(schema) \ {n} |-> full[k]]
      Changed(n) == {[full EXCEPT ![n] = v] : v \in Values(FieldOf(schema, n))}
  IN  {full, [k \in {} |-> 0]} \cup UNION {Changed(n) \cup {Missing(n)} : n \in Names(schema)}

DrawMessage ==
  /\ sample.kind = "none"
  /\ \E service \in DOMAIN Services : \E method \in DOMAIN Services[service], side \in 1 .. 2 :
       \E object \in Objects(Services[service][method][side]) :
         sample' = [kind |-> "message", service |-> service, method |-> method,
                    side |-> side, object |-> object]

Schema == Services[sample.service][sample.method][sample.side]

-----------------------------------------------------------------------------
Next == Draw \/ DrawMessage
Spec == Init /\ [][Next]_sample

(* A message that encode does not refuse is read back as it was, also by   *)
(* way of JSON from a peer that writes snake_case keys (but for the number  *)
(* of an unknown enumerator); a peer built from a .proto file that lacks a  *)
(* field reads and writes the rest of it unchanged.                        *)
MessagesSurvive ==
  sample.kind = "message" =>
    /\ RoundTrips(Schema, sample.object)
    /\ SkewIsHarmless(Schema, sample.object)
    /\ JsonRoundTrips(Schema, sample.object)
=============================================================================

------------------------------ MODULE Protobuf ------------------------------
(***************************************************************************)
(* The code ts-proto generates for a message (providers/*/gen): encode,    *)
(* decode, fromJSON, toJSON and fromPartial.  Every message has the same   *)
(* five functions and differs only in its fields, so a message is here a   *)
(* schema, the sequence of its fields, and the five functions take it as   *)
(* an argument.  A wire is the sequence of the (tag, value) pairs that the *)
(* binary format writes; groups (wire types 3 and 4) are never written.    *)
(***************************************************************************)
EXTENDS Integers, Sequences, SequencesExt

-----------------------------------------------------------------------------
(* Fields.  keys[1] is the name in a message and in toJSON's object, the   *)
(* others are what fromJSON takes in its absence.  An optional field holds *)
(* a sequence of at most one value.                                        *)
Field(num, keys, type) ==
  [num |-> num, keys |-> keys, rule |-> "one", type |-> type, of |-> <<>>]

Enum(num, keys, values)  == [Field(num, keys, "enum") EXCEPT !.of = values]
Opt(num, keys, schema)   == [num |-> num, keys |-> keys, rule |-> "opt", type |-> "message", of |-> schema]
Many(num, keys, schema)  == [Opt(num, keys, schema) EXCEPT !.rule = "many"]
Strings(num, keys)       == [Field(num, keys, "string") EXCEPT !.rule = "many"]
Moment(num, keys)        == [Field(num, keys, "date") EXCEPT !.rule = "opt"]

Name(f)       == f.keys[1]
Names(schema) == {Name(schema[i]) : i \in DOMAIN schema}
FieldOf(schema, name) == schema[CHOOSE i \in DOMAIN schema : Name(schema[i]) = name]

Varints == {"bool", "enum", "int32", "uint32", "int64"}
Tag(f)  == 8 * f.num + CASE f.type \in Varints -> 0 [] f.type = "double" -> 1 [] OTHER -> 2

(* What createBase<Message> gives a field; proto3 never writes it.         *)
Default(f) ==
  IF f.rule # "one" THEN <<>>
  ELSE CASE f.type = "bool"                 -> FALSE
         [] f.type \in {"string", "bytes"}  -> ""
         [] OTHER                           -> 0

(* The width of an int64, scaled down.                                     *)
LongBits  == 5
FitsInt64(n) == n \in -(2 ^ (LongBits - 1)) .. 2 ^ (LongBits - 1) - 1

-----------------------------------------------------------------------------
(* Dates travel as google.protobuf.Timestamp, to the millisecond; Math.trunc *)
(* and % of JavaScript round toward zero.                                  *)
Timestamp ==
  <<Field(1, <<"seconds">>, "int64"),
    Field(2, <<"nanos">>, "int32")>>

Truncated(n, d) == IF n < 0 THEN -((-n) \div d) ELSE n \div d

toTimestamp(ms) ==
  [seconds |-> Truncated(ms, 1000), nanos |-> (ms - 1000 * Truncated(ms, 1000)) * 1000000]

fromTimestamp(t) == t.seconds * 1000 + Truncated(t.nanos, 1000000)

-----------------------------------------------------------------------------
(* fromPartial: a message from an object that may lack fields.             *)
RECURSIVE fromPartial(_, _)
fromPartial(schema, o) ==
  [name \in Names(schema) |->
     LET f == FieldOf(schema, name)
     IN  IF name \notin DOMAIN o THEN Default(f)
         ELSE IF f.type = "message"
              THEN [i \in DOMAIN o[name] |-> fromPartial(f.of, o[name][i])]
              ELSE o[name]]

(* encode throws for a bigint that is no int64.                            *)
RECURSIVE Throws(_, _)
Throws(schema, m) ==
  \E i \in DOMAIN schema :
    LET f == schema[i]
        v == m[Name(f)]
    IN  CASE f.type = "int64"   -> ~FitsInt64(v)
          [] f.type = "message" -> \E k \in DOMAIN v : Throws(f.of, v[k])
          [] f.type = "date"    -> \E k \in DOMAIN v : ~FitsInt64(toTimestamp(v[k]).seconds)
          [] OTHER              -> FALSE

RECURSIVE encode(_, _)
encode(schema, m) ==
  LET Written(f, v) == CASE f.type = "message" -> encode(f.of, v)
                         [] f.type = "date"    -> encode(Timestamp, toTimestamp(v))
                         [] OTHER              -> v
      Entries(f) ==
        LET v == m[Name(f)]
        IN  IF f.rule # "one" THEN [i \in DOMAIN v |-> [tag |-> Tag(f), val |-> Written(f, v[i])]]
            ELSE IF v = Default(f) THEN <<>>
            ELSE <<[tag |-> Tag(f), val |-> Written(f, v)]>>
  IN  FlattenSeq([i \in DOMAIN schema |-> Entries(schema[i])])

-----------------------------------------------------------------------------
(* decode: an entry whose tag is no field's, or has another wire type, is  *)
(* skipped; a tag of 0 ends the message.                                   *)
(* Mutation: a repeated field keeps only its last value. *)
StoreOne(f, old, v) == IF f.rule = "one" THEN v ELSE <<v>>
Store(f, old, v) ==
  CASE f.rule = "one"  -> v
    [] f.rule = "opt"  -> <<v>>
    [] f.rule = "many" -> Append(old, v)

Readable(schema, wire)    == SelectInSeq(wire, LAMBDA e : e.tag = 0)

RECURSIVE decode(_, _)
decode(schema, wire) ==
  LET Value(f, v) == CASE f.type = "message" -> decode(f.of, v)
                       [] f.type = "date"    -> fromTimestamp(decode(Timestamp, v))
                       [] OTHER              -> v
      Read(m, e) == LET hit == {i \in DOMAIN schema : Tag(schema[i]) = e.tag}
                    IN  IF hit = {} THEN m
                        ELSE LET f == schema[CHOOSE i \in hit : TRUE]
                             IN  [m EXCEPT ![Name(f)] = Store(f, @, Value(f, e.val))]
      end == Readable(schema, wire)
  IN  FoldLeft(Read, fromPartial(schema, <<>>),
               IF end = 0 THEN wire ELSE SubSeq(wire, 1, end - 1))

-----------------------------------------------------------------------------
(* JSON.  Numbers of 64 bits travel as digits, bytes in base64, dates in   *)
(* ISO form and enumerations by name; a number that is no member is        *)
(* UNRECOGNIZED, which reads back as -1.                                   *)
UNRECOGNIZED == -1
Recognised(values, n) == IF n \in values THEN n ELSE UNRECOGNIZED
Form(f) == CASE f.type = "int64" -> "digits"
             [] f.type = "bytes" -> "base64"
             [] f.type = "date"  -> "iso"
             [] f.type = "enum"  -> "name"
             [] OTHER            -> "plain"

RECURSIVE toJSON(_, _)
toJSON(schema, m) ==
  LET Value(f, v) == CASE f.type = "message" -> toJSON(f.of, v)
                       [] f.type = "enum"    -> <<Form(f), Recognised(f.of, v)>>
                       [] OTHER              -> <<Form(f), v>>
      Set == {n \in Names(schema) : m[n] # Default(FieldOf(schema, n))}
  IN  [n \in Set |-> LET f == FieldOf(schema, n)
                     IN  IF f.rule = "one" THEN Value(f, m[n])
                         ELSE [i \in DOMAIN m[n] |-> Value(f, m[n][i])]]

Key(f, o) == SelectSeq(f.keys, LAMBDA k : k \in DOMAIN o)

RECURSIVE fromJSON(_, _)
fromJSON(schema, o) ==
  LET Value(f, v) == CASE f.type = "message" -> fromJSON(f.of, v)
                       [] f.type = "enum"    -> Recognised(f.of, v[2])
                       [] OTHER              -> v[2]
  IN  [n \in Names(schema) |->
         LET f == FieldOf(schema, n)
             k == Key(f, o)
         IN  IF k = <<>> THEN Default(f)
             ELSE IF f.rule = "one" THEN Value(f, o[k[1]])
             ELSE [i \in DOMAIN o[k[1]] |-> Value(f, o[k[1]][i])]]

-----------------------------------------------------------------------------
(* The same message with every enumeration reduced to what it names.       *)
RECURSIVE Canonical(_, _)
Canonical(schema, m) ==
  [n \in Names(schema) |->
     LET f == FieldOf(schema, n)
     IN  CASE f.type = "enum"    -> Recognised(f.of, m[n])
           [] f.type = "message" -> [i \in DOMAIN m[n] |-> Canonical(f.of, m[n][i])]
           [] OTHER              -> m[n]]

(* The object a peer that writes the keys of the .proto file sends.        *)
RECURSIVE Snaked(_, _)
Snaked(schema, o) ==
  LET Old(k) == FieldOf(schema, CHOOSE n \in Names(schema) : Last(FieldOf(schema, n).keys) = k)
  IN  [k \in {Last(FieldOf(schema, n).keys) : n \in DOMAIN o} |->
         LET f == Old(k)
         IN  IF f.type = "message" THEN [i \in DOMAIN o[Name(f)] |-> Snaked(f.of, o[Name(f)][i])]
             ELSE o[Name(f)]]

Without(schema, name) == SelectSeq(schema, LAMBDA f : Name(f) # name)

RoundTrips(schema, o) ==
  LET m == fromPartial(schema, o)
  IN  Throws(schema, m) \/ decode(schema, encode(schema, m)) = m

(* A peer that lacks one field, on either side of the wire.                *)
SkewIsHarmless(schema, o) ==
  LET m == fromPartial(schema, o)
  IN  \A n \in Names(schema) :
        LET older == Without(schema, n)
            rest  == [k \in Names(older) |-> m[k]]
        IN  Throws(schema, m) \/
            /\ decode(older, encode(schema, m)) = rest
            /\ decode(schema, encode(older, rest)) = [m EXCEPT ![n] = Default(FieldOf(schema, n))]

JsonRoundTrips(schema, o) ==
  LET m == fromPartial(schema, o)
      j == toJSON(schema, m)
  IN  /\ fromJSON(schema, j) = Canonical(schema, m)
      /\ fromJSON(schema, Snaked(schema, j)) = Canonical(schema, m)
=============================================================================

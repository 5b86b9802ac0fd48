------------------------------ MODULE NodeWire ------------------------------
(***************************************************************************)
(* What a worker's answers become: the ticket parameters of its quote, on  *)
(* their way to the payer daemon (nodeClient/wireQuote.ts, payerDaemon/    *)
(* convert.ts), and the events of its stream (nodeClient/fetch.ts).        *)
(*                                                                         *)
(* A hex string is the sequence of its digits behind "0x"; a Buffer is a   *)
(* sequence of bytes.                                                      *)
(***************************************************************************)
EXTENDS Integers, Sequences, SequencesExt

Value(digits, base) ==
  LET value[i \in 0 .. Len(digits)] == IF i = 0 THEN 0 ELSE value[i - 1] * base + digits[i]
  IN  value[Len(digits)]

HexOf(n) ==
  LET digits[k \in 0 .. n] == IF k = 0 THEN <<>> ELSE Append(digits[k \div 16], k % 16)
  IN  digits[n]

(* Buffer.from(hex, "hex") stops at a digit without a partner.             *)
hexToBytes(hex) == [i \in 1 .. Len(hex) \div 2 |-> 16 * hex[2 * i - 1] + hex[2 * i]]

(* Two digits per byte.                                                    *)
bytesToHex(buf) ==
  [i \in 1 .. 2 * Len(buf) |-> IF i % 2 = 1 THEN buf[(i + 1) \div 2] \div 16 ELSE buf[i \div 2] % 16]

(* Mutation: an odd number of digits is not padded. *)
PaddedNot(hex) == hex
Padded(hex) == IF Len(hex) % 2 = 1 THEN <<0>> \o hex ELSE hex
bigintToBigEndianBytes(n) == hexToBytes(Padded(HexOf(n)))
bigEndianBytesToBigint(buf) == Value(buf, 256)

-----------------------------------------------------------------------------
(* The price of a quote is its largest, which sizes the tickets.           *)
Dearest(prices) ==
  LET acc[i \in 0 .. Len(prices)] ==
        IF i = 0 THEN prices[1] ELSE IF prices[i].price > acc[i - 1].price THEN prices[i] ELSE acc[i - 1]
  IN  acc[Len(prices)]

wireQuoteToDomain(wire) ==
  [ticketParams |->
     [recipient |-> wire.recipient,
      faceValueWei |-> Value(wire.face_value_wei, 16),
      winProb |-> wire.win_prob,
      recipientRandHash |-> wire.recipient_rand_hash,
      seed |-> wire.seed,
      expirationBlock |-> Value(wire.expiration_block, 16),
      creationRound |-> wire.creation_round,
      creationRoundBlockHash |-> wire.creation_round_block_hash],
   pricePerUnitWei |-> Dearest(wire.model_prices).price,
   modelPrices |-> [model \in {wire.model_prices[i].model : i \in DOMAIN wire.model_prices} |->
                      wire.model_prices[SelectLastInSeq(wire.model_prices, LAMBDA m : m.model = model)].price]]

domainTicketParamsToWire(t) ==
  [recipient |-> hexToBytes(t.recipient),
   faceValue |-> bigintToBigEndianBytes(t.faceValueWei),
   winProb |-> hexToBytes(t.winProb),
   recipientRandHash |-> hexToBytes(t.recipientRandHash),
   seed |-> hexToBytes(t.seed),
   expirationBlock |-> bigintToBigEndianBytes(t.expirationBlock),
   creationRound |-> t.creationRound,
   creationRoundBlockHash |-> hexToBytes(t.creationRoundBlockHash)]

wireTicketParamsToDomain(w) ==
  [recipient |-> bytesToHex(w.recipient),
   faceValueWei |-> bigEndianBytesToBigint(w.faceValue),
   winProb |-> bytesToHex(w.winProb),
   recipientRandHash |-> bytesToHex(w.recipientRandHash),
   seed |-> bytesToHex(w.seed),
   expirationBlock |-> bigEndianBytesToBigint(w.expirationBlock),
   creationRound |-> w.creationRound,
   creationRoundBlockHash |-> bytesToHex(w.creationRoundBlockHash)]

-----------------------------------------------------------------------------
(* Server-sent events.  The bytes of an event are "x"s and end with "|";   *)
(* a chunk is what one read returns.  The parser (eventsource-parser) keeps *)
(* what it has not ended.                                                  *)
Parsed(parser, byte) ==
  IF byte = "|" THEN [rest |-> <<>>, queue |-> Append(parser.queue, parser.rest)]
                ELSE [rest |-> Append(parser.rest, byte), queue |-> parser.queue]

feed(parser, chunk) ==
  LET fed[i \in 0 .. Len(chunk)] == IF i = 0 THEN parser ELSE Parsed(fed[i - 1], chunk[i])
  IN  fed[Len(chunk)]

(* What is yielded after a read, and what stays queued.                    *)
(* Mutation: one event is yielded per read. *)
DrainOne(queue) == IF queue = <<>> THEN <<<<>>, <<>>>> ELSE <<<<Head(queue)>>, Tail(queue)>>
Drain(queue) == <<queue, <<>>>>

Read(stream, chunk) ==
  LET fed   == feed([rest |-> stream.rest, queue |-> stream.queue], chunk)
      drain == Drain(fed.queue)
  IN  [rest |-> fed.rest, queue |-> drain[2], yielded |-> stream.yielded \o drain[1]]

(* An abort after some reads cancels the reader: no further read succeeds. *)
streamSseEvents(chunks, reads) ==
  LET after[n \in 0 .. reads] ==
        IF n = 0 THEN [rest |-> <<>>, queue |-> <<>>, yielded |-> <<>>]
                 ELSE Read(after[n - 1], chunks[n])
  IN  after[reads].yielded

-----------------------------------------------------------------------------
(* Numbers arrive with their value and no leading zero, whole bytes as     *)
(* they were, and the daemon's form reads back as the gateway's.           *)
TicketSurvives(wire) ==
  LET domain == wireQuoteToDomain(wire).ticketParams
      sent   == domainTicketParamsToWire(domain)
      Number(buf, hex) == Value(buf, 256) = Value(hex, 16) /\ (buf # <<>> => buf[1] # 0)
  IN  /\ Number(sent.faceValue, wire.face_value_wei)
      /\ Number(sent.expirationBlock, wire.expiration_block)
      /\ sent.creationRound = wire.creation_round
      /\ \A k \in {"recipient", "winProb", "recipientRandHash", "seed", "creationRoundBlockHash"} :
           Len(domain[k]) % 2 = 0 => bytesToHex(sent[k]) = domain[k]
      /\ (\A k \in {"winProb", "recipientRandHash", "seed", "creationRoundBlockHash"} : Len(domain[k]) % 2 = 0)
           => wireTicketParamsToDomain(sent) = domain

(* The price that tickets are sized by is a model's, and none costs more.  *)
PriceCoversModels(wire) ==
  LET quote == wireQuoteToDomain(wire)
  IN  /\ \A model \in DOMAIN quote.modelPrices : quote.modelPrices[model] <= quote.pricePerUnitWei
      /\ \E i \in DOMAIN wire.model_prices : wire.model_prices[i].price = quote.pricePerUnitWei

Ends(bytes) == {i \in DOMAIN bytes : bytes[i] = "|"}
Sent(events) == FlattenSeq([i \in DOMAIN events |-> Append(events[i], "|")])

(* However the bytes were cut into chunks, the events ended in what was    *)
(* read are yielded, each whole, once and in order.                        *)
EventsSurvive(chunks, reads) ==
  LET bytes   == FlattenSeq(SubSeq(chunks, 1, reads))
      yielded == streamSseEvents(chunks, reads)
  IN  /\ \A i \in DOMAIN yielded : Ends(yielded[i]) = {}
      /\ \E k \in 0 .. Len(bytes) :
           Sent(yielded) = SubSeq(bytes, 1, k) /\ \A i \in Ends(bytes) : i <= k
=============================================================================

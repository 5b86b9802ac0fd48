------------------------------ MODULE PaymentsWire --------------------------
(***************************************************************************)
(* The messages between the gateway and the payer daemon, and those of the *)
(* payee daemon and the workers (payments/v1).  A service gives for each   *)
(* method the schemas of its request and of its response.                  *)
(***************************************************************************)
EXTENDS Protobuf

GetRedemptionStatusResponse_Status == 0 .. 4

-----------------------------------------------------------------------------

PriceInfo ==
  <<Field(1, <<"pricePerUnit", "price_per_unit">>, "int64"),
    Field(2, <<"pixelsPerUnit", "pixels_per_unit">>, "int64"),
    Field(3, <<"capability">>, "uint32"),
    Field(4, <<"constraint">>, "string")>>

TicketExpirationParams ==
  <<Field(1, <<"creationRound", "creation_round">>, "int64"),
    Field(2, <<"creationRoundBlockHash", "creation_round_block_hash">>, "bytes")>>

TicketParams ==
  <<Field(1, <<"recipient">>, "bytes"),
    Field(2, <<"faceValue", "face_value">>, "bytes"),
    Field(3, <<"winProb", "win_prob">>, "bytes"),
    Field(4, <<"recipientRandHash", "recipient_rand_hash">>, "bytes"),
    Field(5, <<"seed">>, "bytes"),
    Field(6, <<"expirationBlock", "expiration_block">>, "bytes"),
    Opt(7, <<"expirationParams", "expiration_params">>, TicketExpirationParams)>>

TicketSenderParams ==
  <<Field(1, <<"senderNonce", "sender_nonce">>, "uint32"),
    Field(2, <<"sig">>, "bytes")>>

Payment ==
  <<Opt(1, <<"ticketParams", "ticket_params">>, TicketParams),
    Field(2, <<"sender">>, "bytes"),
    Opt(3, <<"expirationParams", "expiration_params">>, TicketExpirationParams),
    Many(4, <<"ticketSenderParams", "ticket_sender_params">>, TicketSenderParams),
    Opt(5, <<"expectedPrice", "expected_price">>, PriceInfo)>>

StartSessionRequest ==
  <<Opt(1, <<"ticketParams", "ticket_params">>, TicketParams),
    Field(2, <<"label">>, "string"),
    Opt(3, <<"priceInfo", "price_info">>, PriceInfo)>>

StartSessionResponse ==
  <<Field(1, <<"workId", "work_id">>, "string")>>

CreatePaymentRequest ==
  <<Field(1, <<"workId", "work_id">>, "string"),
    Field(2, <<"workUnits", "work_units">>, "int64")>>

CreatePaymentResponse ==
  <<Field(1, <<"paymentBytes", "payment_bytes">>, "bytes"),
    Field(2, <<"ticketsCreated", "tickets_created">>, "int32"),
    Field(3, <<"expectedValue", "expected_value">>, "bytes")>>

PayerDaemonCloseSessionRequest ==
  <<Field(1, <<"workId", "work_id">>, "string")>>

PayerDaemonCloseSessionResponse == <<>>

GetDepositInfoRequest == <<>>

GetDepositInfoResponse ==
  <<Field(1, <<"deposit">>, "bytes"),
    Field(2, <<"reserve">>, "bytes"),
    Field(3, <<"withdrawRound", "withdraw_round">>, "int64")>>

GetQuoteRequest ==
  <<Field(1, <<"sender">>, "bytes"),
    Field(2, <<"capability">>, "string")>>

ModelPrice ==
  <<Field(1, <<"model">>, "string"),
    Opt(2, <<"priceInfo", "price_info">>, PriceInfo)>>

GetQuoteResponse ==
  <<Opt(1, <<"ticketParams", "ticket_params">>, TicketParams),
    Many(2, <<"modelPrices", "model_prices">>, ModelPrice)>>

ListCapabilitiesRequest == <<>>

CapabilityEntry ==
  <<Field(1, <<"capability">>, "string"),
    Field(2, <<"workUnit", "work_unit">>, "string"),
    Many(3, <<"models">>, ModelPrice)>>

ListCapabilitiesResponse ==
  <<Field(1, <<"protocolVersion", "protocol_version">>, "int32"),
    Many(2, <<"capabilities">>, CapabilityEntry)>>

ProcessPaymentRequest ==
  <<Field(1, <<"paymentBytes", "payment_bytes">>, "bytes"),
    Field(2, <<"workId", "work_id">>, "string")>>

ProcessPaymentResponse ==
  <<Field(1, <<"sender">>, "bytes"),
    Field(2, <<"creditedEv", "credited_ev">>, "bytes"),
    Field(3, <<"balance">>, "bytes"),
    Field(4, <<"winnersQueued", "winners_queued">>, "int32")>>

DebitBalanceRequest ==
  <<Field(1, <<"sender">>, "bytes"),
    Field(2, <<"workId", "work_id">>, "string"),
    Field(3, <<"workUnits", "work_units">>, "int64")>>

DebitBalanceResponse ==
  <<Field(1, <<"balance">>, "bytes")>>

SufficientBalanceRequest ==
  <<Field(1, <<"sender">>, "bytes"),
    Field(2, <<"workId", "work_id">>, "string"),
    Field(3, <<"minWorkUnits", "min_work_units">>, "int64")>>

SufficientBalanceResponse ==
  <<Field(1, <<"sufficient">>, "bool"),
    Field(2, <<"balance">>, "bytes")>>

GetBalanceRequest ==
  <<Field(1, <<"sender">>, "bytes"),
    Field(2, <<"workId", "work_id">>, "string")>>

GetBalanceResponse ==
  <<Field(1, <<"balance">>, "bytes")>>

PayeeDaemonCloseSessionRequest ==
  <<Field(1, <<"sender">>, "bytes"),
    Field(2, <<"workId", "work_id">>, "string")>>

PayeeDaemonCloseSessionResponse == <<>>

ListPendingRedemptionsRequest ==
  <<Field(1, <<"since">>, "int64")>>

PendingRedemption ==
  <<Field(1, <<"ticketHash", "ticket_hash">>, "bytes"),
    Field(2, <<"sender">>, "bytes"),
    Field(3, <<"faceValue", "face_value">>, "bytes"),
    Field(4, <<"queuedAt", "queued_at">>, "int64"),
    Field(5, <<"attempts">>, "int32")>>

ListPendingRedemptionsResponse ==
  <<Many(1, <<"redemptions">>, PendingRedemption)>>

GetRedemptionStatusRequest ==
  <<Field(1, <<"ticketHash", "ticket_hash">>, "bytes")>>

GetRedemptionStatusResponse ==
  <<Enum(1, <<"status">>, GetRedemptionStatusResponse_Status),
    Field(2, <<"txHash", "tx_hash">>, "bytes"),
    Field(3, <<"error">>, "string")>>

-----------------------------------------------------------------------------

PayerDaemonService ==
  [startSession |-> <<StartSessionRequest, StartSessionResponse>>,
   createPayment |-> <<CreatePaymentRequest, CreatePaymentResponse>>,
   closeSession |-> <<PayerDaemonCloseSessionRequest, PayerDaemonCloseSessionResponse>>,
   getDepositInfo |-> <<GetDepositInfoRequest, GetDepositInfoResponse>>]

PayeeDaemonService ==
  [getQuote |-> <<GetQuoteRequest, GetQuoteResponse>>,
   listCapabilities |-> <<ListCapabilitiesRequest, ListCapabilitiesResponse>>,
   processPayment |-> <<ProcessPaymentRequest, ProcessPaymentResponse>>,
   debitBalance |-> <<DebitBalanceRequest, DebitBalanceResponse>>,
   sufficientBalance |-> <<SufficientBalanceRequest, SufficientBalanceResponse>>,
   getBalance |-> <<GetBalanceRequest, GetBalanceResponse>>,
   closeSession |-> <<PayeeDaemonCloseSessionRequest, PayeeDaemonCloseSessionResponse>>,
   listPendingRedemptions |-> <<ListPendingRedemptionsRequest, ListPendingRedemptionsResponse>>,
   getRedemptionStatus |-> <<GetRedemptionStatusRequest, GetRedemptionStatusResponse>>]
=============================================================================

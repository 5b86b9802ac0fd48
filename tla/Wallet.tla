------------------------------- MODULE Wallet -------------------------------
(***************************************************************************)
(* The operator's wallet behind the dispatchers: the prepaid wallet of     *)
(* src/examples/wallets/prepaid-usd.ts, whose reservations are the ones of *)
(* src/service/billing/inMemoryWallet.ts plus a balance, and the postpaid  *)
(* wallet of postpaid.ts, whose reserve returns null.                      *)
(*                                                                         *)
(* The module owns the wallet's state and its three operations, each the   *)
(* wallet's part of a step of the dispatcher that calls it.  All requests  *)
(* of a model draw on one caller's balance; a workId is a request.         *)
(***************************************************************************)
EXTENDS Integers

CONSTANTS
    Request,    \* the requests of one caller
    Seed        \* the balance it starts with, in cents

ASSUME WalletAssumption == Seed \in Nat

VARIABLES
    balance,    \* balances.get(callerId)
    ledger,     \* reservations.get(workId).state, "none" without an entry
    held,       \* reservations.get(workId).cents
    charged     \* the actual cents commit was called with

walletVars == <<balance, ledger, held, charged>>

LedgerState == {"none", "open", "committed", "refunded"}

WalletTypeOK ==
    /\ balance \in Nat
    /\ ledger \in [Request -> LedgerState]
    /\ held \in [Request -> Nat]
    /\ charged \in [Request -> Nat]

WalletInit ==
    /\ balance = Seed
    /\ ledger = [r \in Request |-> "none"]
    /\ held = [r \in Request |-> 0]
    /\ charged = [r \in Request |-> 0]

\* reserve throws BalanceInsufficientError unless this holds.
Covers(cents) == balance >= cents

WalletReserve(r, cents) ==
    /\ Covers(cents)
    /\ balance' = balance - cents
    /\ ledger' = [ledger EXCEPT ![r] = "open"]
    /\ held' = [held EXCEPT ![r] = cents]
    /\ UNCHANGED charged

\* A commit above the reservation takes no more than the reservation.
WalletCommit(r, cents) ==
    IF ledger[r] = "open"
    THEN /\ balance' = balance + (IF held[r] > cents THEN held[r] - cents ELSE 0)
         /\ ledger' = [ledger EXCEPT ![r] = "committed"]
         /\ charged' = [charged EXCEPT ![r] = cents]
         /\ UNCHANGED held
    ELSE UNCHANGED walletVars

\* Mutation: a reservation is given back whatever its state.
WalletRefundAgain(r) ==
    /\ balance' = balance + held[r]
    /\ ledger' = [ledger EXCEPT ![r] = "refunded"]
    /\ UNCHANGED <<held, charged>>

WalletRefund(r) ==
    IF ledger[r] = "open"
    THEN /\ balance' = balance + held[r]
         /\ ledger' = [ledger EXCEPT ![r] = "refunded"]
         /\ UNCHANGED <<held, charged>>
    ELSE UNCHANGED walletVars

\* What the caller has in fact paid for a request.
Paid(r) ==
    CASE ledger[r] = "open" -> held[r]
      [] ledger[r] = "committed" -> IF charged[r] < held[r] THEN charged[r] ELSE held[r]
      [] OTHER -> 0
=============================================================================

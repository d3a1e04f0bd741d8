---------------------------- MODULE LedgerCalls ----------------------------
(***************************************************************************)
(* The clock and the money transactions, as the background workers see     *)
(* them: a transaction stamps its rows with the instant of its BEGIN       *)
(* (now() is stable within a transaction) and commits, or aborts, up to    *)
(* TxSpan later.  What a transaction does to a wallet is WalletEngine's    *)
(* subject; here it is one ledger row under an operator's id.              *)
(***************************************************************************)
EXTENDS Integers, FiniteSets

CONSTANTS Calls,         \* transactions of the engine
          Ids,           \* operator_code:operator_transaction_id
          TxSpan,        \* the longest a transaction stays open
          RetryHorizon,  \* how long after the first call of an id a retry may come
          LastTick,      \* bound of the clock
          None

ASSUME SpanAssumption    == TxSpan \in Nat
ASSUME HorizonAssumption == RetryHorizon \in Nat
ASSUME TickAssumption    == LastTick \in Nat
ASSUME NoIdAssumption    == None \notin Ids

VARIABLES now,  \* the database clock
          tx    \* each call's transaction: its state, its id, its created_at

Ticks    == 0..LastTick
TxStates == {"unborn", "open", "committed", "recovered", "aborted"}
Unborn   == [st |-> "unborn", id |-> None, at |-> 0]

CallsInit == now = 0 /\ tx = [c \in Calls |-> Unborn]

Open(c)      == tx[c].st = "open"
Committed(c) == tx[c].st = "committed"

\* A call of an id comes at most RetryHorizon after any earlier call of it:
\* every operator's retries end within hours or days.
InHorizon(k) == \A d \in Calls : tx[d].id = k => now <= tx[d].at + RetryHorizon

BeginTx(c, k) ==
    /\ tx[c].st = "unborn"
    /\ InHorizon(k)
    /\ tx' = [tx EXCEPT ![c] = [st |-> "open", id |-> k, at |-> now]]

EndTx(c, st) == Open(c) /\ tx' = [tx EXCEPT ![c].st = st]

\* Time passes, but never so far that a transaction is open beyond its span.
Tick == /\ now < LastTick
        /\ \A c \in Calls : Open(c) => now < tx[c].at + TxSpan
        /\ now' = now + 1

CallsTypeOK ==
    /\ now \in Ticks
    /\ tx \in [Calls -> [st: TxStates, id: Ids \union {None}, at: Ticks]]
=============================================================================

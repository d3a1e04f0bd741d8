---------------------------- MODULE ExactlyOnce -----------------------------
(***************************************************************************)
(* What the engine promises an operator, with no barrier, no lock and no   *)
(* retry in sight: every operator transaction id moves money at most once, *)
(* in one player's wallet, by exactly the amounts written in the ledger,   *)
(* never below zero and never past what the column can hold; and success   *)
(* is never reported for an id that has not moved it.                      *)
(***************************************************************************)
EXTENDS Wallet

CONSTANTS Ids, Players, Opening, MaxBalance

VARIABLES funds,     \* the wallet of each player
          settled,   \* the movements made so far: [id, player, delta]
          answered   \* the ids some caller was told have succeeded

vars == <<funds, settled, answered>>

Wallets == [Currencies -> 0..MaxBalance]

Movement(k, p, d) == [id |-> k, player |-> p, delta |-> d]

IsSettled(k) == \E m \in settled : m.id = k

Init == /\ funds = Opening
        /\ settled = {}
        /\ answered = {}

\* The movement recorded is the difference the wallet underwent.
Settle(k, p) ==
    /\ ~ IsSettled(k)
    /\ funds' \in [Players -> Wallets]
    /\ \A q \in Players \ {p} : funds'[q] = funds[q]
    /\ settled' = settled \union {Movement(k, p, Minus(funds'[p], funds[p]))}
    /\ UNCHANGED answered

Answer(k) ==
    /\ IsSettled(k)
    /\ answered' = answered \union {k}
    /\ UNCHANGED <<funds, settled>>

Next == \E k \in Ids : \/ \E p \in Players : Settle(k, p)
                       \/ Answer(k)

Spec == Init /\ [][Next]_vars
=============================================================================

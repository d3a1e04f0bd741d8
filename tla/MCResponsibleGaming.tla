------------------------ MODULE MCResponsibleGaming ------------------------
(***************************************************************************)
(* Small instances of ResponsibleGaming for TLC, and a statement of        *)
(* rg.go that the code does not keep.                                      *)
(***************************************************************************)
EXTENDS ResponsibleGaming, TLC

CONSTANTS v1, v2, v3, v4

Limit(v, type, period, amount) ==
    [event |-> v, type |-> type, active |-> amount > 0,
     period |-> IF amount > 0 THEN period ELSE None, amount |-> amount, ends |-> 0]
Exclude(v, type, ends) ==
    [event |-> v, type |-> type, active |-> ends > 0, period |-> None, amount |-> 0, ends |-> ends]

Play(kind, stake, win, usd) == [kind |-> kind, stake |-> stake, win |-> win, usd |-> usd]

\* A limit set, tightened or raised, an exclusion and its lift.
SomeLimits == {Limit(v1, "LOSS_LIMIT", "DAY", 5), Limit(v2, "LOSS_LIMIT", "DAY", 6),
               Exclude(v2, "SELF_EXCLUSION", 1), Exclude(v3, "SELF_EXCLUSION", 0),
               Limit(v4, "DEPOSIT_LIMIT", "WEEK", 2)}

\* A round that wins back a third of its stake, its reversal, which gives back the
\* whole, and a deposit.
SomePlays == {Play("SPIN", 3, 1, None), Play("ROLLBACK", 0, 0, None), Play("DEPOSIT", 0, 0, 1)}

\* The same amount over a day and over a week.
TwoPeriods == {Limit(v1, "LOSS_LIMIT", "DAY", 2), Limit(v2, "LOSS_LIMIT", "WEEK", 2),
               Limit(v3, "LOSS_LIMIT", "DAY", 2)}

Bets == {Play("BET", 1, 0, None)}

Symmetry == Permutations(Setters) \union Permutations(Plays)

-----------------------------------------------------------------------------

\* rg.go:14-18: a counter is "Never trusted blind: a missing or stale row is
\* re-seeded from the ledger itself before use": what passes the guard fits the
\* limit that governs.
PeriodsKeepTheirCount ==
    [][\A b \in Plays : pc[b] = "begun" /\ pc'[b] = "guarded" /\ req'[b].kind \in {"BET", "SPIN"} =>
         \A r \in Ceiling("LOSS_LIMIT", clock[b].began) :
            Net("LOSS_LIMIT", r.period, now) + req'[b].stake <= r.amount]_vars

\* An exclusion and lifts of it.
Exclusion == {Exclude(v1, "SELF_EXCLUSION", 2), Exclude(v2, "SELF_EXCLUSION", 0)}

\* rg.go:185-188: the users row is locked because the decision "reads the player's
\* current limit state and must not race another SetLimit doing the same": once an
\* exclusion is recorded, no lift ends it, however the requests overlap.
LiftsDoNotRace ==
    \A r \in limits :
        /\ r.type \in Exclusions /\ r.active /\ r.ends > now
        /\ \A s \in limits : s.type = r.type /\ s.active => s.rank <= r.rank
        => Excluding(now) # {}
=============================================================================

--------------------------- MODULE MCPlayerStatus ---------------------------
(***************************************************************************)
(* A small instance of PlayerStatus for TLC: two players whose names may   *)
(* collide, and decisions of which an event may be delivered twice, for    *)
(* either player, older or newer than another.                             *)
(***************************************************************************)
EXTENDS PlayerStatus, TLC

CONSTANTS x1, x2, n1, n2, e1, e2, e3

New(x, n, s)          == [key |-> x, username |-> n, status |-> s]
Decide(x, e, word, t) == [key |-> x, event |-> e, decision |-> word, at |-> t]

Applicants == {New(x1, n1, "KYC_PENDING"), New(x1, n2, "SUSPENDED"), New(x2, n1, "ACTIVE")}

Verdicts == {Decide(x1, e1, "VERIFIED", 1), Decide(x1, e2, "VERIFIED", 2),
             Decide(x1, e3, "REJECTED", 3), Decide(x2, e1, "VERIFIED", 2),
             Decide(x1, e3, "VERIFIED", 1)}

Symmetry == Permutations(Registrations) \union Permutations(Deliveries)
=============================================================================

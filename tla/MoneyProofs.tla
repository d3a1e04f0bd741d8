---------------------------- MODULE MoneyProofs ----------------------------
(***************************************************************************)
(* Facts about money that the other proofs rest on: the plans of Wallet,   *)
(* for amounts of any size, and sums of amounts over a finite set.         *)
(***************************************************************************)
EXTENDS Wallet, FiniteSetTheorems, WellFoundedInduction, TLAPS

-----------------------------------------------------------------------------
(* Plans.                                                                  *)

\* Adding, subtracting and negating plans yields plans.
LEMMA PlanTypes ==
    ASSUME NEW w \in Deltas, NEW d \in Deltas
    PROVE  /\ Plus(w, d) \in Deltas
           /\ Minus(w, d) \in Deltas
           /\ Negated(d) \in Deltas
           /\ Total(d) \in Int
BY DEF Deltas, Plus, Minus, Negated, Total, Currencies

\* A wallet is a plan, and so is the empty plan.
LEMMA WalletIsPlan == Balances \subseteq Deltas /\ Nothing \in Balances
BY DEF Balances, Deltas, Nothing, Coins, Currencies

\* Every flow computes a plan, in whatever state the wallet is.
LEMMA FlowPlanTypes ==
    ASSUME NEW w \in Deltas, NEW family \in {"GC", "SC", "UNKNOWN"},
           NEW n \in Nat, NEW sc \in Nat
    PROVE  /\ BetDebits(w, family, n) \in Deltas
           /\ WinCredit(family, n) \in Balances
           /\ IssueCredit(n, sc) \in Balances
           /\ RedeemDebit(n) \in Balances
BY DEF Deltas, Balances, BetDebits, WinCredit, IssueCredit, RedeemDebit, Coins, MinMoney, Currencies

\* A wager that AllocateBet accepts is debited in full, is never refused by
\* ApplyBet nor overdraws a balance, and takes redeemable coins only once the unplayed ones are spent.
THEOREM BetPlanIsCovered ==
    ASSUME NEW w \in Balances, NEW family, NEW n \in Nat, CanBet(w, family, n)
    PROVE  LET plan == BetDebits(w, family, n) IN
           /\ plan \in Balances
           /\ Covers(w, plan)
           /\ ApplyBet(w, plan) = Minus(w, plan)
           /\ Total(plan) = n
           /\ plan["SC_REDEEMABLE"] > 0 => plan["SC_UNPLAYED"] = w["SC_UNPLAYED"]
BY DEF Balances, CanBet, SCTotal, BetDebits, Coins, Covers, ApplyBet, Total, MinMoney, Currencies

\* A redemption is covered by the winnings alone and takes nothing else.
THEOREM RedeemTakesWinningsOnly ==
    ASSUME NEW w \in Balances, NEW n \in Nat, CanRedeem(w, n)
    PROVE  /\ Covers(w, RedeemDebit(n))
           /\ Minus(w, RedeemDebit(n))["SC_UNPLAYED"] = w["SC_UNPLAYED"]
           /\ Minus(w, RedeemDebit(n))["GC"] = w["GC"]
           /\ Minus(w, RedeemDebit(n))["SC_REDEEMABLE"] = w["SC_REDEEMABLE"] - n
BY DEF Balances, CanRedeem, Covers, Minus, RedeemDebit, Coins, Currencies

\* No purchase and no grant adds to the redeemable balance.
THEOREM IssueMintsNothingRedeemable ==
    ASSUME NEW w \in Balances, NEW gc \in Nat, NEW sc \in Nat
    PROVE  Plus(w, IssueCredit(gc, sc))["SC_REDEEMABLE"] = w["SC_REDEEMABLE"]
BY DEF Balances, Plus, IssueCredit, Coins, Currencies

\* Reversing a bet gives back each balance exactly what the bet took from it,
\* whatever was moved in between.
THEOREM ReversalRestores ==
    ASSUME NEW w \in Deltas, NEW d \in Deltas, NEW between \in Deltas
    PROVE  Plus(Plus(Plus(w, Negated(d)), between), Negated(Negated(d))) = Plus(w, between)
BY DEF Deltas, Plus, Negated, Currencies

-----------------------------------------------------------------------------
(* Sums.  A sum adds up one element after another, as MapThenSumSet does;  *)
(* an order is fixed by CHOOSE, and the result does not depend on it.      *)

Pick(s) == CHOOSE x \in s : TRUE

\* G adds up the amounts f of each subset of S.
Adds(G, f, S) ==
    G = [s \in SUBSET S |-> IF s = {} THEN 0 ELSE f[Pick(s)] + G[s \ {Pick(s)}]]

SumOf(f, S) == (CHOOSE G : Adds(G, f, S))[S]

\* Among some subsets of a finite set, one contains no other.
LEMMA SmallestSubset ==
    ASSUME NEW S, IsFiniteSet(S), NEW B, B \subseteq SUBSET S, B # {}
    PROVE  \E T \in B : IsFiniteSet(T) /\ \A U \in SUBSET T : U # T => U \notin B
<1> DEFINE R == StrictSubsetOrdering(S)
<1>1. IsWellFoundedOn(R, FiniteSubsetsOf(S)) BY FS_StrictSubsetOrderingWellFounded
<1>2. B \subseteq FiniteSubsetsOf(S) BY FS_FiniteSubsetsOfFinite
<1>3. \E T \in B : \A U \in B : ~ (<<U, T>> \in R)
  <2> HIDE DEF R
  <2> QED BY <1>1, <1>2, WFMin
<1>4. PICK T \in B : \A U \in B : ~ (<<U, T>> \in R) BY <1>3
<1>5. \A U \in SUBSET T : U # T => U \notin B
  BY <1>4 DEF StrictSubsetOrdering
<1>6. IsFiniteSet(T) BY FS_Subset
<1> QED BY <1>5, <1>6

LEMMA PickIsMember == \A s : s # {} => Pick(s) \in s
BY DEF Pick

\* A subset has one sum, whatever set it is taken from.
LEMMA AddsAgree ==
    ASSUME NEW f, NEW S, NEW T, IsFiniteSet(S), NEW G, NEW H, Adds(G, f, S), Adds(H, f, T)
    PROVE  \A s \in SUBSET S : s \in SUBSET T => G[s] = H[s]
<1> DEFINE B == {s \in SUBSET S : s \in SUBSET T /\ G[s] # H[s]}
<1> SUFFICES ASSUME B # {} PROVE FALSE OBVIOUS
<1>1. PICK s \in B : \A u \in SUBSET s : u # s => u \notin B
  <2> HIDE DEF B
  <2>1. B \subseteq SUBSET S BY DEF B
  <2> QED BY <2>1, SmallestSubset
<1> DEFINE u == s \ {Pick(s)}
<1>2. /\ G[s] = IF s = {} THEN 0 ELSE f[Pick(s)] + G[u]
      /\ H[s] = IF s = {} THEN 0 ELSE f[Pick(s)] + H[u]
  BY <1>1 DEF Adds
<1>3. CASE s # {}
  <2>1. u \in SUBSET s /\ u # s BY <1>3, PickIsMember
  <2>2. G[u] = H[u] BY <1>1, <2>1
  <2> QED BY <1>1, <1>2, <1>3, <2>2
<1> QED BY <1>1, <1>2, <1>3

\* Every finite set has a sum.
LEMMA AddsExists ==
    ASSUME NEW f, NEW S, IsFiniteSet(S)
    PROVE  \E G : Adds(G, f, S)
<1> DEFINE B == {T \in SUBSET S : ~ \E G : Adds(G, f, T)}
<1> SUFFICES ASSUME B # {} PROVE FALSE OBVIOUS
<1>1. PICK T \in B : IsFiniteSet(T) /\ \A U \in SUBSET T : U # T => U \notin B
  <2> HIDE DEF B
  <2>1. B \subseteq SUBSET S BY DEF B
  <2> QED BY <2>1, SmallestSubset
<1> DEFINE Of(U) == CHOOSE G : Adds(G, f, U)
           G == [s \in SUBSET T |-> IF s = {} THEN 0
                                    ELSE f[Pick(s)] + SumOf(f, s \ {Pick(s)})]
<1>2. ASSUME NEW U \in SUBSET T, U # T
      PROVE  Adds(Of(U), f, U) /\ SumOf(f, U) = Of(U)[U] /\ IsFiniteSet(U)
  <2>1. \E H : Adds(H, f, U) BY <1>1, <1>2
  <2>2. Adds(CHOOSE H : Adds(H, f, U), f, U) BY <2>1
  <2> QED BY <1>1, <1>2, <2>2, FS_Subset DEF SumOf
<1>3. ASSUME NEW U \in SUBSET T, U # T PROVE G[U] = SumOf(f, U)
  <2> DEFINE v == U \ {Pick(U)}
  <2>1. Of(U)[U] = IF U = {} THEN 0 ELSE f[Pick(U)] + Of(U)[v]
    <3>1. Adds(Of(U), f, U) BY <1>2, <1>3
    <3> HIDE DEF Of
    <3> QED BY <3>1 DEF Adds
  <2>2. CASE U # {}
    <3>1. v \in SUBSET U /\ v \in SUBSET T /\ v # T BY <1>3
    <3>2. Adds(Of(U), f, U) /\ Adds(Of(v), f, v) /\ IsFiniteSet(U) BY <1>2, <1>3, <3>1
    <3>3. G[U] = f[Pick(U)] + SumOf(f, v) BY <1>3, <2>2
    <3> HIDE DEF Of, G
    <3>4. Of(U)[v] = Of(v)[v] BY <3>1, <3>2, AddsAgree
    <3>5. SumOf(f, v) = Of(v)[v] /\ SumOf(f, U) = Of(U)[U] BY <1>2, <1>3, <3>1
    <3> QED BY <2>1, <2>2, <3>3, <3>4, <3>5
  <2> QED BY <1>2, <1>3, <2>1, <2>2
<1>4. G = [s \in SUBSET T |-> IF s = {} THEN 0 ELSE f[Pick(s)] + G[s \ {Pick(s)}]]
  <2>1. ASSUME NEW s \in SUBSET T, s # {} PROVE G[s \ {Pick(s)}] = SumOf(f, s \ {Pick(s)})
    <3>1. s \ {Pick(s)} \in SUBSET T /\ s \ {Pick(s)} # T BY <2>1, PickIsMember
    <3> QED BY <1>3, <3>1
  <2> QED BY <2>1
<1>5. Adds(G, f, T) BY <1>4 DEF Adds
<1> QED BY <1>1, <1>5

\* The sum is that of any function that adds up.
LEMMA SumIsUnique ==
    ASSUME NEW f, NEW S, IsFiniteSet(S), NEW G, Adds(G, f, S)
    PROVE  G[S] = SumOf(f, S)
<1> DEFINE H == CHOOSE H : Adds(H, f, S)
<1>1. Adds(H, f, S) BY AddsExists
<1> HIDE DEF H
<1>2. G[S] = H[S] BY <1>1, AddsAgree
<1> QED BY <1>2 DEF SumOf, H

\* The empty sum, and the sum of the element picked and of the others.
LEMMA SumUnfolds ==
    ASSUME NEW f, NEW S, IsFiniteSet(S)
    PROVE  SumOf(f, S) = IF S = {} THEN 0 ELSE f[Pick(S)] + SumOf(f, S \ {Pick(S)})
<1> DEFINE U == S \ {Pick(S)}
<1>1. PICK G : Adds(G, f, S) BY AddsExists
<1>2. PICK H : Adds(H, f, U) BY AddsExists, FS_RemoveElement
<1>3. G[S] = IF S = {} THEN 0 ELSE f[Pick(S)] + G[U] BY <1>1 DEF Adds
<1>4. G[U] = H[U]
  <2>1. U \in SUBSET S /\ U \in SUBSET U OBVIOUS
  <2> HIDE DEF U
  <2> QED BY <1>1, <1>2, <2>1, AddsAgree
<1>5. IsFiniteSet(U) BY FS_RemoveElement
<1>6. G[S] = SumOf(f, S) BY <1>1, SumIsUnique
<1>7. H[U] = SumOf(f, U) BY <1>2, <1>5, SumIsUnique
<1> HIDE DEF U
<1>8. SumOf(f, S) = IF S = {} THEN 0 ELSE f[Pick(S)] + SumOf(f, U)
  BY <1>3, <1>4, <1>6, <1>7
<1> QED BY <1>8 DEF U

LEMMA SumOfNone == ASSUME NEW f PROVE SumOf(f, {}) = 0
BY SumUnfolds, FS_EmptySet

\* The sum of whole amounts is a whole amount, whichever of them is added last.
LEMMA SumRemoves ==
    ASSUME NEW f, NEW S, IsFiniteSet(S), \A x \in S : f[x] \in Int
    PROVE  /\ SumOf(f, S) \in Int
           /\ \A x \in S : SumOf(f, S) = f[x] + SumOf(f, S \ {x})
<1> DEFINE P(T) == SumOf(f, T) \in Int /\ \A x \in T : SumOf(f, T) = f[x] + SumOf(f, T \ {x})
           B == {T \in SUBSET S : ~ P(T)}
<1> SUFFICES ASSUME B # {} PROVE FALSE OBVIOUS
<1>1. PICK T \in B : IsFiniteSet(T) /\ \A U \in SUBSET T : U # T => U \notin B
  <2> HIDE DEF B
  <2>1. B \subseteq SUBSET S BY DEF B
  <2> QED BY <2>1, SmallestSubset
<1>2. T \in SUBSET S /\ ~ P(T) BY <1>1
<1>3. \A U \in SUBSET T : U # T => P(U) BY <1>1
<1> HIDE DEF P, B
<1>4. T # {}
  <2>1. P({}) BY SumOfNone DEF P
  <2> QED BY <1>2, <2>1
<1> DEFINE c == Pick(T)
<1>5. c \in T BY <1>4, PickIsMember
<1>6. SumOf(f, T) = f[c] + SumOf(f, T \ {c}) BY <1>1, <1>4, SumUnfolds
<1> HIDE DEF c
<1>7. P(T \ {c}) BY <1>3, <1>5
<1>8. SumOf(f, T \ {c}) \in Int /\ f[c] \in Int BY <1>2, <1>5, <1>7 DEF P
<1>9. ASSUME NEW x \in T PROVE SumOf(f, T) = f[x] + SumOf(f, T \ {x})
  <2>1. CASE x = c BY <1>6, <2>1
  <2>2. CASE x # c
    <3>1. P(T \ {x}) BY <1>3, <1>9
    <3>2. SumOf(f, T \ {c}) = f[x] + SumOf(f, (T \ {c}) \ {x}) BY <1>7, <1>9, <2>2 DEF P
    <3>3. SumOf(f, T \ {x}) = f[c] + SumOf(f, (T \ {x}) \ {c}) BY <1>5, <3>1, <2>2 DEF P
    <3>4. (T \ {c}) \ {x} = (T \ {x}) \ {c} OBVIOUS
    <3>5. P((T \ {c}) \ {x}) BY <1>3, <1>5
    <3> DEFINE rest == SumOf(f, (T \ {c}) \ {x})
    <3>6. rest \in Int /\ f[x] \in Int BY <1>2, <1>9, <3>5 DEF P
    <3>7. /\ SumOf(f, T) = f[c] + (f[x] + rest)
          /\ SumOf(f, T \ {x}) = f[c] + rest
      BY <1>6, <3>2, <3>3, <3>4
    <3> HIDE DEF rest
    <3> QED BY <1>8, <3>6, <3>7
  <2> QED BY <2>1, <2>2
<1>10. SumOf(f, T) \in Int BY <1>6, <1>8
<1> QED BY <1>2, <1>9, <1>10 DEF P

\* One amount more.
LEMMA SumAdds ==
    ASSUME NEW f, NEW S, IsFiniteSet(S), \A x \in S : f[x] \in Int,
           NEW y, y \notin S, f[y] \in Int
    PROVE  SumOf(f, S \union {y}) = SumOf(f, S) + f[y]
<1>1. IsFiniteSet(S \union {y}) BY FS_AddElement
<1>2. SumOf(f, S \union {y}) = f[y] + SumOf(f, (S \union {y}) \ {y})
  BY <1>1, SumRemoves
<1>3. (S \union {y}) \ {y} = S OBVIOUS
<1>4. SumOf(f, S \union {y}) = f[y] + SumOf(f, S) BY <1>2, <1>3, Zenon
<1>5. SumOf(f, S) \in Int BY SumRemoves
<1> QED BY <1>4, <1>5

\* Smaller amounts have the smaller sum, and what is left out of the larger one
\* adds nothing to the smaller.
LEMMA SumIsBounded ==
    ASSUME NEW f, NEW g, NEW S, IsFiniteSet(S), NEW T, T \subseteq S,
           \A x \in S : f[x] \in Int, \A x \in T : g[x] \in Int /\ f[x] <= g[x],
           \A x \in S \ T : f[x] <= 0
    PROVE  SumOf(f, S) <= SumOf(g, T)
<1> DEFINE B == {U \in SUBSET S : ~ (SumOf(f, U) <= SumOf(g, U \intersect T))}
<1>1. ASSUME B # {} PROVE FALSE
  <2>1. PICK U \in B : IsFiniteSet(U) /\ \A V \in SUBSET U : V # U => V \notin B
    <3> HIDE DEF B
    <3>1. B \subseteq SUBSET S BY DEF B
    <3> QED BY <1>1, <3>1, SmallestSubset
  <2>2. U # {}
    <3>1. SumOf(f, {}) <= SumOf(g, {} \intersect T)
      <4>1. {} \intersect T = {} OBVIOUS
      <4> QED BY <4>1, SumOfNone
    <3> QED BY <2>1, <3>1
  <2>3. PICK x \in U : TRUE BY <2>2
  <2> DEFINE V == U \ {x}
             v == V \intersect T
  <2>4. SumOf(f, U) = f[x] + SumOf(f, V) /\ SumOf(f, V) \in Int
    <3>1. IsFiniteSet(V) BY <2>1, FS_RemoveElement
    <3>2. (\A y \in U : f[y] \in Int) /\ \A y \in V : f[y] \in Int BY <2>1
    <3>3. SumOf(f, V) \in Int BY <3>1, <3>2, SumRemoves
    <3>4. SumOf(f, U) = f[x] + SumOf(f, U \ {x}) BY <2>1, <2>3, <3>2, SumRemoves
    <3> QED BY <3>3, <3>4
  <2>5. IsFiniteSet(v) BY <2>1, FS_RemoveElement, FS_Intersection
  <2>6. SumOf(g, v) \in Int
    <3>1. \A y \in v : g[y] \in Int OBVIOUS
    <3> HIDE DEF v
    <3> QED BY <2>5, <3>1, SumRemoves
  <2>7. SumOf(f, V) <= SumOf(g, v) BY <2>1, <2>3
  <2>8. f[x] \in Int /\ (x \in T => g[x] \in Int /\ f[x] <= g[x]) /\ (x \notin T => f[x] <= 0)
    BY <2>1, <2>3
  <2>9. CASE x \in T
    <3>1. U \intersect T = v \union {x} /\ x \notin v BY <2>3, <2>9
    <3>2. \A y \in v : g[y] \in Int OBVIOUS
    <3> HIDE DEF V, v
    <3>3. SumOf(g, v \union {x}) = SumOf(g, v) + g[x] BY <2>5, <2>8, <2>9, <3>1, <3>2, SumAdds
    <3>4. SumOf(f, U) <= SumOf(g, v \union {x})
      BY <2>4, <2>6, <2>7, <2>8, <2>9, <3>3
    <3> QED BY <2>1, <3>1, <3>4
  <2>10. CASE x \notin T
    <3>1. U \intersect T = v BY <2>3, <2>10
    <3> HIDE DEF V, v
    <3>2. SumOf(f, U) <= SumOf(g, v) BY <2>4, <2>6, <2>7, <2>8, <2>10
    <3> QED BY <2>1, <3>1, <3>2
  <2> QED BY <2>9, <2>10
<1>2. S \intersect T = T OBVIOUS
<1>3. S \notin B BY <1>1
<1> QED BY <1>2, <1>3

\* A sum looks at nothing but the amounts it adds up.
LEMMA SumIsExtensional ==
    ASSUME NEW f, NEW g, NEW S, IsFiniteSet(S), \A x \in S : f[x] = g[x]
    PROVE  SumOf(f, S) = SumOf(g, S)
<1>1. PICK G : Adds(G, f, S) BY AddsExists
<1>2. \A s \in SUBSET S : s # {} => Pick(s) \in S BY PickIsMember
<1>3. Adds(G, g, S)
  <2>1. [s \in SUBSET S |-> IF s = {} THEN 0 ELSE f[Pick(s)] + G[s \ {Pick(s)}]]
        = [s \in SUBSET S |-> IF s = {} THEN 0 ELSE g[Pick(s)] + G[s \ {Pick(s)}]]
    BY <1>2
  <2> QED BY <1>1, <2>1 DEF Adds
<1> QED BY <1>1, <1>3, SumIsUnique

\* Amounts that are not negative have a sum that is not.
LEMMA SumIsNatural ==
    ASSUME NEW f, NEW S, IsFiniteSet(S), \A x \in S : f[x] \in Nat
    PROVE  SumOf(f, S) \in Nat
<1> DEFINE B == {T \in SUBSET S : SumOf(f, T) \notin Nat}
<1> SUFFICES ASSUME B # {} PROVE FALSE OBVIOUS
<1>1. PICK T \in B : IsFiniteSet(T) /\ \A U \in SUBSET T : U # T => U \notin B
  <2> HIDE DEF B
  <2>1. B \subseteq SUBSET S BY DEF B
  <2> QED BY <2>1, SmallestSubset
<1>2. T \in SUBSET S /\ SumOf(f, T) \notin Nat BY <1>1
<1>3. \A U \in SUBSET T : U # T => SumOf(f, U) \in Nat BY <1>1
<1> HIDE DEF B
<1>4. T # {} BY <1>2, SumOfNone
<1> DEFINE c == Pick(T)
<1>5. c \in T BY <1>4, PickIsMember
<1>6. SumOf(f, T) = f[c] + SumOf(f, T \ {c}) BY <1>1, <1>4, SumUnfolds
<1> HIDE DEF c
<1>7. SumOf(f, T \ {c}) \in Nat /\ f[c] \in Nat BY <1>2, <1>3, <1>5
<1> QED BY <1>2, <1>6, <1>7

\* Naturals below a bound have a largest among them.
LEMMA LargestBelow ==
    ASSUME NEW S, S \subseteq Nat, S # {}, NEW n \in Nat, \A x \in S : x <= n
    PROVE  \E m \in S : \A x \in S : x <= m
<1> DEFINE B == {x..n : x \in S}
<1>1. IsFiniteSet(0..n) BY FS_Interval
<1>2. B \subseteq SUBSET (0..n) /\ B # {}
  <2>1. \A x \in S : x..n \in SUBSET (0..n) OBVIOUS
  <2> QED BY <2>1
<1>3. PICK T \in B : \A U \in SUBSET T : U # T => U \notin B
  <2> HIDE DEF B
  <2> QED BY <1>1, <1>2, SmallestSubset
<1>4. PICK m \in S : T = m..n BY <1>3
<1>5. ASSUME NEW x \in S, m < x PROVE FALSE
  <2>1. x..n \in SUBSET T /\ x..n # T
    <3>1. m \in m..n /\ m \notin x..n BY <1>5
    <3> QED BY <1>4, <1>5, <3>1
  <2> QED BY <1>3, <2>1
<1> QED BY <1>5
=============================================================================

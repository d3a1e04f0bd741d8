----------------------- MODULE ResponsibleGamingProofs -----------------------
(***************************************************************************)
(* Theorems about the limits of ResponsibleGaming, for any requests,       *)
(* clocks, days, weeks and months, however limit requests overlap and      *)
(* whatever window a play spans.  An exclusion outlasts every lift asked   *)
(* for after it, and a limit is loosened by a row a day old.  In a window  *)
(* that no play disturbed, what a guard lets pass fits the limit by the    *)
(* ledger, and what it refuses exceeds it by the stakes.                   *)
(***************************************************************************)
EXTENDS ResponsibleGaming, MoneyProofs

-----------------------------------------------------------------------------
(* What is left of a step for the limits.                                  *)

InFlight(a) == pc[a] \in {"open", "locked"}

LimitTypes ==
    /\ now \in Ticks
    /\ limits \subseteq Row /\ IsFiniteSet(limits)
    /\ pc \in [Setters \union Plays -> {"idle", "open", "locked", "begun", "guarded", "posted",
                                        "excluded", "overloss", "overdeposit", "done"}]
    /\ req \in [Setters \union Plays -> LimitRequests \union PlayRequests \union {None}]
    /\ born \in [Setters -> [at: Ticks, rank: Nat, decided: Ticks]]
    /\ \A a \in Setters : InFlight(a) => req[a] \in LimitRequests

\* Seen from the limits, a step begins a request, takes the lock, records the request,
\* ends it without a row, lets a tick pass, or leaves all as it was.
Ends(a)    == /\ InFlight(a) /\ pc' = [pc EXCEPT ![a] = "done"]
              /\ born' = [born EXCEPT ![a] = Unborn]
              /\ req' = [req EXCEPT ![a] = None]
              /\ UNCHANGED <<now, limits>>
Passes     == now < LastTick /\ now' = now + 1 /\ UNCHANGED <<limits, pc, req, born>>
Leaves     == /\ UNCHANGED <<now, limits, born>>
              /\ \A a \in Setters : pc'[a] = pc[a] /\ req'[a] = req[a]

LEMMA StepKinds ==
    ASSUME LimitTypes, [Next]_vars
    PROVE  \/ \E a \in Setters : BeginSet(a) \/ LockPlayer(a) \/ RecordLimit(a) \/ Ends(a)
           \/ Passes
           \/ Leaves
<1>1. ASSUME NEW a \in Setters, RefuseLimit(a) \/ ReplayLimit(a) PROVE Ends(a)
  BY <1>1 DEF RefuseLimit, ReplayLimit, Reply, Return, Goto, Ends, InFlight
<1>2. ASSUME NEW b \in Plays, BeginPlay(b) \/ Guard(b) \/ Post(b) \/ Settle(b) \/ Undo(b)
      PROVE  Leaves
  <2>1. /\ UNCHANGED <<now, limits, born>>
        /\ \E place : pc' = [pc EXCEPT ![b] = place]
        /\ req' = req \/ \E r : req' = [req EXCEPT ![b] = r]
    BY <1>2 DEF BeginPlay, Guard, Post, Settle, Undo, Leave, Return, Goto
  <2>2. \A a \in Setters : a # b BY CallsAssumption
  <2> QED BY <2>1, <2>2 DEF Leaves, LimitTypes
<1>3. ASSUME Tick PROVE Passes BY <1>3 DEF Tick, Passes
<1>4. ASSUME UNCHANGED vars PROVE Leaves BY <1>4 DEF vars, Leaves
<1> QED BY <1>1, <1>2, <1>3, <1>4 DEF Next, Finished

Begun == {a \in Setters : pc[a] # "idle"}

LEMMA MomentType == ASSUME LimitTypes PROVE Moment \in Nat
<1>1. IsFiniteSet(Begun) /\ IsFiniteSet(limits)
  BY CallsAssumption, FS_Subset DEF Begun, LimitTypes
<1>2. Cardinality(Begun) \in Nat /\ Cardinality(limits) \in Nat BY <1>1, FS_CardinalityType
<1> QED BY <1>2 DEF Moment, Begun

LEMMA RowType ==
    ASSUME LimitTypes, NEW a \in Setters, InFlight(a)
    PROVE  /\ LimitRow(a) \in Row
           /\ req[a] \in LimitRequest
           /\ born[a].at \in Ticks /\ born[a].rank \in Nat /\ born[a].decided \in Ticks
<1>1. req[a] \in LimitRequest BY RequestsAssumption DEF LimitTypes
<1>2. born[a].at \in Ticks /\ born[a].rank \in Nat /\ born[a].decided \in Ticks
  BY DEF LimitTypes
<1>3. born[a].decided \in Nat /\ born[a].decided + DayLength \in Nat
  BY <1>2, DayAssumption DEF Ticks
<1>4. Effective(a) \in Nat BY <1>3 DEF Effective
<1>5. 1 + Moment \in Nat BY MomentType
<1> QED BY <1>1, <1>2, <1>4, <1>5 DEF LimitRow, Row, LimitRequest

LEMMA TypesInit == Init => LimitTypes
BY DayAssumption, FS_EmptySet DEF Init, LimitTypes, Ticks, Unborn, InFlight

LEMMA TypesStep == LimitTypes /\ [Next]_vars => LimitTypes'
<1> SUFFICES ASSUME LimitTypes, [Next]_vars PROVE LimitTypes' OBVIOUS
<1>0. 0 \in Ticks BY DayAssumption DEF Ticks
<1>1. ASSUME NEW a \in Setters, BeginSet(a) PROVE LimitTypes'
  <2>1. Moment \in Nat BY MomentType
  <2>2. /\ born' = [born EXCEPT ![a] = [at |-> now, rank |-> 1 + Moment, decided |-> 0]]
        /\ pc' = [pc EXCEPT ![a] = "open"] /\ UNCHANGED <<now, limits>>
        /\ \E r \in LimitRequests : req' = [req EXCEPT ![a] = r]
    BY <1>1 DEF BeginSet, Goto
  <2> HIDE DEF Moment
  <2> QED BY <1>0, <2>1, <2>2 DEF LimitTypes, InFlight
<1>2. ASSUME NEW a \in Setters, LockPlayer(a) PROVE LimitTypes'
  BY <1>2 DEF LockPlayer, Goto, LimitTypes, InFlight
<1>3. ASSUME NEW a \in Setters, RecordLimit(a) PROVE LimitTypes'
  <2>1. LimitRow(a) \in Row BY <1>3, RowType DEF RecordLimit, InFlight
  <2>2. IsFiniteSet(limits') BY <1>3, FS_AddElement DEF RecordLimit, LimitTypes
  <2> HIDE DEF LimitRow
  <2> QED BY <1>0, <1>3, <2>1, <2>2 DEF RecordLimit, Reply, Return, Goto, Unborn, LimitTypes, InFlight
<1>4. ASSUME NEW a \in Setters, RefuseLimit(a) \/ ReplayLimit(a) PROVE LimitTypes'
  BY <1>0, <1>4 DEF RefuseLimit, ReplayLimit, Reply, Return, Goto, Unborn, LimitTypes, InFlight
<1>5. ASSUME NEW b \in Plays, Guard(b) PROVE LimitTypes'
  <2>1. \A r : Verdict(b, r) \in {"excluded", "overloss", "overdeposit", "guarded"} BY DEF Verdict
  <2>2. b \notin Setters BY CallsAssumption
  <2> QED BY <1>5, <2>1, <2>2 DEF Guard, Goto, LimitTypes, InFlight
<1>6. ASSUME NEW b \in Plays, BeginPlay(b) \/ Post(b) \/ Settle(b) \/ Undo(b) PROVE LimitTypes'
  <2>1. b \notin Setters BY CallsAssumption
  <2> QED BY <1>6, <2>1
          DEF BeginPlay, Post, Settle, Undo, Leave, Return, Goto, LimitTypes, InFlight
<1>7. ASSUME Tick PROVE LimitTypes'
  BY <1>7, DayAssumption DEF Tick, LimitTypes, Ticks, InFlight
<1>8. ASSUME UNCHANGED vars PROVE LimitTypes' BY <1>8 DEF vars, LimitTypes, InFlight
<1> QED BY <1>1, <1>2, <1>3, <1>4, <1>5, <1>6, <1>7, <1>8 DEF Next, Finished

-----------------------------------------------------------------------------
(* The order of the rows.                                                  *)

\* Moments past, and each rank given once.
RankInv ==
    /\ \A r \in limits : r.rank <= Moment /\ r.done <= Moment
    /\ \A a \in Setters : InFlight(a) =>
          /\ born[a].rank <= Moment
          /\ \A r \in limits : r.rank # born[a].rank
          /\ \A b \in Setters : InFlight(b) /\ born[b].rank = born[a].rank => b = a
    /\ \A r, s \in limits : r.rank = s.rank => r = s

\* What RecordLimit appends.
LEMMA Recorded ==
    ASSUME LimitTypes, NEW a \in Setters, RecordLimit(a)
    PROVE  LET row == LimitRow(a)
           IN  /\ row \in Row /\ limits' = limits \union {row} /\ now' = now
               /\ InFlight(a) /\ pc[a] = "locked" /\ pc' = [pc EXCEPT ![a] = "done"]
               /\ born' = [born EXCEPT ![a] = Unborn]
               /\ row.type = req[a].type /\ row.at = born[a].at /\ row.rank = born[a].rank
               /\ row.active = req[a].active /\ row.amount = req[a].amount
               /\ row.effective = Effective(a) /\ row.done = 1 + Moment
               /\ row.type \in Windowed => row.active
<1>1. pc[a] = "locked" /\ LimitRow(a) \in Row BY RowType DEF RecordLimit, InFlight
<1>2. req[a].type \in Windowed => req[a].active BY DEF RecordLimit, Misshapen
<1> QED BY <1>1, <1>2 DEF RecordLimit, Reply, Return, Goto, LimitRow, InFlight

\* A BEGIN and a COMMIT are moments of their own.
LEMMA MomentsPass ==
    ASSUME LimitTypes, RankInv, [Next]_vars, NEW a \in Setters
    PROVE  /\ Moment \in Nat
           /\ BeginSet(a) => Moment' = Moment + 1
           /\ RecordLimit(a) => Moment' = Moment + 1 /\ LimitRow(a) \notin limits
           /\ LockPlayer(a) \/ Ends(a) \/ Passes \/ Leaves => Moment' = Moment
<1>c. /\ IsFiniteSet(Begun) /\ Cardinality(Begun) \in Nat
      /\ IsFiniteSet(limits) /\ Cardinality(limits) \in Nat
  <2>1. IsFiniteSet(Begun) /\ IsFiniteSet(limits)
    BY CallsAssumption, FS_Subset DEF Begun, LimitTypes
  <2> QED BY <2>1, FS_CardinalityType
<1>m. Moment = Cardinality(limits) + Cardinality(Begun) BY DEF Moment, Begun
<1>n. Moment' = Cardinality(limits') + Cardinality(Begun') BY DEF Moment, Begun
<1>0. Moment \in Nat BY MomentType
<1>1. ASSUME BeginSet(a) PROVE Moment' = Moment + 1
  <2>1. pc[a] = "idle" /\ pc' = [pc EXCEPT ![a] = "open"] /\ limits' = limits
    BY <1>1 DEF BeginSet, Goto
  <2>2. a \notin Begun /\ Begun' = Begun \union {a} BY <2>1 DEF Begun, LimitTypes
  <2>3. Cardinality(Begun') = Cardinality(Begun) + 1 BY <1>c, <2>2, FS_AddElement
  <2> QED BY <1>c, <1>m, <1>n, <2>1, <2>3
<1>2. ASSUME RecordLimit(a) PROVE Moment' = Moment + 1 /\ LimitRow(a) \notin limits
  <2> DEFINE row == LimitRow(a)
  <2>1. /\ limits' = limits \union {row} /\ row.done = 1 + Moment
        /\ pc[a] = "locked" /\ pc' = [pc EXCEPT ![a] = "done"]
    BY <1>2, Recorded
  <2> HIDE DEF row
  <2>2. row \notin limits BY <1>0, <2>1 DEF RankInv
  <2>3. Begun' = Begun BY <2>1 DEF Begun, LimitTypes
  <2>4. Cardinality(limits') = Cardinality(limits) + 1 BY <1>c, <2>1, <2>2, FS_AddElement
  <2> QED BY <1>c, <1>m, <1>n, <2>2, <2>3, <2>4 DEF row
<1>3. ASSUME LockPlayer(a) \/ Ends(a) \/ Passes \/ Leaves PROVE Moment' = Moment
  <2>1. Begun' = Begun
    BY <1>3 DEF LockPlayer, Goto, Ends, Passes, Leaves, Begun, LimitTypes, InFlight
  <2>2. limits' = limits BY <1>3 DEF LockPlayer, Ends, Passes, Leaves
  <2> QED BY <1>m, <1>n, <2>1, <2>2
<1> QED BY <1>0, <1>1, <1>2, <1>3

LEMMA RankStep ==
    ASSUME LimitTypes, RankInv, [Next]_vars
    PROVE  RankInv'
<1> DEFINE m == Moment
           n == Moment'
<1>d. m = Moment /\ Moment' = n OBVIOUS
<1>t. /\ \A r \in limits : r.rank \in Nat /\ r.done \in Nat
      /\ \A a \in Setters : born[a].rank \in Nat
      /\ m \in Nat
  BY MomentType DEF LimitTypes, Row
<1>k. /\ \A r \in limits : r.rank <= m /\ r.done <= m
      /\ \A a \in Setters : InFlight(a) =>
            /\ born[a].rank <= m
            /\ \A r \in limits : r.rank # born[a].rank
            /\ \A b \in Setters : InFlight(b) /\ born[b].rank = born[a].rank => b = a
      /\ \A r, s \in limits : r.rank = s.rank => r = s
  BY <1>d DEF RankInv
<1>1. ASSUME NEW a \in Setters, BeginSet(a) PROVE RankInv'
  <2>1. n = m + 1 BY <1>1, MomentsPass
  <2>2. /\ pc[a] = "idle" /\ pc' = [pc EXCEPT ![a] = "open"] /\ limits' = limits
        /\ born' = [born EXCEPT ![a] = [at |-> now, rank |-> 1 + m, decided |-> 0]]
    BY <1>1 DEF BeginSet, Goto
  <2> HIDE DEF m, n
  <2>3. born'[a].rank = 1 + m BY <2>2 DEF LimitTypes
  <2>4. \A b \in Setters : b # a => born'[b] = born[b] /\ (InFlight(b)' <=> InFlight(b))
    BY <2>2 DEF LimitTypes, InFlight
  <2>5. \A r \in limits' : r.rank <= n /\ r.done <= n BY <1>k, <1>t, <2>1, <2>2
  <2>6. ASSUME NEW b \in Setters, InFlight(b)'
        PROVE  /\ born'[b].rank <= n
               /\ \A r \in limits' : r.rank # born'[b].rank
               /\ \A d \in Setters : InFlight(d)' /\ born'[d].rank = born'[b].rank => d = b
    <3>1. CASE b = a BY <1>k, <1>t, <2>1, <2>2, <2>3, <2>4, <3>1
    <3>2. CASE b # a BY <1>k, <1>t, <2>1, <2>2, <2>3, <2>4, <2>6, <3>2
    <3> QED BY <3>1, <3>2
  <2> QED BY <1>d, <1>k, <2>2, <2>5, <2>6 DEF RankInv
<1>2. ASSUME NEW a \in Setters, RecordLimit(a) PROVE RankInv'
  <2> DEFINE row == LimitRow(a)
  <2>1. n = m + 1 BY <1>2, MomentsPass
  <2>2. /\ limits' = limits \union {row} /\ InFlight(a) /\ pc' = [pc EXCEPT ![a] = "done"]
        /\ born' = [born EXCEPT ![a] = Unborn]
        /\ row.rank = born[a].rank /\ row.done = 1 + m
    BY <1>2, Recorded
  <2> HIDE DEF m, n, row
  <2>3. \A b \in Setters : InFlight(b)' => b # a /\ InFlight(b) /\ born'[b] = born[b]
    BY <2>2 DEF LimitTypes, InFlight
  <2>4. \A r \in limits' : r.rank <= n /\ r.done <= n BY <1>k, <1>t, <2>1, <2>2
  <2>5. \A b \in Setters : InFlight(b)' =>
           /\ born'[b].rank <= n
           /\ \A r \in limits' : r.rank # born'[b].rank
           /\ \A d \in Setters : InFlight(d)' /\ born'[d].rank = born'[b].rank => d = b
    BY <1>k, <1>t, <2>1, <2>2, <2>3
  <2>6. \A r, s \in limits' : r.rank = s.rank => r = s BY <1>k, <2>2
  <2> QED BY <1>d, <2>4, <2>5, <2>6 DEF RankInv
<1>3. ASSUME NEW a \in Setters, LockPlayer(a) \/ Ends(a) \/ Passes \/ Leaves PROVE RankInv'
  <2>1. n = m BY <1>3, MomentsPass
  <2>2. limits' = limits BY <1>3 DEF LockPlayer, Ends, Passes, Leaves
  <2>3. \A b \in Setters : InFlight(b)' => InFlight(b) /\ born'[b].rank = born[b].rank
    BY <1>3 DEF LockPlayer, Goto, Ends, Passes, Leaves, InFlight, LimitTypes
  <2> HIDE DEF m, n
  <2> QED BY <1>d, <1>k, <2>1, <2>2, <2>3 DEF RankInv
<1>4. CASE Setters = {}
  <2>1. Passes \/ Leaves BY <1>4, StepKinds
  <2>2. limits' = limits BY <2>1 DEF Passes, Leaves
  <2>3. Moment' = Moment BY <1>4, <2>2 DEF Moment
  <2> QED BY <1>4, <2>2, <2>3 DEF RankInv
<1> HIDE DEF m, n
<1> QED BY <1>1, <1>2, <1>3, <1>4, StepKinds

-----------------------------------------------------------------------------
(* When rows take effect.                                                  *)

\* A row of a windowed type is active, and one that is not in force waits a day from
\* its BEGIN.
RowsInv ==
    \A r \in limits :
       /\ r.at <= now
       /\ r.type \in Exclusions => r.effective <= now
       /\ r.type \in Windowed => r.active
       /\ r.effective <= now \/ r.at + DayLength <= r.effective

\* The order of a request's instants, and what it finds at its BEGIN.
OpenInv ==
    \A a \in Setters : InFlight(a) =>
       /\ born[a].at <= now
       /\ pc[a] = "locked" => born[a].at <= born[a].decided /\ born[a].decided <= now
       /\ \A r \in limits : r.type \in Exclusions /\ r.done <= born[a].rank =>
                               r.effective <= born[a].at

LEMMA RowTypes ==
    ASSUME LimitTypes
    PROVE  /\ \A r \in limits : /\ r.type \in Exclusions \union Windowed
                                /\ r.effective \in Nat /\ r.at \in Nat /\ r.rank \in Nat
                                /\ r.done \in Nat /\ r.ends \in Nat /\ r.active \in BOOLEAN
                                /\ r.amount \in Nat
           /\ \A a \in Setters : /\ born[a].at \in Nat /\ born[a].rank \in Nat
                                 /\ born[a].decided \in Nat
           /\ now \in Nat /\ DayLength \in Nat /\ DayLength > 0
<1>1. Amounts \union {0} \subseteq Nat BY AmountsAssumption
<1> QED BY <1>1, DayAssumption DEF LimitTypes, Row, Ticks

\* A row that does not take effect at once waits a day.
LEMMA DelayedIsRaise ==
    ASSUME LimitTypes, NEW a \in Setters, RecordLimit(a)
    PROVE  \/ /\ Effective(a) = born[a].decided
              /\ req[a].type \notin Exclusions => DecreaseOrNew(a)
           \/ /\ req[a].type \notin Exclusions /\ Effective(a) = born[a].decided + DayLength
BY DEF Effective

TimesInv == RowsInv /\ OpenInv

LEMMA TimesStep ==
    ASSUME LimitTypes, RankInv, TimesInv, [Next]_vars
    PROVE  TimesInv'
<1>i. RowsInv /\ OpenInv BY DEF TimesInv
<1>t. /\ \A r \in limits : /\ r.type \in Exclusions \union Windowed
                           /\ r.effective \in Nat /\ r.at \in Nat /\ r.done \in Nat
      /\ \A a \in Setters : /\ born[a].at \in Nat /\ born[a].rank \in Nat
                            /\ born[a].decided \in Nat
      /\ now \in Nat /\ DayLength \in Nat /\ DayLength > 0
  BY RowTypes
<1>1. ASSUME NEW a \in Setters, BeginSet(a) PROVE TimesInv'
  <2>1. /\ UNCHANGED <<now, limits>> /\ born'[a].at = now /\ pc'[a] = "open"
        /\ \A b \in Setters : b # a => born'[b] = born[b] /\ pc'[b] = pc[b]
    BY <1>1 DEF BeginSet, Goto, LimitTypes
  <2>2. RowsInv' BY <1>i, <2>1 DEF RowsInv
  <2>3. \A r \in limits : r.type \in Exclusions => r.effective <= now BY <1>i DEF RowsInv
  <2>4. OpenInv' BY <1>i, <1>t, <2>1, <2>3 DEF OpenInv, InFlight
  <2> QED BY <2>2, <2>4 DEF TimesInv
<1>2. ASSUME NEW a \in Setters, LockPlayer(a) PROVE TimesInv'
  <2>1. /\ UNCHANGED <<now, limits>> /\ pc[a] = "open" /\ pc'[a] = "locked"
        /\ born'[a].at = born[a].at /\ born'[a].rank = born[a].rank /\ born'[a].decided = now
        /\ \A b \in Setters : b # a => born'[b] = born[b] /\ pc'[b] = pc[b]
    BY <1>2 DEF LockPlayer, Goto, LimitTypes
  <2>2. RowsInv' BY <1>i, <2>1 DEF RowsInv
  <2>3. OpenInv' BY <1>i, <1>t, <2>1 DEF OpenInv, InFlight
  <2> QED BY <2>2, <2>3 DEF TimesInv
<1>3. ASSUME NEW a \in Setters, RecordLimit(a) PROVE TimesInv'
  <2> DEFINE row == LimitRow(a)
  <2>1. /\ row \in Row /\ limits' = limits \union {row} /\ now' = now
        /\ InFlight(a) /\ pc[a] = "locked" /\ pc' = [pc EXCEPT ![a] = "done"]
        /\ born' = [born EXCEPT ![a] = Unborn]
        /\ row.type = req[a].type /\ row.at = born[a].at
        /\ row.effective = Effective(a) /\ row.done = 1 + Moment
        /\ row.type \in Windowed => row.active
    BY <1>3, Recorded
  <2>2. \A b \in Setters : InFlight(b)' => InFlight(b) /\ born'[b] = born[b] /\ pc'[b] = pc[b]
    BY <2>1 DEF LimitTypes, InFlight
  <2>3. row.at <= born[a].decided /\ born[a].decided <= now BY <1>i, <2>1 DEF OpenInv
  <2>4. \/ row.effective = born[a].decided
        \/ row.type \notin Exclusions /\ row.effective = born[a].decided + DayLength
    BY <1>3, <2>1, DelayedIsRaise
  <2>5. Moment \in Nat /\ \A b \in Setters : InFlight(b) => born[b].rank <= Moment
    BY MomentType DEF RankInv
  <2>r. row.at \in Nat BY <1>t, <2>1
  <2> HIDE DEF row
  <2>6. /\ row.at <= now
        /\ row.type \in Exclusions => row.effective <= now
        /\ row.type \in Windowed => row.active
        /\ row.effective <= now \/ row.at + DayLength <= row.effective
    BY <1>t, <2>1, <2>r, <2>3, <2>4
  <2>7. RowsInv' BY <1>i, <2>1, <2>6 DEF RowsInv
  <2>8. \A b \in Setters : InFlight(b) => ~ (row.done <= born[b].rank)
    BY <1>t, <2>1, <2>5
  <2>9. OpenInv' BY <1>i, <2>1, <2>2, <2>8 DEF OpenInv
  <2> QED BY <2>7, <2>9 DEF TimesInv
<1>4. ASSUME NEW a \in Setters, Ends(a) PROVE TimesInv'
  <2>1. UNCHANGED <<now, limits>> BY <1>4 DEF Ends
  <2>2. \A b \in Setters : InFlight(b)' => InFlight(b) /\ born'[b] = born[b] /\ pc'[b] = pc[b]
    BY <1>4 DEF Ends, LimitTypes, InFlight
  <2> QED BY <1>i, <2>1, <2>2 DEF TimesInv, RowsInv, OpenInv
<1>5. ASSUME Passes PROVE TimesInv'
  <2>1. now' = now + 1 /\ UNCHANGED <<limits, pc, born>> BY <1>5 DEF Passes
  <2>2. RowsInv' BY <1>i, <1>t, <2>1 DEF RowsInv
  <2>3. OpenInv' BY <1>i, <1>t, <2>1 DEF OpenInv, InFlight
  <2> QED BY <2>2, <2>3 DEF TimesInv
<1>6. ASSUME Leaves PROVE TimesInv'
  BY <1>i, <1>6 DEF Leaves, TimesInv, RowsInv, OpenInv, InFlight
<1> QED BY <1>1, <1>2, <1>3, <1>4, <1>5, <1>6, StepKinds

-----------------------------------------------------------------------------
(* Exclusions.                                                             *)

\* Nothing ranks above an exclusion that runs, that no other has replaced and that no
\* lift has crossed: what would is a later lift, and it finds the exclusion governing.
TopInv ==
    \A r \in limits :
       /\ r.type \in Exclusions /\ r.active /\ r.ends > now
       /\ \A s \in limits : s.type = r.type /\ s.active => s.rank <= r.rank
       /\ ~ Crossed(r)
       => \A s \in limits : s.type = r.type => s.rank <= r.rank

LEMMA TopStep ==
    ASSUME LimitTypes, RankInv, TimesInv, TopInv, [Next]_vars
    PROVE  TopInv'
<1>t. /\ \A r \in limits : /\ r.rank \in Nat /\ r.ends \in Nat /\ r.done \in Nat
                           /\ r.active \in BOOLEAN
      /\ now \in Nat
  BY RowTypes
<1>1. ASSUME NEW a \in Setters, RecordLimit(a) PROVE TopInv'
  <2> DEFINE row == LimitRow(a)
  <2>1. /\ row \in Row /\ limits' = limits \union {row} /\ now' = now
        /\ InFlight(a) /\ pc[a] = "locked"
        /\ row.type = req[a].type /\ row.active = req[a].active /\ row.rank = born[a].rank
        /\ row.done = 1 + Moment
    BY <1>1, Recorded
  <2>2. /\ row.rank \in Nat /\ row.active \in BOOLEAN /\ Moment \in Nat
        /\ \A r \in limits : r.rank <= Moment /\ r.done <= Moment
    BY <1>1, <2>1, MomentType DEF RankInv, Row
  <2>3. ~ LiftTooEarly(a) BY <1>1 DEF RecordLimit
  <2>d. born[a].decided \in Nat /\ born[a].decided <= now
    BY <2>1, RowTypes DEF TimesInv, OpenInv
  <2> HIDE DEF row
  <2> SUFFICES ASSUME NEW r \in limits', r.type \in Exclusions, r.active, r.ends > now,
                      \A s \in limits' : s.type = r.type /\ s.active => s.rank <= r.rank,
                      \A s \in limits' : s.type = r.type /\ ~ s.active /\ r.rank < s.rank
                                            => ~ (s.rank < r.done)
               PROVE  \A s \in limits' : s.type = r.type => s.rank <= r.rank
    BY <2>1 DEF TopInv, Crossed
  <2>4. CASE r = row
    <3>1. \A s \in limits : s.type = r.type => s.rank <= r.rank
      BY <1>t, <2>1, <2>2, <2>4
    <3> QED BY <2>1, <2>2, <2>4, <3>1
  <2>5. CASE r \in limits
    <3>1. \A s \in limits : s.type = r.type => s.rank <= r.rank
      BY <2>1, <2>5 DEF TopInv, Crossed
    <3>2. row.type = r.type => row.rank <= r.rank
      <4> SUFFICES ASSUME row.type = r.type, ~ (row.rank <= r.rank) PROVE FALSE OBVIOUS
      <4>1. ~ row.active /\ r.rank < row.rank BY <1>t, <2>1, <2>2, <2>5
      <4>2. r.done <= born[a].rank BY <1>t, <2>1, <2>2, <2>5, <4>1
      <4>3. r.effective <= born[a].at BY <2>1, <2>5, <4>2 DEF TimesInv, OpenInv
      <4>4. r \in Governing(req[a].type, born[a].at)
        BY <2>1, <2>5, <3>1, <4>3 DEF Governing, Latest
      <4>5. r.ends > born[a].decided BY <1>t, <2>5, <2>d
      <4> QED BY <2>1, <2>3, <4>1, <4>4, <4>5 DEF LiftTooEarly
    <3> QED BY <2>1, <3>1, <3>2
  <2> QED BY <2>1, <2>4, <2>5
<1>2. ASSUME limits' = limits, now' = now \/ now' = now + 1 PROVE TopInv'
  BY <1>t, <1>2 DEF TopInv, Crossed
<1> QED BY <1>1, <1>2, StepKinds DEF BeginSet, LockPlayer, Ends, Passes, Leaves

LimitsInv == LimitTypes /\ RankInv /\ TimesInv /\ TopInv

LEMMA LimitsInvariant == Spec => []LimitsInv
<1>1. Init => LimitsInv
  <2> SUFFICES ASSUME Init PROVE LimitsInv OBVIOUS
  <2>1. LimitTypes BY TypesInit
  <2>2. limits = {} /\ \A a \in Setters : ~ InFlight(a) BY DEF Init, InFlight
  <2> QED BY <2>1, <2>2 DEF LimitsInv, RankInv, TimesInv, RowsInv, OpenInv, TopInv
<1>2. LimitsInv /\ [Next]_vars => LimitsInv'
  BY TypesStep, RankStep, TimesStep, TopStep DEF LimitsInv
<1> QED BY <1>1, <1>2, PTL DEF Spec

\* However many lifts are asked for, and whenever, an exclusion lasts until its end, or
\* until another of its type replaces it, unless a lift crossed it: one asked for before
\* the exclusion was recorded, and dated after it.
THEOREM ExclusionsLast == Spec => []ExclusionOutlastsLifts
<1>1. LimitsInv => ExclusionOutlastsLifts
  <2> SUFFICES ASSUME LimitsInv, NEW r \in limits,
                      r.type \in Exclusions, r.active, r.ends > now,
                      \A s \in limits : s.type = r.type /\ s.active => s.rank <= r.rank,
                      ~ Crossed(r)
               PROVE  Excluding(now) # {}
    BY DEF ExclusionOutlastsLifts
  <2>1. \A s \in limits : s.type = r.type => s.rank <= r.rank BY DEF LimitsInv, TopInv
  <2>2. r \in Latest({s \in limits : s.type = r.type}) BY <2>1 DEF Latest
  <2>3. r \in Excluding(now) BY <2>2 DEF Excluding
  <2> QED BY <2>3
<1> QED BY <1>1, LimitsInvariant, PTL

-----------------------------------------------------------------------------
(* Limits.                                                                 *)

\* One row governs at a time.
LEMMA OneGoverns ==
    ASSUME LimitsInv, NEW type, NEW t, NEW r \in Governing(type, t), NEW s \in Governing(type, t)
    PROVE  r = s
<1>1. r \in limits /\ s \in limits /\ r.rank <= s.rank /\ s.rank <= r.rank
  BY DEF Governing, Latest
<1>2. r.rank \in Nat /\ s.rank \in Nat BY <1>1, RowTypes DEF LimitsInv
<1> QED BY <1>1, <1>2 DEF LimitsInv, RankInv

\* Who replaces an active row by a looser one.
LEMMA LooseningStep ==
    ASSUME LimitsInv, LimitsInv', [Next]_vars,
           NEW type \in Windowed, NEW r \in Governing(type, now), NEW s \in Governing(type, now)',
           r.active, s.amount > r.amount \/ ~ s.active
    PROVE  s.at + DayLength <= now' \/ s.at < r.effective
<1>i. /\ LimitTypes /\ RankInv /\ RowsInv /\ OpenInv
      /\ r \in limits /\ r.type = type /\ r.effective <= now
      /\ s \in limits' /\ s.type = type /\ s.effective <= now'
  BY DEF LimitsInv, TimesInv, Governing, Latest
<1>t. /\ \A q \in limits : q.rank \in Nat /\ q.effective \in Nat /\ q.amount \in Nat /\ q.at \in Nat
      /\ \A a \in Setters : born[a].at \in Nat /\ born[a].decided \in Nat
      /\ now \in Nat /\ DayLength \in Nat /\ DayLength > 0
  BY <1>i, RowTypes
<1>1. s # r
  <2>1. r.active /\ r.amount \in Nat BY <1>i, <1>t
  <2> QED BY <2>1
<1>2. ASSUME NEW a \in Setters, RecordLimit(a)
      PROVE  s.at + DayLength <= now' \/ s.at < r.effective
  <2> DEFINE row == LimitRow(a)
  <2>1. /\ limits' = limits \union {row} /\ now' = now /\ row \in Row
        /\ InFlight(a) /\ pc[a] = "locked"
        /\ row.type = req[a].type /\ row.at = born[a].at /\ row.rank = born[a].rank
        /\ row.active = req[a].active /\ row.amount = req[a].amount
        /\ row.effective = Effective(a)
        /\ row.type \in Windowed => row.active
    BY <1>i, <1>2, Recorded
  <2>2. /\ Effective(a) = born[a].decided \/ Effective(a) = born[a].decided + DayLength
        /\ Effective(a) = born[a].decided => req[a].type \in Exclusions \/ DecreaseOrNew(a)
    BY <1>i, <1>t, <1>2, DelayedIsRaise
  <2>3. born[a].at <= born[a].decided /\ born[a].decided <= now BY <1>i, <2>1 DEF OpenInv
  <2>4. row.amount \in Nat
    <3>1. \A n \in Amounts : n \in Nat BY AmountsAssumption
    <3> QED BY <2>1, <3>1 DEF Row
  <2> HIDE DEF row
  <2>5. s = row
    <3>1. SUFFICES ASSUME s # row PROVE FALSE OBVIOUS
    <3>2. s \in limits /\ s \in Governing(type, now)
      BY <1>i, <2>1, <3>1 DEF Governing, Latest
    <3> QED BY <1>1, <3>2, OneGoverns
  <2>6. CASE Effective(a) = born[a].decided + DayLength
    BY <1>i, <1>t, <2>1, <2>3, <2>5, <2>6
  <2>7. CASE Effective(a) = born[a].decided
    <3> SUFFICES ASSUME ~ (s.at < r.effective) PROVE FALSE OBVIOUS
    <3>1. type \notin Exclusions BY DEF Exclusions, Windowed
    <3>2. \A g \in Governing(type, born[a].at) : g.active => req[a].amount <= g.amount
      BY <1>i, <2>1, <2>2, <2>5, <2>7, <3>1 DEF DecreaseOrNew
    <3>3. r.effective <= born[a].at BY <1>i, <1>t, <2>1, <2>5
    <3>4. r \in Governing(type, born[a].at)
      <4>1. \A q \in limits : q.type = type /\ q.effective <= now => q.rank <= r.rank
        BY DEF Governing, Latest
      <4>2. \A q \in limits : q.effective <= born[a].at => q.effective <= now
        BY <1>t, <2>3
      <4> QED BY <1>i, <3>3, <4>1, <4>2 DEF Governing, Latest
    <3>5. req[a].amount <= r.amount BY <3>2, <3>4
    <3>6. s.active /\ s.amount <= r.amount BY <1>i, <2>1, <2>5, <3>5
    <3> QED BY <1>i, <1>t, <2>4, <2>5, <3>6
  <2> QED BY <2>2, <2>6, <2>7
<1>3. ASSUME Passes PROVE s.at + DayLength <= now'
  <2>1. now' = now + 1 /\ limits' = limits BY <1>3 DEF Passes
  <2>2. \A q \in limits : q.type = type /\ q.effective <= now => q.rank <= r.rank
    BY DEF Governing, Latest
  <2>3. r.rank <= s.rank
    BY <1>i, <1>t, <2>1 DEF Governing, Latest
  <2>4. ~ (s.effective <= now)
    <3>1. SUFFICES ASSUME s.effective <= now PROVE FALSE OBVIOUS
    <3>2. s.rank = r.rank BY <1>i, <1>t, <2>1, <2>2, <2>3, <3>1
    <3> QED BY <1>i, <1>1, <2>1, <3>2 DEF RankInv
  <2>5. s.at + DayLength <= s.effective BY <1>i, <2>1, <2>4 DEF RowsInv
  <2> QED BY <1>i, <1>t, <2>1, <2>5
<1>4. ASSUME UNCHANGED <<now, limits>> PROVE FALSE
  <2>1. s \in Governing(type, now) BY <1>4 DEF Governing, Latest
  <2> QED BY <1>1, <2>1, OneGoverns
<1> QED BY <1>i, <1>2, <1>3, <1>4, StepKinds DEF BeginSet, LockPlayer, Ends, Leaves

\* However limits are raised, lowered and replaced, and however requests overlap, what
\* governs is loosened by nothing but a row a day old, or one whose request began before
\* it took effect.
THEOREM LimitsLoosenLate == Spec => LooseningWaits
<1>1. LimitsInv /\ LimitsInv' /\ [Next]_vars =>
         [\A type \in Windowed :
            \A r \in Governing(type, now) : \A s \in Governing(type, now)' :
               r.active /\ (s.amount > r.amount \/ ~ s.active) =>
                  s.at + DayLength <= now' \/ s.at < r.effective]_vars
  BY LooseningStep
<1> QED BY <1>1, LimitsInvariant, PTL DEF Spec, LooseningWaits

-----------------------------------------------------------------------------
(* Windows.                                                                *)

\* A day of the clock, and days in the order of their instants.
LEMMA DayOrder ==
    ASSUME NEW t \in Nat
    PROVE  /\ Day(t) \in Nat
           /\ \A u \in Nat : t <= u => Day(t) <= Day(u)
<1>1. DayLength \in Nat /\ DayLength > 0 BY DayAssumption
<1>2. \A u \in Nat : /\ u \div DayLength \in Nat
                     /\ u % DayLength \in 0..(DayLength - 1)
                     /\ u = DayLength * (u \div DayLength) + (u % DayLength)
  BY <1>1
<1>3. ASSUME NEW u \in Nat, t <= u PROVE t \div DayLength <= u \div DayLength
  <2> DEFINE q == t \div DayLength
             v == u \div DayLength
  <2>1. /\ q \in Nat /\ v \in Nat
        /\ t % DayLength \in 0..(DayLength - 1) /\ u % DayLength \in 0..(DayLength - 1)
        /\ t = DayLength * q + (t % DayLength) /\ u = DayLength * v + (u % DayLength)
    BY <1>2
  <2> HIDE DEF q, v
  <2>2. SUFFICES ASSUME v + 1 <= q PROVE FALSE BY <2>1 DEF q, v
  <2>3. DayLength * (v + 1) <= DayLength * q BY <1>1, <2>1, <2>2
  <2> QED BY <1>1, <1>3, <2>1, <2>3
<1> QED BY <1>2, <1>3 DEF Day

\* A window begins on the last of its period's first days.
LEMMA WindowRule ==
    ASSUME NEW p \in Periods, NEW t \in Ticks
    PROVE  /\ WindowStart(p, Day(t)) \in Nat
           /\ WindowStart(p, Day(t)) <= Day(t)
           /\ \A u \in Starts(p) : u <= Day(t) => u <= WindowStart(p, Day(t))
           /\ WindowStart(p, Day(t)) \in Starts(p)
<1> DEFINE d == Day(t)
<1>1. t \in Nat /\ LastTick \in Nat /\ t <= LastTick BY DayAssumption DEF Ticks
<1>2. d \in Nat /\ d \in Days /\ 0 \in Days /\ Days \subseteq Nat
  BY <1>1, DayOrder DEF Days
<1>3. Starts(p) \subseteq Nat /\ 0 \in Starts(p)
  BY <1>2, StartsAssumption DEF Starts, Periods
<1> HIDE DEF d
<1> DEFINE S == {s \in Starts(p) : s <= d}
<1>4. \E s \in S : \A u \in S : u <= s
  <2>1. S \subseteq Nat /\ S # {} /\ \A x \in S : x <= d BY <1>2, <1>3
  <2> HIDE DEF S
  <2> QED BY <1>2, <2>1, LargestBelow
<1>5. \E s \in Starts(p) : s <= d /\ \A u \in Starts(p) : u <= d => u <= s BY <1>4
<1>6. /\ WindowStart(p, d) \in Starts(p) /\ WindowStart(p, d) <= d
      /\ \A u \in Starts(p) : u <= d => u <= WindowStart(p, d)
  BY <1>5 DEF WindowStart
<1> QED BY <1>3, <1>6 DEF d

\* Windows follow one another.
LEMMA WindowsFollow ==
    ASSUME NEW p \in Periods, NEW t \in Ticks, NEW u \in Ticks, t <= u
    PROVE  WindowStart(p, Day(t)) <= WindowStart(p, Day(u))
<1>1. t \in Nat /\ u \in Nat BY DayAssumption DEF Ticks
<1>2. Day(t) \in Nat /\ Day(u) \in Nat /\ Day(t) <= Day(u) BY <1>1, DayOrder
<1>3. WindowStart(p, Day(t)) \in Starts(p) /\ WindowStart(p, Day(t)) \in Nat
      /\ WindowStart(p, Day(t)) <= Day(t)
  BY WindowRule
<1>4. WindowStart(p, Day(t)) <= Day(u) BY <1>2, <1>3
<1> QED BY <1>3, <1>4, WindowRule

-----------------------------------------------------------------------------
(* Aggregates.                                                             *)

Entries == [by: Plays, kind: Kinds, at: Ticks, loss: Int, stake: Nat, usd: Nat,
            undoes: Plays \union {None}, put: Ticks]
Wagers  == {"BET", "SPIN"}

\* What a set of entries weighs, and the stakes among them.
WeightOf(type, S) == MapThenSumSet(LAMBDA e : Weight(type, e), S)
StakesOf(S)       == MapThenSumSet(LAMBDA e : e.stake, {e \in S : e.kind \in Wagers})

Weights(type) == [e \in Entries |-> Weight(type, e)]
Stakes        == [e \in Entries |-> e.stake]

LEMMA WeightIsSum ==
    ASSUME NEW type, NEW S, S \subseteq Entries, IsFiniteSet(S)
    PROVE  WeightOf(type, S) = SumOf(Weights(type), S)
<1>0. \A s \in SUBSET S : s # {} => Weights(type)[Pick(s)] = Weight(type, Pick(s))
  BY PickIsMember DEF Weights
<1>1. PICK G : Adds(G, Weights(type), S) BY AddsExists
<1>2. G = [s \in SUBSET S |-> IF s = {} THEN 0 ELSE Weight(type, CHOOSE x \in s : TRUE)
                                                    + G[s \ {CHOOSE x \in s : TRUE}]]
  BY <1>0, <1>1 DEF Adds, Pick
<1>3. PICK H : /\ H = [s \in SUBSET S |-> IF s = {} THEN 0 ELSE Weight(type, CHOOSE x \in s : TRUE)
                                                    + H[s \ {CHOOSE x \in s : TRUE}]]
               /\ WeightOf(type, S) = H[S]
  BY <1>2 DEF WeightOf, MapThenSumSet, MapThenFoldSet
<1>4. Adds(H, Weights(type), S) BY <1>0, <1>3 DEF Adds, Pick
<1> QED BY <1>3, <1>4, SumIsUnique

LEMMA StakesAreSum ==
    ASSUME NEW S, S \subseteq Entries, IsFiniteSet(S)
    PROVE  StakesOf(S) = SumOf(Stakes, {e \in S : e.kind \in Wagers})
<1> DEFINE T == {e \in S : e.kind \in Wagers}
<1>t. T \subseteq Entries /\ IsFiniteSet(T) BY FS_Subset
<1> HIDE DEF T
<1>0. \A s \in SUBSET T : s # {} => Stakes[Pick(s)] = Pick(s).stake
  BY <1>t, PickIsMember DEF Stakes
<1>1. PICK G : Adds(G, Stakes, T) BY <1>t, AddsExists
<1>2. G = [s \in SUBSET T |-> IF s = {} THEN 0 ELSE (CHOOSE x \in s : TRUE).stake
                                                    + G[s \ {CHOOSE x \in s : TRUE}]]
  <2>1. G = [s \in SUBSET T |-> IF s = {} THEN 0 ELSE Pick(s).stake + G[s \ {Pick(s)}]]
    BY <1>0, <1>1 DEF Adds
  <2> QED BY <2>1 DEF Pick
<1>3. PICK H : /\ H = [s \in SUBSET T |-> IF s = {} THEN 0 ELSE (CHOOSE x \in s : TRUE).stake
                                                    + H[s \ {CHOOSE x \in s : TRUE}]]
               /\ StakesOf(S) = H[T]
  BY <1>2 DEF StakesOf, MapThenSumSet, MapThenFoldSet, T
<1>4. Adds(H, Stakes, T)
  <2>1. H = [s \in SUBSET T |-> IF s = {} THEN 0 ELSE Pick(s).stake + H[s \ {Pick(s)}]]
    BY <1>3 DEF Pick
  <2> QED BY <1>0, <2>1 DEF Adds
<1> QED BY <1>t, <1>3, <1>4, SumIsUnique DEF T

\* How the aggregates change with an entry.
LEMMA WeightRules ==
    ASSUME NEW type, NEW S, S \subseteq Entries, IsFiniteSet(S)
    PROVE  /\ WeightOf(type, S) \in Int
           /\ \A e \in Entries \ S : WeightOf(type, S \union {e}) = WeightOf(type, S) + Weight(type, e)
<1>1. \A e \in Entries : Weights(type)[e] = Weight(type, e) /\ Weight(type, e) \in Int
  BY DEF Weights, Weight, Entries
<1>2. WeightOf(type, S) = SumOf(Weights(type), S) BY WeightIsSum
<1>3. SumOf(Weights(type), S) \in Int BY <1>1, SumRemoves
<1>4. ASSUME NEW e \in Entries \ S
      PROVE  WeightOf(type, S \union {e}) = WeightOf(type, S) + Weight(type, e)
  <2>1. IsFiniteSet(S \union {e}) /\ S \union {e} \subseteq Entries BY FS_AddElement
  <2>2. WeightOf(type, S \union {e}) = SumOf(Weights(type), S \union {e}) BY <2>1, WeightIsSum
  <2>3. SumOf(Weights(type), S \union {e}) = SumOf(Weights(type), S) + Weights(type)[e]
    BY <1>1, SumAdds
  <2> QED BY <1>1, <1>2, <2>2, <2>3
<1> QED BY <1>2, <1>3, <1>4

LEMMA StakeRules ==
    ASSUME NEW S, S \subseteq Entries, IsFiniteSet(S)
    PROVE  /\ StakesOf(S) \in Nat
           /\ \A e \in Entries \ S :
                StakesOf(S \union {e}) = StakesOf(S) + (IF e.kind \in Wagers THEN e.stake ELSE 0)
<1> DEFINE W(U) == {e \in U : e.kind \in Wagers}
<1>1. \A e \in Entries : Stakes[e] = e.stake /\ e.stake \in Nat BY DEF Stakes, Entries
<1>2. W(S) \subseteq Entries /\ IsFiniteSet(W(S)) BY FS_Subset
<1>3. StakesOf(S) = SumOf(Stakes, W(S)) BY StakesAreSum
<1>4. SumOf(Stakes, W(S)) \in Nat
  <2> HIDE DEF W
  <2> QED BY <1>1, <1>2, SumIsNatural
<1>5. ASSUME NEW e \in Entries \ S
      PROVE  StakesOf(S \union {e}) = StakesOf(S) + (IF e.kind \in Wagers THEN e.stake ELSE 0)
  <2>1. IsFiniteSet(S \union {e}) /\ S \union {e} \subseteq Entries BY FS_AddElement
  <2>2. StakesOf(S \union {e}) = SumOf(Stakes, W(S \union {e})) BY <2>1, StakesAreSum
  <2>3. CASE e.kind \in Wagers
    <3>1. W(S \union {e}) = W(S) \union {e} /\ e \notin W(S) BY <2>3
    <3> HIDE DEF W
    <3>2. SumOf(Stakes, W(S) \union {e}) = SumOf(Stakes, W(S)) + Stakes[e]
      BY <1>1, <1>2, <3>1, SumAdds
    <3> QED BY <1>1, <1>3, <2>2, <2>3, <3>1, <3>2
  <2>4. CASE e.kind \notin Wagers
    <3>1. W(S \union {e}) = W(S) BY <2>4
    <3> HIDE DEF W
    <3> QED BY <1>3, <1>4, <2>2, <2>4, <3>1
  <2> QED BY <2>3, <2>4
<1> HIDE DEF W
<1> QED BY <1>3, <1>4, <1>5

\* An entry loses at most its stake.
Sober(S) == \A e \in S : e.loss <= IF e.kind \in Wagers THEN e.stake ELSE 0

LEMMA LossWithinStakes ==
    ASSUME NEW S, S \subseteq Entries, IsFiniteSet(S), Sober(S)
    PROVE  WeightOf("LOSS_LIMIT", S) <= StakesOf(S)
<1> DEFINE T == {e \in S : e.kind \in Wagers}
           f == Weights("LOSS_LIMIT")
<1>1. \A e \in S : f[e] = e.loss /\ e.loss \in Int /\ Stakes[e] = e.stake /\ e.stake \in Nat
  BY DEF Weights, Weight, Stakes, Entries
<1>2. T \subseteq S OBVIOUS
<1>3. \A e \in T : Stakes[e] \in Int /\ f[e] <= Stakes[e] BY <1>1 DEF Sober
<1>4. \A e \in S \ T : f[e] <= 0 BY <1>1 DEF Sober
<1>5. WeightOf("LOSS_LIMIT", S) = SumOf(f, S) /\ StakesOf(S) = SumOf(Stakes, T)
  BY WeightIsSum, StakesAreSum
<1> HIDE DEF T, f
<1> QED BY <1>1, <1>2, <1>3, <1>4, <1>5, SumIsBounded

-----------------------------------------------------------------------------
(* Types of the counters and of the ledger.                                *)

\* The ledger is finite and holds what plays that are done have entered; a play that
\* passed its guards still has its request; a limit has a period; instants are in order.
CountTypes ==
    /\ counter \in [Windowed -> [Periods -> [start: Int \union {None}, amount: Nat]]]
    /\ ledger \subseteq Entries /\ IsFiniteSet(ledger) /\ Sober(ledger)
    /\ \A e \in ledger : pc[e.by] = "done" /\ e.at <= e.put /\ e.put <= now
    /\ \A b \in Plays : pc[b] \in {"guarded", "posted"} => req[b] \in PlayRequests
    /\ holder \in Plays \union {None}
    /\ clock \in [Plays -> [began: Ticks, read: Ticks]]
    /\ \A b \in Plays : pc[b] \in {"begun", "guarded", "posted"} => clock[b].began <= now
    /\ \A b \in Plays : pc[b] = "posted" => clock[b].began <= clock[b].read /\ clock[b].read <= now
    /\ \A a \in Setters : InFlight(a) /\ req[a].type \in Windowed /\ req[a].active =>
                             req[a].period \in Periods
    /\ \A r \in limits : r.type \in Windowed => r.active /\ r.period \in Periods

LEMMA TickOrder == Ticks \subseteq Nat
BY DayAssumption DEF Ticks

LEMMA WindowTypes ==
    ASSUME CountTypes, NEW p, NEW t
    PROVE  InWindow(p, t) \subseteq Entries /\ IsFiniteSet(InWindow(p, t)) /\ Sober(InWindow(p, t))
BY FS_Subset DEF CountTypes, InWindow, Sober

LEMMA NetTypes ==
    ASSUME CountTypes, NEW type, NEW p, NEW t
    PROVE  /\ Net(type, p, t) = WeightOf(type, InWindow(p, t))
           /\ Net(type, p, t) \in Int
<1>1. Net(type, p, t) = WeightOf(type, InWindow(p, t)) BY DEF Net, WeightOf
<1> QED BY <1>1, WindowTypes, WeightRules

LEMMA StakedTypes ==
    ASSUME CountTypes, NEW p, NEW t
    PROVE  /\ Staked(p, t) = StakesOf(InWindow(p, t))
           /\ Staked(p, t) \in Nat
           /\ Net("LOSS_LIMIT", p, t) <= Staked(p, t)
<1>1. Staked(p, t) = StakesOf(InWindow(p, t)) BY DEF Staked, StakesOf, Wagers
<1> QED BY <1>1, WindowTypes, StakeRules, NetTypes, LossWithinStakes

\* What a play that settles enters, and in which counters.
Maintains(e, usd) ==
    {type \in Windowed : \/ type = "LOSS_LIMIT" /\ e.kind \in {"BET", "SPIN", "WIN", "ROLLBACK"}
                         \/ type = "DEPOSIT_LIMIT" /\ e.kind = "DEPOSIT" /\ usd # None}

LEMMA Settled ==
    ASSUME LimitTypes, CountTypes, NEW b \in Plays, Settle(b)
    PROVE  \E e \in Entries \ ledger :
              /\ e.by = b /\ e.at = clock[b].began /\ e.put = now
              /\ e.loss <= IF e.kind \in Wagers THEN e.stake ELSE 0
              /\ ledger' = ledger \union {e}
              /\ counter' = [type \in Windowed |->
                    IF type \in Maintains(e, req[b].usd) THEN Adjust(type, b, e) ELSE counter[type]]
              /\ \A type \in Windowed \ Maintains(e, req[b].usd) : Weight(type, e) = 0
<1>1. /\ pc[b] = "posted" /\ req[b] \in PlayRequest
  BY RequestsAssumption DEF Settle, CountTypes
<1>r. /\ req[b].kind \in Kinds /\ req[b].stake \in Nat /\ req[b].win \in Nat
      /\ req[b].usd \in Nat \union {None}
  <2>1. \A n \in Amounts : n \in Nat BY AmountsAssumption
  <2>2. /\ req[b].kind \in Kinds /\ req[b].stake \in Amounts \union {0}
        /\ req[b].win \in Amounts \union {0} /\ req[b].usd \in Amounts \union {None}
    BY <1>1 DEF PlayRequest
  <2> QED BY <2>1, <2>2
<1>2. PICK e \in IF req[b].kind = "ROLLBACK"
                 THEN {Entry(b, 0 - f.stake, f.by) : f \in Open}
                 ELSE {Entry(b, Loss(req[b]), None)} :
         /\ ledger' = ledger \union {e}
         /\ counter' = [counter EXCEPT
              !["LOSS_LIMIT"]    = IF e.kind \in {"BET", "SPIN", "WIN", "ROLLBACK"}
                                   THEN Adjust("LOSS_LIMIT", b, e) ELSE @,
              !["DEPOSIT_LIMIT"] = IF e.kind = "DEPOSIT" /\ req[b].usd # None
                                   THEN Adjust("DEPOSIT_LIMIT", b, e) ELSE @]
  BY DEF Settle
<1>3. \A f \in Open : f.stake \in Nat /\ f.by \in Plays BY DEF Open, CountTypes, Entries
<1>4. \E loss \in Int, undone \in Plays \union {None} :
         /\ e = Entry(b, loss, undone)
         /\ loss <= IF req[b].kind \in Wagers THEN req[b].stake ELSE 0
         /\ req[b].kind \notin {"BET", "SPIN", "WIN", "ROLLBACK"} => loss = 0
  <2>1. CASE req[b].kind = "ROLLBACK" BY <1>2, <1>3, <2>1 DEF Wagers
  <2>2. CASE req[b].kind # "ROLLBACK"
    <3>1. e = Entry(b, Loss(req[b]), None) BY <1>2, <2>2
    <3>2. /\ Loss(req[b]) \in Int
          /\ Loss(req[b]) <= IF req[b].kind \in Wagers THEN req[b].stake ELSE 0
          /\ req[b].kind \notin {"BET", "SPIN", "WIN", "ROLLBACK"} => Loss(req[b]) = 0
      BY <1>r DEF Loss, Wagers
    <3> QED BY <3>1, <3>2
  <2> QED BY <2>1, <2>2
<1>5. PICK loss \in Int, undone \in Plays \union {None} :
         /\ e = Entry(b, loss, undone)
         /\ loss <= IF req[b].kind \in Wagers THEN req[b].stake ELSE 0
         /\ req[b].kind \notin {"BET", "SPIN", "WIN", "ROLLBACK"} => loss = 0
  BY <1>4
<1>6. /\ Usd(req[b]) \in Nat
      /\ req[b].kind # "DEPOSIT" \/ req[b].usd = None => Usd(req[b]) = 0
  BY <1>r DEF Usd
<1>7. /\ e.by = b /\ e.kind = req[b].kind /\ e.at = clock[b].began /\ e.loss = loss
      /\ e.stake = req[b].stake /\ e.usd = Usd(req[b]) /\ e.put = now
  BY <1>5 DEF Entry
<1>c. clock[b].began \in Ticks BY DEF CountTypes
<1>8. e \in Entries
  BY <1>r, <1>c, <1>5, <1>6 DEF Entry, Entries, LimitTypes
<1>9. e \notin ledger BY <1>1, <1>7 DEF CountTypes
<1>10. \A type \in Windowed \ Maintains(e, req[b].usd) : Weight(type, e) = 0
  BY <1>5, <1>6, <1>7 DEF Windowed, Maintains, Weight
<1>11. counter' = [type \in Windowed |->
                     IF type \in Maintains(e, req[b].usd) THEN Adjust(type, b, e) ELSE counter[type]]
  BY <1>2 DEF CountTypes, Windowed, Maintains
<1> QED BY <1>2, <1>5, <1>7, <1>8, <1>9, <1>10, <1>11

LEMMA CountTypesInit == Init => CountTypes
BY FS_EmptySet, DayAssumption
DEF Init, CountTypes, NoCounter, NoClock, Sober, InFlight, Ticks

\* What a play's counters become.
LEMMA AdjustTypes ==
    ASSUME LimitTypes, CountTypes, NEW type \in Windowed, NEW b, NEW e \in Entries
    PROVE  Adjust(type, b, e) \in [Periods -> [start: Int \union {None}, amount: Nat]]
<1> DEFINE t == clock[b].read
           added(p) == IF SameWindow(p, e.at, t) THEN Weight(type, e) ELSE 0
<1>1. ASSUME NEW p \in Periods
      PROVE  /\ WindowStart(p, Day(now)) \in Nat
             /\ Bumped(counter[type][p].amount, Fresh(type, p, t), Net(type, p, t) + added(p),
                       Weight(type, e)) \in Nat
             /\ counter[type][p] \in [start: Int \union {None}, amount: Nat]
  <2>1. WindowStart(p, Day(now)) \in Nat BY WindowRule DEF LimitTypes
  <2>2. counter[type][p] \in [start: Int \union {None}, amount: Nat] BY DEF CountTypes
  <2>3. Net(type, p, t) \in Int /\ Weight(type, e) \in Int /\ counter[type][p].amount \in Nat
    BY <2>2, NetTypes DEF Weight, Entries
  <2>4. \A x \in Int : Floored(x) \in Nat BY DEF Floored
  <2>5. added(p) \in Int BY <2>3
  <2> HIDE DEF added
  <2> QED BY <2>1, <2>2, <2>3, <2>4, <2>5 DEF Bumped
<1> QED BY <1>1 DEF Adjust

LEMMA CountTypesStep ==
    ASSUME LimitTypes, LimitTypes', CountTypes, [Next]_vars
    PROVE  CountTypes'
<1> USE CallsAssumption
<1>n. /\ now \in Nat /\ now \in Ticks /\ Ticks \subseteq Nat /\ 0 \in Ticks
      /\ \A e \in ledger : e.at \in Nat /\ e.put \in Nat
      /\ \A b \in Plays : clock[b].began \in Nat /\ clock[b].read \in Nat
  <2>1. Ticks \subseteq Nat /\ 0 \in Ticks BY DayAssumption DEF Ticks
  <2> QED BY <2>1 DEF LimitTypes, CountTypes, Entries
\* What a step of a limit request leaves to the plays.
<1>set. ASSUME NEW a \in Setters, \E place : pc' = [pc EXCEPT ![a] = place],
               \E r : req' = [req EXCEPT ![a] = r], UNCHANGED <<now, clock, ledger>>
        PROVE  /\ \A e \in ledger' : pc'[e.by] = "done" /\ e.at <= e.put /\ e.put <= now'
               /\ \A b \in Plays : pc'[b] \in {"guarded", "posted"} => req'[b] \in PlayRequests
               /\ \A b \in Plays : pc'[b] \in {"begun", "guarded", "posted"} => clock'[b].began <= now'
               /\ \A b \in Plays : pc'[b] = "posted" =>
                     clock'[b].began <= clock'[b].read /\ clock'[b].read <= now'
  <2>1. \A b \in Plays : pc'[b] = pc[b] /\ req'[b] = req[b] BY <1>set DEF LimitTypes
  <2>2. \A e \in ledger : e.by \in Plays BY DEF CountTypes, Entries
  <2> QED BY <1>set, <2>1, <2>2 DEF CountTypes
<1>1. ASSUME NEW a \in Setters, BeginSet(a) PROVE CountTypes'
  <2>1. PICK r \in LimitRequests : Valid(r) /\ req' = [req EXCEPT ![a] = r]
    BY <1>1 DEF BeginSet
  <2>2. /\ pc' = [pc EXCEPT ![a] = "open"] /\ pc[a] = "idle"
        /\ UNCHANGED <<now, limits, counter, ledger, clock, holder>>
    BY <1>1 DEF BeginSet, Goto
  <2>3. r.type \in Windowed /\ r.active => r.period \in Periods
    BY <2>1 DEF Valid, Exclusions, Windowed
  <2>4. \A s \in Setters : InFlight(s)' /\ req'[s].type \in Windowed /\ req'[s].active =>
                              req'[s].period \in Periods
    BY <2>1, <2>2, <2>3 DEF CountTypes, LimitTypes, InFlight
  <2> QED BY <1>set, <2>1, <2>2, <2>4 DEF CountTypes
<1>2. ASSUME NEW a \in Setters, LockPlayer(a) PROVE CountTypes'
  <2>1. /\ pc[a] = "open" /\ pc' = [pc EXCEPT ![a] = "locked"] /\ req' = req
        /\ UNCHANGED <<now, limits, counter, ledger, clock, holder>>
    BY <1>2 DEF LockPlayer, Goto
  <2>2. req' = [req EXCEPT ![a] = req[a]] BY <2>1 DEF LimitTypes
  <2>3. \A s \in Setters : InFlight(s)' => InFlight(s) BY <2>1 DEF LimitTypes, InFlight
  <2> QED BY <1>set, <2>1, <2>2, <2>3 DEF CountTypes
\* A limit request that ends.
<1>end. ASSUME NEW a \in Setters, Reply(a)
        PROVE  \A s \in Setters : InFlight(s)' => InFlight(s) /\ req'[s] = req[s]
  BY <1>end DEF Reply, Return, Goto, LimitTypes, InFlight
<1>3. ASSUME NEW a \in Setters, RecordLimit(a) PROVE CountTypes'
  <2>1. /\ pc[a] = "locked" /\ Reply(a) /\ limits' = limits \union {LimitRow(a)}
        /\ UNCHANGED <<now, counter, ledger, clock, holder>> /\ ~ Misshapen(a)
    BY <1>3 DEF RecordLimit
  <2>2. LimitRow(a).type \in Windowed => LimitRow(a).active /\ LimitRow(a).period \in Periods
    BY <2>1 DEF LimitRow, Misshapen, CountTypes, InFlight
  <2> HIDE DEF LimitRow
  <2>3. \A r \in limits' : r.type \in Windowed => r.active /\ r.period \in Periods
    BY <2>1, <2>2 DEF CountTypes
  <2>4. pc' = [pc EXCEPT ![a] = "done"] /\ req' = [req EXCEPT ![a] = None]
    BY <2>1 DEF Reply, Return, Goto
  <2> QED BY <1>set, <1>end, <2>1, <2>3, <2>4 DEF CountTypes
<1>4. ASSUME NEW a \in Setters, RefuseLimit(a) \/ ReplayLimit(a) PROVE CountTypes'
  <2>1. Reply(a) /\ UNCHANGED <<now, limits, counter, ledger, clock, holder>>
    BY <1>4 DEF RefuseLimit, ReplayLimit
  <2>2. pc' = [pc EXCEPT ![a] = "done"] /\ req' = [req EXCEPT ![a] = None]
    BY <2>1 DEF Reply, Return, Goto
  <2> QED BY <1>set, <1>end, <2>1, <2>2 DEF CountTypes
\* What a step of a play that is not done leaves to the limits and to other plays.
<1>play. ASSUME NEW b \in Plays, pc[b] # "done", \E place : pc' = [pc EXCEPT ![b] = place],
                req' = req \/ \E r : req' = [req EXCEPT ![b] = r]
         PROVE  /\ \A e \in ledger : pc'[e.by] = "done"
                /\ \A d \in Plays : d # b => pc'[d] = pc[d] /\ req'[d] = req[d]
                /\ \A s \in Setters : pc'[s] = pc[s] /\ req'[s] = req[s]
  BY <1>play DEF CountTypes, LimitTypes, Entries
<1>5. ASSUME NEW b \in Plays, BeginPlay(b) PROVE CountTypes'
  <2>1. /\ pc[b] = "idle" /\ pc' = [pc EXCEPT ![b] = "begun"]
        /\ clock' = [clock EXCEPT ![b].began = now]
        /\ UNCHANGED <<now, limits, counter, ledger, req, holder>>
    BY <1>5 DEF BeginPlay, Goto
  <2>2. pc'[b] = "begun" BY <2>1 DEF LimitTypes
  <2>3. clock' \in [Plays -> [began: Ticks, read: Ticks]] /\ clock'[b].began = now
        /\ \A d \in Plays : d # b => clock'[d] = clock[d]
    BY <1>n, <2>1 DEF CountTypes
  <2> QED BY <1>n, <1>play, <2>1, <2>2, <2>3 DEF CountTypes, InFlight
<1>6. ASSUME NEW b \in Plays, Guard(b) PROVE CountTypes'
  <2>1. PICK r \in PlayRequests :
           /\ req' = [req EXCEPT ![b] = r] /\ pc' = [pc EXCEPT ![b] = Verdict(b, r)]
           /\ IF Verdict(b, r) = "guarded"
              THEN holder' = b /\ UNCHANGED clock
              ELSE holder' = None /\ clock' = [clock EXCEPT ![b] = NoClock]
    BY <1>6 DEF Guard, Goto
  <2>2. pc[b] = "begun" /\ UNCHANGED <<now, limits, counter, ledger>> BY <1>6 DEF Guard
  <2>3. req'[b] = r BY <2>1 DEF LimitTypes
  <2>4. pc'[b] \in {"guarded", "excluded", "overloss", "overdeposit"}
    BY <2>1, <2>2 DEF LimitTypes, Verdict
  <2>5. /\ holder' \in Plays \union {None}
        /\ clock' \in [Plays -> [began: Ticks, read: Ticks]]
        /\ \A d \in Plays : d # b => clock'[d] = clock[d]
        /\ pc'[b] = "guarded" => clock'[b] = clock[b]
    <3>1. NoClock \in [began: Ticks, read: Ticks] BY <1>n DEF NoClock
    <3>2. pc'[b] = Verdict(b, r) BY <2>1 DEF LimitTypes
    <3> HIDE DEF NoClock
    <3>3. CASE Verdict(b, r) = "guarded" BY <2>1, <3>3 DEF CountTypes
    <3>4. CASE Verdict(b, r) # "guarded" BY <2>1, <3>1, <3>2, <3>4 DEF CountTypes
    <3> QED BY <3>3, <3>4
  <2> QED BY <1>n, <1>play, <2>1, <2>2, <2>3, <2>4, <2>5 DEF CountTypes, InFlight
<1>7. ASSUME NEW b \in Plays, Post(b) PROVE CountTypes'
  <2>1. /\ pc[b] = "guarded" /\ pc' = [pc EXCEPT ![b] = "posted"]
        /\ clock' = [clock EXCEPT ![b].read = now]
        /\ UNCHANGED <<now, limits, counter, ledger, req, holder>>
    BY <1>7 DEF Post, Goto
  <2>2. /\ clock' \in [Plays -> [began: Ticks, read: Ticks]]
        /\ clock'[b].began = clock[b].began /\ clock'[b].read = now
        /\ \A d \in Plays : d # b => clock'[d] = clock[d]
    BY <1>n, <2>1 DEF CountTypes
  <2> QED BY <1>n, <1>play, <2>1, <2>2 DEF CountTypes, InFlight
\* A play that ends.
<1>done. ASSUME NEW b \in Plays, Leave(b)
         PROVE  /\ pc' = [pc EXCEPT ![b] = "done"] /\ pc'[b] = "done"
                /\ req' = [req EXCEPT ![b] = None] /\ holder' = None
                /\ clock' \in [Plays -> [began: Ticks, read: Ticks]]
                /\ \A d \in Plays : d # b => clock'[d] = clock[d]
  BY <1>n, <1>done DEF Leave, Return, Goto, NoClock, CountTypes, LimitTypes
<1>over. ASSUME NEW b \in Plays, Leave(b), pc[b] # "done"
         PROVE  /\ \A d \in Plays : pc'[d] # "done" =>
                      pc'[d] = pc[d] /\ req'[d] = req[d] /\ clock'[d] = clock[d]
                /\ \A s \in Setters : pc'[s] = pc[s] /\ req'[s] = req[s]
                /\ \A e \in ledger : pc'[e.by] = "done"
  BY <1>play, <1>done, <1>over
<1>8. ASSUME NEW b \in Plays, Settle(b) PROVE CountTypes'
  <2>1. Leave(b) /\ UNCHANGED <<now, limits>> /\ pc[b] = "posted" BY <1>8 DEF Settle
  <2>2. PICK e \in Entries \ ledger :
           /\ e.by = b /\ e.at = clock[b].began /\ e.put = now
           /\ e.loss <= IF e.kind \in Wagers THEN e.stake ELSE 0
           /\ ledger' = ledger \union {e}
           /\ counter' = [type \in Windowed |->
                 IF type \in Maintains(e, req[b].usd) THEN Adjust(type, b, e) ELSE counter[type]]
    BY <1>8, Settled
  <2>3. counter' \in [Windowed -> [Periods -> [start: Int \union {None}, amount: Nat]]]
    <3>1. \A type \in Windowed :
             /\ Adjust(type, b, e) \in [Periods -> [start: Int \union {None}, amount: Nat]]
             /\ counter[type] \in [Periods -> [start: Int \union {None}, amount: Nat]]
      BY AdjustTypes DEF CountTypes
    <3> QED BY <2>2, <3>1
  <2>4. ledger' \subseteq Entries /\ IsFiniteSet(ledger') /\ Sober(ledger')
    BY <2>2, FS_AddElement DEF CountTypes, Sober
  <2>5. \A d \in ledger' : pc'[d.by] = "done" BY <1>over, <1>done, <2>1, <2>2
  <2>6. e.at <= e.put BY <2>1, <2>2 DEF CountTypes
  <2>7. \A d \in ledger' : d.at <= d.put /\ d.put <= now'
    BY <1>n, <2>1, <2>2, <2>6 DEF CountTypes
  <2>8. /\ \A d \in Plays : pc'[d] # "done" =>
              pc'[d] = pc[d] /\ req'[d] = req[d] /\ clock'[d] = clock[d]
        /\ \A s \in Setters : pc'[s] = pc[s] /\ req'[s] = req[s]
    BY <1>over, <2>1
  <2> QED BY <1>done, <2>1, <2>3, <2>4, <2>5, <2>7, <2>8 DEF CountTypes, InFlight
<1>9. ASSUME NEW b \in Plays, Undo(b) PROVE CountTypes'
  <2>1. /\ Leave(b) /\ pc[b] \in {"guarded", "posted"}
        /\ UNCHANGED <<now, limits, counter, ledger>>
    BY <1>9 DEF Undo
  <2>2. /\ \A d \in Plays : pc'[d] # "done" =>
              pc'[d] = pc[d] /\ req'[d] = req[d] /\ clock'[d] = clock[d]
        /\ \A s \in Setters : pc'[s] = pc[s] /\ req'[s] = req[s]
        /\ \A e \in ledger : pc'[e.by] = "done"
    BY <1>over, <2>1
  <2> QED BY <1>done, <2>1, <2>2 DEF CountTypes, InFlight
<1>10. ASSUME Tick PROVE CountTypes'
  <2>1. now' = now + 1 /\ UNCHANGED <<limits, counter, ledger, pc, req, clock, holder>>
    BY <1>10 DEF Tick
  <2> QED BY <1>n, <2>1 DEF CountTypes, InFlight
<1>11. ASSUME UNCHANGED vars PROVE CountTypes'
  BY <1>11 DEF vars, CountTypes, InFlight
<1> QED BY <1>1, <1>2, <1>3, <1>4, <1>5, <1>6, <1>7, <1>8, <1>9, <1>10, <1>11 DEF Next, Finished

\* Whatever limits, plays and windows, every variable keeps its type: no counter is
\* negative, and the aggregates it is compared with are sums of a finite ledger.
THEOREM GamingTypes == Spec => []TypeOK
<1>1. Init => LimitTypes /\ CountTypes BY TypesInit, CountTypesInit
<1>2. (LimitTypes /\ CountTypes) /\ [Next]_vars => (LimitTypes /\ CountTypes)'
  BY TypesStep, CountTypesStep
<1>3. LimitTypes /\ CountTypes => TypeOK BY DEF LimitTypes, CountTypes, TypeOK, Entries
<1> QED BY <1>1, <1>2, <1>3, PTL DEF Spec

-----------------------------------------------------------------------------
(* The counters and the ledger.                                            *)

\* A row in force at an instant, of a type.
InForce(type, t) == \E q \in limits : q.type = type /\ q.effective <= t

RanksInv == \E n \in Nat : \A r \in limits : r.rank <= n

LEMMA RanksStep ==
    ASSUME LimitTypes, RanksInv, [Next]_vars
    PROVE  RanksInv'
<1>t. \A r \in limits : r.rank \in Nat BY DEF LimitTypes, Row
<1>n. PICK n \in Nat : \A r \in limits : r.rank <= n BY DEF RanksInv
<1>1. ASSUME NEW a \in Setters, RecordLimit(a) PROVE RanksInv'
  <2>1. LimitRow(a).rank \in Nat /\ limits' = limits \union {LimitRow(a)}
    BY <1>1, Recorded DEF Row
  <2> HIDE DEF LimitRow
  <2>2. n + LimitRow(a).rank \in Nat /\ \A r \in limits' : r.rank <= n + LimitRow(a).rank
    BY <1>t, <1>n, <2>1
  <2> QED BY <2>2 DEF RanksInv
<1>2. ASSUME limits' = limits PROVE RanksInv' BY <1>2 DEF RanksInv
<1> QED BY <1>1, <1>2, StepKinds DEF BeginSet, LockPlayer, Ends, Passes, Leaves

\* Where a row is in force, one governs.
LEMMA SomeGoverns ==
    ASSUME LimitTypes, RanksInv, NEW type, NEW t, InForce(type, t)
    PROVE  Governing(type, t) # {}
<1> DEFINE rows == {r \in limits : r.type = type /\ r.effective <= t}
           S == {r.rank : r \in rows}
<1>1. PICK n \in Nat : \A r \in limits : r.rank <= n BY DEF RanksInv
<1>2. S \subseteq Nat /\ \A x \in S : x <= n BY <1>1 DEF LimitTypes, Row
<1>3. S # {} BY DEF InForce
<1>4. PICK m \in S : \A x \in S : x <= m
  <2> HIDE DEF S
  <2> QED BY <1>1, <1>2, <1>3, LargestBelow
<1>5. PICK r \in rows : r.rank = m BY <1>4
<1>6. r \in Governing(type, t) BY <1>4, <1>5 DEF Governing, Latest
<1> QED BY <1>6

\* The period of a type, once limits have it and no other.
PeriodOf(type, p) == SteadyPeriod(type) /\ \E r \in limits : r.type = type /\ r.period = p

\* No transaction of this window spans its start.
Whole(p) == \A e \in ledger : SameWindow(p, e.put, now) => ~ Astray(p, e)

\* A counter has not run ahead of its window, and exists only where a limit is in
\* force.  While it is fresh, it has no less than the ledger's net, if it has been
\* the counter that governs all along and nothing disturbed it, and no more than the
\* stakes, if no transaction spans the start of the window.
CountsInv ==
    \A type \in Windowed, p \in Periods :
       /\ counter[type][p].start # None =>
             counter[type][p].start <= WindowStart(p, Day(now)) /\ InForce(type, now)
       /\ Fresh(type, p, now) =>
             /\ PeriodOf(type, p) /\ Undisturbed(type, p) =>
                   Net(type, p, now) <= counter[type][p].amount
             /\ type = "LOSS_LIMIT" /\ Whole(p) => counter[type][p].amount <= Staked(p, now)

LEMMA CountsInit == Init => CountsInv
<1> SUFFICES ASSUME Init, NEW type \in Windowed, NEW p \in Periods
             PROVE  counter[type][p].start = None /\ ~ Fresh(type, p, now)
  BY DEF CountsInv
<1>1. counter[type][p].start = None BY DEF Init, NoCounter
<1>2. WindowStart(p, Day(now)) \in Nat BY TypesInit, WindowRule DEF LimitTypes
<1> QED BY <1>1, <1>2, NoneAssumption DEF Fresh

\* The aggregates of the current window, before and after a step.
LEMMA Aggregates ==
    ASSUME NEW type, NEW p
    PROVE  /\ Net(type, p, now) = WeightOf(type, InWindow(p, now))
           /\ Net(type, p, now)' = WeightOf(type, InWindow(p, now)')
           /\ Staked(p, now) = StakesOf(InWindow(p, now))
           /\ Staked(p, now)' = StakesOf(InWindow(p, now)')
<1>1. Net(type, p, now) = WeightOf(type, InWindow(p, now)) BY DEF Net, WeightOf
<1>2. Net(type, p, now)' = WeightOf(type, InWindow(p, now)')
  BY DEF Net, WeightOf, MapThenSumSet, MapThenFoldSet
<1>3. Staked(p, now) = StakesOf(InWindow(p, now)) BY DEF Staked, StakesOf, Wagers
<1>4. Staked(p, now)' = StakesOf(InWindow(p, now)')
  BY DEF Staked, StakesOf, Wagers, MapThenSumSet, MapThenFoldSet
<1> QED BY <1>1, <1>2, <1>3, <1>4

\* Unless the clock or the ledger moves, the counters mean what they meant; and a limit
\* that is recorded disturbs more, never less.
LEMMA CountsStay ==
    ASSUME UNCHANGED <<now, counter, ledger>>, NEW type, NEW p
    PROVE  /\ Net(type, p, now)' = Net(type, p, now)
           /\ Staked(p, now)' = Staked(p, now)
           /\ Fresh(type, p, now)' <=> Fresh(type, p, now)
           /\ Whole(p)' <=> Whole(p)
           /\ limits \subseteq limits' => (Undisturbed(type, p)' => Undisturbed(type, p))
<1>1. InWindow(p, now)' = InWindow(p, now) BY DEF InWindow
<1>2. Net(type, p, now)' = Net(type, p, now) /\ Staked(p, now)' = Staked(p, now)
  BY <1>1, Aggregates
<1>3. (Fresh(type, p, now)' <=> Fresh(type, p, now)) /\ (Whole(p)' <=> Whole(p))
  BY DEF Fresh, Whole
<1>4. limits \subseteq limits' => (Undisturbed(type, p)' => Undisturbed(type, p))
  BY DEF Undisturbed, Overtaken
<1> QED BY <1>2, <1>3, <1>4

\* The aggregates of a window after a play that settles, and what it leaves undisturbed.
LEMMA SettledSums ==
    ASSUME CountTypes, NEW e \in Entries \ ledger, ledger' = ledger \union {e}, e.put = now,
           now' = now, limits' = limits, NEW type, NEW p
    PROVE  /\ Net(type, p, now)' =
                 Net(type, p, now) + (IF SameWindow(p, e.at, now) THEN Weight(type, e) ELSE 0)
           /\ Staked(p, now)' =
                 Staked(p, now) + (IF SameWindow(p, e.at, now) /\ e.kind \in Wagers
                                   THEN e.stake ELSE 0)
           /\ Whole(p)' => Whole(p) /\ SameWindow(p, e.at, now)
           /\ Undisturbed(type, p)' => /\ Undisturbed(type, p) /\ SameWindow(p, e.at, now)
                                       /\ ~ Overtaken(type, e)
<1>1. InWindow(p, now) \subseteq Entries /\ IsFiniteSet(InWindow(p, now)) BY WindowTypes
<1>2. /\ Net(type, p, now)' =
            Net(type, p, now) + (IF SameWindow(p, e.at, now) THEN Weight(type, e) ELSE 0)
      /\ Staked(p, now)' =
            Staked(p, now) + (IF SameWindow(p, e.at, now) /\ e.kind \in Wagers THEN e.stake ELSE 0)
  <2>1. CASE SameWindow(p, e.at, now)
    <3>1. InWindow(p, now)' = InWindow(p, now) \union {e} /\ e \notin InWindow(p, now)
      BY <2>1 DEF InWindow
    <3>2. IF SameWindow(p, e.at, now) /\ e.kind \in Wagers
          THEN e.kind \in Wagers ELSE e.kind \notin Wagers
      BY <2>1
    <3> QED BY <1>1, <2>1, <3>1, <3>2, Aggregates, WeightRules, StakeRules
  <2>2. CASE ~ SameWindow(p, e.at, now)
    <3>1. InWindow(p, now)' = InWindow(p, now) BY <2>2 DEF InWindow
    <3>2. Net(type, p, now)' = Net(type, p, now) /\ Staked(p, now)' = Staked(p, now)
      BY <3>1, Aggregates
    <3>3. Net(type, p, now) \in Int /\ Staked(p, now) \in Nat BY NetTypes, StakedTypes
    <3> QED BY <2>2, <3>2, <3>3
  <2> QED BY <2>1, <2>2
<1>3. SameWindow(p, e.put, now) BY DEF SameWindow
<1>4. Whole(p)' => Whole(p) /\ SameWindow(p, e.at, now)
  BY <1>3 DEF Whole, Astray
<1>5. Undisturbed(type, p)' => /\ Undisturbed(type, p) /\ SameWindow(p, e.at, now)
                               /\ ~ Overtaken(type, e)
  BY <1>3 DEF Undisturbed, Astray, Overtaken
<1> QED BY <1>2, <1>4, <1>5

\* What is read between two instants of a window is of that window.
LEMMA ReadBetween ==
    ASSUME CountTypes, NEW type, NEW p \in Periods, NEW t \in Ticks, NEW u \in Ticks, NEW v \in Ticks,
           t <= u, u <= v, SameWindow(p, t, v)
    PROVE  /\ SameWindow(p, u, v) /\ SameWindow(p, t, u)
           /\ Fresh(type, p, u) <=> Fresh(type, p, v)
           /\ Net(type, p, u) = Net(type, p, v)
<1>1. /\ WindowStart(p, Day(t)) \in Nat /\ WindowStart(p, Day(u)) \in Nat
      /\ WindowStart(p, Day(v)) \in Nat
  BY WindowRule
<1>2. WindowStart(p, Day(t)) <= WindowStart(p, Day(u)) /\ WindowStart(p, Day(u)) <= WindowStart(p, Day(v))
  BY WindowsFollow
<1>3. WindowStart(p, Day(u)) = WindowStart(p, Day(v)) /\ WindowStart(p, Day(t)) = WindowStart(p, Day(u))
  BY <1>1, <1>2 DEF SameWindow
<1>4. InWindow(p, u) = InWindow(p, v) BY <1>3 DEF InWindow, SameWindow
<1> QED BY <1>3, <1>4, NetTypes DEF SameWindow, Fresh

LEMMA CountsStep ==
    ASSUME LimitTypes, LimitTypes', CountTypes, RanksInv, CountsInv, [Next]_vars
    PROVE  CountsInv'
<1>1. ASSUME NEW a \in Setters, RecordLimit(a) PROVE CountsInv'
  <2>1. limits' = limits \union {LimitRow(a)} /\ UNCHANGED <<now, counter, ledger>>
    BY <1>1 DEF RecordLimit
  <2> HIDE DEF LimitRow
  <2> SUFFICES ASSUME NEW type \in Windowed, NEW p \in Periods, counter[type][p].start # None
               PROVE  /\ InForce(type, now)' /\ (PeriodOf(type, p)' => PeriodOf(type, p))
                      /\ InForce(type, now) => InForce(type, now)'
    <3>1. \A type, p : /\ Net(type, p, now)' = Net(type, p, now) /\ Staked(p, now)' = Staked(p, now)
                       /\ Fresh(type, p, now)' <=> Fresh(type, p, now)
                       /\ Whole(p)' <=> Whole(p)
                       /\ Undisturbed(type, p)' => Undisturbed(type, p)
      BY <2>1, CountsStay
    <3>2. \A p \in Periods : WindowStart(p, Day(now)) # None
      BY WindowRule, NoneAssumption DEF LimitTypes
    <3> QED BY <2>1, <3>1, <3>2 DEF CountsInv, Fresh
  <2>2. InForce(type, now) BY DEF CountsInv
  <2>3. InForce(type, now)' BY <2>1, <2>2 DEF InForce
  <2>4. PeriodOf(type, p)' => PeriodOf(type, p)
    BY <2>1, <2>2 DEF PeriodOf, SteadyPeriod, InForce
  <2> QED BY <2>2, <2>3, <2>4
<1>2. ASSUME NEW b \in Plays, Settle(b) PROVE CountsInv'
  <2>1. UNCHANGED <<now, limits>> /\ pc[b] = "posted" BY <1>2 DEF Settle
  <2>2. PICK e \in Entries \ ledger :
           /\ e.at = clock[b].began /\ e.put = now
           /\ e.loss <= IF e.kind \in Wagers THEN e.stake ELSE 0
           /\ ledger' = ledger \union {e}
           /\ counter' = [type \in Windowed |->
                 IF type \in Maintains(e, req[b].usd) THEN Adjust(type, b, e) ELSE counter[type]]
           /\ \A type \in Windowed \ Maintains(e, req[b].usd) : Weight(type, e) = 0
    BY <1>2, Settled
  <2>t. /\ clock[b].began \in Ticks /\ clock[b].read \in Ticks /\ now \in Ticks
        /\ clock[b].began <= clock[b].read /\ clock[b].read <= now
        /\ clock[b].began \in Nat /\ clock[b].read \in Nat /\ now \in Nat
        /\ \A r \in limits : r.effective \in Nat
    BY <2>1, TickOrder, RowTypes DEF CountTypes, LimitTypes
  <2> SUFFICES ASSUME NEW type \in Windowed, NEW p \in Periods
               PROVE  /\ counter'[type][p].start # None =>
                            counter'[type][p].start <= WindowStart(p, Day(now)) /\ InForce(type, now)
                      /\ Fresh(type, p, now)' =>
                            /\ PeriodOf(type, p) /\ Undisturbed(type, p)' =>
                                  Net(type, p, now)' <= counter'[type][p].amount
                            /\ type = "LOSS_LIMIT" /\ Whole(p)' =>
                                  counter'[type][p].amount <= Staked(p, now)'
    BY <2>1 DEF CountsInv, InForce, PeriodOf, SteadyPeriod
  <2> DEFINE c == counter[type][p].amount
             w == Weight(type, e)
             n == Net(type, p, now)
             k == Staked(p, now)
             st == IF e.kind \in Wagers THEN e.stake ELSE 0
             same == SameWindow(p, e.at, now)
             t == clock[b].read
             nread == Net(type, p, t) + (IF SameWindow(p, e.at, t) THEN w ELSE 0)
  <2>3. /\ Net(type, p, now)' = n + (IF same THEN w ELSE 0)
        /\ Staked(p, now)' = k + (IF same THEN st ELSE 0)
        /\ Whole(p)' => Whole(p) /\ same
        /\ Undisturbed(type, p)' => Undisturbed(type, p) /\ same /\ ~ Overtaken(type, e)
    BY <2>1, <2>2, SettledSums
  <2>4. /\ c \in Nat /\ n \in Int /\ k \in Nat /\ w \in Int /\ st \in Nat
        /\ type = "LOSS_LIMIT" => n <= k /\ w <= st
    <3>1. c \in Nat BY DEF CountTypes
    <3>2. w \in Int /\ st \in Nat /\ (type = "LOSS_LIMIT" => w <= st)
      BY <2>2 DEF Weight, Entries
    <3>3. type = "LOSS_LIMIT" => n <= k BY StakedTypes
    <3> QED BY <3>1, <3>2, <3>3, NetTypes, StakedTypes
  <2>5. /\ counter[type][p].start # None =>
              counter[type][p].start <= WindowStart(p, Day(now)) /\ InForce(type, now)
        /\ Fresh(type, p, now) =>
              /\ PeriodOf(type, p) /\ Undisturbed(type, p) => n <= c
              /\ type = "LOSS_LIMIT" /\ Whole(p) => c <= k
    BY DEF CountsInv
  <2>6. Fresh(type, p, now)' <=> counter'[type][p].start = WindowStart(p, Day(now))
    BY <2>1 DEF Fresh
  <2>7. WindowStart(p, Day(now)) \in Nat BY WindowRule DEF LimitTypes
  \* Within a window, the counter is read as of the instant at which it is written.
  <2>s. same => (Fresh(type, p, t) <=> Fresh(type, p, now)) /\ nread = n + w
    BY <2>2, <2>t, ReadBetween
  <2>8. ASSUME type \in Maintains(e, req[b].usd), \E r \in Ceiling(type, clock[b].began) : r.period = p
        PROVE  /\ counter'[type][p].start = WindowStart(p, Day(now))
               /\ counter'[type][p].amount = Bumped(c, Fresh(type, p, t), nread, w)
               /\ InForce(type, now)
    <3>1. counter'[type][p] = Adjust(type, b, e)[p] BY <2>2, <2>8
    <3>2. Adjust(type, b, e)[p] = [start |-> WindowStart(p, Day(now)),
                                   amount |-> Bumped(c, Fresh(type, p, t), nread, w)]
      BY <2>8 DEF Adjust
    <3>3. PICK r \in limits : r.type = type /\ r.effective <= clock[b].began
      BY <2>8 DEF Ceiling, Governing, Latest
    <3>4. r.effective <= now BY <2>t, <3>3
    <3>5. InForce(type, now) BY <3>3, <3>4 DEF InForce
    <3> QED BY <3>1, <3>2, <3>5
  <2>9. ASSUME ~ (type \in Maintains(e, req[b].usd) /\ \E r \in Ceiling(type, clock[b].began) : r.period = p)
        PROVE  /\ counter'[type][p] = counter[type][p]
               /\ Fresh(type, p, now) /\ PeriodOf(type, p) /\ ~ Overtaken(type, e) => w = 0
    <3>1. CASE type \notin Maintains(e, req[b].usd) BY <2>2, <3>1
    <3>2. CASE type \in Maintains(e, req[b].usd)
      <4>1. counter'[type][p] = counter[type][p] BY <2>2, <2>9, <3>2 DEF Adjust
      <4>2. ASSUME Fresh(type, p, now), PeriodOf(type, p), ~ Overtaken(type, e) PROVE FALSE
        <5>1. counter[type][p].start # None BY <2>7, <4>2, NoneAssumption DEF Fresh
        <5>2. PICK q \in limits : q.type = type /\ q.effective <= now
          BY <2>5, <5>1 DEF InForce
        <5>3. q.effective <= clock[b].began BY <2>2, <2>t, <4>2, <5>2 DEF Overtaken
        <5>4. InForce(type, clock[b].began) BY <5>2, <5>3 DEF InForce
        <5>5. PICK r \in Governing(type, clock[b].began) : TRUE BY <5>4, SomeGoverns
        <5>6. r \in limits /\ r.type = type BY <5>5 DEF Governing, Latest
        <5>7. r \in Ceiling(type, clock[b].began) BY <5>5, <5>6 DEF Ceiling, CountTypes
        <5>8. r.period = p BY <4>2, <5>6 DEF PeriodOf, SteadyPeriod
        <5> QED BY <2>9, <3>2, <5>7, <5>8
      <4> QED BY <4>1, <4>2
    <3> QED BY <3>1, <3>2
  <2> HIDE DEF c, w, n, k, st, same, t, nread
  <2>10. CASE type \in Maintains(e, req[b].usd) /\ \E r \in Ceiling(type, clock[b].began) : r.period = p
    <3> DEFINE a == counter'[type][p].amount
    <3>1. counter'[type][p].start <= WindowStart(p, Day(now)) /\ InForce(type, now)
      BY <2>7, <2>8, <2>10
    <3>2. ASSUME same
          PROVE  /\ PeriodOf(type, p) /\ Undisturbed(type, p) => n + w <= a
                 /\ type = "LOSS_LIMIT" /\ Whole(p) => a <= k + st
      <4>0. a = Bumped(c, Fresh(type, p, now), n + w, w)
        BY <2>8, <2>10, <2>s, <3>2 DEF Bumped
      <4>1. CASE Fresh(type, p, now)
        <5>1. a = Floored(c + w) BY <4>0, <4>1 DEF Bumped
        <5>2. /\ PeriodOf(type, p) /\ Undisturbed(type, p) => n <= c
              /\ type = "LOSS_LIMIT" /\ Whole(p) => c <= k
          BY <2>5, <4>1
        <5> HIDE DEF a
        <5> QED BY <2>4, <5>1, <5>2 DEF Floored
      <4>2. CASE ~ Fresh(type, p, now)
        <5>1. a = Floored(n + w) BY <4>0, <4>2 DEF Bumped
        <5> HIDE DEF a
        <5> QED BY <2>4, <5>1 DEF Floored
      <4> QED BY <4>1, <4>2
    <3> QED BY <2>3, <3>1, <3>2
  <2>11. CASE ~ (type \in Maintains(e, req[b].usd) /\ \E r \in Ceiling(type, clock[b].began) : r.period = p)
    <3>1. counter'[type][p] = counter[type][p] /\ (Fresh(type, p, now)' <=> Fresh(type, p, now))
      BY <2>6, <2>9, <2>11 DEF Fresh
    <3>2. counter'[type][p].amount = c BY <3>1 DEF c
    <3>3. counter'[type][p].start = counter[type][p].start BY <3>1
    <3>4. Fresh(type, p, now) /\ PeriodOf(type, p) /\ Undisturbed(type, p)' =>
             same /\ n + w <= c
      BY <2>3, <2>4, <2>5, <2>9, <2>11
    <3>5. Fresh(type, p, now) /\ type = "LOSS_LIMIT" /\ Whole(p)' => same /\ c <= k + st
      BY <2>3, <2>4, <2>5
    <3> QED BY <2>3, <2>5, <3>1, <3>2, <3>3, <3>4, <3>5
  <2> QED BY <2>10, <2>11
<1>3. ASSUME Tick PROVE CountsInv'
  <2>1. now \in Ticks /\ now' \in Ticks /\ now' = now + 1 /\ UNCHANGED <<limits, counter, ledger>>
    BY <1>3 DEF Tick, LimitTypes
  <2>2. now \in Nat /\ now <= now' BY <2>1, DayAssumption DEF Ticks
  <2> SUFFICES ASSUME NEW type \in Windowed, NEW p \in Periods, counter[type][p].start # None
               PROVE  /\ counter[type][p].start <= WindowStart(p, Day(now')) /\ InForce(type, now)'
                      /\ Fresh(type, p, now)' =>
                            /\ PeriodOf(type, p) /\ Undisturbed(type, p)' =>
                                  Net(type, p, now)' <= counter[type][p].amount
                            /\ type = "LOSS_LIMIT" /\ Whole(p)' =>
                                  counter[type][p].amount <= Staked(p, now)'
    <3>1. \A p \in Periods : WindowStart(p, Day(now')) # None
      BY <2>1, WindowRule, NoneAssumption
    <3>2. \A type, p : PeriodOf(type, p)' <=> PeriodOf(type, p)
      BY <2>1 DEF PeriodOf, SteadyPeriod
    <3> QED BY <2>1, <3>1, <3>2 DEF CountsInv, Fresh
  <2>3. counter[type][p].start \in Int BY DEF CountTypes
  <2>4. /\ WindowStart(p, Day(now)) \in Nat /\ WindowStart(p, Day(now')) \in Nat
        /\ WindowStart(p, Day(now)) <= WindowStart(p, Day(now'))
    BY <2>1, <2>2, WindowRule, WindowsFollow
  <2>5. counter[type][p].start <= WindowStart(p, Day(now)) /\ InForce(type, now)
    BY DEF CountsInv
  <2>6. counter[type][p].start <= WindowStart(p, Day(now')) BY <2>3, <2>4, <2>5
  <2>7. InForce(type, now)'
    <3>1. \A r \in limits : r.effective \in Nat BY DEF LimitTypes, Row
    <3> QED BY <2>1, <2>2, <2>5, <3>1 DEF InForce
  <2>8. ASSUME Fresh(type, p, now)'
        PROVE  /\ PeriodOf(type, p) /\ Undisturbed(type, p)' =>
                     Net(type, p, now)' <= counter[type][p].amount
               /\ type = "LOSS_LIMIT" /\ Whole(p)' => counter[type][p].amount <= Staked(p, now)'
    <3>1. WindowStart(p, Day(now')) = WindowStart(p, Day(now))
      BY <2>1, <2>3, <2>4, <2>5, <2>8 DEF Fresh
    <3>2. InWindow(p, now)' = InWindow(p, now) BY <2>1, <3>1 DEF InWindow, SameWindow
    <3>3. Net(type, p, now)' = Net(type, p, now) /\ Staked(p, now)' = Staked(p, now)
      BY <3>2, Aggregates
    <3>4. Fresh(type, p, now) BY <2>1, <2>8, <3>1 DEF Fresh
    <3>5. Whole(p)' => Whole(p) BY <2>1, <3>1 DEF Whole, SameWindow, Astray
    <3>6. Undisturbed(type, p)' => Undisturbed(type, p)
      BY <2>1, <3>1 DEF Undisturbed, SameWindow, Astray, Overtaken
    <3> QED BY <3>3, <3>4, <3>5, <3>6 DEF CountsInv
  <2> QED BY <2>6, <2>7, <2>8
<1>4. ASSUME UNCHANGED <<now, limits, counter, ledger>> PROVE CountsInv'
  <2>1. \A type, p : /\ Net(type, p, now)' = Net(type, p, now) /\ Staked(p, now)' = Staked(p, now)
                     /\ Fresh(type, p, now)' <=> Fresh(type, p, now)
                     /\ Whole(p)' <=> Whole(p)
                     /\ Undisturbed(type, p)' => Undisturbed(type, p)
    BY <1>4, CountsStay
  <2>2. \A type, p : /\ PeriodOf(type, p)' <=> PeriodOf(type, p)
                     /\ InForce(type, now)' <=> InForce(type, now)
    BY <1>4 DEF PeriodOf, SteadyPeriod, InForce
  <2> QED BY <1>4, <2>1, <2>2 DEF CountsInv
<1> QED BY <1>1, <1>2, <1>3, <1>4
        DEF Next, BeginSet, LockPlayer, RefuseLimit, ReplayLimit, BeginPlay, Guard, Post, Undo,
            Finished, vars

TallyInv == LimitTypes /\ CountTypes /\ RanksInv /\ CountsInv

LEMMA TallyInvariant == Spec => []TallyInv
<1>1. Init => TallyInv
  <2>1. Init => RanksInv BY DEF Init, RanksInv
  <2> QED BY <2>1, TypesInit, CountTypesInit, CountsInit DEF TallyInv
<1>2. TallyInv /\ [Next]_vars => TallyInv'
  BY TypesStep, CountTypesStep, RanksStep, CountsStep DEF TallyInv
<1> QED BY <1>1, <1>2, PTL DEF Spec

\* What a guard compares with the limit that governs.
LEMMA GuardedAmount ==
    ASSUME TallyInv, NEW type \in Windowed, NEW t, NEW r \in Ceiling(type, t)
    PROVE  /\ Accumulated(type, r.period, now) \in Nat /\ r.amount \in Nat
           /\ SteadyPeriod(type) /\ Undisturbed(type, r.period) =>
                 Net(type, r.period, now) <= Accumulated(type, r.period, now)
           /\ type = "LOSS_LIMIT" /\ Whole(r.period) =>
                 Accumulated(type, r.period, now) <= Staked(r.period, now)
<1> USE DEF TallyInv
<1> DEFINE p == r.period
<1>1. r \in limits /\ r.type = type BY DEF Ceiling, Governing, Latest
<1>2. p \in Periods BY <1>1 DEF CountTypes
<1>3. r.amount \in Nat BY <1>1, RowTypes
<1>4. SteadyPeriod(type) => PeriodOf(type, p) BY <1>1 DEF PeriodOf
<1>5. /\ Net(type, p, now) \in Int /\ Staked(p, now) \in Nat
      /\ type = "LOSS_LIMIT" => Net(type, p, now) <= Staked(p, now)
  BY NetTypes, StakedTypes
<1>6. counter[type][p].amount \in Nat BY <1>2 DEF CountTypes
<1>7. Fresh(type, p, now) =>
         /\ PeriodOf(type, p) /\ Undisturbed(type, p) => Net(type, p, now) <= counter[type][p].amount
         /\ type = "LOSS_LIMIT" /\ Whole(p) => counter[type][p].amount <= Staked(p, now)
  BY <1>2 DEF CountsInv
<1> HIDE DEF p
<1>8. CASE Fresh(type, p, now)
  <2>1. Accumulated(type, p, now) = counter[type][p].amount BY <1>8 DEF Accumulated
  <2> QED BY <1>3, <1>4, <1>6, <1>7, <1>8, <2>1 DEF p
<1>9. CASE ~ Fresh(type, p, now)
  <2>1. Accumulated(type, p, now) = Floored(Net(type, p, now)) BY <1>9 DEF Accumulated
  <2>2. /\ Accumulated(type, p, now) \in Nat
        /\ Net(type, p, now) <= Accumulated(type, p, now)
        /\ type = "LOSS_LIMIT" => Accumulated(type, p, now) <= Staked(p, now)
    BY <1>5, <2>1 DEF Floored
  <2> QED BY <1>3, <2>2 DEF p
<1> QED BY <1>8, <1>9

\* A play is let pass, or refused, by its guards.
LEMMA GuardDecides ==
    ASSUME LimitTypes, [Next]_vars, NEW b \in Plays, pc[b] = "begun",
           pc'[b] \in {"guarded", "overloss"}
    PROVE  req'[b] \in PlayRequest /\ Verdict(b, req'[b]) = pc'[b]
<1> USE CallsAssumption
<1>1. ASSUME NEW d \in Plays, Guard(d)
      PROVE  req'[b] \in PlayRequest /\ Verdict(b, req'[b]) = pc'[b]
  <2>1. PICK r \in PlayRequests : req' = [req EXCEPT ![d] = r] /\ pc' = [pc EXCEPT ![d] = Verdict(d, r)]
    BY <1>1 DEF Guard, Goto
  <2>2. b = d BY <2>1 DEF LimitTypes
  <2>3. req'[b] = r /\ pc'[b] = Verdict(b, r) BY <2>1, <2>2 DEF LimitTypes
  <2> QED BY <2>3, RequestsAssumption
<1>2. ASSUME NEW a \in Setters,
             BeginSet(a) \/ LockPlayer(a) \/ RecordLimit(a) \/ RefuseLimit(a) \/ ReplayLimit(a)
      PROVE  FALSE
  <2>1. pc'[b] = pc[b]
    BY <1>2 DEF BeginSet, LockPlayer, RecordLimit, RefuseLimit, ReplayLimit, Reply, Return, Goto,
                LimitTypes
  <2> QED BY <2>1
<1>3. ASSUME NEW d \in Plays, BeginPlay(d) \/ Post(d) \/ Settle(d) \/ Undo(d) PROVE FALSE
  <2>1. pc'[b] \in {pc[b], "begun", "posted", "done"}
    BY <1>3 DEF BeginPlay, Post, Settle, Undo, Leave, Return, Goto, LimitTypes
  <2> QED BY <2>1
<1>4. ASSUME Tick \/ UNCHANGED vars PROVE FALSE BY <1>4 DEF Tick, vars
<1> QED BY <1>1, <1>2, <1>3, <1>4 DEF Next, Finished

\* Whatever limits were asked for, and in whatever order plays, rollovers and rows came,
\* a stake or a deposit that a guard lets pass fits the limit by the ledger itself, as
\* long as the limit's period was never changed and no transaction of the window spans
\* its start or was overtaken by a limit.
THEOREM StakesFit == Spec => StakesFitTheLimit
<1>1. TallyInv /\ [Next]_vars =>
       [\A b \in Plays : pc[b] = "begun" /\ pc'[b] = "guarded" =>
         /\ req'[b].kind \in {"BET", "SPIN"} /\ SteadyPeriod("LOSS_LIMIT") =>
              \A r \in Ceiling("LOSS_LIMIT", clock[b].began) :
                 Undisturbed("LOSS_LIMIT", r.period) =>
                    Net("LOSS_LIMIT", r.period, now) + req'[b].stake <= r.amount
         /\ req'[b].kind = "DEPOSIT" /\ SteadyPeriod("DEPOSIT_LIMIT") =>
              \A r \in Ceiling("DEPOSIT_LIMIT", clock[b].began) :
                 Undisturbed("DEPOSIT_LIMIT", r.period) =>
                    Net("DEPOSIT_LIMIT", r.period, now) + Usd(req'[b]) <= r.amount]_vars
  <2> SUFFICES ASSUME TallyInv, [Next]_vars, NEW b \in Plays, pc[b] = "begun", pc'[b] = "guarded"
               PROVE  /\ req'[b].kind \in {"BET", "SPIN"} /\ SteadyPeriod("LOSS_LIMIT") =>
                            \A r \in Ceiling("LOSS_LIMIT", clock[b].began) :
                               Undisturbed("LOSS_LIMIT", r.period) =>
                                  Net("LOSS_LIMIT", r.period, now) + req'[b].stake <= r.amount
                      /\ req'[b].kind = "DEPOSIT" /\ SteadyPeriod("DEPOSIT_LIMIT") =>
                            \A r \in Ceiling("DEPOSIT_LIMIT", clock[b].began) :
                               Undisturbed("DEPOSIT_LIMIT", r.period) =>
                                  Net("DEPOSIT_LIMIT", r.period, now) + Usd(req'[b]) <= r.amount
    OBVIOUS
  <2>1. req'[b] \in PlayRequest /\ Verdict(b, req'[b]) = "guarded"
    BY GuardDecides DEF TallyInv
  <2>n. \A n \in Amounts : n \in Nat BY AmountsAssumption
  <2>2. ASSUME req'[b].kind \in {"BET", "SPIN"}, SteadyPeriod("LOSS_LIMIT"),
               NEW r \in Ceiling("LOSS_LIMIT", clock[b].began), Undisturbed("LOSS_LIMIT", r.period)
        PROVE  Net("LOSS_LIMIT", r.period, now) + req'[b].stake <= r.amount
    <3>1. ~ OverLoss(b, req'[b].stake) BY <2>1, <2>2 DEF Verdict
    <3>2. ~ (Accumulated("LOSS_LIMIT", r.period, now) + req'[b].stake > r.amount)
      BY <3>1 DEF OverLoss
    <3>3. req'[b].stake \in Nat BY <2>1, <2>n DEF PlayRequest
    <3>4. /\ Accumulated("LOSS_LIMIT", r.period, now) \in Nat /\ r.amount \in Nat
          /\ Net("LOSS_LIMIT", r.period, now) <= Accumulated("LOSS_LIMIT", r.period, now)
      BY <2>2, GuardedAmount DEF Windowed
    <3>5. Net("LOSS_LIMIT", r.period, now) \in Int BY NetTypes DEF TallyInv
    <3> QED BY <3>2, <3>3, <3>4, <3>5
  <2>3. ASSUME req'[b].kind = "DEPOSIT", SteadyPeriod("DEPOSIT_LIMIT"),
               NEW r \in Ceiling("DEPOSIT_LIMIT", clock[b].began),
               Undisturbed("DEPOSIT_LIMIT", r.period)
        PROVE  Net("DEPOSIT_LIMIT", r.period, now) + Usd(req'[b]) <= r.amount
    <3>1. ~ OverDeposit(b, req'[b].usd) BY <2>1, <2>3 DEF Verdict
    <3>2. /\ req'[b].usd # None
          /\ ~ (Accumulated("DEPOSIT_LIMIT", r.period, now) + req'[b].usd > r.amount)
      BY <3>1 DEF OverDeposit
    <3>3. req'[b].usd \in Nat BY <2>1, <2>n, <3>2 DEF PlayRequest
    <3>4. /\ Accumulated("DEPOSIT_LIMIT", r.period, now) \in Nat /\ r.amount \in Nat
          /\ Net("DEPOSIT_LIMIT", r.period, now) <= Accumulated("DEPOSIT_LIMIT", r.period, now)
      BY <2>3, GuardedAmount DEF Windowed
    <3>5. Net("DEPOSIT_LIMIT", r.period, now) \in Int BY NetTypes DEF TallyInv
    <3>6. Usd(req'[b]) = req'[b].usd BY <2>3, <3>2 DEF Usd
    <3> QED BY <3>2, <3>3, <3>4, <3>5, <3>6
  <2> QED BY <2>2, <2>3
<1> QED BY <1>1, TallyInvariant, PTL DEF Spec, StakesFitTheLimit

\* A stake refused for the loss limit exceeds it together with the stakes of the window,
\* though every win, rollback and floor of the window went into the counter, unless a
\* transaction spans the start of the window.
THEOREM RefusalsJustified == Spec => RefusalsAreJustified
<1>1. TallyInv /\ [Next]_vars =>
       [\A b \in Plays : pc[b] = "begun" /\ pc'[b] = "overloss" =>
         \E r \in Ceiling("LOSS_LIMIT", clock[b].began) :
            \/ Staked(r.period, now) + req'[b].stake > r.amount
            \/ \E e \in ledger : SameWindow(r.period, e.put, now) /\ Astray(r.period, e)]_vars
  <2> SUFFICES ASSUME TallyInv, [Next]_vars, NEW b \in Plays, pc[b] = "begun", pc'[b] = "overloss"
               PROVE  \E r \in Ceiling("LOSS_LIMIT", clock[b].began) :
                         ~ Whole(r.period) \/ Staked(r.period, now) + req'[b].stake > r.amount
    BY DEF Whole
  <2>1. req'[b] \in PlayRequest /\ Verdict(b, req'[b]) = "overloss"
    BY GuardDecides DEF TallyInv
  <2>2. OverLoss(b, req'[b].stake) BY <2>1 DEF Verdict
  <2>3. PICK r \in Ceiling("LOSS_LIMIT", clock[b].began) :
           Accumulated("LOSS_LIMIT", r.period, now) + req'[b].stake > r.amount
    BY <2>2 DEF OverLoss
  <2>4. \A n \in Amounts : n \in Nat BY AmountsAssumption
  <2>5. req'[b].stake \in Nat BY <2>1, <2>4 DEF PlayRequest
  <2>6. /\ Accumulated("LOSS_LIMIT", r.period, now) \in Nat /\ r.amount \in Nat
        /\ Whole(r.period) => Accumulated("LOSS_LIMIT", r.period, now) <= Staked(r.period, now)
    BY GuardedAmount DEF Windowed
  <2>7. Staked(r.period, now) \in Nat BY StakedTypes DEF TallyInv
  <2>8. ~ Whole(r.period) \/ Staked(r.period, now) + req'[b].stake > r.amount
    BY <2>3, <2>5, <2>6, <2>7
  <2> QED BY <2>8
<1> QED BY <1>1, TallyInvariant, PTL DEF Spec, RefusalsAreJustified
=============================================================================

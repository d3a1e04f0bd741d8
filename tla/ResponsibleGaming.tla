------------------------- MODULE ResponsibleGaming -------------------------
(***************************************************************************)
(* The limits of one player (internal/repository/rg.go): SetLimit appends  *)
(* rows to player_limits, the guards of the money flows read the row that  *)
(* governs, and player_rg_counters caches what the ledger says the player  *)
(* has lost or deposited in the current window.  The money flows of a      *)
(* player are serialized by the wallet row, limit requests by the users    *)
(* row, which a flow shares from its first ledger row on.  Both locks are  *)
(* taken after BEGIN, whose instant is the now() of every statement, while *)
(* the windows are computed from the clock of the process.                 *)
(***************************************************************************)
EXTENDS Integers, FiniteSetsExt

CONSTANTS Setters,      \* calls of SetLimit
          Plays,        \* calls of the money flows
          Events,       \* event_id, the key of a limit request
          Amounts,      \* amounts of limits, stakes, wins and deposits
          LimitRequests, PlayRequests,
          DayLength,    \* ticks in a UTC day
          WeekStarts, MonthStarts,  \* the days on which a week and a month begin
          LastTick,     \* bound of the clock
          None

Exclusions   == {"SELF_EXCLUSION", "COOL_OFF"}
Windowed     == {"LOSS_LIMIT", "DEPOSIT_LIMIT"}
Periods      == {"DAY", "WEEK", "MONTH"}
Kinds        == {"BET", "SPIN", "WIN", "ROLLBACK", "DEPOSIT", "GRANT"}
Ticks        == 0..LastTick
Day(t)       == t \div DayLength
Days         == 0..Day(LastTick)

\* ends = 0 and amount = 0 stand for NULL.
LimitRequest == [event: Events, type: Exclusions \union Windowed, active: BOOLEAN,
                 period: Periods \union {None}, amount: Amounts \union {0}, ends: Nat]
\* usd may be missing from a deposit.
PlayRequest  == [kind: Kinds, stake: Amounts \union {0}, win: Amounts \union {0},
                 usd: Amounts \union {None}]

ASSUME AmountsAssumption  == Amounts \subseteq Nat \ {0}
ASSUME RequestsAssumption == LimitRequests \subseteq LimitRequest /\ PlayRequests \subseteq PlayRequest
ASSUME DayAssumption      == DayLength \in Nat \ {0} /\ LastTick \in Nat
ASSUME StartsAssumption   == /\ WeekStarts \subseteq Nat /\ 0 \in WeekStarts
                             /\ MonthStarts \subseteq Nat /\ 0 \in MonthStarts
ASSUME CallsAssumption    == IsFiniteSet(Setters) /\ Setters \intersect Plays = {}
ASSUME NoneAssumption     == None \notin Periods \union Nat

VARIABLES now,      \* the clock
          limits,   \* committed rows of player_limits
          counter,  \* player_rg_counters, by limit type and period
          ledger,   \* committed plays, as the two aggregates see them
          pc, req,  \* each call, and what it asks for until it returns
          born,     \* of a limit request in flight: the instant and the rank of its BEGIN,
                    \* and the instant of its decision
          clock,    \* of a play in flight: the instants of its BEGIN and of its last read
          holder    \* the play that holds the wallet row

vars == <<now, limits, counter, ledger, pc, req, born, clock, holder>>

NoCounter == [start |-> None, amount |-> 0]
Unborn    == [at |-> 0, rank |-> 0, decided |-> 0]
NoClock   == [began |-> 0, read |-> 0]

Init == /\ now = 0 /\ limits = {} /\ ledger = {} /\ holder = None
        /\ counter = [t \in Windowed |-> [p \in Periods |-> NoCounter]]
        /\ pc = [a \in Setters \union Plays |-> "idle"]
        /\ req = [a \in Setters \union Plays |-> None]
        /\ born = [a \in Setters |-> Unborn]
        /\ clock = [b \in Plays |-> NoClock]

Goto(a, place) == pc' = [pc EXCEPT ![a] = place]
Return(a)      == Goto(a, "done") /\ req' = [req EXCEPT ![a] = None]
Reply(a)       == Return(a) /\ born' = [born EXCEPT ![a] = Unborn]
Leave(b)       == Return(b) /\ clock' = [clock EXCEPT ![b] = NoClock] /\ holder' = None

-----------------------------------------------------------------------------
(* The row that governs, and the windows.                                  *)

\* ORDER BY created_at DESC LIMIT 1.
Latest(rows) == {r \in rows : \A s \in rows : s.rank <= r.rank}

\* latestEffectiveLimit, at an instant: one row, or none.
Governing(type, t) == Latest({r \in limits : r.type = type /\ r.effective <= t})

\* The rows that exclude the player at an instant (sqlRGActiveExclusion does not
\* look at effective_at).
Excluding(t) == {r \in UNION {Latest({s \in limits : s.type = type}) : type \in Exclusions} :
                   r.ends > t}

Starts(p) == CASE p = "DAY" -> Days [] p = "WEEK" -> WeekStarts [] p = "MONTH" -> MonthStarts

\* windowBounds: the first day of the window that a day is in.
WindowStart(p, d) == CHOOSE s \in Starts(p) : s <= d /\ \A u \in Starts(p) : u <= d => u <= s

SameWindow(p, t, u) == WindowStart(p, Day(t)) = WindowStart(p, Day(u))

\* The entries dated in the window of an instant: created_at is the now() of BEGIN.
InWindow(p, t) == {e \in ledger : SameWindow(p, e.at, t)}

\* What an entry adds to the aggregate of a limit type.
Weight(type, e) == IF type = "LOSS_LIMIT" THEN e.loss ELSE e.usd

Net(type, p, t) == MapThenSumSet(LAMBDA e : Weight(type, e), InWindow(p, t))

Floored(x) == IF x < 0 THEN 0 ELSE x

Fresh(type, p, t) == counter[type][p].start = WindowStart(p, Day(t))

\* readCounter, at an instant of the process: the row of its window, or else the ledger.
Accumulated(type, p, t) ==
    IF Fresh(type, p, t) THEN counter[type][p].amount ELSE Floored(Net(type, p, t))

-----------------------------------------------------------------------------
(* SetLimit.                                                               *)

\* validate(): an exclusion is dated in the future, a limit has a period and an amount.
Valid(r) == r.active => IF r.type \in Exclusions THEN r.ends > now
                                                ELSE r.period \in Periods /\ r.amount > 0

\* The BEGINs and the commits of limit requests so far: what orders them within a tick.
Moment == Cardinality(limits) + Cardinality({a \in Setters : pc[a] # "idle"})

\* BEGIN fixes created_at and the now() of every statement.
BeginSet(a) ==
    /\ pc[a] = "idle"
    /\ \E r \in LimitRequests : Valid(r) /\ req' = [req EXCEPT ![a] = r]
    /\ born' = [born EXCEPT ![a] = [at |-> now, rank |-> 1 + Moment, decided |-> 0]]
    /\ Goto(a, "open")
    /\ UNCHANGED <<now, limits, counter, ledger, clock, holder>>

\* SELECT ... FOR UPDATE of the users row: no other limit request has it, and no play
\* shares it, as the foreign key of its ledger rows would.  The clock is read next.
LockPlayer(a) ==
    /\ pc[a] = "open"
    /\ \A b \in Setters : pc[b] # "locked"
    /\ \A b \in Plays : pc[b] # "posted"
    /\ born' = [born EXCEPT ![a].decided = now]
    /\ Goto(a, "locked")
    /\ UNCHANGED <<now, limits, counter, ledger, req, clock, holder>>

\* Mutated form of LiftTooEarly: a lift is accepted whatever governs.
LiftUnchecked(a) == FALSE

\* An exclusion cannot be lifted before its end.
LiftTooEarly(a) ==
    /\ req[a].type \in Exclusions /\ ~ req[a].active
    /\ \E r \in Governing(req[a].type, born[a].at) : r.active /\ r.ends > born[a].decided

\* player_limits_period_shape: a windowed row needs its period, which SetLimit
\* fills in only for an active one.
Misshapen(a) == req[a].type \in Windowed /\ ~ req[a].active

Duplicate(a) == \E r \in limits : r.event = req[a].event

\* isDecreaseOrNew compares with the amount that governs, if one is active.
DecreaseOrNew(a) ==
    \A r \in Governing(req[a].type, born[a].at) : r.active => req[a].amount <= r.amount

\* Mutated form of Effective: a raise does not wait.
EffectiveAtOnce(a) == born[a].decided

\* The clock is read after the row lock: an increase waits a day.
Effective(a) ==
    IF req[a].type \in Exclusions \/ DecreaseOrNew(a)
    THEN born[a].decided ELSE born[a].decided + DayLength

LimitRow(a) ==
    [event |-> req[a].event, type |-> req[a].type, active |-> req[a].active,
     period |-> req[a].period, amount |-> req[a].amount, ends |-> req[a].ends,
     effective |-> Effective(a), at |-> born[a].at, rank |-> born[a].rank,
     done |-> 1 + Moment]

\* Decide, INSERT, COMMIT.  The row lock makes these one step for other limit
\* requests, and nobody else reads what is not committed.  done is no column: it is
\* the moment of the COMMIT.
RecordLimit(a) ==
    /\ pc[a] = "locked"
    /\ ~ LiftTooEarly(a) /\ ~ Misshapen(a) /\ ~ Duplicate(a)
    /\ limits' = limits \union {LimitRow(a)}
    /\ Reply(a)
    /\ UNCHANGED <<now, counter, ledger, clock, holder>>

\* Refused by the rule, by the CHECK, or failed; the transaction is undone.
RefuseLimit(a) ==
    /\ pc[a] \in {"open", "locked"}
    /\ Reply(a)
    /\ UNCHANGED <<now, limits, counter, ledger, clock, holder>>

\* 23505 on event_id: the earlier row is the answer.
ReplayLimit(a) ==
    /\ pc[a] = "locked"
    /\ ~ LiftTooEarly(a) /\ ~ Misshapen(a) /\ Duplicate(a)
    /\ Reply(a)
    /\ UNCHANGED <<now, limits, counter, ledger, clock, holder>>

-----------------------------------------------------------------------------
(* The money flows of the player.                                          *)

\* A limit type's ceiling applies when an active row governs.
Ceiling(type, t) == {r \in Governing(type, t) : r.active}

OverLoss(b, stake) ==
    \E r \in Ceiling("LOSS_LIMIT", clock[b].began) :
        Accumulated("LOSS_LIMIT", r.period, now) + stake > r.amount

\* A deposit without its amount fails closed.
OverDeposit(b, usd) ==
    \E r \in Ceiling("DEPOSIT_LIMIT", clock[b].began) :
        \/ usd = None
        \/ usd # None /\ Accumulated("DEPOSIT_LIMIT", r.period, now) + usd > r.amount

\* Which guard refuses a request, if any.
Verdict(b, r) ==
    CASE /\ r.kind \in {"BET", "SPIN", "DEPOSIT", "GRANT"}
         /\ Excluding(clock[b].began) # {} -> "excluded"
      [] r.kind \in {"BET", "SPIN"} /\ OverLoss(b, r.stake) -> "overloss"
      [] r.kind = "DEPOSIT" /\ OverDeposit(b, r.usd) -> "overdeposit"
      [] OTHER -> "guarded"

\* The bets that a rollback may still reverse, the bet leg of a spin among them.
Open == {e \in ledger : e.kind \in {"BET", "SPIN"} /\ \A f \in ledger : f.undoes # e.by}

\* BEGIN fixes created_at of the entries and the now() of every statement.
BeginPlay(b) ==
    /\ pc[b] = "idle"
    /\ clock' = [clock EXCEPT ![b].began = now]
    /\ Goto(b, "begun")
    /\ UNCHANGED <<now, limits, counter, ledger, req, born, holder>>

\* The wallet lock, which may have been waited for, and the guards.
Guard(b) ==
    /\ pc[b] = "begun"
    /\ holder = None
    /\ \E r \in PlayRequests :
         /\ r.kind = "ROLLBACK" => Open # {}
         /\ req' = [req EXCEPT ![b] = r]
         /\ Goto(b, Verdict(b, r))
         /\ IF Verdict(b, r) = "guarded"
            THEN holder' = b /\ UNCHANGED clock
            ELSE holder' = None /\ clock' = [clock EXCEPT ![b] = NoClock]
    /\ UNCHANGED <<now, limits, counter, ledger, born>>

\* The ledger rows are inserted, not committed; their foreign key shares the users
\* row, which no limit request may hold.  readCounter reads the clock next.
Post(b) ==
    /\ pc[b] = "guarded"
    /\ \A a \in Setters : pc[a] # "locked"
    /\ clock' = [clock EXCEPT ![b].read = now]
    /\ Goto(b, "posted")
    /\ UNCHANGED <<now, limits, counter, ledger, req, born, holder>>

\* The stake less the win of a play, and its deposit in dollars.
Loss(r) == (IF r.kind \in {"BET", "SPIN"} THEN r.stake ELSE 0)
           - (IF r.kind \in {"SPIN", "WIN"} THEN r.win ELSE 0)
Usd(r)  == IF r.kind = "DEPOSIT" /\ r.usd # None THEN r.usd ELSE 0

\* put is no column: it is the instant at which the counter is written.
Entry(b, loss, undone) ==
    [by |-> b, kind |-> req[b].kind, at |-> clock[b].began, loss |-> loss,
     stake |-> req[b].stake, usd |-> Usd(req[b]), undoes |-> undone, put |-> now]

\* Mutated form of Bumped: the delta is added to what was derived from a ledger
\* that already has the transaction.
BumpedTwice(c, fresh, net, delta) == Floored((IF fresh THEN c ELSE Floored(net)) + delta)

\* Mutated form of Bumped: no floor on the sum.
BumpedBelowZero(c, fresh, net, delta) == IF fresh THEN c + delta ELSE Floored(net)

\* Mutated form of Bumped: a counter that is not fresh starts from nothing.
BumpedFromZero(c, fresh, net, delta) == Floored((IF fresh THEN c ELSE 0) + delta)

\* bumpCounter: the delta goes on a fresh row; the ledger, which has this
\* transaction already, replaces any other.
Bumped(c, fresh, net, delta) == Floored(IF fresh THEN c + delta ELSE net)

\* The counter of the governing limit after an entry; the other rows stay as they are.
\* It is read as of one instant, and written to the window of a later one.
Adjust(type, b, e) ==
    LET read   == clock[b].read
        net(p) == Net(type, p, read) + (IF SameWindow(p, e.at, read) THEN Weight(type, e) ELSE 0)
    IN  [p \in Periods |->
           IF \E r \in Ceiling(type, clock[b].began) : r.period = p
           THEN [start  |-> WindowStart(p, Day(now)),
                 amount |-> Bumped(counter[type][p].amount, Fresh(type, p, read), net(p),
                                   Weight(type, e))]
           ELSE counter[type][p]]

\* The entries, the counter that the flow maintains, COMMIT.
Settle(b) ==
    /\ pc[b] = "posted"
    /\ \E e \in IF req[b].kind = "ROLLBACK"
                THEN {Entry(b, 0 - f.stake, f.by) : f \in Open}
                ELSE {Entry(b, Loss(req[b]), None)} :
         /\ ledger' = ledger \union {e}
         /\ counter' = [counter EXCEPT
              !["LOSS_LIMIT"]    = IF e.kind \in {"BET", "SPIN", "WIN", "ROLLBACK"}
                                   THEN Adjust("LOSS_LIMIT", b, e) ELSE @,
              !["DEPOSIT_LIMIT"] = IF e.kind = "DEPOSIT" /\ req[b].usd # None
                                   THEN Adjust("DEPOSIT_LIMIT", b, e) ELSE @]
    /\ Leave(b)
    /\ UNCHANGED <<now, limits, born>>

\* No funds, a duplicate id, a failed statement, a dead process: undone.
Undo(b) ==
    /\ pc[b] \in {"guarded", "posted"}
    /\ Leave(b)
    /\ UNCHANGED <<now, limits, counter, ledger, born>>

Tick == /\ now < LastTick
        /\ now' = now + 1
        /\ UNCHANGED <<limits, counter, ledger, pc, req, born, clock, holder>>

Finished == /\ \A a \in Setters \union Plays :
                  pc[a] \in {"excluded", "overloss", "overdeposit", "done"}
            /\ now = LastTick
            /\ UNCHANGED vars

Next == \/ \E a \in Setters : \/ BeginSet(a) \/ LockPlayer(a)
                             \/ RecordLimit(a) \/ RefuseLimit(a) \/ ReplayLimit(a)
        \/ \E b \in Plays : BeginPlay(b) \/ Guard(b) \/ Post(b) \/ Settle(b) \/ Undo(b)
        \/ Tick
        \/ Finished

Spec == Init /\ [][Next]_vars

-----------------------------------------------------------------------------
(* Properties.                                                             *)

Row == [event: Events, type: Exclusions \union Windowed, active: BOOLEAN,
        period: Periods \union {None}, amount: Amounts \union {0}, ends: Nat,
        effective: Nat, at: Ticks, rank: Nat, done: Nat]

\* Every variable has its type; a counter is never negative.
TypeOK ==
    /\ now \in Ticks
    /\ limits \subseteq Row
    /\ counter \in [Windowed -> [Periods -> [start: Int \union {None}, amount: Nat]]]
    /\ ledger \subseteq [by: Plays, kind: Kinds, at: Ticks, loss: Int, stake: Nat, usd: Nat,
                         undoes: Plays \union {None}, put: Ticks]
    /\ pc \in [Setters \union Plays -> {"idle", "open", "locked", "begun", "guarded", "posted",
                                         "excluded", "overloss", "overdeposit", "done"}]
    /\ req \in [Setters \union Plays -> LimitRequests \union PlayRequests \union {None}]
    /\ born \in [Setters -> [at: Ticks, rank: Nat, decided: Ticks]]
    /\ clock \in [Plays -> [began: Ticks, read: Ticks]]
    /\ holder \in Plays \union {None}

\* A lift that was asked for before an exclusion was recorded, and dated after it.
Crossed(r) == \E s \in limits : s.type = r.type /\ ~ s.active /\ r.rank < s.rank /\ s.rank < r.done

\* An exclusion outlasts every lift asked for after it was recorded: until its end, or
\* until another exclusion of its type replaces it, the player is excluded (rg.go: "it
\* can never be lifted before its own ends_at at all, delay or not").
ExclusionOutlastsLifts ==
    \A r \in limits :
        /\ r.type \in Exclusions /\ r.active /\ r.ends > now
        /\ \A s \in limits : s.type = r.type /\ s.active => s.rank <= r.rank
        => Excluding(now) # {} \/ Crossed(r)

\* What governs is loosened by nothing but a row a day old, whatever is asked for in
\* between and however requests overlap (migration 000011: "increases and removals wait
\* 24h").  What took effect after the BEGIN of a request is out of its sight.
LooseningWaits ==
    [][\A type \in Windowed :
         \A r \in Governing(type, now) : \A s \in Governing(type, now)' :
            r.active /\ (s.amount > r.amount \/ ~ s.active) =>
               s.at + DayLength <= now' \/ s.at < r.effective]_vars

\* The period of a limit type was never changed.
SteadyPeriod(type) == \A r, s \in limits : r.type = type /\ s.type = type => r.period = s.period

\* An entry dated in another window than the one whose counter it was put in: its
\* transaction spanned the end of a window.
Astray(p, e) == ~ SameWindow(p, e.at, e.put)

\* A limit took effect between the BEGIN of an entry's transaction and its end.
Overtaken(type, e) == \E r \in limits : r.type = type /\ e.at < r.effective /\ r.effective <= e.put

\* No transaction of this window spans its start, and none was overtaken by a limit.
Undisturbed(type, p) ==
    \A e \in ledger : SameWindow(p, e.put, now) => ~ Astray(p, e) /\ ~ Overtaken(type, e)

\* What a guard lets pass fits the limit by the ledger itself, though the guard
\* looks only at the counter: rollovers, seeds, floors and undone plays included.
\* It takes a period that was never changed: the row of a period that does not
\* govern is not maintained, and is taken for fresh when it governs again.  And it
\* takes a window that no transaction disturbed, for the counter is kept by the clock
\* and the ledger by BEGIN.
StakesFitTheLimit ==
    [][\A b \in Plays : pc[b] = "begun" /\ pc'[b] = "guarded" =>
         /\ req'[b].kind \in {"BET", "SPIN"} /\ SteadyPeriod("LOSS_LIMIT") =>
              \A r \in Ceiling("LOSS_LIMIT", clock[b].began) :
                 Undisturbed("LOSS_LIMIT", r.period) =>
                    Net("LOSS_LIMIT", r.period, now) + req'[b].stake <= r.amount
         /\ req'[b].kind = "DEPOSIT" /\ SteadyPeriod("DEPOSIT_LIMIT") =>
              \A r \in Ceiling("DEPOSIT_LIMIT", clock[b].began) :
                 Undisturbed("DEPOSIT_LIMIT", r.period) =>
                    Net("DEPOSIT_LIMIT", r.period, now) + Usd(req'[b]) <= r.amount]_vars

\* The stakes of a window, wins and rollbacks not deducted.
Staked(p, t) == MapThenSumSet(LAMBDA e : e.stake, {e \in InWindow(p, t) : e.kind \in {"BET", "SPIN"}})

\* A refusal has its reason in the window: without any win, the stakes made in it
\* and this one exceed the limit, unless a transaction spanned the start of the
\* window.  No stake is counted twice.
RefusalsAreJustified ==
    [][\A b \in Plays : pc[b] = "begun" /\ pc'[b] = "overloss" =>
         \E r \in Ceiling("LOSS_LIMIT", clock[b].began) :
            \/ Staked(r.period, now) + req'[b].stake > r.amount
            \/ \E e \in ledger : SameWindow(r.period, e.put, now) /\ Astray(r.period, e)]_vars
=============================================================================

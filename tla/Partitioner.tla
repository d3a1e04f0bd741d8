---------------------------- MODULE Partitioner ----------------------------
(***************************************************************************)
(* The daily partitions of the two ledger tables and the worker that       *)
(* creates them ahead of time, internal/worker/partitioner.go.  A row of a *)
(* day without a partition goes to the DEFAULT partition (migration        *)
(* 000005), and a partition cannot be created for a day whose rows are     *)
(* already in the default.                                                 *)
(***************************************************************************)
EXTENDS LedgerCalls, Sequences

CONSTANTS DayLength,   \* ticks in a UTC day
          Lookahead,   \* days created ahead of today
          BootDays     \* days the migration creates ahead

ASSUME DaysAssumption == DayLength \in Nat \ {0} /\ Lookahead \in Nat /\ BootDays \in Nat

VARIABLES parts,    \* the days that have a partition, of each parent
          strays,   \* the days that have rows in the default, of each parent
          runway,   \* the cycle in progress: its first day and its next statement
          covered   \* the days of the last cycle that completed

Parents == {"ledger_entries", "ledger_transactions"}

Day(t) == t \div DayLength
Days   == 0..(Day(LastTick) + Lookahead + BootDays)

\* partitionedParents, in their order, day after day.
Statements == 2 * (Lookahead + 1)
DayOf(n)    == runway.base + (n \div 2)
ParentOf(n) == IF n % 2 = 0 THEN "ledger_entries" ELSE "ledger_transactions"

Parked == [st |-> "parked", base |-> 0, next |-> 0]

PartitionsInit == /\ parts = [t \in Parents |-> 0..BootDays]
                  /\ strays = [t \in Parents |-> {}]
                  /\ runway = Parked
                  /\ covered = 0..BootDays

\* Where PostgreSQL routes the rows of a transaction that began at an instant.
Route(at) ==
    /\ strays' = [t \in Parents |-> IF Day(at) \in parts[t] THEN strays[t]
                                    ELSE strays[t] \union {Day(at)}]
    /\ UNCHANGED <<parts, runway, covered>>

\* At boot and on every tick: ensureFrom(today).
StartCycle ==
    /\ runway.st = "parked"
    /\ runway' = [st |-> "running", base |-> Day(now), next |-> 0]
    /\ UNCHANGED <<parts, strays, covered>>

\* create_daily_partition, or nothing when the partition exists.
CreateDaily(t, d) ==
    /\ d \in parts[t] \/ d \notin strays[t]
    /\ parts' = [parts EXCEPT ![t] = @ \union {d}]

\* Mutated form of EnsureNext: one iteration too many.
EnsureOneMore ==
    /\ runway.st = "running"
    /\ runway.next <= Statements
    /\ CreateDaily(ParentOf(runway.next), DayOf(runway.next))
    /\ runway' = [runway EXCEPT !.next = @ + 1]
    /\ UNCHANGED <<strays, covered>>

\* Mutated form of EnsureNext: each statement creates the day before its own.
EnsureDayBefore ==
    /\ runway.st = "running"
    /\ runway.next < Statements
    /\ parts' = [parts EXCEPT ![ParentOf(runway.next)] = @ \union {DayOf(runway.next) - 1}]
    /\ runway' = [runway EXCEPT !.next = @ + 1]
    /\ UNCHANGED <<strays, covered>>

EnsureNext ==
    /\ runway.st = "running"
    /\ runway.next < Statements
    /\ CreateDaily(ParentOf(runway.next), DayOf(runway.next))
    /\ runway' = [runway EXCEPT !.next = @ + 1]
    /\ UNCHANGED <<strays, covered>>

EnsureDone ==
    /\ runway.st = "running"
    /\ runway.next = Statements
    /\ covered' = runway.base..(runway.base + Lookahead)
    /\ runway' = Parked
    /\ UNCHANGED <<parts, strays>>

\* The DDL is refused: the default partition holds rows of that day.  The cycle
\* ends there.
EnsureBlocked ==
    /\ runway.st = "running"
    /\ runway.next < Statements
    /\ DayOf(runway.next) \notin parts[ParentOf(runway.next)]
    /\ DayOf(runway.next) \in strays[ParentOf(runway.next)]
    /\ runway' = Parked
    /\ UNCHANGED <<parts, strays, covered>>

\* A statement fails for another reason, or the process stops.
AbandonRunway ==
    /\ runway.st = "running"
    /\ runway' = Parked
    /\ UNCHANGED <<parts, strays, covered>>

-----------------------------------------------------------------------------

PartitionsTypeOK ==
    /\ parts \in [Parents -> SUBSET Days]
    /\ strays \in [Parents -> SUBSET Days]
    /\ runway \in [st: {"parked", "running"}, base: Days, next: 0..Statements]
    /\ covered \subseteq Days

\* A row is misfiled only in an outage: no row of a day that the last completed
\* cycle covers is ever in a default partition, of either table, whatever
\* cycles were cut short before or since (migration 000005: the default
\* partitions "stay EMPTY because ensure_ledger_partitions keeps concrete daily
\* partitions ahead of now").
MisfiledOnlyInAnOutage == \A t \in Parents : strays[t] \intersect covered = {}
=============================================================================

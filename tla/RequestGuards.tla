--------------------------- MODULE RequestGuards ---------------------------
(***************************************************************************)
(* What stands between one operator and the handlers of /api/v1, in the    *)
(* order of router.go: the operator's sliding window, the replay guard     *)
(* (timestamp, then nonce), and inside the handler the sliding window of   *)
(* the player.  The windows and the nonces are in Redis; a middleware      *)
(* reads its own clock first and calls Redis up to Lag later.  The         *)
(* signature binds timestamp, nonce and body, so that a message is one     *)
(* value, which may be delivered many times.                               *)
(***************************************************************************)
EXTENDS Integers, FiniteSets

CONSTANTS Calls,      \* deliveries of messages
          Messages,   \* signed messages: [nonce, stamp]
          Nonces,
          MaxAge, ClockSkew, NonceTTL,  \* of the replay guard
          Window,     \* length of a sliding window
          Limit,      \* by scope, the entries that a window may hold
          Lag,        \* the longest time between reading a clock and Redis' reply
          LastTick,   \* bound of the clock
          None

Scopes == {"operator", "player"}
Ticks  == 0..LastTick

ASSUME MessagesAssumption == Messages \subseteq [nonce: Nonces, stamp: Int]
ASSUME TimesAssumption    == {MaxAge, ClockSkew, NonceTTL, Lag, LastTick} \subseteq Nat
ASSUME WindowAssumption   == Window \in Nat \ {0} /\ Limit \in [Scopes -> Nat \ {0}]
ASSUME NoneAssumption     == None \notin Messages \union Nat
\* replay.go asks for at least MaxAge + ClockSkew: a nonce that is spent as early
\* as its stamp allows must outlive the last moment a copy may reach Redis.
ASSUME TTLAssumption      == NonceTTL > MaxAge + ClockSkew + Lag

VARIABLES now,      \* the clock of Redis and of every replica
          window,   \* by scope, the sorted set: [call, score, at]
          nonces,   \* api:nonce keys: [nonce, until]
          pc, msg,  \* each delivery and its message
          read,     \* the clock as the current middleware has read it
          entered   \* when each scope's script admitted a delivery (history)

vars == <<now, window, nonces, pc, msg, read, entered>>

Init == /\ now = 0 /\ nonces = {}
        /\ window = [s \in Scopes |-> {}]
        /\ pc = [c \in Calls |-> "idle"]
        /\ msg = [c \in Calls |-> None]
        /\ read = [c \in Calls |-> None]
        /\ entered = [s \in Scopes |-> [c \in Calls |-> None]]

Goto(c, place)   == pc' = [pc EXCEPT ![c] = place] /\ UNCHANGED msg
\* Mutated form of ReadClock: the clock of a replica runs ahead.
ReadClockAhead(c) == read' = [read EXCEPT ![c] = now + Lag + 1]

ReadClock(c)     == read' = [read EXCEPT ![c] = now]
ForgetClock(c)   == read' = [read EXCEPT ![c] = None]

\* HMAC verified the delivery; the operator limiter reads its clock.
Deliver(c) ==
    /\ pc[c] = "idle"
    /\ \E m \in Messages : msg' = [msg EXCEPT ![c] = m]
    /\ pc' = [pc EXCEPT ![c] = "operator"]
    /\ ReadClock(c)
    /\ UNCHANGED <<now, window, nonces, entered>>

-----------------------------------------------------------------------------
(* The sliding window: one script, atomic in Redis.                        *)

\* Mutated form of Live: the cutoff is a tick too recent.
LiveTooShort(s, t) == {e \in window[s] : e.score > t - Window + 1}

\* What ZREMRANGEBYSCORE leaves at a clock reading.
Live(s, t) == {e \in window[s] : e.score > t - Window}

Full(s, t) == Cardinality(Live(s, t)) >= Limit[s]

Oldest(s, t) == CHOOSE x \in {e.score : e \in Live(s, t)} :
                   \A e \in Live(s, t) : x <= e.score

\* Mutated form of RetryAfter: a new request waits one tick too few.
RetryTooSoon(s, t) == Oldest(s, t) + Window - t - 1

\* When the oldest entry leaves the window.
RetryAfter(s, t) == LET wait == Oldest(s, t) + Window - t
                    IN  IF wait < 1 THEN 1 ELSE wait

\* Where a delivery goes once a scope has admitted it; the next middleware reads
\* its own clock.
AfterScope(s) == IF s = "operator" THEN "stamp" ELSE "passed"

\* Three ways to end: passed the replay guard, whatever the handler then did; met it
\* and was refused; or never came to it.
Refusal(s) == IF s = "operator" THEN "stopped" ELSE "passed"

Enter(c, s) ==
    /\ pc[c] = s
    /\ ~ Full(s, read[c])
    /\ window' = [window EXCEPT ![s] = Live(s, read[c]) \union
                    {[call |-> c, score |-> read[c], at |-> now]}]
    /\ entered' = [entered EXCEPT ![s][c] = now]
    /\ Goto(c, AfterScope(s))
    /\ ForgetClock(c)
    /\ UNCHANGED <<now, nonces>>

\* Mutated form of Throttle: the window of a refused operator is checked after the
\* replay guard has spent the nonce.
ThrottleAfterGuard(c, s) ==
    /\ pc[c] = s
    /\ Full(s, read[c])
    /\ window' = [window EXCEPT ![s] = Live(s, read[c])]
    /\ nonces' = nonces \union {[nonce |-> msg[c].nonce, until |-> now + NonceTTL]}
    /\ Goto(c, Refusal(s))
    /\ ForgetClock(c)
    /\ UNCHANGED <<now, entered>>

\* 429 with retry_after_ms.
Throttle(c, s) ==
    /\ pc[c] = s
    /\ Full(s, read[c])
    /\ window' = [window EXCEPT ![s] = Live(s, read[c])]
    /\ Goto(c, Refusal(s))
    /\ ForgetClock(c)
    /\ UNCHANGED <<now, nonces, entered>>

\* Redis fails: the limiter fails open.  (When the script ran and only its reply was
\* lost, the delivery goes on as in Enter.)
FailOpen(c, s) ==
    /\ pc[c] = s
    /\ Goto(c, AfterScope(s))
    /\ ForgetClock(c)
    /\ UNCHANGED <<now, window, nonces, entered>>

\* PEXPIRE: the key goes when nothing was added for a whole window.
ExpireWindow(s) ==
    /\ window[s] # {}
    /\ \A e \in window[s] : e.at + Window <= now
    /\ window' = [window EXCEPT ![s] = {}]
    /\ UNCHANGED <<now, nonces, pc, msg, read, entered>>

-----------------------------------------------------------------------------
(* The replay guard.                                                       *)

Age(c) == now - msg[c].stamp

InTime(c) == Age(c) <= MaxAge /\ Age(c) >= 0 - ClockSkew

CheckStamp(c) ==
    /\ pc[c] = "stamp"
    /\ InTime(c)
    /\ Goto(c, "nonce")
    /\ ReadClock(c)
    /\ UNCHANGED <<now, window, nonces, entered>>

Stale(c) ==
    /\ pc[c] = "stamp"
    /\ ~ InTime(c)
    /\ Goto(c, "stopped")
    /\ UNCHANGED <<now, window, nonces, read, entered>>

Spent(c) == \E n \in nonces : n.nonce = msg[c].nonce

\* Mutated form of Lifetime: a nonce is kept as long as a message is accepted.
LifetimeMaxAge == MaxAge

\* How long a nonce stays used.
Lifetime == NonceTTL

SetNonce(c) == nonces' = nonces \union {[nonce |-> msg[c].nonce, until |-> now + Lifetime]}

\* SETNX succeeds: on to the geofence and the handler.
SpendNonce(c) ==
    /\ pc[c] = "nonce"
    /\ ~ Spent(c)
    /\ SetNonce(c)
    /\ Goto(c, "handler")
    /\ ForgetClock(c)
    /\ UNCHANGED <<now, window, entered>>

Replayed(c) ==
    /\ pc[c] = "nonce"
    /\ Spent(c)
    /\ Goto(c, "refused")
    /\ ForgetClock(c)
    /\ UNCHANGED <<now, window, nonces, entered>>

\* Redis fails, before the key is set or after: 500, fail closed.
FailClosed(c) ==
    /\ pc[c] = "nonce"
    /\ \/ UNCHANGED nonces
       \/ ~ Spent(c) /\ SetNonce(c)
    /\ Goto(c, "refused")
    /\ ForgetClock(c)
    /\ UNCHANGED <<now, window, entered>>

\* The geofence and the validation of the body let it pass; the player limiter reads
\* its clock.
Handle(c) ==
    /\ pc[c] = "handler"
    /\ Goto(c, "player")
    /\ ReadClock(c)
    /\ UNCHANGED <<now, window, nonces, entered>>

\* Rejected in the handler or before it, the nonce spent.
Reject(c) ==
    /\ pc[c] = "handler"
    /\ Goto(c, "passed")
    /\ UNCHANGED <<now, window, nonces, read, entered>>

-----------------------------------------------------------------------------

\* Time passes, with the keys that expire; no call is slower than Lag.
Tick ==
    /\ now < LastTick
    /\ \A c \in Calls : read[c] # None => now < read[c] + Lag
    /\ now' = now + 1
    /\ nonces' = {n \in nonces : n.until > now + 1}
    /\ UNCHANGED <<window, pc, msg, read, entered>>

Guards(c) == \/ \E s \in Scopes : Enter(c, s) \/ Throttle(c, s) \/ FailOpen(c, s)
             \/ CheckStamp(c) \/ Stale(c)
             \/ SpendNonce(c) \/ Replayed(c) \/ FailClosed(c)
             \/ Handle(c) \/ Reject(c)

Next == \/ \E c \in Calls : Deliver(c) \/ Guards(c)
        \/ \E s \in Scopes : ExpireWindow(s)
        \/ Tick

Spec == Init /\ [][Next]_vars

-----------------------------------------------------------------------------
(* Properties.                                                             *)

Places == {"idle", "operator", "stamp", "nonce", "handler", "player", "stopped", "refused", "passed"}

\* Every variable has its type, and an entry's clock was read before its script ran.
TypeOK ==
    /\ now \in Ticks
    /\ window \in [Scopes -> SUBSET [call: Calls, score: Ticks, at: Ticks]]
    /\ \A s \in Scopes : \A e \in window[s] : e.score <= e.at /\ e.at <= e.score + Lag
    /\ nonces \subseteq [nonce: Nonces, until: Nat]
    /\ pc \in [Calls -> Places]
    /\ msg \in [Calls -> Messages \union {None}]
    /\ read \in [Calls -> Ticks \union {None}]
    /\ entered \in [Scopes -> [Calls -> Ticks \union {None}]]

\* Past the replay guard.
Accepted(c) == pc[c] \in {"handler", "player", "passed"}

\* A signed message passes the guard once, whenever its copies arrive and however
\* long each takes: while its stamp is good its nonce is remembered (replay.go: "a
\* nonce can't be replayed ... after the original nonce entry expired").
MessagePassesOnce ==
    \A c, d \in Calls :
        Accepted(c) /\ Accepted(d) /\ msg[c] = msg[d] => c = d

\* However slow the scripts are to run after their clocks were read, no stretch of
\* Window - Lag ticks sees more than Limit deliveries admitted.
WindowNeverOverfull ==
    \A s \in Scopes : \A t \in Ticks :
        Cardinality({c \in Calls : /\ entered[s][c] # None
                                   /\ t <= entered[s][c]
                                   /\ entered[s][c] < t + Window - Lag}) <= Limit[s]

\* A delivery refused by the operator limiter has not spent its nonce
\* (ratelimit.go: "a rate-limited retry must not burn its nonce"): every live nonce
\* belongs to a message of which some delivery went further.
ThrottledKeepsNonce ==
    \A n \in nonces : \E c \in Calls :
        /\ msg[c] # None /\ msg[c].nonce = n.nonce
        /\ pc[c] \notin {"operator", "stamp", "stopped"}

\* retry_after_ms is honest: when it has passed, and nobody else has come, there is
\* room.
RetryAfterIsHonest ==
    \A c \in Calls : \A s \in Scopes : pc[c] = s /\ Full(s, read[c]) =>
        /\ RetryAfter(s, read[c]) >= 1
        /\ Cardinality({e \in window[s] : e.score > read[c] + RetryAfter(s, read[c]) - Window})
             < Limit[s]
=============================================================================

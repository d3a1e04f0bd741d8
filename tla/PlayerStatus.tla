---------------------------- MODULE PlayerStatus ----------------------------
(***************************************************************************)
(* The users table: CreatePlayer (internal/repository/casino.go) makes a   *)
(* player and its wallet, RecordDecision (internal/repository/kyc.go)      *)
(* audits every decision of the identity provider and applies the newest,  *)
(* and an operator changes a status by hand.  Each call is a transaction;  *)
(* deliveries of the provider come late, twice and out of order.           *)
(***************************************************************************)
EXTENDS Integers, FiniteSets

CONSTANTS Registrations,  \* calls of CreatePlayer
          Deliveries,     \* calls of RecordDecision
          ExternalIds,    \* the operator's stable key of a player
          Usernames,
          Events,         \* event_id, the key of a decision
          Instants,       \* decided_at, the provider's time of a decision
          Profiles,       \* what a registration may ask for
          Decisions,      \* what a delivery may carry
          Orders,         \* the statuses an operator sets by hand
          None

Statuses == {"KYC_PENDING", "ACTIVE", "SUSPENDED", "CLOSED"}

Profile  == [key: ExternalIds, username: Usernames, status: Statuses]
Decision == [key: ExternalIds, event: Events, decision: {"VERIFIED", "REJECTED"}, at: Instants]

ASSUME InstantsAssumption  == Instants \subseteq Nat
ASSUME ProfilesAssumption  == Profiles \subseteq Profile
ASSUME DecisionsAssumption == Decisions \subseteq Decision
ASSUME OrdersAssumption    == Orders \subseteq Statuses
ASSUME CallsAssumption     == Registrations \intersect Deliveries = {}
ASSUME NoneAssumption      == None \notin Registrations \union Profiles \union Decisions /\ None \notin Instants

Calls == Registrations \union Deliveries

VARIABLES users,    \* committed rows: [id, key, username, status, verified]
          wallets,  \* the players (users.id) that have a wallet row
          audit,    \* committed kyc_decisions: the decision and whether applied
          pc, req,  \* each call: where it is, and what it carries
          found,    \* the users.id a call has read or made
          applies,  \* RecordDecision's verdict, held in memory
          reply     \* what a call has answered

vars == <<users, wallets, audit, pc, req, found, applies, reply>>

Places  == {"idle", "arrived", "lookup", "insert", "uncommitted", "audit", "decided",
            "recover", "done"}
Silence == [word |-> "none", player |-> None, applied |-> FALSE]

Init == /\ users = {} /\ wallets = {} /\ audit = {}
        /\ pc = [a \in Calls |-> "idle"]
        /\ req = [a \in Calls |-> None]
        /\ found = [a \in Calls |-> None]
        /\ applies = [a \in Calls |-> FALSE]
        /\ reply = [a \in Calls |-> Silence]

Goto(a, place) == pc' = [pc EXCEPT ![a] = place]

Answer(a, word, player, applied) ==
    /\ Goto(a, "done")
    /\ reply' = [reply EXCEPT ![a] = [word |-> word, player |-> player, applied |-> applied]]

Named(k) == {u \in users : u.key = k}

-----------------------------------------------------------------------------
(* CreatePlayer.  A registration's users.id is the call that inserted it.  *)

ArriveProfile(a) ==
    /\ pc[a] = "idle"
    /\ \E p \in Profiles : req' = [req EXCEPT ![a] = p]
    /\ Goto(a, "lookup")
    /\ UNCHANGED <<users, wallets, audit, found, applies, reply>>

\* SELECT id FROM users: sees the committed rows.
LookupUser(a) ==
    /\ pc[a] = "lookup"
    /\ \/ /\ Named(req[a].key) = {}
          /\ Goto(a, "insert")
          /\ UNCHANGED found
       \/ \E u \in Named(req[a].key) :
            /\ found' = [found EXCEPT ![a] = u.id]
            /\ Goto(a, "uncommitted")
    /\ UNCHANGED <<users, wallets, audit, req, applies, reply>>

NewUser(a) == [id |-> a, key |-> req[a].key, username |-> req[a].username,
               status |-> req[a].status, verified |-> None]

\* users_external_id_unique and users_username_unique.
Collides(p, key, username) == p.key = key \/ p.username = username

\* An uncommitted row of the same key or name makes an INSERT wait.
Blocked(a) == \E b \in Registrations \ {a} :
                 /\ pc[b] = "uncommitted" /\ found[b] = b
                 /\ Collides(req[b], req[a].key, req[a].username)

Taken(a) == \E u \in users : Collides(u, req[a].key, req[a].username)

\* Mutated form of InsertUser: the unique constraints are missing.
InsertUserAgain(a) ==
    /\ pc[a] = "insert"
    /\ found' = [found EXCEPT ![a] = a]
    /\ Goto(a, "uncommitted")
    /\ UNCHANGED <<users, wallets, audit, req, applies, reply>>

InsertUser(a) ==
    /\ pc[a] = "insert"
    /\ ~ Blocked(a)
    /\ ~ Taken(a)
    /\ found' = [found EXCEPT ![a] = a]
    /\ Goto(a, "uncommitted")
    /\ UNCHANGED <<users, wallets, audit, req, applies, reply>>

\* 23505: a racing create won, or the name is another player's.
InsertConflict(a) ==
    /\ pc[a] = "insert"
    /\ Taken(a)
    /\ Answer(a, "conflict", None, FALSE)
    /\ UNCHANGED <<users, wallets, audit, req, found, applies>>

\* The wallet row, ON CONFLICT DO NOTHING, and COMMIT.
CommitPlayer(a) ==
    /\ pc[a] = "uncommitted"
    /\ users' = IF found[a] = a THEN users \union {NewUser(a)} ELSE users
    /\ wallets' = wallets \union {found[a]}
    /\ Answer(a, "player", found[a], FALSE)
    /\ UNCHANGED <<audit, req, found, applies>>

-----------------------------------------------------------------------------
(* RecordDecision.                                                         *)

ArriveDecision(a) ==
    /\ pc[a] = "idle"
    /\ \E d \in Decisions : req' = [req EXCEPT ![a] = d]
    /\ Goto(a, "arrived")
    /\ UNCHANGED <<users, wallets, audit, found, applies, reply>>

\* A call that has read the row FOR UPDATE holds it until its transaction ends.
Locked(id) == \E b \in Deliveries : pc[b] \in {"audit", "decided"} /\ found[b] = id

\* The baseline: no decision was applied yet, or this one is strictly newer.
Newer(at, u) == u.verified = None \/ at > u.verified

\* Mutated form of Verdict: the baseline is not consulted.
VerdictAnyAge(d, u) == d.decision = "VERIFIED"

\* Mutated form of Verdict: only the first verification counts.
VerdictOnce(d, u) == d.decision = "VERIFIED" /\ u.verified = None

Verdict(d, u) == d.decision = "VERIFIED" /\ Newer(d.at, u)

LockUser(a) ==
    /\ pc[a] = "arrived"
    /\ \E u \in Named(req[a].key) :
         /\ ~ Locked(u.id)
         /\ found' = [found EXCEPT ![a] = u.id]
         /\ applies' = [applies EXCEPT ![a] = Verdict(req[a], u)]
    /\ Goto(a, "audit")
    /\ UNCHANGED <<users, wallets, audit, req, reply>>

UnknownPlayer(a) ==
    /\ pc[a] = "arrived"
    /\ Named(req[a].key) = {}
    /\ Answer(a, "unknown", None, FALSE)
    /\ UNCHANGED <<users, wallets, audit, req, found, applies>>

AuditedEvent(e) == \E r \in audit : r.event = e

\* An uncommitted row of the same event makes the INSERT wait.
EventInFlight(a) == \E b \in Deliveries \ {a} :
                       pc[b] = "decided" /\ req[b].event = req[a].event

InsertDecision(a) ==
    /\ pc[a] = "audit"
    /\ ~ EventInFlight(a)
    /\ ~ AuditedEvent(req[a].event)
    /\ Goto(a, "decided")
    /\ UNCHANGED <<users, wallets, audit, req, found, applies, reply>>

\* 23505: this event was recorded before.  Roll back, then look it up.
DuplicateEvent(a) ==
    /\ pc[a] = "audit"
    /\ AuditedEvent(req[a].event)
    /\ Goto(a, "recover")
    /\ UNCHANGED <<users, wallets, audit, req, found, applies, reply>>

Row(a) == [event |-> req[a].event, player |-> found[a], decision |-> req[a].decision,
           at |-> req[a].at, applied |-> applies[a]]

\* Mutated form of Verified: the decision's word is written as the status.
VerifiedAsDecision(u, at) == [u EXCEPT !.status = "VERIFIED", !.verified = at]

\* Status and baseline of a verified player.
Verified(u, at) == [u EXCEPT !.status = "ACTIVE", !.verified = at]

\* UPDATE users when the decision applies, and COMMIT.
CommitDecision(a) ==
    /\ pc[a] = "decided"
    /\ audit' = audit \union {Row(a)}
    /\ users' = {IF applies[a] /\ u.id = found[a] THEN Verified(u, req[a].at) ELSE u : u \in users}
    /\ Answer(a, "recorded", found[a], applies[a])
    /\ UNCHANGED <<wallets, req, found, applies>>

\* Mutated form of RecoverReplay: answers what this delivery would have decided.
RecoverAfresh(a) ==
    /\ pc[a] = "recover"
    /\ \E r \in audit : r.event = req[a].event /\ Answer(a, "replayed", r.player, applies[a])
    /\ UNCHANGED <<users, wallets, audit, req, found, applies>>

RecoverReplay(a) ==
    /\ pc[a] = "recover"
    /\ \E r \in audit : r.event = req[a].event /\ Answer(a, "replayed", r.player, r.applied)
    /\ UNCHANGED <<users, wallets, audit, req, found, applies>>

-----------------------------------------------------------------------------
(* Failures, and the operator.                                             *)

\* A statement fails, or the process dies: PostgreSQL undoes the transaction.
Fail(a) ==
    /\ pc[a] \notin {"idle", "done"}
    /\ Answer(a, "failed", None, FALSE)
    /\ UNCHANGED <<users, wallets, audit, req, found, applies>>

\* COMMIT was applied and its acknowledgement lost.
CommitUnacknowledged(a) ==
    /\ pc[a] = "decided"
    /\ audit' = audit \union {Row(a)}
    /\ users' = {IF applies[a] /\ u.id = found[a] THEN Verified(u, req[a].at) ELSE u : u \in users}
    /\ Answer(a, "failed", None, FALSE)
    /\ UNCHANGED <<wallets, req, found, applies>>

\* UPDATE users SET status, by hand: waits for the row lock.
Order(u) ==
    /\ ~ Locked(u.id)
    /\ \E s \in Orders : users' = (users \ {u}) \union {[u EXCEPT !.status = s]}
    /\ UNCHANGED <<wallets, audit, pc, req, found, applies, reply>>

Finished == (\A a \in Calls : pc[a] = "done") /\ UNCHANGED vars

-----------------------------------------------------------------------------

Register(a) == LookupUser(a) \/ InsertUser(a) \/ InsertConflict(a) \/ CommitPlayer(a)

Record(a) == \/ LockUser(a) \/ UnknownPlayer(a) \/ InsertDecision(a) \/ DuplicateEvent(a)
             \/ CommitDecision(a) \/ RecoverReplay(a)

Next == \/ \E a \in Registrations : ArriveProfile(a) \/ Register(a) \/ Fail(a)
        \/ \E a \in Deliveries : \/ ArriveDecision(a) \/ Record(a) \/ Fail(a)
                                 \/ CommitUnacknowledged(a)
        \/ \E u \in users : Order(u)
        \/ Finished

Spec == Init /\ [][Next]_vars

-----------------------------------------------------------------------------
(* Properties.                                                             *)

UserRow  == [id: Registrations, key: ExternalIds, username: Usernames, status: Statuses,
             verified: Instants \union {None}]
AuditRow == [event: Events, player: Registrations, decision: {"VERIFIED", "REJECTED"},
             at: Instants, applied: BOOLEAN]
Reply    == [word: {"none", "player", "conflict", "unknown", "recorded", "replayed", "failed"},
             player: Registrations \union {None}, applied: BOOLEAN]

\* Every variable has its type.
TypeOK ==
    /\ users \subseteq UserRow
    /\ wallets \subseteq Registrations
    /\ audit \subseteq AuditRow
    /\ pc \in [Calls -> Places]
    /\ req \in [Calls -> Profiles \union Decisions \union {None}]
    /\ found \in [Calls -> Registrations \union {None}]
    /\ applies \in [Calls -> BOOLEAN]
    /\ reply \in [Calls -> Reply]

VerifiedAt(id) == {r.at : r \in {s \in audit : s.player = id /\ s.decision = "VERIFIED"}}

\* The baseline does not depend on the order of the deliveries: it is the
\* newest VERIFIED decision in the audit trail, however late, often and
\* interleaved they come (kyc.go: "a stale/delayed webhook ... can never
\* downgrade or redundantly re-apply").
BaselineIsNewest ==
    \A u \in users :
        IF VerifiedAt(u.id) = {} THEN u.verified = None
        ELSE u.verified \in VerifiedAt(u.id) /\ \A t \in VerifiedAt(u.id) : t <= u.verified

\* The audit trail says which decisions were acted on: those that were newer
\* than every verification applied before them, so no two applied decisions of
\* a player share an instant, and the newest one is applied.
TrailExplainsBaseline ==
    \A u \in users :
        /\ u.verified # None => \E r \in audit : r.player = u.id /\ r.applied /\ r.at = u.verified
        /\ \A r, s \in audit : /\ r.player = u.id /\ s.player = u.id
                               /\ r.applied /\ s.applied /\ r.at = s.at
                               => r = s

\* A delivery, first or repeated, is told what the audit trail holds of its event.
AnswersMatchTrail ==
    \A a \in Deliveries : reply[a].word \in {"recorded", "replayed"} =>
        \E r \in audit : /\ r.event = req[a].event
                         /\ r.player = reply[a].player
                         /\ r.applied = reply[a].applied

\* Racing and repeated registrations of one external_id are told of one player,
\* which has its wallet.
OnePlayerPerKey ==
    /\ \A u, w \in users : u.key = w.key \/ u.username = w.username => u = w
    /\ \A a \in Registrations : reply[a].word = "player" =>
         /\ reply[a].player \in wallets
         /\ \E u \in users : u.id = reply[a].player /\ u.key = req[a].key

=============================================================================

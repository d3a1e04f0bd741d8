------------------------- MODULE PlayerStatusProofs -------------------------
(***************************************************************************)
(* Theorems about PlayerStatus, for any calls, keys, events and instants:  *)
(* registrations of one key end in one player, and the baseline of a       *)
(* player is its newest verification in whatever order the deliveries of   *)
(* the identity provider come.                                             *)
(***************************************************************************)
EXTENDS PlayerStatus, TLAPS

-----------------------------------------------------------------------------
(* Types.                                                                  *)

\* Where each kind of call may be, what it carries there, and that only a call that
\* has returned has answered.
CallsInv ==
    /\ \A a \in Registrations :
          /\ pc[a] \in {"idle", "lookup", "insert", "uncommitted", "done"}
          /\ pc[a] \in {"lookup", "insert", "uncommitted"} => req[a] \in Profiles
          /\ pc[a] = "uncommitted" => found[a] \in Registrations
    /\ \A a \in Deliveries :
          /\ pc[a] \in {"idle", "arrived", "audit", "decided", "recover", "done"}
          /\ pc[a] \in {"arrived", "audit", "decided", "recover"} => req[a] \in Decisions
          /\ pc[a] \in {"audit", "decided"} => found[a] \in Registrations
    /\ \A a \in Calls : reply[a].word # "none" => pc[a] = "done"

TypeInv == TypeOK /\ CallsInv

LEMMA TypeInit == Init => TypeInv
BY DEF Init, TypeInv, TypeOK, CallsInv, Calls, Places, Silence, Reply

\* An answer of the right type is the last step of a call.
LEMMA AnswerTyped ==
    ASSUME TypeInv, NEW a \in Calls, NEW word, NEW player, NEW applied,
           Answer(a, word, player, applied),
           word \in {"none", "player", "conflict", "unknown", "recorded", "replayed", "failed"},
           player \in Registrations \union {None}, applied \in BOOLEAN
    PROVE  /\ pc' \in [Calls -> Places] /\ reply' \in [Calls -> Reply]
           /\ pc' = [pc EXCEPT ![a] = "done"]
           /\ reply'[a].word = word /\ reply'[a].player = player /\ reply'[a].applied = applied
           /\ \A b \in Calls \ {a} : reply'[b] = reply[b]
BY DEF TypeInv, TypeOK, Answer, Goto, Places, Reply

\* ... and whatever else the step writes, calls keep their types.
LEMMA AnswerKeepsCalls ==
    ASSUME TypeInv, NEW a \in Calls, NEW word, NEW player, NEW applied,
           Answer(a, word, player, applied),
           word \in {"none", "player", "conflict", "unknown", "recorded", "replayed", "failed"},
           player \in Registrations \union {None}, applied \in BOOLEAN,
           UNCHANGED <<req, found, applies>>,
           users' \subseteq UserRow, wallets' \subseteq Registrations, audit' \subseteq AuditRow
    PROVE  TypeInv'
<1>1. /\ pc' \in [Calls -> Places] /\ reply' \in [Calls -> Reply]
      /\ pc' = [pc EXCEPT ![a] = "done"]
      /\ \A b \in Calls \ {a} : reply'[b] = reply[b]
  BY AnswerTyped
<1>2. TypeOK' BY <1>1 DEF TypeInv, TypeOK
<1>3. pc \in [Calls -> Places] BY DEF TypeInv, TypeOK
<1>4. CallsInv' BY <1>1, <1>3 DEF TypeInv, CallsInv, Calls
<1> QED BY <1>2, <1>4 DEF TypeInv

LEMMA TypeStep == TypeInv /\ [Next]_vars => TypeInv'
<1> SUFFICES ASSUME TypeInv, [Next]_vars PROVE TypeInv' OBVIOUS
<1> USE ProfilesAssumption, DecisionsAssumption, CallsAssumption
<1>u. users \subseteq UserRow /\ wallets \subseteq Registrations /\ audit \subseteq AuditRow
  BY DEF TypeInv, TypeOK
<1>1. ASSUME NEW a \in Registrations, ArriveProfile(a) PROVE TypeInv'
  BY <1>1 DEF ArriveProfile, Goto, TypeInv, TypeOK, CallsInv, Calls, Places
<1>2. ASSUME NEW a \in Registrations, LookupUser(a) PROVE TypeInv'
  BY <1>2 DEF LookupUser, Goto, Named, TypeInv, TypeOK, CallsInv, Calls, Places, UserRow
<1>3. ASSUME NEW a \in Registrations, InsertUser(a) PROVE TypeInv'
  BY <1>3 DEF InsertUser, Goto, TypeInv, TypeOK, CallsInv, Calls, Places
<1>4. ASSUME NEW a \in Registrations, InsertConflict(a) PROVE TypeInv'
  <2> a \in Calls BY DEF Calls
  <2>1. Answer(a, "conflict", None, FALSE) BY <1>4 DEF InsertConflict
  <2>2. UNCHANGED <<users, wallets, audit, req, found, applies>> BY <1>4 DEF InsertConflict
  <2> QED BY <1>u, <2>1, <2>2, AnswerKeepsCalls
<1>5. ASSUME NEW a \in Registrations, CommitPlayer(a) PROVE TypeInv'
  <2> a \in Calls BY DEF Calls
  <2>1. Answer(a, "player", found[a], FALSE) /\ found[a] \in Registrations
    BY <1>5 DEF CommitPlayer, TypeInv, CallsInv
  <2>2. NewUser(a) \in UserRow
    BY <1>5 DEF CommitPlayer, TypeInv, CallsInv, NewUser, UserRow, Profile
  <2>3. /\ users' \subseteq UserRow /\ wallets' \subseteq Registrations
        /\ UNCHANGED <<audit, req, found, applies>>
    BY <1>5, <1>u, <2>1, <2>2 DEF CommitPlayer
  <2> QED BY <1>u, <2>1, <2>3, AnswerKeepsCalls
<1>6. ASSUME NEW a \in Deliveries, ArriveDecision(a) PROVE TypeInv'
  BY <1>6 DEF ArriveDecision, Goto, TypeInv, TypeOK, CallsInv, Calls, Places
<1>7. ASSUME NEW a \in Deliveries, LockUser(a) PROVE TypeInv'
  <2>1. \A d, u : Verdict(d, u) \in BOOLEAN BY DEF Verdict
  <2> QED BY <1>7, <2>1
          DEF LockUser, Goto, Named, TypeInv, TypeOK, CallsInv, Calls, Places, UserRow
<1>8. ASSUME NEW a \in Deliveries, UnknownPlayer(a) PROVE TypeInv'
  <2> a \in Calls BY DEF Calls
  <2>1. Answer(a, "unknown", None, FALSE) BY <1>8 DEF UnknownPlayer
  <2>2. UNCHANGED <<users, wallets, audit, req, found, applies>> BY <1>8 DEF UnknownPlayer
  <2> QED BY <1>u, <2>1, <2>2, AnswerKeepsCalls
<1>9. ASSUME NEW a \in Deliveries, InsertDecision(a) \/ DuplicateEvent(a) PROVE TypeInv'
  BY <1>9 DEF InsertDecision, DuplicateEvent, Goto, TypeInv, TypeOK, CallsInv, Calls, Places
<1>10. ASSUME NEW a \in Deliveries, CommitDecision(a) \/ CommitUnacknowledged(a) PROVE TypeInv'
  <2> a \in Calls BY DEF Calls
  <2>1. found[a] \in Registrations /\ req[a] \in Decision /\ applies[a] \in BOOLEAN
    BY <1>10 DEF CommitDecision, CommitUnacknowledged, TypeInv, TypeOK, CallsInv
  <2>2. Row(a) \in AuditRow BY <2>1 DEF Row, AuditRow, Decision
  <2>3. \A u \in users : Verified(u, req[a].at) \in UserRow
    <3>1. req[a].at \in Instants BY <2>1 DEF Decision
    <3> QED BY <1>u, <3>1 DEF Verified, UserRow, Statuses
  <2>4. users' \subseteq UserRow /\ audit' \subseteq AuditRow
    BY <1>10, <2>2, <2>3 DEF CommitDecision, CommitUnacknowledged, TypeInv, TypeOK
  <2>5. \/ Answer(a, "recorded", found[a], applies[a])
        \/ Answer(a, "failed", None, FALSE)
    BY <1>10 DEF CommitDecision, CommitUnacknowledged
  <2>6. UNCHANGED <<wallets, req, found, applies>>
    BY <1>10 DEF CommitDecision, CommitUnacknowledged
  <2>7. CASE Answer(a, "recorded", found[a], applies[a])
    BY <1>u, <2>1, <2>4, <2>6, <2>7, AnswerKeepsCalls
  <2>8. CASE Answer(a, "failed", None, FALSE)
    BY <1>u, <2>4, <2>6, <2>8, AnswerKeepsCalls
  <2> QED BY <2>5, <2>7, <2>8
<1>11. ASSUME NEW a \in Deliveries, RecoverReplay(a) PROVE TypeInv'
  <2> a \in Calls BY DEF Calls
  <2>1. PICK r \in audit : Answer(a, "replayed", r.player, r.applied)
    BY <1>11 DEF RecoverReplay
  <2>2. r.player \in Registrations /\ r.applied \in BOOLEAN BY DEF TypeInv, TypeOK, AuditRow
  <2>3. UNCHANGED <<users, wallets, audit, req, found, applies>> BY <1>11 DEF RecoverReplay
  <2> QED BY <1>u, <2>1, <2>2, <2>3, AnswerKeepsCalls
<1>12. ASSUME NEW a \in Calls, Fail(a) PROVE TypeInv'
  <2>1. Answer(a, "failed", None, FALSE) BY <1>12 DEF Fail
  <2>2. UNCHANGED <<users, wallets, audit, req, found, applies>> BY <1>12 DEF Fail
  <2> QED BY <1>u, <2>1, <2>2, AnswerKeepsCalls
<1>13. ASSUME NEW u \in users, Order(u) PROVE TypeInv'
  BY <1>13, OrdersAssumption DEF Order, TypeInv, TypeOK, CallsInv, UserRow
<1>14. CASE UNCHANGED vars
  BY <1>14 DEF vars, TypeInv, TypeOK, CallsInv
<1> QED
  BY <1>1, <1>2, <1>3, <1>4, <1>5, <1>6, <1>7, <1>8, <1>9, <1>10, <1>11, <1>12, <1>13, <1>14
  DEF Next, Register, Record, Finished, Calls

\* Every variable has its type in every reachable state.
THEOREM TypeCorrect == Spec => []TypeOK
<1>1. TypeInv => TypeOK BY DEF TypeInv
<1> QED BY <1>1, TypeInit, TypeStep, PTL DEF Spec
-----------------------------------------------------------------------------
(* Registrations.                                                          *)

\* Nothing under way has the key or the name of a player or of another row not yet
\* committed, and a registration that found a player will tell of it.
RowsInv ==
    /\ \A u \in users : pc[u.id] = "done"
    /\ \A u, w \in users : u.id = w.id \/ Collides(u, w.key, w.username) => u = w
    /\ \A a \in Registrations : pc[a] = "uncommitted" =>
          IF found[a] = a
          THEN /\ ~ Taken(a)
               /\ \A b \in Registrations \ {a} : pc[b] = "uncommitted" /\ found[b] = b =>
                    ~ Collides(req[b], req[a].key, req[a].username)
          ELSE \E u \in users : u.id = found[a] /\ u.key = req[a].key
    /\ \A a \in Registrations : reply[a].word = "player" =>
          /\ reply[a].player \in wallets
          /\ \E u \in users : u.id = reply[a].player /\ u.key = req[a].key

\* The rows of users, but for status and baseline, are what they were.
SameRows ==
    /\ \A u \in users : \E w \in users' :
          w.id = u.id /\ w.key = u.key /\ w.username = u.username
    /\ \A w \in users' : \E u \in users :
          w.id = u.id /\ w.key = u.key /\ w.username = u.username
    /\ \A w, x \in users' : w.id = x.id => w = x

LEMMA RowsKept ==
    ASSUME RowsInv, SameRows,
           \A a \in Calls : pc[a] = "done" => pc'[a] = "done",
           \A u \in users : u.id \in Calls,
           \A a \in Registrations :
              /\ pc'[a] = "uncommitted" =>
                    pc[a] = "uncommitted" /\ found'[a] = found[a] /\ req'[a] = req[a]
              /\ reply'[a].word = "player" => reply'[a] = reply[a] /\ req'[a] = req[a],
           wallets \subseteq wallets'
    PROVE  RowsInv'
<1>1. \A u \in users' : pc'[u.id] = "done" BY DEF RowsInv, SameRows
<1>2. \A u, w \in users' : u.id = w.id \/ Collides(u, w.key, w.username) => u = w
  <2> SUFFICES ASSUME NEW u \in users', NEW w \in users', Collides(u, w.key, w.username)
               PROVE  u = w
    BY DEF SameRows
  <2>1. PICK x \in users : u.id = x.id /\ u.key = x.key /\ u.username = x.username
    BY DEF SameRows
  <2>2. PICK y \in users : w.id = y.id /\ w.key = y.key /\ w.username = y.username
    BY DEF SameRows
  <2>3. x = y BY <2>1, <2>2 DEF RowsInv, Collides
  <2> QED BY <2>1, <2>2, <2>3 DEF SameRows
<1>3. ASSUME NEW a \in Registrations, pc'[a] = "uncommitted"
      PROVE  IF found'[a] = a
             THEN /\ ~ Taken(a)'
                  /\ \A b \in Registrations \ {a} : pc'[b] = "uncommitted" /\ found'[b] = b =>
                       ~ Collides(req'[b], req'[a].key, req'[a].username)
             ELSE \E u \in users' : u.id = found'[a] /\ u.key = req'[a].key
  <2>1. pc[a] = "uncommitted" /\ found'[a] = found[a] /\ req'[a] = req[a] BY <1>3
  <2>2. CASE found[a] = a
    <3>1. ~ Taken(a) BY <2>1, <2>2 DEF RowsInv
    <3>2. ~ Taken(a)' BY <2>1, <3>1 DEF Taken, Collides, SameRows
    <3>3. ASSUME NEW b \in Registrations \ {a}, pc'[b] = "uncommitted", found'[b] = b
          PROVE  ~ Collides(req'[b], req'[a].key, req'[a].username)
      <4>1. pc[b] = "uncommitted" /\ found[b] = b /\ req'[b] = req[b] BY <3>3
      <4> QED BY <2>1, <2>2, <4>1 DEF RowsInv
    <3> QED BY <2>1, <2>2, <3>2, <3>3
  <2>3. CASE found[a] # a
    <3>1. \E u \in users : u.id = found[a] /\ u.key = req[a].key BY <2>1, <2>3 DEF RowsInv
    <3> QED BY <2>1, <2>3, <3>1 DEF SameRows
  <2> QED BY <2>2, <2>3
<1>4. ASSUME NEW a \in Registrations, reply'[a].word = "player"
      PROVE  /\ reply'[a].player \in wallets'
             /\ \E u \in users' : u.id = reply'[a].player /\ u.key = req'[a].key
  <2>1. reply'[a] = reply[a] /\ req'[a] = req[a] BY <1>4
  <2>2. /\ reply[a].player \in wallets
        /\ \E u \in users : u.id = reply[a].player /\ u.key = req[a].key
    BY <1>4, <2>1 DEF RowsInv
  <2> QED BY <2>1, <2>2 DEF SameRows
<1> QED BY <1>1, <1>2, <1>3, <1>4 DEF RowsInv

LEMMA RowsInit == Init => RowsInv
BY DEF Init, RowsInv, Calls, Silence

LEMMA RowsStep == TypeInv /\ RowsInv /\ [Next]_vars => RowsInv'
<1> SUFFICES ASSUME TypeInv, RowsInv, [Next]_vars PROVE RowsInv' OBVIOUS
<1> USE CallsAssumption
<1>a. users \subseteq UserRow /\ \A u \in users : u.id \in Registrations /\ u.id \in Calls
  BY DEF TypeInv, TypeOK, UserRow, Calls
<1>b. \A w, x \in users : w.id = x.id => w = x BY DEF RowsInv
<1>c. ASSUME UNCHANGED users PROVE SameRows BY <1>b, <1>c DEF SameRows
<1>1. ASSUME NEW a \in Registrations, ArriveProfile(a) PROVE RowsInv'
  <2>1. SameRows BY <1>1, <1>c DEF ArriveProfile
  <2> QED BY <1>1, <1>a, <2>1, RowsKept
          DEF ArriveProfile, Goto, TypeInv, TypeOK, CallsInv, Calls
<1>2. ASSUME NEW a \in Registrations, LookupUser(a) PROVE RowsInv'
  <2>1. UNCHANGED <<users, wallets, req, reply>> /\ pc[a] = "lookup"
    BY <1>2 DEF LookupUser
  <2>2. \A b \in Calls \ {a} : pc'[b] = pc[b] /\ found'[b] = found[b]
    BY <1>2 DEF LookupUser, Goto, TypeInv, TypeOK
  <2>3. \/ pc'[a] = "insert"
        \/ pc'[a] = "uncommitted" /\ \E u \in users : u.id = found'[a] /\ u.key = req[a].key
    BY <1>2 DEF LookupUser, Goto, Named, TypeInv, TypeOK, Calls
  <2>4. pc'[a] = "uncommitted" => found'[a] # a BY <2>1, <2>3 DEF RowsInv
  <2>5. \A u \in users : pc'[u.id] = "done" BY <1>a, <2>1, <2>2 DEF RowsInv
  <2>6. \A b \in Registrations \ {a} : Taken(b)' <=> Taken(b) BY <2>1 DEF Taken
  <2> QED BY <2>1, <2>2, <2>3, <2>4, <2>5, <2>6 DEF RowsInv, Calls
<1>3. ASSUME NEW a \in Registrations, InsertUser(a) PROVE RowsInv'
  <2>1. /\ UNCHANGED <<users, wallets, req, reply>> /\ pc[a] = "insert"
        /\ ~ Blocked(a) /\ ~ Taken(a) /\ found'[a] = a
    BY <1>3 DEF InsertUser, TypeInv, TypeOK, Calls
  <2>2. \A b \in Calls \ {a} : pc'[b] = pc[b] /\ found'[b] = found[b]
    BY <1>3 DEF InsertUser, Goto, TypeInv, TypeOK
  <2>3. \A u \in users : pc'[u.id] = "done" BY <1>a, <2>1, <2>2 DEF RowsInv
  <2>4. \A b \in Registrations : Taken(b)' <=> Taken(b) BY <2>1 DEF Taken
  <2>5. \A b \in Registrations \ {a} : pc[b] = "uncommitted" /\ found[b] = b =>
          /\ ~ Collides(req[b], req[a].key, req[a].username)
          /\ ~ Collides(req[a], req[b].key, req[b].username)
    BY <2>1 DEF Blocked, Collides
  <2> QED BY <2>1, <2>2, <2>3, <2>4, <2>5 DEF RowsInv, Calls
<1>4. ASSUME NEW a \in Registrations, InsertConflict(a) PROVE RowsInv'
  <2>1. SameRows BY <1>4, <1>c DEF InsertConflict
  <2> QED BY <1>4, <1>a, <2>1, RowsKept
          DEF InsertConflict, Answer, Goto, TypeInv, TypeOK, Calls
<1>5. ASSUME NEW a \in Registrations, CommitPlayer(a) PROVE RowsInv'
  <2> a \in Calls BY DEF Calls
  <2>1. /\ pc[a] = "uncommitted" /\ UNCHANGED <<req, found>>
        /\ wallets' = wallets \union {found[a]}
        /\ Answer(a, "player", found[a], FALSE) /\ found[a] \in Registrations
    BY <1>5 DEF CommitPlayer, TypeInv, CallsInv
  <2>a. /\ pc' = [pc EXCEPT ![a] = "done"]
        /\ reply'[a].word = "player" /\ reply'[a].player = found[a]
        /\ \A b \in Calls \ {a} : reply'[b] = reply[b]
    BY <2>1, AnswerTyped
  <2>b. pc \in [Calls -> Places] BY DEF TypeInv, TypeOK
  <2>2. /\ pc'[a] = "done" /\ reply'[a].word = "player" /\ reply'[a].player = found[a]
        /\ \A b \in Calls \ {a} : reply'[b] = reply[b] /\ pc'[b] = pc[b]
    BY <2>a, <2>b
  <2>3. CASE found[a] # a
    <3>1. users' = users BY <1>5, <2>3 DEF CommitPlayer
    <3>2. \E u \in users : u.id = found[a] /\ u.key = req[a].key BY <2>1, <2>3 DEF RowsInv
    <3>3. \A b \in Registrations : Taken(b)' <=> Taken(b) BY <2>1, <3>1 DEF Taken
    <3>4. \A u \in users : pc'[u.id] = "done" BY <1>a, <2>2 DEF RowsInv
    <3> QED BY <2>1, <2>2, <3>1, <3>2, <3>3, <3>4 DEF RowsInv, Calls
  <2>4. CASE found[a] = a
    <3>1. users' = users \union {NewUser(a)} BY <1>5, <2>4 DEF CommitPlayer
    <3>2. /\ NewUser(a).id = a /\ NewUser(a).key = req[a].key
          /\ NewUser(a).username = req[a].username
      BY DEF NewUser
    <3>3. ~ Taken(a) /\ \A u \in users : u.id # a BY <2>1, <2>4 DEF RowsInv
    <3>4. \A u, w \in users' : u.id = w.id \/ Collides(u, w.key, w.username) => u = w
      BY <3>1, <3>2, <3>3 DEF RowsInv, Taken, Collides
    <3>5. \A u \in users' : pc'[u.id] = "done" BY <1>a, <2>2, <3>1, <3>2 DEF RowsInv
    <3>6. ASSUME NEW b \in Registrations \ {a}, pc[b] = "uncommitted", found[b] = b
          PROVE  ~ Taken(b)'
      <4>1. ~ Taken(b) /\ ~ Collides(req[a], req[b].key, req[b].username)
        BY <2>1, <2>4, <3>6 DEF RowsInv
      <4> QED BY <2>1, <3>1, <3>2, <4>1 DEF Taken, Collides
    <3> QED BY <2>1, <2>2, <2>4, <3>1, <3>2, <3>4, <3>5, <3>6 DEF RowsInv, Calls
  <2> QED BY <2>3, <2>4
<1>6. ASSUME NEW a \in Deliveries,
             ArriveDecision(a) \/ LockUser(a) \/ UnknownPlayer(a) \/ InsertDecision(a)
             \/ DuplicateEvent(a) \/ RecoverReplay(a)
      PROVE  RowsInv'
  <2>1. UNCHANGED <<users, wallets>>
    BY <1>6 DEF ArriveDecision, LockUser, UnknownPlayer, InsertDecision, DuplicateEvent,
                RecoverReplay
  <2>2. pc[a] # "done" /\ \A b \in Calls \ {a} : /\ pc'[b] = pc[b] /\ found'[b] = found[b]
                                                 /\ req'[b] = req[b] /\ reply'[b] = reply[b]
    BY <1>6 DEF ArriveDecision, LockUser, UnknownPlayer, InsertDecision, DuplicateEvent,
                RecoverReplay, Answer, Goto, TypeInv, TypeOK
  <2> QED BY <1>a, <1>c, <2>1, <2>2, RowsKept DEF Calls
<1>7. ASSUME NEW a \in Deliveries, CommitDecision(a) \/ CommitUnacknowledged(a) PROVE RowsInv'
  <2>1. /\ users' = {IF applies[a] /\ u.id = found[a] THEN Verified(u, req[a].at) ELSE u : u \in users}
        /\ wallets' = wallets
    BY <1>7 DEF CommitDecision, CommitUnacknowledged
  <2>2. \A u \in users : LET v == Verified(u, req[a].at)
                         IN  v.id = u.id /\ v.key = u.key /\ v.username = u.username
    BY <1>a DEF Verified, UserRow
  <2>3. SameRows BY <1>b, <2>1, <2>2 DEF SameRows
  <2>4. pc[a] # "done" /\ \A b \in Calls \ {a} : /\ pc'[b] = pc[b] /\ found'[b] = found[b]
                                                 /\ req'[b] = req[b] /\ reply'[b] = reply[b]
    BY <1>7 DEF CommitDecision, CommitUnacknowledged, Answer, Goto, TypeInv, TypeOK
  <2> QED BY <1>a, <2>1, <2>3, <2>4, RowsKept DEF Calls
<1>8. ASSUME NEW a \in Calls, Fail(a) PROVE RowsInv'
  <2>1. SameRows BY <1>8, <1>c DEF Fail
  <2>2. /\ pc' = [pc EXCEPT ![a] = "done"] /\ reply'[a].word = "failed"
        /\ \A b \in Calls \ {a} : reply'[b] = reply[b]
        /\ UNCHANGED <<wallets, req, found>> /\ pc \in [Calls -> Places]
    BY <1>8, AnswerTyped DEF Fail, TypeInv, TypeOK
  <2> QED BY <1>a, <2>1, <2>2, RowsKept DEF Calls
<1>9. ASSUME NEW u \in users, Order(u) PROVE RowsInv'
  <2>1. PICK s \in Orders : users' = (users \ {u}) \union {[u EXCEPT !.status = s]}
    BY <1>9 DEF Order
  <2> DEFINE v == [u EXCEPT !.status = s]
  <2>2. v.id = u.id /\ v.key = u.key /\ v.username = u.username BY <1>a DEF UserRow
  <2>3. SameRows BY <1>b, <2>1, <2>2 DEF SameRows
  <2> QED BY <1>9, <1>a, <2>3, RowsKept DEF Order
<1>10. CASE UNCHANGED vars
  <2>1. SameRows BY <1>10, <1>c DEF vars
  <2> QED BY <1>10, <1>a, <2>1, RowsKept DEF vars
<1> QED BY <1>1, <1>2, <1>3, <1>4, <1>5, <1>6, <1>7, <1>8, <1>9, <1>10
        DEF Next, Register, Record, Finished, Calls

\* However registrations race, fail and are repeated, a key and a username have one
\* player, and whoever is told of a player is told of that of its key, with a wallet.
THEOREM OnePlayerCorrect == Spec => []OnePlayerPerKey
<1>1. Init => TypeInv /\ RowsInv BY TypeInit, RowsInit
<1>2. (TypeInv /\ RowsInv) /\ [Next]_vars => (TypeInv /\ RowsInv)' BY TypeStep, RowsStep
<1>3. RowsInv => OnePlayerPerKey BY DEF RowsInv, OnePlayerPerKey, Collides
<1> QED BY <1>1, <1>2, <1>3, PTL DEF Spec
-----------------------------------------------------------------------------
(* Decisions.                                                              *)

Deciding(a) == pc[a] \in {"audit", "decided"}

\* A verdict held in memory is that of the player's row as it stands, whose lock no
\* other delivery has.
LockInv ==
    /\ \A a \in Deliveries : Deciding(a) =>
          \E u \in users : u.id = found[a] /\ applies[a] = Verdict(req[a], u)
    /\ \A a, b \in Deliveries : Deciding(a) /\ Deciding(b) /\ found[a] = found[b] => a = b

LEMMA LockInit == Init => LockInv
BY DEF Init, LockInv, Deciding, Calls

\* A step that locks nothing leaves the rows alone that others have locked.
LEMMA LockKept ==
    ASSUME LockInv,
           \A b \in Deliveries : Deciding(b)' =>
              /\ Deciding(b) /\ found'[b] = found[b] /\ applies'[b] = applies[b] /\ req'[b] = req[b]
              /\ \A u \in users : u.id = found[b] => u \in users'
    PROVE  LockInv'
BY DEF LockInv, Deciding

LEMMA LockStep == TypeInv /\ RowsInv /\ LockInv /\ [Next]_vars => LockInv'
<1> SUFFICES ASSUME TypeInv, RowsInv, LockInv, [Next]_vars PROVE LockInv' OBVIOUS
<1> USE CallsAssumption
<1>p. /\ pc \in [Calls -> Places] /\ found \in [Calls -> Registrations \union {None}]
      /\ applies \in [Calls -> BOOLEAN]
  BY DEF TypeInv, TypeOK
<1>1. ASSUME NEW a \in Registrations,
             ArriveProfile(a) \/ LookupUser(a) \/ InsertUser(a) \/ InsertConflict(a)
             \/ CommitPlayer(a)
      PROVE  LockInv'
  <2>1. users \subseteq users' /\ UNCHANGED applies
    BY <1>1 DEF ArriveProfile, LookupUser, InsertUser, InsertConflict, CommitPlayer
  <2>2. \A b \in Deliveries : pc'[b] = pc[b] /\ found'[b] = found[b] /\ req'[b] = req[b]
    BY <1>1, <1>p DEF ArriveProfile, LookupUser, InsertUser, InsertConflict, CommitPlayer,
                      Answer, Goto, Calls, TypeInv, TypeOK
  <2> QED BY <2>1, <2>2, LockKept DEF Deciding
<1>2. ASSUME NEW a \in Deliveries, LockUser(a) PROVE LockInv'
  <2>1. PICK u \in users : /\ ~ Locked(u.id)
                           /\ found' = [found EXCEPT ![a] = u.id]
                           /\ applies' = [applies EXCEPT ![a] = Verdict(req[a], u)]
    BY <1>2 DEF LockUser, Named
  <2>2. /\ found'[a] = u.id /\ applies'[a] = Verdict(req[a], u)
        /\ \A b \in Deliveries \ {a} : /\ pc'[b] = pc[b] /\ found'[b] = found[b]
                                       /\ applies'[b] = applies[b]
        /\ UNCHANGED <<users, req>>
    BY <1>2, <1>p, <2>1 DEF LockUser, Goto, Calls
  <2>3. \A b \in Deliveries \ {a} : Deciding(b)' => Deciding(b) /\ found[b] # u.id
    BY <2>1, <2>2 DEF Deciding, Locked
  <2>4. Verdict(req'[a], u) = Verdict(req[a], u) BY <2>2
  <2> QED BY <2>2, <2>3, <2>4 DEF LockInv, Deciding
<1>3. ASSUME NEW a \in Deliveries,
             ArriveDecision(a) \/ UnknownPlayer(a) \/ InsertDecision(a) \/ DuplicateEvent(a)
             \/ RecoverReplay(a)
      PROVE  LockInv'
  <2>1. UNCHANGED <<users, found, applies>>
    BY <1>3 DEF ArriveDecision, UnknownPlayer, InsertDecision, DuplicateEvent, RecoverReplay
  <2>2. \A b \in Deliveries \ {a} : pc'[b] = pc[b] /\ req'[b] = req[b]
    BY <1>3, <1>p DEF ArriveDecision, UnknownPlayer, InsertDecision, DuplicateEvent,
                      RecoverReplay, Answer, Goto, Calls, TypeInv, TypeOK
  <2>3. Deciding(a)' => Deciding(a) /\ req'[a] = req[a]
    BY <1>3, <1>p DEF ArriveDecision, UnknownPlayer, InsertDecision, DuplicateEvent,
                      RecoverReplay, Answer, Goto, Calls, Deciding
  <2> QED BY <2>1, <2>2, <2>3, LockKept DEF Deciding
<1>4. ASSUME NEW a \in Deliveries, CommitDecision(a) \/ CommitUnacknowledged(a) PROVE LockInv'
  <2>1. /\ users' = {IF applies[a] /\ u.id = found[a] THEN Verified(u, req[a].at) ELSE u : u \in users}
        /\ UNCHANGED <<req, found, applies>> /\ Deciding(a)
    BY <1>4 DEF CommitDecision, CommitUnacknowledged, Deciding
  <2>2. pc' = [pc EXCEPT ![a] = "done"]
    BY <1>4 DEF CommitDecision, CommitUnacknowledged, Answer, Goto
  <2>3. \A b \in Deliveries : Deciding(b)' => Deciding(b) /\ b # a
    BY <2>2, <1>p DEF Deciding, Calls
  <2>4. \A b \in Deliveries : Deciding(b)' => found[b] # found[a]
    BY <2>1, <2>3 DEF LockInv
  <2> QED BY <2>1, <2>3, <2>4, LockKept
<1>5. ASSUME NEW a \in Calls, Fail(a) PROVE LockInv'
  <2>1. UNCHANGED <<users, req, found, applies>> /\ pc' = [pc EXCEPT ![a] = "done"]
    BY <1>5 DEF Fail, Answer, Goto
  <2>2. \A b \in Deliveries : Deciding(b)' => Deciding(b) BY <2>1, <1>p DEF Deciding, Calls
  <2> QED BY <2>1, <2>2, LockKept
<1>6. ASSUME NEW u \in users, Order(u) PROVE LockInv'
  <2>1. PICK s \in Orders : users' = (users \ {u}) \union {[u EXCEPT !.status = s]}
    BY <1>6 DEF Order
  <2>2. UNCHANGED <<pc, req, found, applies>> BY <1>6 DEF Order
  <2>3. \A b \in Deliveries : Deciding(b) => found[b] # u.id
    BY <1>6 DEF Order, Locked, Deciding
  <2> QED BY <2>1, <2>2, <2>3, LockKept DEF Deciding
<1>7. CASE UNCHANGED vars BY <1>7, LockKept DEF vars, Deciding
<1> QED BY <1>1, <1>2, <1>3, <1>4, <1>5, <1>6, <1>7
        DEF Next, Register, Record, Finished, Calls

\* The audit trail is about players, and what was applied was a verification.
TrailInv ==
    /\ \A r \in audit : /\ \E u \in users : u.id = r.player
                        /\ r.applied => r.decision = "VERIFIED"
    /\ BaselineIsNewest
    /\ TrailExplainsBaseline

LEMMA TrailInit == Init => TrailInv
BY DEF Init, TrailInv, BaselineIsNewest, TrailExplainsBaseline, VerifiedAt

\* A step that writes no decision may add players and leaves baselines alone.
LEMMA TrailKept ==
    ASSUME TrailInv, UNCHANGED audit,
           \A u \in users : \E w \in users' : w.id = u.id,
           \A w \in users' : \/ w.verified = None /\ \A u \in users : u.id # w.id
                             \/ \E u \in users : u.id = w.id /\ u.verified = w.verified
    PROVE  TrailInv'
<1>1. \A id : VerifiedAt(id)' = VerifiedAt(id) BY DEF VerifiedAt
<1>2. ASSUME NEW w \in users'
      PROVE  /\ IF VerifiedAt(w.id) = {} THEN w.verified = None
                ELSE w.verified \in VerifiedAt(w.id) /\ \A t \in VerifiedAt(w.id) : t <= w.verified
             /\ w.verified # None =>
                  \E r \in audit : r.player = w.id /\ r.applied /\ r.at = w.verified
             /\ \A r, s \in audit : /\ r.player = w.id /\ s.player = w.id
                                    /\ r.applied /\ s.applied /\ r.at = s.at
                                    => r = s
  <2>1. CASE w.verified = None /\ \A u \in users : u.id # w.id
    BY <2>1 DEF TrailInv, VerifiedAt
  <2>2. CASE \E u \in users : u.id = w.id /\ u.verified = w.verified
    <3>1. PICK u \in users : u.id = w.id /\ u.verified = w.verified BY <2>2
    <3>2. IF VerifiedAt(u.id) = {} THEN u.verified = None
          ELSE u.verified \in VerifiedAt(u.id) /\ \A t \in VerifiedAt(u.id) : t <= u.verified
      BY DEF TrailInv, BaselineIsNewest
    <3>3. /\ u.verified # None =>
               \E r \in audit : r.player = u.id /\ r.applied /\ r.at = u.verified
          /\ \A r, s \in audit : /\ r.player = u.id /\ s.player = u.id
                                 /\ r.applied /\ s.applied /\ r.at = s.at
                                 => r = s
      BY DEF TrailInv, TrailExplainsBaseline
    <3> QED BY <3>1, <3>2, <3>3
  <2> QED BY <1>2, <2>1, <2>2
<1>3. BaselineIsNewest' BY <1>1, <1>2 DEF BaselineIsNewest
<1>4. TrailExplainsBaseline' BY <1>2 DEF TrailExplainsBaseline
<1> QED BY <1>3, <1>4 DEF TrailInv

\* A COMMIT that adds a decision: its verdict is that of the row as it stands.
LEMMA TrailGrows ==
    ASSUME TypeInv, RowsInv, LockInv, TrailInv, NEW a \in Deliveries, Deciding(a),
           audit' = audit \union {Row(a)},
           users' = {IF applies[a] /\ u.id = found[a] THEN Verified(u, req[a].at) ELSE u : u \in users}
    PROVE  TrailInv'
<1> DEFINE new == Row(a)
<1>1. /\ new.player = found[a] /\ new.decision = req[a].decision
      /\ new.at = req[a].at /\ new.applied = applies[a]
  BY DEF Row
<1>2. PICK v \in users : v.id = found[a] /\ applies[a] = Verdict(req[a], v)
  BY DEF LockInv
<1>3. /\ req[a].at \in Instants /\ req[a].at \in Nat
      /\ Instants \subseteq Nat /\ None \notin Instants
      /\ \A u \in users : u \in UserRow
      /\ \A r \in audit : r.at \in Instants
  BY InstantsAssumption, NoneAssumption, DecisionsAssumption
     DEF TypeInv, TypeOK, CallsInv, Deciding, Decision, AuditRow
<1>4. \A u \in users : LET w == Verified(u, req[a].at)
                       IN  w.id = u.id /\ w.verified = req[a].at
  BY <1>3 DEF Verified, UserRow
<1>5. \A id : VerifiedAt(id)' = VerifiedAt(id) \union
                 IF id = found[a] /\ req[a].decision = "VERIFIED" THEN {req[a].at} ELSE {}
  BY <1>1 DEF VerifiedAt
<1>6. \A t \in VerifiedAt(found[a]) : t \in Nat BY <1>3 DEF VerifiedAt
<1>7. ASSUME NEW w \in users'
      PROVE  /\ IF VerifiedAt(w.id)' = {} THEN w.verified = None
                ELSE w.verified \in VerifiedAt(w.id)' /\ \A t \in VerifiedAt(w.id)' : t <= w.verified
             /\ w.verified # None =>
                  \E r \in audit' : r.player = w.id /\ r.applied /\ r.at = w.verified
             /\ \A r, s \in audit' : /\ r.player = w.id /\ s.player = w.id
                                     /\ r.applied /\ s.applied /\ r.at = s.at
                                     => r = s
  <2>1. CASE w.id # found[a]
    <3>1. w \in users BY <1>4, <2>1
    <3>2. VerifiedAt(w.id)' = VerifiedAt(w.id) BY <1>5, <2>1
    <3> QED BY <1>1, <2>1, <3>1, <3>2 DEF TrailInv, BaselineIsNewest, TrailExplainsBaseline
  <2>2. CASE w.id = found[a] /\ ~ applies[a]
    <3>1. w = v BY <1>2, <2>2 DEF RowsInv
    <3>2. req[a].decision # "VERIFIED" \/ (v.verified # None /\ ~ (req[a].at > v.verified))
      BY <1>2, <2>2 DEF Verdict, Newer
    <3>3. v.verified \in Instants \union {None} BY <1>3 DEF UserRow
    <3>4. v.verified = None => VerifiedAt(v.id) = {}
      BY <1>2, <1>3, <1>6 DEF TrailInv, BaselineIsNewest, VerifiedAt
    <3>5. VerifiedAt(v.id) # {} => /\ v.verified \in VerifiedAt(v.id)
                                   /\ \A t \in VerifiedAt(v.id) : t <= v.verified
      BY DEF TrailInv, BaselineIsNewest
    <3>6. v.verified # None => VerifiedAt(v.id) # {} BY DEF TrailInv, BaselineIsNewest
    <3>7. IF VerifiedAt(v.id)' = {} THEN v.verified = None
          ELSE v.verified \in VerifiedAt(v.id)' /\ \A t \in VerifiedAt(v.id)' : t <= v.verified
      <4>1. CASE req[a].decision # "VERIFIED"
        <5>1. VerifiedAt(v.id)' = VerifiedAt(v.id) BY <1>5, <4>1
        <5> QED BY <3>4, <3>5, <3>6, <5>1
      <4>2. CASE req[a].decision = "VERIFIED"
        <5>1. VerifiedAt(v.id)' = VerifiedAt(v.id) \union {req[a].at} BY <1>2, <1>5, <4>2
        <5>2. req[a].at <= v.verified
          <6>1. v.verified \in Nat BY <1>3, <3>2, <3>3, <4>2
          <6> QED BY <1>3, <3>2, <4>2, <6>1
        <5> QED BY <3>2, <3>5, <3>6, <4>2, <5>1, <5>2
      <4> QED BY <4>1, <4>2
    <3>8. \A r \in audit' : r.applied => r \in audit BY <1>1, <2>2
    <3> QED BY <1>2, <3>1, <3>7, <3>8 DEF TrailInv, TrailExplainsBaseline
  <2>3. CASE w.id = found[a] /\ applies[a]
    <3>1. w.verified = req[a].at
      <4>1. PICK u \in users :
               w = IF applies[a] /\ u.id = found[a] THEN Verified(u, req[a].at) ELSE u
        OBVIOUS
      <4> QED BY <1>4, <2>3, <4>1
    <3>2. req[a].decision = "VERIFIED" /\ (v.verified = None \/ req[a].at > v.verified)
      BY <1>2, <2>3 DEF Verdict, Newer
    <3>3. \A t \in VerifiedAt(v.id) : t < req[a].at
      <4>1. v.verified \in Instants \union {None} BY <1>3 DEF UserRow
      <4>2. ASSUME NEW t \in VerifiedAt(v.id) PROVE t < req[a].at
        <5>1. v.verified \in VerifiedAt(v.id) /\ t <= v.verified
          BY <4>2 DEF TrailInv, BaselineIsNewest
        <5>2. v.verified \in Nat /\ t \in Nat BY <1>2, <1>6, <5>1
        <5>3. v.verified # None BY <1>3, <5>1 DEF VerifiedAt
        <5>4. v.verified < req[a].at BY <1>3, <3>2, <5>2, <5>3
        <5> QED BY <1>3, <5>1, <5>2, <5>4
      <4> QED BY <4>2
    <3>4. VerifiedAt(w.id)' = VerifiedAt(v.id) \union {req[a].at} BY <1>2, <1>5, <2>3, <3>2
    <3>5. w.verified \in VerifiedAt(w.id)' /\ \A t \in VerifiedAt(w.id)' : t <= w.verified
      <4>1. req[a].at <= req[a].at BY <1>3
      <4>2. \A t \in VerifiedAt(v.id) : t <= req[a].at BY <1>2, <1>3, <1>6, <3>3
      <4> QED BY <3>1, <3>4, <4>1, <4>2
    <3>6. new \in audit' /\ new.player = w.id /\ new.applied /\ new.at = w.verified
      BY <1>1, <2>3, <3>1
    <3>7. \A r \in audit : r.player = w.id /\ r.applied => r.at \in VerifiedAt(v.id)
      BY <1>2, <2>3 DEF TrailInv, VerifiedAt
    <3>8. \A r \in audit : r.player = w.id /\ r.applied => r.at # new.at
      BY <1>1, <1>2, <1>3, <1>6, <3>3, <3>7
    <3>9. \A r, s \in audit' : /\ r.player = w.id /\ s.player = w.id
                               /\ r.applied /\ s.applied /\ r.at = s.at
                               => r = s
      BY <1>2, <2>3, <3>8 DEF TrailInv, TrailExplainsBaseline
    <3> QED BY <3>4, <3>5, <3>6, <3>9
  <2> QED BY <2>1, <2>2, <2>3
<1>8. \A r \in audit' : /\ \E u \in users' : u.id = r.player
                        /\ r.applied => r.decision = "VERIFIED"
  <2>1. \A u \in users : \E w \in users' : w.id = u.id BY <1>4
  <2>2. applies[a] => req[a].decision = "VERIFIED" BY <1>2 DEF Verdict
  <2> QED BY <1>1, <1>2, <2>1, <2>2 DEF TrailInv
<1> QED BY <1>7, <1>8 DEF TrailInv, BaselineIsNewest, TrailExplainsBaseline

LEMMA TrailStep == TypeInv /\ RowsInv /\ LockInv /\ TrailInv /\ [Next]_vars => TrailInv'
<1> SUFFICES ASSUME TypeInv, RowsInv, LockInv, TrailInv, [Next]_vars PROVE TrailInv' OBVIOUS
<1>1. ASSUME UNCHANGED <<users, audit>> PROVE TrailInv' BY <1>1, TrailKept
<1>2. ASSUME NEW a \in Registrations, CommitPlayer(a) PROVE TrailInv'
  <2>1. UNCHANGED audit /\ pc[a] = "uncommitted"
        /\ users' = IF found[a] = a THEN users \union {NewUser(a)} ELSE users
    BY <1>2 DEF CommitPlayer
  <2>2. NewUser(a).id = a /\ NewUser(a).verified = None BY DEF NewUser
  <2>3. \A u \in users : u.id # a BY <2>1 DEF RowsInv
  <2> QED BY <2>1, <2>2, <2>3, TrailKept
<1>3. ASSUME NEW a \in Deliveries, CommitDecision(a) \/ CommitUnacknowledged(a) PROVE TrailInv'
  BY <1>3, TrailGrows DEF CommitDecision, CommitUnacknowledged, Deciding
<1>4. ASSUME NEW u \in users, Order(u) PROVE TrailInv'
  <2>1. PICK s \in Orders : users' = (users \ {u}) \union {[u EXCEPT !.status = s]}
    BY <1>4 DEF Order
  <2> DEFINE v == [u EXCEPT !.status = s]
  <2>2. u \in UserRow BY DEF TypeInv, TypeOK
  <2>3. v.id = u.id /\ v.verified = u.verified BY <2>2 DEF UserRow
  <2>4. UNCHANGED audit BY <1>4 DEF Order
  <2> QED BY <2>1, <2>3, <2>4, TrailKept
<1> QED BY <1>1, <1>2, <1>3, <1>4
        DEF Next, Register, Record, Finished, vars, ArriveProfile, LookupUser, InsertUser,
            InsertConflict, ArriveDecision, LockUser, UnknownPlayer, InsertDecision,
            DuplicateEvent, RecoverReplay, Fail

DecisionInv == TypeInv /\ RowsInv /\ LockInv /\ TrailInv

LEMMA DecisionInvariant == Spec => []DecisionInv
<1>1. Init => DecisionInv BY TypeInit, RowsInit, LockInit, TrailInit DEF DecisionInv
<1>2. DecisionInv /\ [Next]_vars => DecisionInv'
  BY TypeStep, RowsStep, LockStep, TrailStep DEF DecisionInv
<1> QED BY <1>1, <1>2, PTL DEF Spec

\* However late, often and interleaved the deliveries come, and whatever an operator
\* orders meanwhile, a player's baseline is its newest recorded verification.
THEOREM BaselineCorrect == Spec => []BaselineIsNewest
<1>1. DecisionInv => BaselineIsNewest BY DEF DecisionInv, TrailInv
<1> QED BY <1>1, DecisionInvariant, PTL

\* The decisions marked as applied are those that moved the baseline, each once.
THEOREM TrailCorrect == Spec => []TrailExplainsBaseline
<1>1. DecisionInv => TrailExplainsBaseline BY DEF DecisionInv, TrailInv
<1> QED BY <1>1, DecisionInvariant, PTL

\* Every delivery that is answered with a decision is answered with the recorded one.
THEOREM AnswersCorrect == Spec => []AnswersMatchTrail
<1>1. Init => AnswersMatchTrail BY DEF Init, AnswersMatchTrail, Silence, Calls
<1>2. TypeInv /\ AnswersMatchTrail /\ [Next]_vars => AnswersMatchTrail'
  <2> SUFFICES ASSUME TypeInv, AnswersMatchTrail, [Next]_vars,
                      NEW b \in Deliveries, reply'[b].word \in {"recorded", "replayed"}
               PROVE  \E r \in audit' : /\ r.event = req'[b].event
                                        /\ r.player = reply'[b].player
                                        /\ r.applied = reply'[b].applied
    BY DEF AnswersMatchTrail
  <2> USE CallsAssumption
  <2>t. /\ reply \in [Calls -> Reply] /\ b \in Calls
        /\ reply[b].word # "none" => pc[b] = "done"
    BY DEF TypeInv, TypeOK, CallsInv, Calls
  <2>1. ASSUME reply'[b] = reply[b], audit \subseteq audit',
               req'[b] = req[b] \/ pc[b] = "idle"
        PROVE  \E r \in audit' : /\ r.event = req'[b].event
                                 /\ r.player = reply'[b].player
                                 /\ r.applied = reply'[b].applied
    BY <2>t, <2>1 DEF AnswersMatchTrail
  <2>2. ASSUME NEW a \in Registrations, ArriveProfile(a) \/ Register(a)
        PROVE  reply'[b] = reply[b] /\ audit' = audit /\ req'[b] = req[b]
    BY <2>2, <2>t DEF ArriveProfile, Register, LookupUser, InsertUser, InsertConflict,
                      CommitPlayer, Answer, TypeInv, TypeOK, Calls
  <2>3. ASSUME NEW a \in Deliveries,
               ArriveDecision(a) \/ LockUser(a) \/ InsertDecision(a) \/ DuplicateEvent(a)
        PROVE  reply'[b] = reply[b] /\ audit' = audit /\ (req'[b] = req[b] \/ pc[b] = "idle")
    BY <2>3 DEF ArriveDecision, LockUser, InsertDecision, DuplicateEvent, TypeInv, TypeOK, Calls
  <2>4. ASSUME NEW a \in Calls, Fail(a) \/ UnknownPlayer(a) \/ CommitUnacknowledged(a)
        PROVE  reply'[b] = reply[b] /\ audit \subseteq audit' /\ req'[b] = req[b]
    BY <2>4, <2>t DEF Fail, UnknownPlayer, CommitUnacknowledged, Answer, TypeInv, TypeOK
  <2>5. ASSUME NEW a \in Deliveries, CommitDecision(a), a # b
        PROVE  reply'[b] = reply[b] /\ audit \subseteq audit' /\ req'[b] = req[b]
    BY <2>5, <2>t DEF CommitDecision, Answer, Calls
  <2>6. ASSUME CommitDecision(b)
        PROVE  \E r \in audit' : /\ r.event = req'[b].event
                                 /\ r.player = reply'[b].player
                                 /\ r.applied = reply'[b].applied
    <3>1. /\ Row(b) \in audit' /\ req' = req
          /\ reply'[b] = [word |-> "recorded", player |-> found[b], applied |-> applies[b]]
      BY <2>6, <2>t DEF CommitDecision, Answer
    <3>2. Row(b).event = req[b].event /\ Row(b).player = found[b] /\ Row(b).applied = applies[b]
      BY DEF Row
    <3> QED BY <3>1, <3>2
  <2>7. ASSUME NEW a \in Deliveries, RecoverReplay(a), a # b
        PROVE  reply'[b] = reply[b] /\ audit' = audit /\ req'[b] = req[b]
    BY <2>7, <2>t DEF RecoverReplay, Answer, Calls
  <2>8. ASSUME RecoverReplay(b)
        PROVE  \E r \in audit' : /\ r.event = req'[b].event
                                 /\ r.player = reply'[b].player
                                 /\ r.applied = reply'[b].applied
    BY <2>8, <2>t DEF RecoverReplay, Answer
  <2>9. ASSUME NEW u \in users, Order(u)
        PROVE  reply'[b] = reply[b] /\ audit' = audit /\ req'[b] = req[b]
    BY <2>9 DEF Order
  <2>10. ASSUME UNCHANGED vars
         PROVE  reply'[b] = reply[b] /\ audit' = audit /\ req'[b] = req[b]
    BY <2>10 DEF vars
  <2> QED BY <2>1, <2>2, <2>3, <2>4, <2>5, <2>6, <2>7, <2>8, <2>9, <2>10
          DEF Next, Record, Finished, Calls
<1> QED BY <1>1, <1>2, TypeInit, TypeStep, PTL DEF Spec
=============================================================================

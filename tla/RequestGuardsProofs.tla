------------------------ MODULE RequestGuardsProofs ------------------------
(***************************************************************************)
(* Theorems about RequestGuards, for any deliveries, messages, windows and *)
(* delays: a signed message passes the replay guard once, a sliding window *)
(* never admits more than its limit, and the wait it advises suffices.     *)
(***************************************************************************)
EXTENDS RequestGuards, FiniteSetTheorems, FunctionTheorems, WellFoundedInduction, TLAPS

-----------------------------------------------------------------------------
(* Types.                                                                  *)

Reading == {"operator", "nonce", "player"}

\* Every call in flight carries a message, and its clock was read at most Lag ago
\* where it is about to call Redis.
CallsInv ==
    \A c \in Calls :
        /\ pc[c] = "idle" <=> msg[c] = None
        /\ pc[c] \in Reading => read[c] # None
        /\ read[c] # None => read[c] <= now /\ now <= read[c] + Lag

TypeInv == TypeOK /\ CallsInv

LEMMA Constants ==
    /\ MaxAge \in Nat /\ ClockSkew \in Nat /\ NonceTTL \in Nat /\ Lag \in Nat
    /\ LastTick \in Nat /\ Window \in Nat /\ Window >= 1
    /\ \A s \in Scopes : Limit[s] \in Nat /\ Limit[s] >= 1
    /\ \A m \in Messages : m.nonce \in Nonces /\ m.stamp \in Int
    /\ None \notin Messages /\ None \notin Nat
    /\ NonceTTL > MaxAge + ClockSkew + Lag
    /\ Ticks \subseteq Nat /\ Ticks \subseteq Int /\ 0 \in Ticks /\ None \notin Ticks
BY MessagesAssumption, TimesAssumption, WindowAssumption, NoneAssumption, TTLAssumption DEF Ticks

\* What typing says of the instants that the guards compare.
LEMMA Instants ==
    ASSUME TypeInv
    PROVE  /\ now \in Nat
           /\ \A c \in Calls : read[c] # None =>
                 read[c] \in Nat /\ read[c] <= now /\ now <= read[c] + Lag
           /\ \A s \in Scopes : \A e \in window[s] :
                 e.score \in Nat /\ e.at \in Nat /\ e.at <= e.score + Lag
           /\ \A s \in Scopes : \A c \in Calls :
                 entered[s][c] # None => entered[s][c] \in Nat
<1>1. now \in Nat  BY Constants DEF TypeInv, TypeOK
<1>2. ASSUME NEW c \in Calls, read[c] # None
      PROVE  read[c] \in Nat /\ read[c] <= now /\ now <= read[c] + Lag
  <2>1. read[c] \in Ticks  BY <1>2 DEF TypeInv, TypeOK
  <2> QED BY <2>1, <1>2, Constants DEF TypeInv, CallsInv
<1>3. ASSUME NEW s \in Scopes, NEW e \in window[s]
      PROVE  e.score \in Nat /\ e.at \in Nat /\ e.at <= e.score + Lag
  <2>1. window[s] \subseteq [call: Calls, score: Ticks, at: Ticks]
    BY DEF TypeInv, TypeOK
  <2>2. e.score \in Ticks /\ e.at \in Ticks  BY <2>1
  <2> QED BY <2>2, Constants DEF TypeInv, TypeOK
<1>4. ASSUME NEW s \in Scopes, NEW c \in Calls, entered[s][c] # None
      PROVE  entered[s][c] \in Nat
  <2>1. entered[s] \in [Calls -> Ticks \union {None}]  BY DEF TypeInv, TypeOK
  <2>2. entered[s][c] \in Ticks  BY <2>1, <1>4
  <2> QED BY <2>2, Constants
<1> QED BY <1>1, <1>2, <1>3, <1>4

LEMMA TypeInit == Init => TypeInv
BY Constants DEF Init, TypeInv, TypeOK, CallsInv, Places, Reading

LEMMA TypeStep == TypeInv /\ [Next]_vars => TypeInv'
<1> SUFFICES ASSUME TypeInv, [Next]_vars PROVE TypeInv'
  OBVIOUS
<1> USE Constants DEF TypeInv
<1>1. ASSUME NEW c \in Calls, Deliver(c) PROVE TypeInv'
  <2>1. PICK m \in Messages : msg' = [msg EXCEPT ![c] = m]  BY <1>1 DEF Deliver
  <2>2. now \in Ticks  BY DEF TypeOK
  <2>3. TypeOK'  BY <1>1, <2>1, <2>2 DEF Deliver, ReadClock, TypeOK, Places
  <2>4. CallsInv'  BY <1>1, <2>1, <2>2 DEF Deliver, ReadClock, TypeOK, CallsInv, Reading
  <2> QED BY <2>3, <2>4
<1>2. ASSUME NEW c \in Calls, NEW s \in Scopes, Enter(c, s) PROVE TypeInv'
  <2> DEFINE e == [call |-> c, score |-> read[c], at |-> now]
  <2>1. /\ read[c] \in Ticks /\ now \in Ticks
        /\ read[c] <= now /\ now <= read[c] + Lag
    BY <1>2 DEF Enter, TypeOK, CallsInv, Scopes, Reading
  <2>2. /\ e \in [call: Calls, score: Ticks, at: Ticks]
        /\ e.score <= e.at /\ e.at <= e.score + Lag
    BY <2>1
  <2>3. window' = [window EXCEPT ![s] = Live(s, read[c]) \union {e}]
    BY <1>2 DEF Enter
  <2> HIDE DEF e
  <2>4. /\ window' \in [Scopes -> SUBSET [call: Calls, score: Ticks, at: Ticks]]
        /\ \A r \in Scopes : \A x \in window'[r] : x.score <= x.at /\ x.at <= x.score + Lag
    BY <2>2, <2>3 DEF TypeOK, Live
  <2>5. AfterScope(s) \in Places /\ AfterScope(s) # "idle" /\ AfterScope(s) \notin Reading
    BY DEF AfterScope, Places, Scopes, Reading
  <2>6. TypeOK'
    BY <1>2, <2>1, <2>4, <2>5 DEF Enter, Goto, ForgetClock, TypeOK
  <2>7. CallsInv'
    BY <1>2, <2>5 DEF Enter, Goto, ForgetClock, TypeOK, CallsInv, Scopes
  <2> QED BY <2>6, <2>7
<1>3. ASSUME NEW c \in Calls, NEW s \in Scopes, Throttle(c, s) PROVE TypeInv'
  <2>1. Refusal(s) \in Places /\ Refusal(s) # "idle" /\ Refusal(s) \notin Reading
    BY DEF Refusal, Places, Scopes, Reading
  <2>2. TypeOK'  BY <1>3, <2>1 DEF Throttle, Goto, ForgetClock, TypeOK, Live
  <2>3. CallsInv'  BY <1>3, <2>1 DEF Throttle, Goto, ForgetClock, TypeOK, CallsInv, Scopes
  <2> QED BY <2>2, <2>3
<1>4. ASSUME NEW c \in Calls, NEW s \in Scopes, FailOpen(c, s) PROVE TypeInv'
  <2>1. AfterScope(s) \in Places /\ AfterScope(s) # "idle" /\ AfterScope(s) \notin Reading
    BY DEF AfterScope, Places, Scopes, Reading
  <2>2. TypeOK'  BY <1>4, <2>1 DEF FailOpen, Goto, ForgetClock, TypeOK
  <2>3. CallsInv'  BY <1>4, <2>1 DEF FailOpen, Goto, ForgetClock, TypeOK, CallsInv, Scopes
  <2> QED BY <2>2, <2>3
<1>5. ASSUME NEW s \in Scopes, ExpireWindow(s) PROVE TypeInv'
  BY <1>5 DEF ExpireWindow, TypeOK, CallsInv
<1>6. ASSUME NEW c \in Calls, CheckStamp(c) PROVE TypeInv'
  <2>1. TypeOK'  BY <1>6 DEF CheckStamp, Goto, ReadClock, TypeOK, Places
  <2>2. CallsInv'  BY <1>6 DEF CheckStamp, Goto, ReadClock, TypeOK, CallsInv, Reading
  <2> QED BY <2>1, <2>2
<1>7. ASSUME NEW c \in Calls, Stale(c) \/ Reject(c) PROVE TypeInv'
  BY <1>7 DEF Stale, Reject, Goto, TypeOK, CallsInv, Places, Reading
<1>8. ASSUME NEW c \in Calls, pc[c] = "nonce", SetNonce(c) PROVE nonces' \subseteq [nonce: Nonces, until: Nat]
  <2>1. msg[c] \in Messages /\ now \in Nat /\ now + NonceTTL \in Nat
    BY <1>8 DEF TypeOK, CallsInv
  <2> QED BY <1>8, <2>1 DEF SetNonce, Lifetime, TypeOK
<1>9. ASSUME NEW c \in Calls, SpendNonce(c) PROVE TypeInv'
  <2>1. nonces' \subseteq [nonce: Nonces, until: Nat]  BY <1>8, <1>9 DEF SpendNonce
  <2> QED BY <1>9, <2>1 DEF SpendNonce, Goto, ForgetClock, TypeOK, CallsInv, Places, Reading
<1>10. ASSUME NEW c \in Calls, Replayed(c) PROVE TypeInv'
  BY <1>10 DEF Replayed, Goto, ForgetClock, TypeOK, CallsInv, Places, Reading
<1>11. ASSUME NEW c \in Calls, FailClosed(c) PROVE TypeInv'
  <2>1. nonces' \subseteq [nonce: Nonces, until: Nat]
    BY <1>8, <1>11 DEF FailClosed, TypeOK
  <2> QED BY <1>11, <2>1 DEF FailClosed, Goto, ForgetClock, TypeOK, CallsInv, Places, Reading
<1>12. ASSUME NEW c \in Calls, Handle(c) PROVE TypeInv'
  <2>1. TypeOK'  BY <1>12 DEF Handle, Goto, ReadClock, TypeOK, Places
  <2>2. CallsInv'  BY <1>12 DEF Handle, Goto, ReadClock, TypeOK, CallsInv, Reading
  <2> QED BY <2>1, <2>2
<1>13. CASE Tick
  <2>1. now' \in Ticks  BY <1>13 DEF Tick, TypeOK, Ticks
  <2>2. TypeOK'  BY <1>13, <2>1 DEF Tick, TypeOK
  <2>3. \A c \in Calls : read[c] # None =>
            read[c] \in Nat /\ now \in Nat /\ read[c] <= now /\ now + 1 <= read[c] + Lag
    BY <1>13, Instants DEF Tick
  <2>4. CallsInv'  BY <1>13, <2>3 DEF Tick, CallsInv
  <2> QED BY <2>2, <2>4
<1>14. CASE UNCHANGED vars
  BY <1>14 DEF vars, TypeOK, CallsInv
<1> QED
  BY <1>1, <1>2, <1>3, <1>4, <1>5, <1>6, <1>7, <1>9, <1>10, <1>11, <1>12, <1>13, <1>14
  DEF Next, Guards

LEMMA TypeHolds == Spec => []TypeInv
BY TypeInit, TypeStep, PTL DEF Spec

\* RequestGuards: no call, window or nonce ever leaves its type, whatever Redis and
\* the clocks do.
THEOREM TypeCorrect == Spec => []TypeOK
<1>1. TypeInv => TypeOK  BY DEF TypeInv
<1> QED BY TypeHolds, <1>1, PTL

-----------------------------------------------------------------------------
(* The replay guard.                                                       *)

\* The last instant at which a copy of a message may reach the nonce store.
LastChance(m) == m.stamp + MaxAge + Lag

\* At the nonce store the stamp was good when the clock was read; behind it the nonce
\* is remembered as long as another copy might come.
NonceInv ==
    \A c \in Calls :
        /\ pc[c] = "nonce" => /\ read[c] - msg[c].stamp <= MaxAge
                              /\ read[c] - msg[c].stamp >= 0 - ClockSkew
        /\ Accepted(c) => \/ now > LastChance(msg[c])
                          \/ \E n \in nonces : /\ n.nonce = msg[c].nonce
                                               /\ n.until > LastChance(msg[c])

OnceInv == NonceInv /\ MessagePassesOnce

LEMMA OnceInit == Init => OnceInv
BY DEF Init, OnceInv, NonceInv, MessagePassesOnce, Accepted

\* Whoever is at the nonce store with a message that has passed finds its nonce.
LEMMA CopyIsSpent ==
    ASSUME TypeInv, NonceInv, NEW c \in Calls, NEW d \in Calls,
           pc[c] = "nonce", Accepted(d), msg[c] = msg[d]
    PROVE  Spent(c)
<1>1. msg[c] \in Messages /\ read[c] \in Nat /\ now \in Nat /\ now <= read[c] + Lag
  BY Constants DEF TypeInv, TypeOK, CallsInv, Reading
<1>2. msg[c].stamp \in Int /\ MaxAge \in Nat /\ Lag \in Nat  BY <1>1, Constants
<1>3. ~ now > LastChance(msg[c])  BY <1>1, <1>2 DEF NonceInv, LastChance
<1> QED BY <1>3 DEF NonceInv, Spent

\* A step that moves nobody into the accepted places, keeps the messages of those
\* that are and forgets no nonce.
LEMMA OnceKept ==
    ASSUME OnceInv, nonces \subseteq nonces', now' = now,
           \A c \in Calls : Accepted(c)' => Accepted(c) /\ msg'[c] = msg[c],
           \A c \in Calls : pc'[c] = "nonce" => /\ read'[c] - msg'[c].stamp <= MaxAge
                                                /\ read'[c] - msg'[c].stamp >= 0 - ClockSkew
    PROVE  OnceInv'
<1>1. NonceInv'  BY DEF OnceInv, NonceInv, LastChance
<1>2. MessagePassesOnce'
  <2> SUFFICES ASSUME NEW c \in Calls, NEW d \in Calls,
                      Accepted(c)', Accepted(d)', msg'[c] = msg'[d]
               PROVE  c = d
    BY DEF MessagePassesOnce
  <2> QED BY DEF OnceInv, MessagePassesOnce
<1> QED BY <1>1, <1>2 DEF OnceInv

LEMMA OnceStep == TypeInv /\ OnceInv /\ [Next]_vars => OnceInv'
<1> SUFFICES ASSUME TypeInv, OnceInv, [Next]_vars PROVE OnceInv'
  OBVIOUS
<1>t. /\ pc \in [Calls -> Places] /\ msg \in [Calls -> Messages \union {None}]
      /\ read \in [Calls -> Ticks \union {None}] /\ now \in Ticks
  BY DEF TypeInv, TypeOK
<1>n. \A c \in Calls : pc[c] = "nonce" => /\ read[c] - msg[c].stamp <= MaxAge
                                          /\ read[c] - msg[c].stamp >= 0 - ClockSkew
  BY DEF OnceInv, NonceInv
<1>1. ASSUME NEW c \in Calls, Deliver(c) PROVE OnceInv'
  <2>1. PICK m \in Messages : msg' = [msg EXCEPT ![c] = m]  BY <1>1 DEF Deliver
  <2> QED BY <1>1, <2>1, <1>t, <1>n, OnceKept DEF Deliver, ReadClock, Accepted
<1>2. ASSUME NEW c \in Calls, NEW s \in Scopes, Enter(c, s) \/ Throttle(c, s) \/ FailOpen(c, s)
      PROVE OnceInv'
  <2>1. s = "player" \/ (AfterScope(s) = "stamp" /\ Refusal(s) = "stopped" /\ s = "operator")
    BY DEF Scopes, AfterScope, Refusal
  <2>2. AfterScope(s) # "nonce" /\ Refusal(s) # "nonce"  BY DEF Scopes, AfterScope, Refusal
  <2> QED BY <1>2, <2>1, <2>2, <1>t, <1>n, OnceKept
          DEF Enter, Throttle, FailOpen, Goto, ForgetClock, Accepted
<1>3. ASSUME NEW c \in Calls, CheckStamp(c) PROVE OnceInv'
  <2>1. now - msg[c].stamp <= MaxAge /\ now - msg[c].stamp >= 0 - ClockSkew
    BY <1>3 DEF CheckStamp, InTime, Age
  <2> QED BY <1>3, <2>1, <1>t, <1>n, OnceKept DEF CheckStamp, Goto, ReadClock, Accepted
<1>4. ASSUME NEW c \in Calls, Stale(c) \/ Reject(c) \/ Handle(c) \/ Replayed(c) PROVE OnceInv'
  BY <1>4, <1>t, <1>n, OnceKept
  DEF Stale, Reject, Handle, Replayed, Goto, ReadClock, ForgetClock, Accepted
<1>5. ASSUME NEW c \in Calls, FailClosed(c) PROVE OnceInv'
  <2>1. nonces \subseteq nonces'  BY <1>5 DEF FailClosed, SetNonce
  <2> QED BY <1>5, <2>1, <1>t, <1>n, OnceKept DEF FailClosed, Goto, ForgetClock, Accepted
<1>6. ASSUME NEW c \in Calls, SpendNonce(c) PROVE OnceInv'
  <2> DEFINE n == [nonce |-> msg[c].nonce, until |-> now + NonceTTL]
  <2>1. /\ msg[c] \in Messages /\ msg[c].stamp \in Int
        /\ read[c] \in Nat /\ now \in Nat /\ read[c] <= now
    BY <1>6, Constants DEF SpendNonce, TypeInv, TypeOK, CallsInv, Reading
  <2>2. read[c] >= msg[c].stamp - ClockSkew  BY <1>6, <1>n, <2>1, Constants DEF SpendNonce
  <2>3. n.until > LastChance(msg[c])  BY <2>1, <2>2, Constants DEF LastChance
  <2>4. nonces' = nonces \union {n}  BY <1>6 DEF SpendNonce, SetNonce, Lifetime
  <2>5. pc' = [pc EXCEPT ![c] = "handler"] /\ msg' = msg /\ now' = now
        /\ read' = [read EXCEPT ![c] = None]
    BY <1>6 DEF SpendNonce, Goto, ForgetClock
  <2>6. \A d \in Calls : Accepted(d)' => Accepted(d) \/ d = c
    BY <2>5, <1>t DEF Accepted
  <2>7. \A d \in Calls : Accepted(d) => msg[d] # msg[c]
    BY <1>6, CopyIsSpent DEF SpendNonce, OnceInv
  <2>8. ASSUME NEW d \in Calls, Accepted(d)'
        PROVE  \/ now > LastChance(msg[d])
               \/ \E x \in nonces' : x.nonce = msg[d].nonce /\ x.until > LastChance(msg[d])
    <3>1. CASE d = c
      <4>1. n \in nonces' /\ n.nonce = msg[d].nonce /\ n.until > LastChance(msg[d])
        BY <3>1, <2>3, <2>4
      <4> QED BY <4>1
    <3>2. CASE Accepted(d)
      BY <3>2, <2>4 DEF OnceInv, NonceInv
    <3> QED BY <3>1, <3>2, <2>6, <2>8
  <2>9. NonceInv'
    <3>1. \A d \in Calls : pc'[d] = "nonce" => pc[d] = "nonce" /\ read'[d] = read[d]
      BY <2>5, <1>t
    <3>2. \A d \in Calls : LastChance(msg[d])' = LastChance(msg[d])
      BY <2>5 DEF LastChance
    <3> QED BY <3>1, <3>2, <2>5, <2>8, <1>n DEF NonceInv
  <2>10. MessagePassesOnce'
    BY <2>5, <2>6, <2>7 DEF OnceInv, MessagePassesOnce
  <2> QED BY <2>9, <2>10 DEF OnceInv
<1>7. CASE Tick
  <2>1. /\ now' = now + 1 /\ UNCHANGED <<pc, msg, read>>
        /\ nonces' = {n \in nonces : n.until > now + 1}
    BY <1>7 DEF Tick
  <2>2. ASSUME NEW c \in Calls, Accepted(c)
        PROVE  \/ now + 1 > LastChance(msg[c])
               \/ \E n \in nonces' : n.nonce = msg[c].nonce /\ n.until > LastChance(msg[c])
    <3>1. msg[c] \in Messages /\ LastChance(msg[c]) \in Int /\ now \in Int
      BY <2>2, Constants DEF TypeInv, TypeOK, CallsInv, Accepted, LastChance
    <3>2. CASE now > LastChance(msg[c])
      BY <3>1, <3>2
    <3>3. CASE \E n \in nonces : n.nonce = msg[c].nonce /\ n.until > LastChance(msg[c])
      <4>1. PICK n \in nonces : n.nonce = msg[c].nonce /\ n.until > LastChance(msg[c])
        BY <3>3
      <4>2. n.until \in Nat  BY DEF TypeInv, TypeOK
      <4>3. CASE n.until > now + 1
        BY <4>1, <4>3, <2>1
      <4>4. CASE ~ n.until > now + 1
        BY <4>1, <4>2, <4>4, <3>1
      <4> QED BY <4>3, <4>4
    <3> QED BY <2>2, <3>2, <3>3 DEF OnceInv, NonceInv
  <2>3. NonceInv'
    BY <2>1, <2>2, <1>n DEF NonceInv, Accepted, LastChance
  <2>4. MessagePassesOnce'
    BY <2>1 DEF OnceInv, MessagePassesOnce, Accepted
  <2> QED BY <2>3, <2>4 DEF OnceInv
<1>8. ASSUME NEW s \in Scopes, ExpireWindow(s) PROVE OnceInv'
  BY <1>8, <1>n, OnceKept DEF ExpireWindow, Accepted
<1>9. CASE UNCHANGED vars
  BY <1>9, <1>n, OnceKept DEF vars, Accepted
<1> QED
  BY <1>1, <1>2, <1>3, <1>4, <1>5, <1>6, <1>7, <1>8, <1>9 DEF Next, Guards

\* RequestGuards: whatever the clock skew, the latency of Redis and the number of
\* copies, the replay guard lets one copy of a signed message through.
THEOREM EachMessagePassesOnce == Spec => []MessagePassesOnce
<1>1. OnceInv => MessagePassesOnce  BY DEF OnceInv
<1> QED BY TypeHolds, OnceInit, OnceStep, <1>1, PTL DEF Spec

-----------------------------------------------------------------------------
(* Nonces of throttled deliveries.                                         *)

LEMMA ThrottledInit == Init => ThrottledKeepsNonce
BY DEF Init, ThrottledKeepsNonce

LEMMA ThrottledStep == TypeInv /\ ThrottledKeepsNonce /\ [Next]_vars => ThrottledKeepsNonce'
<1> SUFFICES ASSUME TypeInv, ThrottledKeepsNonce, [Next]_vars PROVE ThrottledKeepsNonce'
  OBVIOUS
<1> DEFINE Further(c) == msg[c] # None /\ pc[c] \notin {"operator", "stamp", "stopped"}
<1>t. /\ pc \in [Calls -> Places] /\ msg \in [Calls -> Messages \union {None}]
      /\ \A c \in Calls : pc[c] = "idle" <=> msg[c] = None
  BY DEF TypeInv, TypeOK, CallsInv
<1> DEFINE Stays == \A c \in Calls : Further(c) => msg'[c] = msg[c] /\ Further(c)'
<1>1. Stays
  <2>1. ASSUME NEW c \in Calls, Deliver(c) PROVE Stays
    <3>1. PICK m \in Messages : msg' = [msg EXCEPT ![c] = m]  BY <2>1 DEF Deliver
    <3> QED BY <2>1, <3>1, <1>t DEF Deliver
  <2>2. ASSUME NEW c \in Calls, NEW s \in Scopes, Enter(c, s) \/ Throttle(c, s) \/ FailOpen(c, s)
        PROVE  Stays
    BY <2>2, <1>t DEF Enter, Throttle, FailOpen, Goto, Scopes, AfterScope, Refusal
  <2>3. ASSUME NEW c \in Calls,
               CheckStamp(c) \/ Stale(c) \/ SpendNonce(c) \/ Replayed(c) \/ FailClosed(c)
               \/ Handle(c) \/ Reject(c)
        PROVE  Stays
    BY <2>3, <1>t
    DEF CheckStamp, Stale, SpendNonce, Replayed, FailClosed, Handle, Reject, Goto
  <2>4. ASSUME UNCHANGED <<pc, msg>> PROVE Stays
    BY <2>4
  <2> QED
    BY <2>1, <2>2, <2>3, <2>4 DEF Next, Guards, ExpireWindow, Tick, vars
<1>2. \/ nonces' \subseteq nonces
      \/ \E c \in Calls : SetNonce(c) /\ pc[c] = "nonce"
  BY DEF Next, Guards, Deliver, Enter, Throttle, FailOpen, CheckStamp, Stale, SpendNonce,
         Replayed, FailClosed, Handle, Reject, ExpireWindow, Tick, vars
<1>3. ASSUME NEW n \in nonces' PROVE \E c \in Calls : msg'[c].nonce = n.nonce /\ Further(c)'
  <2>1. CASE n \in nonces
    BY <2>1, <1>1 DEF ThrottledKeepsNonce
  <2>2. CASE \E c \in Calls : SetNonce(c) /\ pc[c] = "nonce" /\ n.nonce = msg[c].nonce
    <3>1. PICK c \in Calls : pc[c] = "nonce" /\ n.nonce = msg[c].nonce  BY <2>2
    <3>2. Further(c)  BY <3>1, <1>t
    <3> QED BY <3>1, <3>2, <1>1
  <2>3. n \in nonces \/ \E c \in Calls : SetNonce(c) /\ pc[c] = "nonce" /\ n.nonce = msg[c].nonce
    BY <1>2 DEF SetNonce
  <2> QED BY <2>1, <2>2, <2>3
<1> QED BY <1>3 DEF ThrottledKeepsNonce

\* RequestGuards: a delivery that the operator's window refuses, or whose stamp is
\* stale, leaves its nonce for a retry.
THEOREM ThrottledNonceIsKept == Spec => []ThrottledKeepsNonce
BY TypeHolds, ThrottledInit, ThrottledStep, PTL DEF Spec

-----------------------------------------------------------------------------
(* The sliding windows.                                                    *)

\* Whatever has left a window entered it too long ago to count.
EntriesInv ==
    \A s \in Scopes :
        /\ IsFiniteSet(window[s]) /\ Cardinality(window[s]) <= Limit[s]
        /\ IsFiniteSet({c \in Calls : entered[s][c] # None})
        /\ \A c \in Calls : entered[s][c] # None =>
              /\ entered[s][c] <= now
              /\ \/ entered[s][c] + Window <= now + Lag
                 \/ \E e \in window[s] : e.call = c /\ e.at = entered[s][c]

WindowInv == EntriesInv /\ WindowNeverOverfull

\* The deliveries that a window has admitted in a stretch of time.
Admitted(s, t) == {c \in Calls : /\ entered[s][c] # None
                                 /\ t <= entered[s][c]
                                 /\ entered[s][c] < t + Window - Lag}

LEMMA WindowInit == Init => WindowInv
<1> SUFFICES ASSUME Init PROVE WindowInv
  OBVIOUS
<1>1. \A s \in Scopes : \A c \in Calls : entered[s][c] = None  BY DEF Init
<1>2. \A s \in Scopes : {c \in Calls : entered[s][c] # None} = {}  BY <1>1
<1>3. \A s \in Scopes : \A t \in Ticks : Admitted(s, t) = {}  BY <1>1 DEF Admitted
<1>4. \A s \in Scopes : window[s] = {}  BY DEF Init
<1>5. EntriesInv
  <2>1. IsFiniteSet({}) /\ Cardinality({}) = 0  BY FS_EmptySet
  <2>2. \A s \in Scopes : 0 <= Limit[s]  BY Constants
  <2>3. \A s \in Scopes : /\ IsFiniteSet(window[s]) /\ Cardinality(window[s]) <= Limit[s]
                          /\ IsFiniteSet({c \in Calls : entered[s][c] # None})
    BY <1>2, <1>4, <2>1, <2>2
  <2> QED BY <1>1, <2>3 DEF EntriesInv
<1>6. WindowNeverOverfull
  <2>1. \A s \in Scopes : \A t \in Ticks : Cardinality(Admitted(s, t)) <= Limit[s]
    <3>1. Cardinality({}) = 0  BY FS_EmptySet
    <3>2. \A s \in Scopes : 0 <= Limit[s]  BY Constants
    <3> QED BY <1>3, <3>1, <3>2
  <2> QED BY <2>1 DEF WindowNeverOverfull, Admitted
<1> QED BY <1>5, <1>6 DEF WindowInv

\* As many deliveries as entries: there is no more than one delivery to an entry.
LEMMA EntriesBoundCalls ==
    ASSUME NEW W, NEW D, IsFiniteSet(W), \A c \in D : \E e \in W : e.call = c
    PROVE  IsFiniteSet(D) /\ Cardinality(D) <= Cardinality(W)
<1> DEFINE V == {e \in W : e.call \in D}
           f == [e \in V |-> e.call]
<1>1. IsFiniteSet(V) /\ Cardinality(V) <= Cardinality(W)  BY FS_Subset
<1>2. f \in Surjection(V, D)  BY DEF Surjection
<1>3. IsFiniteSet(D) /\ Cardinality(D) <= Cardinality(V)  BY <1>1, <1>2, FS_Surjection
<1>4. Cardinality(D) \in Nat /\ Cardinality(V) \in Nat /\ Cardinality(W) \in Nat
  BY <1>1, <1>3, FS_CardinalityType
<1> QED BY <1>1, <1>3, <1>4

\* Nothing that Live drops is young enough to count.
LEMMA DroppedIsOld ==
    ASSUME TypeInv, NEW c \in Calls, NEW s \in Scopes, pc[c] = s,
           NEW e \in window[s], e \notin Live(s, read[c])
    PROVE  e.at + Window <= now + Lag
<1>1. /\ read[c] \in Nat /\ now \in Nat /\ read[c] <= now
      /\ e.score \in Nat /\ e.at \in Nat /\ e.at <= e.score + Lag
  <2>1. read[c] # None  BY DEF TypeInv, CallsInv, Scopes, Reading
  <2> QED BY <2>1, Instants
<1>2. ~ e.score > read[c] - Window  BY DEF Live
<1> QED BY <1>1, <1>2, Constants

\* A step that only drops old entries and admits nobody.
LEMMA WindowKept ==
    ASSUME TypeInv, WindowInv, now' \in Ticks, now <= now', UNCHANGED entered,
           \A s \in Scopes : window'[s] \subseteq window[s],
           \A s \in Scopes : \A e \in window[s] :
               e \in window'[s] \/ e.at + Window <= now' + Lag
    PROVE  WindowInv'
<1>1. WindowNeverOverfull'  BY DEF WindowInv, WindowNeverOverfull
<1>2. ASSUME NEW s \in Scopes
      PROVE  IsFiniteSet(window'[s]) /\ Cardinality(window'[s]) <= Limit[s]
  <2>1. IsFiniteSet(window[s]) /\ Cardinality(window[s]) <= Limit[s]
    BY DEF WindowInv, EntriesInv
  <2>2. IsFiniteSet(window'[s]) /\ Cardinality(window'[s]) <= Cardinality(window[s])
    BY <2>1, FS_Subset
  <2>3. Cardinality(window[s]) \in Nat /\ Cardinality(window'[s]) \in Nat
    BY <2>1, <2>2, FS_CardinalityType
  <2> QED BY <2>1, <2>2, <2>3, Constants
<1>3. ASSUME NEW s \in Scopes, NEW c \in Calls, entered[s][c] # None
      PROVE  /\ entered[s][c] <= now'
             /\ \/ entered[s][c] + Window <= now' + Lag
                \/ \E e \in window'[s] : e.call = c /\ e.at = entered[s][c]
  <2>1. /\ entered[s][c] \in Nat /\ now \in Nat /\ now' \in Nat
        /\ entered[s][c] <= now
        /\ \/ entered[s][c] + Window <= now + Lag
           \/ \E e \in window[s] : e.call = c /\ e.at = entered[s][c]
    <3>1. entered[s][c] \in Nat /\ now \in Nat /\ now' \in Nat
      BY <1>3, Instants, Constants
    <3> QED BY <3>1, <1>3 DEF WindowInv, EntriesInv
  <2>2. CASE entered[s][c] + Window <= now + Lag
    BY <2>1, <2>2, Constants
  <2>3. CASE \E e \in window[s] : e.call = c /\ e.at = entered[s][c]
    BY <2>1, <2>3, Constants
  <2> QED BY <2>1, <2>2, <2>3
<1>4. EntriesInv'  BY <1>2, <1>3 DEF WindowInv, EntriesInv
<1> QED BY <1>1, <1>4 DEF WindowInv

LEMMA WindowStep == TypeInv /\ WindowInv /\ [Next]_vars => WindowInv'
<1> SUFFICES ASSUME TypeInv, WindowInv, [Next]_vars PROVE WindowInv'
  OBVIOUS
<1>t. /\ now \in Ticks /\ now \in Nat
      /\ window \in [Scopes -> SUBSET [call: Calls, score: Ticks, at: Ticks]]
      /\ entered \in [Scopes -> [Calls -> Ticks \union {None}]]
  BY Constants DEF TypeInv, TypeOK
<1>1. ASSUME NEW c \in Calls, NEW s \in Scopes, Enter(c, s) PROVE WindowInv'
  <2> DEFINE e == [call |-> c, score |-> read[c], at |-> now]
             L == Live(s, read[c])
  <2>1. /\ window' = [window EXCEPT ![s] = L \union {e}]
        /\ entered' = [entered EXCEPT ![s][c] = now]
        /\ now' = now /\ pc[c] = s /\ ~ Full(s, read[c])
    BY <1>1 DEF Enter
  <2>2. /\ window'[s] = L \union {e}
        /\ \A r \in Scopes \ {s} : window'[r] = window[r] /\ entered'[r] = entered[r]
        /\ entered'[s][c] = now
        /\ \A d \in Calls \ {c} : entered'[s][d] = entered[s][d]
    BY <2>1, <1>t
  <2>3. /\ IsFiniteSet(L) /\ Cardinality(L) \in Nat
        /\ IsFiniteSet(L \union {e}) /\ Cardinality(L \union {e}) \in Nat
        /\ Cardinality(L \union {e}) <= Limit[s]
    <3>1. L \subseteq window[s] /\ IsFiniteSet(window[s])
      BY DEF Live, WindowInv, EntriesInv
    <3>2. IsFiniteSet(L)  BY <3>1, FS_Subset
    <3>3. Cardinality(L) \in Nat /\ Cardinality(L) < Limit[s]
      BY <3>2, <2>1, FS_CardinalityType, Constants DEF Full
    <3>4. /\ IsFiniteSet(L \union {e})
          /\ Cardinality(L \union {e}) <= Cardinality(L) + 1
      <4>1. IsFiniteSet(L \union {e})  BY <3>2, FS_AddElement
      <4>2. \/ Cardinality(L \union {e}) = Cardinality(L)
            \/ Cardinality(L \union {e}) = Cardinality(L) + 1
        BY <3>2, FS_AddElement, Zenon
      <4> QED BY <4>1, <4>2, <3>3
    <3>5. Cardinality(L \union {e}) \in Nat  BY <3>4, FS_CardinalityType
    <3> QED BY <3>2, <3>3, <3>4, <3>5, Constants
  <2>4. IsFiniteSet({d \in Calls : entered'[s][d] # None})
    <3>1. {d \in Calls : entered'[s][d] # None} =
             {d \in Calls : entered[s][d] # None} \union {c}
      BY <2>2, <1>t, Constants
    <3>2. IsFiniteSet({d \in Calls : entered[s][d] # None})  BY DEF WindowInv, EntriesInv
    <3>3. IsFiniteSet({d \in Calls : entered[s][d] # None} \union {c})
      BY <3>2, FS_AddElement
    <3> QED BY <3>1, <3>3
  <2>5. ASSUME NEW d \in Calls, entered'[s][d] # None
        PROVE  /\ entered'[s][d] <= now
               /\ \/ entered'[s][d] + Window <= now + Lag
                  \/ \E x \in window'[s] : x.call = d /\ x.at = entered'[s][d]
    <3>1. CASE d = c
      <4>1. e \in window'[s] /\ e.call = d /\ e.at = entered'[s][d]  BY <2>2, <3>1
      <4>2. \E x \in window'[s] : x.call = d /\ x.at = entered'[s][d]
        <5> HIDE DEF e
        <5> QED BY <4>1
      <4>3. entered'[s][d] <= now  BY <2>2, <3>1, <1>t
      <4> QED BY <4>2, <4>3
    <3>2. CASE d # c
      <4>1. /\ entered[s][d] <= now
            /\ \/ entered[s][d] + Window <= now + Lag
               \/ \E x \in window[s] : x.call = d /\ x.at = entered[s][d]
        BY <2>2, <2>5, <3>2 DEF WindowInv, EntriesInv
      <4>2. ASSUME NEW x \in window[s], x.call = d, x.at = entered[s][d]
            PROVE  entered[s][d] + Window <= now + Lag \/ x \in window'[s]
        BY <4>2, <2>1, <2>2, DroppedIsOld
      <4> QED BY <4>1, <4>2, <2>2, <3>2
    <3> QED BY <3>1, <3>2
  <2> HIDE DEF e, L
  <2>6. EntriesInv'
    <3> DEFINE Marked(r) == {d \in Calls : entered[r][d] # None}
               Placed(r, d) ==
                   entered[r][d] # None =>
                       /\ entered[r][d] <= now
                       /\ \/ entered[r][d] + Window <= now + Lag
                          \/ \E x \in window[r] : x.call = d /\ x.at = entered[r][d]
    <3>1. ASSUME NEW r \in Scopes \ {s}
          PROVE  /\ IsFiniteSet(window'[r]) /\ Cardinality(window'[r]) <= Limit[r]
                 /\ IsFiniteSet(Marked(r)')
                 /\ \A d \in Calls : Placed(r, d)'
      <4>1. Marked(r)' = Marked(r) /\ window'[r] = window[r]  BY <2>2
      <4>2. \A d \in Calls : Placed(r, d)' <=> Placed(r, d)  BY <2>1, <2>2
      <4>3. /\ IsFiniteSet(window[r]) /\ Cardinality(window[r]) <= Limit[r]
            /\ IsFiniteSet(Marked(r)) /\ \A d \in Calls : Placed(r, d)
        BY DEF WindowInv, EntriesInv
      <4> HIDE DEF Marked, Placed
      <4> QED BY <4>1, <4>2, <4>3
    <3>2. /\ IsFiniteSet(window'[s]) /\ Cardinality(window'[s]) <= Limit[s]
          /\ IsFiniteSet(Marked(s)')
      BY <2>2, <2>3, <2>4
    <3>3. \A d \in Calls : Placed(s, d)'  BY <2>1, <2>5
    <3>4. \A r \in Scopes : /\ IsFiniteSet(window'[r]) /\ Cardinality(window'[r]) <= Limit[r]
                            /\ IsFiniteSet(Marked(r)')
                            /\ \A d \in Calls : Placed(r, d)'
      <4> HIDE DEF Marked, Placed
      <4> QED BY <3>1, <3>2, <3>3
    <3> QED BY <3>4 DEF EntriesInv
  <2>7. ASSUME NEW t \in Ticks PROVE Cardinality(Admitted(s, t)') <= Limit[s]
    <3>1. CASE t <= now /\ now < t + Window - Lag
      <4>1. \A d \in Admitted(s, t)' : \E x \in window'[s] : x.call = d
        <5> SUFFICES ASSUME NEW d \in Admitted(s, t)' PROVE \E x \in window'[s] : x.call = d
          OBVIOUS
        <5>1. /\ d \in Calls /\ entered'[s][d] # None
              /\ t <= entered'[s][d]
          BY DEF Admitted
        <5>2. entered'[s][d] \in Nat  BY <5>1, <2>2, <1>t, Instants
        <5>3. t \in Nat  BY Constants
        <5>4. ~ entered'[s][d] + Window <= now + Lag
          BY <5>1, <5>2, <5>3, <3>1, <1>t, Constants
        <5> QED BY <5>1, <5>4, <2>5
      <4>2. IsFiniteSet(window'[s])  BY <2>2, <2>3
      <4>3. /\ Cardinality(Admitted(s, t)') <= Cardinality(window'[s])
            /\ IsFiniteSet(Admitted(s, t)')
        BY <4>1, <4>2, EntriesBoundCalls
      <4>4. Cardinality(Admitted(s, t)') \in Nat  BY <4>3, FS_CardinalityType
      <4> QED BY <4>3, <4>4, <2>2, <2>3, Constants
    <3>2. CASE ~ (t <= now /\ now < t + Window - Lag)
      <4>1. Admitted(s, t)' \subseteq Admitted(s, t)
        BY <3>2, <2>2 DEF Admitted
      <4>2. Admitted(s, t) \subseteq {d \in Calls : entered[s][d] # None}  BY DEF Admitted
      <4>3. IsFiniteSet(Admitted(s, t))
        BY <4>2, FS_Subset DEF WindowInv, EntriesInv
      <4>4. /\ IsFiniteSet(Admitted(s, t)')
            /\ Cardinality(Admitted(s, t)') <= Cardinality(Admitted(s, t))
        BY <4>1, <4>3, FS_Subset
      <4>5. Cardinality(Admitted(s, t)) <= Limit[s]
        BY DEF WindowInv, WindowNeverOverfull, Admitted
      <4>6. Cardinality(Admitted(s, t)) \in Nat /\ Cardinality(Admitted(s, t)') \in Nat
        BY <4>3, <4>4, FS_CardinalityType
      <4> QED BY <4>4, <4>5, <4>6, Constants
    <3> QED BY <3>1, <3>2
  <2>8. ASSUME NEW r \in Scopes \ {s}, NEW t \in Ticks
        PROVE  Cardinality(Admitted(r, t)') <= Limit[r]
    <3>1. Admitted(r, t)' = Admitted(r, t)  BY <2>2 DEF Admitted
    <3> QED BY <3>1 DEF WindowInv, WindowNeverOverfull, Admitted
  <2>9. WindowNeverOverfull'
    BY <2>7, <2>8 DEF WindowNeverOverfull, Admitted
  <2> QED BY <2>6, <2>9 DEF WindowInv
<1>2. ASSUME NEW c \in Calls, NEW s \in Scopes, Throttle(c, s) PROVE WindowInv'
  <2>1. /\ window' = [window EXCEPT ![s] = Live(s, read[c])]
        /\ UNCHANGED <<now, entered>> /\ pc[c] = s
    BY <1>2 DEF Throttle
  <2>2. /\ window'[s] = Live(s, read[c])
        /\ \A r \in Scopes \ {s} : window'[r] = window[r]
    BY <2>1, <1>t
  <2>3. Live(s, read[c]) \subseteq window[s]  BY DEF Live
  <2>4. \A r \in Scopes : window'[r] \subseteq window[r]  BY <2>2, <2>3
  <2>5. \A r \in Scopes : \A x \in window[r] :
            x \in window'[r] \/ x.at + Window <= now' + Lag
    BY <2>1, <2>2, DroppedIsOld
  <2>6. now <= now'  BY <2>1, <1>t
  <2> QED BY <2>1, <2>4, <2>5, <2>6, <1>t, WindowKept
<1>3. ASSUME NEW s \in Scopes, ExpireWindow(s) PROVE WindowInv'
  <2>1. /\ window' = [window EXCEPT ![s] = {}]
        /\ UNCHANGED <<now, entered>>
        /\ \A x \in window[s] : x.at + Window <= now
    BY <1>3 DEF ExpireWindow
  <2>2. \A x \in window[s] : x.at + Window <= now + Lag
    <3> SUFFICES ASSUME NEW x \in window[s] PROVE x.at + Window <= now + Lag
      OBVIOUS
    <3>1. x.at \in Nat  BY Instants
    <3> QED BY <3>1, <2>1, <1>t, Constants
  <2>3. \A r \in Scopes : \A x \in window[r] :
            x \in window'[r] \/ x.at + Window <= now' + Lag
    BY <2>1, <2>2, <1>t
  <2>4. \A r \in Scopes : window'[r] \subseteq window[r]  BY <2>1, <1>t
  <2>5. now <= now'  BY <2>1, <1>t
  <2> QED BY <2>1, <2>3, <2>4, <2>5, <1>t, WindowKept
<1>4. CASE UNCHANGED <<now, window, entered>>
  <2>1. now <= now'  BY <1>4, <1>t
  <2> QED BY <2>1, <1>4, <1>t, WindowKept
<1>5. CASE Tick
  <2>1. now' = now + 1 /\ UNCHANGED <<window, entered>> /\ now' \in Ticks
    BY <1>5, Constants, <1>t DEF Tick, Ticks
  <2>2. now <= now'  BY <2>1, <1>t
  <2> QED BY <2>1, <2>2, <1>t, WindowKept
<1> QED
  BY <1>1, <1>2, <1>3, <1>4, <1>5
  DEF Next, Guards, Deliver, FailOpen, CheckStamp, Stale, SpendNonce, Replayed, FailClosed,
      Handle, Reject, vars

LEMMA WindowHolds == Spec => []WindowInv
BY TypeHolds, WindowInit, WindowStep, PTL DEF Spec

\* RequestGuards: however late its scripts run after their clock was read, a limiter
\* admits no more than its limit in any stretch of Window - Lag.
THEOREM LimiterHolds == Spec => []WindowNeverOverfull
<1>1. WindowInv => WindowNeverOverfull  BY DEF WindowInv
<1> QED BY WindowHolds, <1>1, PTL

-----------------------------------------------------------------------------
(* The advised wait.                                                       *)

LEMMA LeastNatural ==
    ASSUME NEW S, S \subseteq Nat, S # {}
    PROVE  \E x \in S : \A y \in S : x <= y
<1> DEFINE Segments == {T \in SUBSET Nat : \E n \in S : T = 0..n}
           R == StrictSubsetOrdering(Nat)
<1>1. IsWellFoundedOn(R, FiniteSubsetsOf(Nat))
  BY FS_StrictSubsetOrderingWellFounded
<1>2. Segments \subseteq FiniteSubsetsOf(Nat)
  BY FS_Interval DEF FiniteSubsetsOf
<1>3. Segments # {}
  <2>1. PICK n \in S : TRUE  OBVIOUS
  <2>2. 0..n \in Segments  BY <2>1
  <2> QED BY <2>2
<1>4. \E T \in Segments : \A U \in Segments : ~ (<<U, T>> \in R)
  <2> HIDE DEF Segments, R
  <2> QED BY <1>1, <1>2, <1>3, WFMin
<1>5. PICK x \in S : \A U \in Segments : ~ (<<U, 0..x>> \in R)
  BY <1>4
<1>6. ASSUME NEW y \in S, ~ (x <= y) PROVE FALSE
  <2>1. x \in Nat /\ y \in Nat /\ y < x  BY <1>6
  <2>2. 0..y \subseteq 0..x /\ x \in 0..x /\ x \notin 0..y  BY <2>1
  <2>3. 0..y \in Segments  BY <2>1
  <2>4. 0..y # 0..x  BY <2>2
  <2>5. 0..y \in SUBSET Nat /\ 0..x \in SUBSET Nat  BY <2>1
  <2>6. <<0..y, 0..x>> \in R  BY <2>2, <2>4, <2>5 DEF StrictSubsetOrdering
  <2> QED BY <1>5, <2>3, <2>6
<1> QED BY <1>6

LEMMA WaitSuffices == TypeInv /\ WindowInv => RetryAfterIsHonest
<1> SUFFICES ASSUME TypeInv, WindowInv, NEW c \in Calls, NEW s \in Scopes,
                    pc[c] = s, Full(s, read[c])
             PROVE  /\ RetryAfter(s, read[c]) >= 1
                    /\ Cardinality({e \in window[s] :
                           e.score > read[c] + RetryAfter(s, read[c]) - Window}) < Limit[s]
  BY DEF RetryAfterIsHonest
<1> DEFINE L == Live(s, read[c])
           scores == {e.score : e \in L}
           x == Oldest(s, read[c])
           later == {e \in window[s] : e.score > x}
<1>1. read[c] \in Nat  BY Instants DEF TypeInv, CallsInv, Scopes, Reading
<1>2. /\ L \subseteq window[s] /\ IsFiniteSet(window[s])
      /\ Cardinality(window[s]) \in Nat /\ Cardinality(window[s]) <= Limit[s]
  <2>1. IsFiniteSet(window[s]) /\ Cardinality(window[s]) <= Limit[s]
    BY DEF WindowInv, EntriesInv
  <2> QED BY <2>1, FS_CardinalityType DEF Live
<1>3. \A e \in window[s] : e.score \in Nat  BY Instants
<1>4. L # {}
  BY FS_EmptySet, Constants DEF Full
<1>5. x \in scores /\ \A e \in L : x <= e.score
  <2>1. scores \subseteq Nat /\ scores # {}  BY <1>2, <1>3, <1>4
  <2>2. \E y \in scores : \A z \in scores : y <= z
    <3> HIDE DEF scores
    <3> QED BY <2>1, LeastNatural
  <2>3. \E y \in scores : \A e \in L : y <= e.score  BY <2>2
  <2> QED BY <2>3 DEF Oldest
<1>6. PICK o \in L : o.score = x  BY <1>5
<1>7. x \in Nat /\ x > read[c] - Window  BY <1>6, <1>2, <1>3 DEF Live
<1>8. RetryAfter(s, read[c]) = x + Window - read[c] /\ RetryAfter(s, read[c]) >= 1
  BY <1>1, <1>7, Constants DEF RetryAfter
<1>9. {e \in window[s] : e.score > read[c] + RetryAfter(s, read[c]) - Window} = later
  BY <1>8, <1>1, <1>7, <1>3, Constants
<1>10. later \subseteq window[s] \ {o}  BY <1>6, <1>7
<1>11. /\ IsFiniteSet(window[s] \ {o})
       /\ Cardinality(window[s] \ {o}) = Cardinality(window[s]) - 1
  BY <1>2, <1>6, FS_RemoveElement
<1>12. IsFiniteSet(later) /\ Cardinality(later) <= Cardinality(window[s]) - 1
  BY <1>10, <1>11, FS_Subset
<1>13. Cardinality(later) \in Nat  BY <1>12, FS_CardinalityType
<1>14. Cardinality(later) < Limit[s]  BY <1>2, <1>12, <1>13, Constants
<1> QED BY <1>8, <1>9, <1>14

\* RequestGuards: whoever waits as long as a 429 tells it to, finds room if nobody
\* else has come.
THEOREM AdvisedWaitSuffices == Spec => []RetryAfterIsHonest
BY TypeHolds, WindowHolds, WaitSuffices, PTL
=============================================================================

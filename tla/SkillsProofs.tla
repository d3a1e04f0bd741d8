---------------------------- MODULE SkillsProofs ----------------------------
(***************************************************************************)
(* Theorems about the scripts of the design skills, for any catalogue,     *)
(* rules, palettes, agents, projects, pages and commands.                  *)
(***************************************************************************)
EXTENDS Skills, FiniteSetTheorems, WellFoundedInduction, TLAPS

-----------------------------------------------------------------------------
(* Picking from a list.                                                    *)

\* Every nonempty set of naturals has a least member, and a bounded one a greatest.
LEMMA MinRule ==
    ASSUME NEW I, I \subseteq Nat, I # {}
    PROVE  Min(I) \in I /\ \A i \in I : Min(I) <= i
<1>1. PICK n \in I : TRUE OBVIOUS
<1> DEFINE Below(x) == {i \in I : i <= x}
           B == {Below(x) : x \in Below(n)}
           R == StrictSubsetOrdering(0..n)
<1>small. \A x \in Below(n) : Below(x) \subseteq 0..n
  <2> SUFFICES ASSUME NEW x \in I, x <= n, NEW i \in I, i <= x PROVE i \in 0..n OBVIOUS
  <2>1. i \in Nat /\ x \in Nat /\ n \in Nat OBVIOUS
  <2> QED BY <2>1
<1>2. B \subseteq FiniteSubsetsOf(0..n) /\ B # {}
  <2>1. IsFiniteSet(0..n) /\ n \in Below(n) BY FS_Interval
  <2>2. \A x \in Below(n) : Below(x) \in SUBSET (0..n) BY <1>small
  <2> HIDE DEF Below
  <2> QED BY <2>1, <2>2, FS_FiniteSubsetsOfFinite
<1>3. \E T \in B : \A U \in B : ~ (<<U, T>> \in R)
  <2>1. IsWellFoundedOn(R, FiniteSubsetsOf(0..n)) BY FS_StrictSubsetOrderingWellFounded
  <2> HIDE DEF B, R
  <2> QED BY <1>2, <2>1, WFMin
<1>4. PICK m \in Below(n) : \A U \in B : ~ (<<U, Below(m)>> \in R) BY <1>3
<1>5. ASSUME NEW i \in I, i < m PROVE FALSE
  <2>1. Below(i) \in B /\ Below(i) \subseteq Below(m) /\ m \in Below(m) \ Below(i)
    <3>1. i \in Nat /\ m \in I /\ m <= n /\ m \in Nat /\ n \in Nat /\ \A h \in I : h \in Nat
      BY <1>4
    <3>2. i \in Below(n) BY <1>5, <3>1
    <3>3. \A h \in I : h <= i => h <= m BY <1>5, <3>1
    <3>4. ~ (m <= i) /\ m <= m BY <1>5, <3>1
    <3>5. Below(i) \in B BY <3>2
    <3>6. Below(i) \subseteq Below(m) BY <3>3
    <3>7. m \in Below(m) /\ m \notin Below(i) BY <3>1, <3>4
    <3> QED BY <3>5, <3>6, <3>7
  <2>2. Below(m) \subseteq 0..n BY <1>small
  <2> HIDE DEF Below
  <2> QED BY <1>4, <2>1, <2>2 DEF StrictSubsetOrdering
<1>6. m \in I /\ \A i \in I : m <= i BY <1>5
<1> QED BY <1>6 DEF Min

LEMMA MaxRule ==
    ASSUME NEW n \in Nat, NEW I, I \subseteq 1..n, I # {}
    PROVE  Max(I) \in I /\ \A i \in I : i <= Max(I)
<1> DEFINE J == {n - i : i \in I}
<1>1. J \subseteq Nat /\ J # {}
  <2>1. \A i \in I : n - i \in Nat OBVIOUS
  <2> QED BY <2>1
<1>2. Min(J) \in J /\ \A j \in J : Min(J) <= j
  <2> HIDE DEF J
  <2> QED BY <1>1, MinRule
<1>3. PICK m \in I : Min(J) = n - m BY <1>2
<1>4. \A i \in I : i <= m
  <2> SUFFICES ASSUME NEW i \in I PROVE i <= m OBVIOUS
  <2>1. n - m <= n - i BY <1>2, <1>3
  <2> QED BY <2>1
<1>5. \A i \in I : m >= i BY <1>4
<1> QED BY <1>4, <1>5 DEF Max

LEMMA FirstOfRule ==
    ASSUME NEW I, I \subseteq Nat, I # {}, NEW s
    PROVE  \E i \in I : FirstOf(s, I) = s[i]
BY MinRule DEF FirstOf

LEMMA LastOfRule ==
    ASSUME NEW n \in Nat, NEW I, I \subseteq 1..n, I # {}, NEW s
    PROVE  \E i \in I : LastOf(s, I) = s[i]
BY MaxRule DEF LastOf

\* Counting the members up to each one numbers them from one to how many there are.
LEMMA NthRule ==
    ASSUME NEW n \in Nat, NEW I, I \subseteq 1..n
    PROVE  /\ Cardinality(I) \in Nat
           /\ \A k \in 1..Cardinality(I) : Nth(I, k) \in I
<1> DEFINE Upto(i) == {j \in I : j <= i}
           f == [i \in I |-> Cardinality(Upto(i))]
<1>1. IsFiniteSet(I) /\ Cardinality(I) \in Nat
  <2>1. IsFiniteSet(1..n) BY FS_Interval
  <2>2. IsFiniteSet(I) BY <2>1, FS_Subset
  <2> QED BY <2>2, FS_CardinalityType
<1>2. \A i \in I : /\ IsFiniteSet(Upto(i)) /\ Upto(i) \in SUBSET I /\ Upto(i) # {}
                   /\ Cardinality(Upto(i)) \in 1..Cardinality(I)
  <2> SUFFICES ASSUME NEW i \in I PROVE /\ IsFiniteSet(Upto(i)) /\ Upto(i) \in SUBSET I
                                       /\ Upto(i) # {}
                                       /\ Cardinality(Upto(i)) \in 1..Cardinality(I)
    OBVIOUS
  <2>1. Upto(i) \in SUBSET I /\ i \in Upto(i) BY <1>1
  <2> HIDE DEF Upto
  <2>2. /\ IsFiniteSet(Upto(i)) /\ Cardinality(Upto(i)) <= Cardinality(I)
        /\ Cardinality(Upto(i)) \in Nat /\ Cardinality(Upto(i)) # 0
    BY <1>1, <2>1, FS_Subset, FS_CardinalityType, FS_EmptySet
  <2> QED BY <1>1, <2>1, <2>2
<1>3. \A i, j \in I : f[i] = f[j] => i = j
  <2>1. ASSUME NEW i \in I, NEW j \in I, i < j, f[i] = f[j] PROVE FALSE
    <3>1. Upto(i) \in SUBSET Upto(j) /\ j \in Upto(j) /\ j \notin Upto(i)
      <4>1. i \in Nat /\ j \in Nat /\ \A h \in I : h \in Nat BY <2>1
      <4>2. \A h \in I : h <= i => h <= j BY <2>1, <4>1
      <4>3. ~ (j <= i) /\ j <= j BY <2>1, <4>1
      <4> QED BY <4>2, <4>3
    <3>2. Cardinality(Upto(i)) = Cardinality(Upto(j)) BY <2>1
    <3> HIDE DEF Upto
    <3>3. Upto(i) = Upto(j) BY <1>2, <3>1, <3>2, FS_Subset
    <3> QED BY <3>1, <3>3
  <2> QED BY <2>1
<1>4. f \in Injection(I, 1..Cardinality(I))
  <2>1. f \in [I -> 1..Cardinality(I)] BY <1>2
  <2> HIDE DEF f
  <2> QED BY <2>1, <1>3 DEF Injection, IsInjective
<1>5. f \in Surjection(I, 1..Cardinality(I))
  <2>1. IsFiniteSet(1..Cardinality(I)) /\ Cardinality(1..Cardinality(I)) = Cardinality(I)
    BY <1>1, FS_Interval
  <2> HIDE DEF f
  <2> QED BY <1>4, <2>1, FS_Injection
<1>6. \A k \in 1..Cardinality(I) : \E i \in I : Cardinality(Upto(i)) = k
  BY <1>5 DEF Surjection
<1> QED BY <1>1, <1>6 DEF Nth

LEMMA KeptRule ==
    ASSUME NEW n \in Nat, NEW I, I \subseteq 1..n, NEW s
    PROVE  /\ Kept(s, I) \in Seq(ToSet(Kept(s, I)))
           /\ Len(Kept(s, I)) = Cardinality(I)
           /\ \A k \in 1..Cardinality(I) : Nth(I, k) \in I /\ Kept(s, I)[k] = s[Nth(I, k)]
<1> DEFINE t == [k \in 1..Cardinality(I) |-> s[Nth(I, k)]]
<1>1. Cardinality(I) \in Nat /\ \A k \in 1..Cardinality(I) : Nth(I, k) \in I BY NthRule
<1>2. t \in [1..Cardinality(I) -> {s[i] : i \in I}] BY <1>1
<1>3. t \in Seq(ToSet(t)) /\ Len(t) = Cardinality(I) BY <1>1, <1>2 DEF ToSet
<1>4. \A k \in 1..Cardinality(I) : Nth(I, k) \in I /\ t[k] = s[Nth(I, k)] BY <1>1
<1> HIDE DEF t
<1> QED BY <1>3, <1>4 DEF Kept, t

-----------------------------------------------------------------------------
(* The folder of design systems.                                           *)

\* What the theorem asks of the constants: a page is not called as the master is,
\* and the mark of what is absent is nothing that can be present.
NamesDiffer ==
    /\ MASTER \notin Pages /\ None \notin Pages /\ None # MASTER
    /\ None # "skipped_exists"
    /\ \A b, o, j, w, v :
          None # [by |-> b, of |-> o, project |-> j, whole |-> w, overrides |-> v]

-----------------------------------------------------------------------------
(* Types, and how far an agent is.                                         *)

Places == {"idle", "write", "publish", "unlink", "returned", "raised", "dead"}
AgentState ==
    [pc : Places, request : Requests \union {None}, doing : Pages \union {MASTER, None},
     created : SUBSET Paths, status : {None, "success", "skipped_exists"}]

TypeInv ==
    /\ DOMAIN files = Paths
    /\ temps \in [Agents -> {"none", "partial", "whole"}]
    /\ agent \in [Agents -> AgentState]

\* An agent writes the master and then its page; what it is about to publish is
\* whole, and what it has been through exists.
AgentInv(a) ==
    /\ agent[a].pc # "idle" =>
          /\ agent[a].request \in Requests
          /\ \/ agent[a].doing = MASTER
             \/ agent[a].doing = agent[a].request.page /\ agent[a].doing \in Pages
    /\ agent[a].pc = "publish" => temps[a] = "whole"
    /\ agent[a].pc = "unlink" => files[Path(a)] # None
    /\ agent[a].pc # "idle" /\ agent[a].doing # MASTER =>
          files[FileOf(agent[a].request.project, MASTER)] # None

Reports(a) ==
    /\ \A p \in agent[a].created : files[p] # None /\ (files[p].by = a \/ p \in forced)
    /\ agent[a].status = "skipped_exists" =>
          agent[a].pc # "idle" /\ \A p \in Wanted(a) : files[p] # None
    /\ agent[a].pc \in {"returned", "raised"} => temps[a] = "none"

DocumentHolds(p) ==
    files[p] # None =>
        /\ files[p].whole
        /\ FileOf(files[p].project, files[p].of) = p
        /\ p[2] # MASTER => files[p].overrides.layout # {} /\ files[p].overrides.advice # {}

StoreInv ==
    /\ TypeInv
    /\ \A a \in Agents : AgentInv(a) /\ Reports(a)
    /\ \A p \in Paths : DocumentHolds(p)

LEMMA RequestFields ==
    ASSUME NEW r \in Requests
    PROVE  r.project \in Projects /\ r.page \in Pages \union {None} /\ r.force \in BOOLEAN
BY DEF Requests

LEMMA PathTyped ==
    ASSUME NEW a \in Agents, AgentInv(a), agent[a].pc # "idle"
    PROVE  /\ Path(a) \in Paths
           /\ FileOf(agent[a].request.project, MASTER) \in Paths
BY RequestFields DEF AgentInv, Path, FileOf, Paths, Slugs

LEMMA FolderInit == ASSUME NamesDiffer PROVE StoreInit => StoreInv
<1> SUFFICES ASSUME StoreInit PROVE StoreInv
  OBVIOUS
<1>1. TypeInv  BY DEF StoreInit, TypeInv, Idle, AgentState, Places
<1>2. \A a \in Agents : AgentInv(a) /\ Reports(a)
  BY DEF StoreInit, Idle, AgentInv, Reports, NamesDiffer
<1>3. \A p \in Paths : DocumentHolds(p)  BY DEF StoreInit, DocumentHolds
<1> QED BY <1>1, <1>2, <1>3 DEF StoreInv

-----------------------------------------------------------------------------
(* The steps.                                                              *)

\* A step of one agent that leaves the folder alone disturbs nobody else.
LEMMA FolderKept ==
    ASSUME StoreInv, UNCHANGED <<files, forced>>, TypeInv', NEW a \in Agents,
           \A b \in Agents \ {a} : agent'[b] = agent[b] /\ temps'[b] = temps[b],
           AgentInv(a)', Reports(a)'
    PROVE  StoreInv'
<1>1. ASSUME NEW b \in Agents \ {a} PROVE AgentInv(b)' /\ Reports(b)'
  <2>1. Path(b)' = Path(b) /\ Wanted(b)' = Wanted(b)  BY DEF Path, Wanted
  <2>2. AgentInv(b)'  BY <2>1 DEF StoreInv, AgentInv
  <2>3. Reports(b)'  BY <2>1 DEF StoreInv, Reports
  <2> QED BY <2>2, <2>3
<1>2. \A p \in Paths : DocumentHolds(p)'  BY DEF StoreInv, DocumentHolds
<1> QED BY <1>1, <1>2 DEF StoreInv

LEMMA OverridesSaySomething ==
    ASSUME NEW page, NEW found
    PROVE  Overrides(page, found).layout # {} /\ Overrides(page, found).advice # {}
<1> DEFINE o == OverridesAsFound(page, found)
<1>1. o = [type |-> o.type, layout |-> o.layout, advice |-> o.advice]
  BY DEF OverridesAsFound
<1> HIDE DEF o
<1>2. /\ [o EXCEPT !.layout = IF @ = {} THEN {"Max Width", "Layout"} ELSE @,
                   !.advice = IF @ = {} THEN {"Refer to MASTER.md"} ELSE @].layout # {}
      /\ [o EXCEPT !.layout = IF @ = {} THEN {"Max Width", "Layout"} ELSE @,
                   !.advice = IF @ = {} THEN {"Refer to MASTER.md"} ELSE @].advice # {}
  BY <1>1
<1> QED BY <1>2 DEF Overrides, o

Published(a) == [Document(a) EXCEPT !.whole = (temps[a] = "whole")]

\* What is published is the agent's own, and is what its path says.
LEMMA PublishedDocument ==
    ASSUME NamesDiffer, StoreInv, NEW a \in Agents, agent[a].pc = "publish"
    PROVE  /\ Published(a) # None /\ Published(a).by = a /\ Published(a).whole
           /\ FileOf(Published(a).project, Published(a).of) = Path(a)
           /\ Path(a)[2] # MASTER => /\ Published(a).overrides.layout # {}
                                    /\ Published(a).overrides.advice # {}
<1> DEFINE r == agent[a].request
           b == temps[a] = "whole"
<1>1. b /\ AgentInv(a)  BY DEF StoreInv, AgentInv
<1>2. Path(a) = FileOf(r.project, agent[a].doing)  BY DEF Path
<1>p. Published(a) = [Document(a) EXCEPT !.whole = b]  BY DEF Published
<1> HIDE DEF r, b
<1>3. CASE agent[a].doing = MASTER
  <2>1. Document(a) = [by |-> a, of |-> MASTER, project |-> r.project, whole |-> TRUE,
                       overrides |-> None]
    BY <1>3 DEF Document, MasterDocument, r
  <2>2. Published(a) = [by |-> a, of |-> MASTER, project |-> r.project, whole |-> b,
                        overrides |-> None]
    BY <1>p, <2>1
  <2>3. Path(a)[2] = MASTER  BY <1>2, <1>3 DEF FileOf
  <2> QED BY <2>2, <2>3, <1>1, <1>2, <1>3 DEF NamesDiffer
<1>4. CASE agent[a].doing # MASTER
  <2> DEFINE o == Overrides(r.page, r.found)
  <2>1. agent[a].doing = r.page  BY <1>1, <1>4 DEF AgentInv, r
  <2>2. Document(a) = [by |-> a, of |-> r.page, project |-> r.project, whole |-> TRUE,
                       overrides |-> o]
    BY <1>4 DEF Document, PageDocument, r
  <2>3. o.layout # {} /\ o.advice # {}  BY OverridesSaySomething
  <2> HIDE DEF o
  <2>4. Published(a) = [by |-> a, of |-> r.page, project |-> r.project, whole |-> b,
                        overrides |-> o]
    BY <1>p, <2>2
  <2> QED BY <2>1, <2>3, <2>4, <1>1, <1>2 DEF NamesDiffer
<1> QED BY <1>3, <1>4

LEMMA PublishStep ==
    ASSUME NamesDiffer, StoreInv, NEW a \in Agents, Publish(a)
    PROVE  StoreInv'
<1>t. /\ DOMAIN files = Paths /\ temps \in [Agents -> {"none", "partial", "whole"}]
      /\ agent \in [Agents -> AgentState]
      /\ agent[a].pc = "publish" /\ AgentInv(a) /\ Reports(a)
      /\ Path(a) \in Paths
  BY PathTyped DEF StoreInv, TypeInv, Publish
<1>1. CASE MayPublish(a)
  <2> DEFINE d == Published(a)
             x == Path(a)
  <2>1. /\ d # None /\ d.by = a /\ d.whole
        /\ FileOf(d.project, d.of) = x
        /\ x[2] # MASTER => d.overrides.layout # {} /\ d.overrides.advice # {}
    BY <1>t, PublishedDocument
  <2>2. /\ files' = [files EXCEPT ![x] = d]
        /\ forced' = IF agent[a].request.force /\ files[x] # None
                       THEN forced \union {x} ELSE forced
        /\ agent' = [agent EXCEPT ![a].pc = "unlink", ![a].created = @ \union {x}]
        /\ temps' = IF agent[a].request.force THEN [temps EXCEPT ![a] = "none"] ELSE temps
    BY <1>1 DEF Publish, Published
  <2> HIDE DEF d, x
  <2>3. x \in Paths /\ x = Path(a)  BY <1>t DEF x
  <2>4. /\ files'[x] = d /\ DOMAIN files' = Paths
        /\ \A p \in Paths \ {x} : files'[p] = files[p]
    BY <2>2, <2>3, <1>t
  <2>5. /\ agent'[a] = [agent[a] EXCEPT !.pc = "unlink", !.created = @ \union {x}]
        /\ \A b \in Agents \ {a} : agent'[b] = agent[b] /\ temps'[b] = temps[b]
    BY <2>2, <1>t
  <2>6. /\ agent'[a].pc = "unlink" /\ agent'[a].created = agent[a].created \union {x}
        /\ agent'[a].request = agent[a].request /\ agent'[a].doing = agent[a].doing
        /\ agent'[a].status = agent[a].status
    BY <2>5, <1>t DEF AgentState
  <2>7. TypeInv'
    <3>1. temps' \in [Agents -> {"none", "partial", "whole"}]  BY <2>2, <1>t
    <3>2. agent'[a] \in AgentState
      <4>1. agent[a] \in AgentState  BY <1>t
      <4>2. agent[a].created \union {x} \in SUBSET Paths  BY <4>1, <2>3 DEF AgentState
      <4>3. agent'[a] = [agent[a] EXCEPT !.pc = "unlink",
                                         !.created = agent[a].created \union {x}]
        BY <2>5, <4>1 DEF AgentState
      <4> QED BY <4>1, <4>2, <4>3 DEF AgentState, Places
    <3>3. agent' \in [Agents -> AgentState]
      <4>1. DOMAIN agent' = Agents  BY <2>2, <1>t
      <4>2. agent' = [b \in Agents |-> agent'[b]]  BY <2>2, <4>1, <1>t
      <4>3. \A b \in Agents : agent'[b] \in AgentState  BY <2>5, <3>2, <1>t
      <4> QED BY <4>2, <4>3
    <3> QED BY <3>1, <3>3, <2>4 DEF TypeInv
  <2>8. \A p \in Paths : files[p] # None => files'[p] # None  BY <2>1, <2>4
  <2>9. \A p \in Paths : DocumentHolds(p)'
    <3>1. ASSUME NEW p \in Paths, p = x PROVE DocumentHolds(p)'
      BY <2>1, <2>4, <3>1 DEF DocumentHolds
    <3>2. \A p \in Paths \ {x} : DocumentHolds(p)'  BY <2>4 DEF StoreInv, DocumentHolds
    <3> QED BY <3>1, <3>2
  <2>10. \A b \in Agents : AgentInv(b)'
    <3>1. AgentInv(a)'
      <4> DEFINE master == FileOf(agent[a].request.project, MASTER)
      <4>1. Path(a)' = Path(a)  BY <2>6 DEF Path
      <4>2. files'[Path(a)'] # None  BY <4>1, <2>1, <2>3, <2>4
      <4>3. master \in Paths  BY <1>t, PathTyped
      <4>4. agent[a].doing # MASTER => files'[master] # None
        BY <4>3, <2>8, <1>t DEF AgentInv
      <4> QED BY <4>2, <4>4, <2>6, <1>t DEF AgentInv
    <3>2. ASSUME NEW b \in Agents \ {a} PROVE AgentInv(b)'
      <4>1. AgentInv(b) /\ Path(b)' = Path(b)  BY <2>5 DEF StoreInv, Path
      <4> QED BY <4>1, <2>5, <2>8, PathTyped DEF AgentInv
    <3> QED BY <3>1, <3>2
  <2>11. \A b \in Agents : Reports(b)'
    <3>1. forced \subseteq forced' /\ (files[x] # None => x \in forced')
      BY <1>1, <2>2, <2>3 DEF MayPublish
    <3>2. ASSUME NEW b \in Agents, NEW p \in agent[b].created
          PROVE  files'[p] # None /\ (files'[p].by = b \/ p \in forced')
      <4>1. Reports(b) /\ p \in Paths  BY <1>t DEF StoreInv, AgentState
      <4>2. files[p] # None /\ (files[p].by = b \/ p \in forced)  BY <4>1 DEF Reports
      <4> QED BY <4>1, <4>2, <3>1, <2>4, <2>8
    <3>3. ASSUME NEW b \in Agents, agent[b].status = "skipped_exists"
          PROVE  agent[b].pc # "idle" /\ \A p \in Wanted(b) : files'[p] # None
      <4>1. agent[b].pc # "idle" /\ \A p \in Wanted(b) : files[p] # None
        BY <3>3 DEF StoreInv, Reports
      <4>2. Wanted(b) \subseteq Paths
        <5> DEFINE q == agent[b].request
        <5>1. q \in Requests BY <4>1 DEF StoreInv, AgentInv
        <5>2. q.project \in Projects /\ q.page \in Pages \union {None} BY <5>1, RequestFields
        <5>3. Wanted(b) = {FileOf(q.project, n) : n \in {MASTER, q.page} \ {None}} BY DEF Wanted
        <5> HIDE DEF q
        <5>4. \A n \in Pages \union {MASTER} : FileOf(q.project, n) \in Paths
          BY <5>2 DEF FileOf, Paths, Slugs
        <5> QED BY <5>2, <5>3, <5>4
      <4> QED BY <4>1, <4>2, <2>8
    <3>4. Reports(a)'
      <4>1. Wanted(a)' = Wanted(a)  BY <2>6 DEF Wanted
      <4>2. files'[x] # None /\ files'[x].by = a  BY <2>1, <2>4
      <4> QED BY <4>1, <4>2, <3>2, <3>3, <2>6 DEF Reports
    <3>5. ASSUME NEW b \in Agents \ {a} PROVE Reports(b)'
      <4>1. Wanted(b)' = Wanted(b)  BY <2>5 DEF Wanted
      <4> QED BY <4>1, <3>2, <3>3, <2>5 DEF StoreInv, Reports
    <3> QED BY <3>4, <3>5
  <2> QED BY <2>7, <2>9, <2>10, <2>11 DEF StoreInv
<1>2. CASE ~ MayPublish(a)
  <2>1. /\ agent' = [agent EXCEPT ![a].pc = "unlink"] /\ UNCHANGED <<files, temps, forced>>
        /\ files[Path(a)] # None
    BY <1>2 DEF Publish, MayPublish
  <2>2. /\ agent'[a] = [agent[a] EXCEPT !.pc = "unlink"]
        /\ \A b \in Agents \ {a} : agent'[b] = agent[b]
    BY <2>1, <1>t
  <2>3. /\ agent'[a].pc = "unlink" /\ agent'[a].created = agent[a].created
        /\ agent'[a].request = agent[a].request /\ agent'[a].doing = agent[a].doing
        /\ agent'[a].status = agent[a].status /\ agent'[a] \in AgentState
    BY <2>2, <1>t DEF AgentState, Places
  <2>4. TypeInv'  BY <2>1, <2>2, <2>3, <1>t DEF TypeInv
  <2>5. Path(a)' = Path(a) /\ Wanted(a)' = Wanted(a)  BY <2>3 DEF Path, Wanted
  <2>6. AgentInv(a)'  BY <2>1, <2>3, <2>5, <1>t DEF AgentInv
  <2>7. Reports(a)'  BY <2>1, <2>3, <2>5, <1>t DEF Reports
  <2> QED BY <2>1, <2>2, <2>4, <2>6, <2>7, FolderKept
<1> QED BY <1>1, <1>2

LEMMA UnlinkStep ==
    ASSUME NamesDiffer, StoreInv, NEW a \in Agents, Unlink(a)
    PROVE  StoreInv'
<1> DEFINE r == agent[a].request
           more == agent[a].doing = MASTER /\ r.page # None
<1>t. /\ temps \in [Agents -> {"none", "partial", "whole"}]
      /\ agent \in [Agents -> AgentState] /\ agent[a] \in AgentState
      /\ agent[a].pc = "unlink" /\ AgentInv(a) /\ Reports(a)
      /\ r \in Requests /\ r.page \in Pages \union {None}
      /\ files[Path(a)] # None
  BY RequestFields DEF StoreInv, TypeInv, Unlink, AgentInv
<1>1. /\ temps' = [temps EXCEPT ![a] = "none"] /\ UNCHANGED <<files, forced>>
      /\ agent' = IF more
                  THEN [agent EXCEPT ![a].pc = "write", ![a].doing = r.page]
                  ELSE [agent EXCEPT ![a].pc = "returned",
                                     ![a].status = IF NothingCreated(a) THEN "skipped_exists"
                                                   ELSE "success"]
  BY DEF Unlink
<1>2. /\ \A b \in Agents \ {a} : agent'[b] = agent[b] /\ temps'[b] = temps[b]
      /\ temps'[a] = "none"
  BY <1>1, <1>t
<1>3. CASE more
  <2>1. agent'[a] = [agent[a] EXCEPT !.pc = "write", !.doing = r.page]  BY <1>1, <1>3, <1>t
  <2>2. /\ agent'[a].pc = "write" /\ agent'[a].created = agent[a].created
        /\ agent'[a].request = r /\ agent'[a].doing = r.page
        /\ agent'[a].status = agent[a].status /\ agent'[a] \in AgentState
    BY <2>1, <1>3, <1>t DEF AgentState, Places
  <2>3. TypeInv'  BY <1>1, <1>2, <2>2, <1>3, <1>t DEF StoreInv, TypeInv
  <2>4. Path(a) = FileOf(r.project, MASTER)  BY <1>3 DEF Path
  <2>5. AgentInv(a)'  BY <1>1, <1>3, <2>2, <2>4, <1>t DEF AgentInv
  <2>6. Wanted(a)' = Wanted(a)  BY <2>2 DEF Wanted
  <2>7. Reports(a)'  BY <1>1, <2>2, <2>6, <1>t DEF Reports
  <2> QED BY <1>1, <1>2, <2>3, <2>5, <2>7, FolderKept
<1>4. CASE ~ more
  <2> DEFINE word == IF NothingCreated(a) THEN "skipped_exists" ELSE "success"
  <2>1. agent'[a] = [agent[a] EXCEPT !.pc = "returned", !.status = word]
    BY <1>1, <1>4, <1>t
  <2>2. /\ agent'[a].pc = "returned" /\ agent'[a].created = agent[a].created
        /\ agent'[a].request = r /\ agent'[a].doing = agent[a].doing
        /\ agent'[a] \in AgentState
    BY <2>1, <1>t DEF AgentState, Places
  <2>3. TypeInv'  BY <1>1, <1>2, <2>2, <1>4, <1>t DEF StoreInv, TypeInv
  <2>4. AgentInv(a)'  BY <1>1, <2>2, <1>t DEF AgentInv
  <2>5. \A p \in Wanted(a)' : files[p] # None
    <3>1. Wanted(a)' = {FileOf(r.project, n) : n \in {MASTER, r.page} \ {None}}
      BY <2>2 DEF Wanted
    <3>2. files[FileOf(r.project, MASTER)] # None
      BY <1>t DEF AgentInv, Path
    <3>3. r.page # None => files[FileOf(r.project, r.page)] # None
      BY <1>4, <1>t DEF AgentInv, Path
    <3> QED BY <3>1, <3>2, <3>3
  <2>6. Reports(a)'  BY <1>1, <1>2, <2>2, <2>5, <1>t DEF Reports
  <2> QED BY <1>1, <1>2, <2>3, <2>4, <2>6, FolderKept
<1> QED BY <1>3, <1>4

LEMMA OwnStep ==
    ASSUME NamesDiffer, StoreInv, NEW a \in Agents,
           Create(a) \/ Fill(a) \/ FailToWrite(a) \/ Crash(a)
    PROVE  StoreInv'
<1>t. /\ temps \in [Agents -> {"none", "partial", "whole"}]
      /\ agent \in [Agents -> AgentState] /\ agent[a] \in AgentState
      /\ agent[a].pc \in {"write", "publish", "unlink"} /\ AgentInv(a) /\ Reports(a)
  BY DEF StoreInv, TypeInv, Create, Fill, FailToWrite, Crash
<1>1. /\ UNCHANGED <<files, forced>> /\ temps' \in [Agents -> {"none", "partial", "whole"}]
      /\ \E place \in Places \ {"idle", "returned", "unlink"} :
            /\ place = "publish" => temps'[a] = "whole"
            /\ place = "raised" => temps'[a] = "none"
            /\ agent' = [agent EXCEPT ![a].pc = place]
      /\ \A b \in Agents \ {a} : temps'[b] = temps[b]
  <2>1. CASE Create(a)
    <3>1. agent' = [agent EXCEPT ![a].pc = "write"]
      BY <2>1, <1>t DEF Create, AgentState
    <3> QED BY <3>1, <2>1, <1>t DEF Create, Places
  <2>2. CASE Fill(a)
    BY <2>2, <1>t DEF Fill, Places
  <2>3. CASE FailToWrite(a)
    BY <2>3, <1>t DEF FailToWrite, Places
  <2>4. CASE Crash(a)
    BY <2>4, <1>t DEF Crash, Places
  <2> QED BY <2>1, <2>2, <2>3, <2>4
<1>2. PICK place \in Places \ {"idle", "returned", "unlink"} :
            /\ place = "publish" => temps'[a] = "whole"
            /\ place = "raised" => temps'[a] = "none"
            /\ agent' = [agent EXCEPT ![a].pc = place]
  BY <1>1
<1>3. /\ agent'[a] = [agent[a] EXCEPT !.pc = place]
      /\ \A b \in Agents \ {a} : agent'[b] = agent[b]
  BY <1>2, <1>t
<1>4. /\ agent'[a].pc = place /\ agent'[a].created = agent[a].created
      /\ agent'[a].request = agent[a].request /\ agent'[a].doing = agent[a].doing
      /\ agent'[a].status = agent[a].status /\ agent'[a] \in AgentState
  BY <1>3, <1>t DEF AgentState
<1>5. TypeInv'  BY <1>1, <1>2, <1>4, <1>t DEF StoreInv, TypeInv
<1>6. Wanted(a)' = Wanted(a)  BY <1>4 DEF Wanted
<1>7. AgentInv(a)'  BY <1>1, <1>2, <1>4, <1>t DEF AgentInv
<1>8. Reports(a)'  BY <1>1, <1>2, <1>4, <1>6, <1>t DEF Reports
<1> QED BY <1>1, <1>3, <1>5, <1>7, <1>8, FolderKept

LEMMA BeginStep ==
    ASSUME NamesDiffer, StoreInv, NEW a \in Agents, NEW r \in Requests, Begin(a, r)
    PROVE  StoreInv'
<1>t. agent \in [Agents -> AgentState] /\ AgentInv(a) /\ Reports(a)
  BY DEF StoreInv, TypeInv
<1>1. /\ agent'[a] = [Idle EXCEPT !.pc = "write", !.request = r, !.doing = MASTER]
      /\ \A b \in Agents \ {a} : agent'[b] = agent[b]
      /\ UNCHANGED <<files, temps, forced>>
  BY <1>t DEF Begin
<1>2. /\ agent'[a].pc = "write" /\ agent'[a].created = {} /\ agent'[a].request = r
      /\ agent'[a].doing = MASTER /\ agent'[a].status = None /\ agent'[a] \in AgentState
  BY <1>1 DEF Idle, AgentState, Places
<1>3. TypeInv'  BY <1>1, <1>2, <1>t DEF StoreInv, TypeInv, Begin
<1>4. AgentInv(a)'  BY <1>2 DEF AgentInv
<1>5. Reports(a)'  BY <1>2 DEF Reports, NamesDiffer
<1> QED BY <1>1, <1>3, <1>4, <1>5, FolderKept

LEMMA FolderStep == ASSUME NamesDiffer PROVE StoreInv /\ [StoreNext]_storeVars => StoreInv'
<1> SUFFICES ASSUME StoreInv, [StoreNext]_storeVars PROVE StoreInv'
  OBVIOUS
<1>1. CASE UNCHANGED storeVars
  <2>1. TypeInv'  BY <1>1 DEF storeVars, StoreInv, TypeInv
  <2>2. \A a \in Agents : Path(a)' = Path(a) /\ Wanted(a)' = Wanted(a)
    BY <1>1 DEF storeVars, Path, Wanted
  <2>3. \A a \in Agents : AgentInv(a)' /\ Reports(a)'
    BY <1>1, <2>2 DEF storeVars, StoreInv, AgentInv, Reports
  <2>4. \A p \in Paths : DocumentHolds(p)'  BY <1>1 DEF storeVars, StoreInv, DocumentHolds
  <2> QED BY <2>1, <2>3, <2>4 DEF StoreInv
<1>2. ASSUME NEW a \in Agents, Advance(a) PROVE StoreInv'
  BY <1>2, OwnStep, PublishStep, UnlinkStep DEF Advance
<1> QED BY <1>1, <1>2, BeginStep DEF StoreNext

\* DesignStore: however many agents persist at once, force, fail or are killed, what
\* they report agrees with the folder (design_system.py: exclusive creation makes the
\* no-overwrite contract safe when several agents persist concurrently).
THEOREM ReportsAreTrue == ASSUME NamesDiffer PROVE Spec => []StoreReportsHold
<1>1. Init => StoreInv BY FolderInit DEF Init
<1>2. StoreInv /\ [Next]_vars => StoreInv'
  <2>1. [Next]_vars => [StoreNext]_storeVars
    BY DEF Next, vars, Searches, Generates, Persists, Draws
  <2> QED BY <2>1, FolderStep
<1>3. StoreInv => StoreReportsHold
  BY DEF StoreInv, Reports, DocumentHolds, StoreReportsHold
<1> QED BY <1>1, <1>2, <1>3, PTL DEF Spec

-----------------------------------------------------------------------------
(* The generator.                                                          *)

\* Which palette a design gets, whatever the search offered.
LEMMA PaletteRule ==
    ASSUME NEW n \in Nat, NEW palettes \in [1..n -> DOMAIN Palettes], NEW mode, NEW category,
           NEW chosen, chosen = SelectPalette(palettes, mode, category), chosen # None
    PROVE  /\ mode = "dark" /\ ~ chosen.dark =>
                \A p \in ToSet(palettes) : p # category /\ ~ Palettes[p]
           /\ chosen.derived => mode = "dark" /\ chosen.product = category
<1> DEFINE own == {i \in DOMAIN palettes : palettes[i] = category}
           dark == {i \in DOMAIN palettes : Palettes[palettes[i]]}
           Row(p) == [product |-> p, dark |-> Palettes[p], derived |-> FALSE]
<1>1. dark # {} => \E i \in dark : FirstOf(palettes, dark) = palettes[i]
  <2>1. dark \subseteq Nat OBVIOUS
  <2> HIDE DEF dark
  <2> QED BY <2>1, FirstOfRule
<1>2. CASE own # {} /\ mode = "dark" /\ ~ Palettes[category]
  BY <1>2 DEF SelectPalette
<1>3. CASE own # {} /\ ~ (mode = "dark" /\ ~ Palettes[category])
  BY <1>3 DEF SelectPalette
<1>4. CASE own = {} /\ mode = "dark" /\ dark # {}
  BY <1>1, <1>4 DEF SelectPalette
<1>5. CASE own = {} /\ ~ (mode = "dark" /\ dark # {})
  BY <1>5 DEF SelectPalette, ToSet
<1> QED BY <1>2, <1>3, <1>4, <1>5

\* Whatever the searches return and the rules say, a dark design is dark throughout
\* (design_system.py: _select_palette_for_mode, _filter_anti_patterns_for_mode).
THEOREM DesignsAreOneMode == Spec => []DesignIsOneMode
<1>1. Init => DesignIsOneMode BY DEF Init, GeneratorInit, DesignIsOneMode
<1>2. DesignIsOneMode /\ [Next]_vars => DesignIsOneMode'
  <2> SUFFICES ASSUME DesignIsOneMode, [Next]_vars PROVE DesignIsOneMode' OBVIOUS
  <2>1. CASE UNCHANGED <<request, design>>
    BY <2>1 DEF DesignIsOneMode
  <2>2. CASE GeneratorNext
    <3>1. PICK query \in Briefs, dial \in Dials \union {None},
               category \in DOMAIN Palettes \union {"General"},
               found \in SUBSET {s \in DOMAIN Styles : Styles[s] # None},
               palettes \in UNION {[1..n -> DOMAIN Palettes] : n \in 0..2} :
                  Generate(query, dial, category, found, palettes)
      BY <2>2 DEF GeneratorNext
    <3>2. PICK n \in 0..2 : palettes \in [1..n -> DOMAIN Palettes] OBVIOUS
    <3>3. request'.palettes = palettes /\ request'.category = category
      BY <3>1 DEF Generate
    <3>4. PICK mode, style, reasoning :
             design' = [mode |-> mode, style |-> style,
                        palette |-> SelectPalette(palettes, mode, category),
                        avoidsDark |-> Advice(reasoning, mode)]
      BY <3>1 DEF Generate
    <3>5. /\ design'.mode = mode
          /\ design'.palette = SelectPalette(palettes, mode, category)
          /\ design'.avoidsDark = Advice(reasoning, mode)
      BY <3>4
    <3>6. mode = "dark" => ~ design'.avoidsDark BY <3>5 DEF Advice
    <3>7. design'.palette # None =>
            /\ mode = "dark" /\ ~ design'.palette.dark =>
                  \A p \in ToSet(palettes) : p # category /\ ~ Palettes[p]
            /\ design'.palette.derived => mode = "dark" /\ design'.palette.product = category
      BY <3>2, <3>5, PaletteRule
    <3> QED BY <3>3, <3>5, <3>6, <3>7 DEF DesignIsOneMode
  <2>3. UNCHANGED <<request, design>> \/ GeneratorNext
    BY DEF Next, vars, Searches, Generates, Persists, Draws, generateVars
  <2> QED BY <2>1, <2>2, <2>3
<1> QED BY <1>1, <1>2, PTL DEF Spec

-----------------------------------------------------------------------------
(* The image commands.                                                     *)

Kinds == {"none", "logo", "logos", "icon", "icons", "sizes", "mockups"}

BatchTypes ==
    /\ stage \in {"idle", "ask", "examine", "save", "done"} /\ item \in Nat /\ second \in Nat
    /\ job = [kind |-> job.kind, provider |-> job.provider, items |-> job.items]
    /\ job.kind \in Kinds
    /\ job.items \in Seq(ToSet(job.items))
    /\ reported \in Seq(ToSet(reported))
    /\ stage \in {"ask", "examine", "save"} => item \in 1..Len(job.items) /\ job.kind # "none"
    /\ stage = "examine" => job.kind # "icons"
    /\ stage = "idle" => job.kind = "none" /\ reported = <<>> /\ lost = {}
    /\ job.kind = "icons" /\ stage = "ask" => item = 1
    /\ job.kind \in {"logo", "icon"} => Len(job.items) = 1

\* What a picture is called that is saved in a second.
NameOf(j, n, s) ==
    CASE j.kind \in {"logos", "icons"} -> <<j.kind, n>>
      [] j.kind = "sizes" -> <<"sizes", j.items[n]>>
      [] j.kind = "mockups" -> <<"mockup", Deliverable(j.items[n]), s>>
      [] j.kind \in {"logo", "icon"} -> <<j.kind, s>>

Told(n) == \E i \in DOMAIN reported : reported[i].item = n
Missed(n) == \E l \in lost : l.item = n

\* The items before the one in hand are told or missed, and no other one is.
Accounted ==
    /\ \A n : Told(n) \/ Missed(n) =>
          n \in Nat \ {0} /\ n <= item /\ (stage # "done" => n < item)
    /\ job.kind \notin {"none", "icons"} =>
          \A n \in 1..Len(job.items) : n < item \/ stage = "done" => (Told(n) <=> ~ Missed(n))

\* Items of a job whose names may be one; a file that is by now an item's; and a
\* picture that lies in its file, or whose file a later item alike has taken.
AlikeIn(j, m, n) ==
    \/ j.kind = "sizes" /\ j.items[m] = j.items[n]
    \/ j.kind = "mockups" /\ Deliverable(j.items[m]) = Deliverable(j.items[n])

TookIn(d, l, m, name) ==
    \/ d[name] = m
    \/ d[name] = 0 /\ \E x \in l : x.item = m /\ x.why = "unsaved"

Survives(j, k, d, l, n, name) ==
    \/ d[name] = n
    \/ \E m \in (n + 1)..k : AlikeIn(j, m, n) /\ TookIn(d, l, m, name)

\* What is reported lies on the disk under the name it was saved with.
Stored ==
    \A i \in DOMAIN reported :
        /\ reported[i].name \in DOMAIN disk
        /\ \E s \in Nat : reported[i].name = NameOf(job, reported[i].item, s)
        /\ Survives(job, item, disk, lost, reported[i].item, reported[i].name)

Excused == \A l \in lost : l.why = "timeout" => l.last = "pending"

BatchInv == BatchTypes /\ Accounted /\ Stored /\ Excused

LEMMA CommandJobs ==
    ASSUME NEW c \in Commands, NEW j, j = JobOf(c)
    PROVE  /\ j = [kind |-> j.kind, provider |-> j.provider, items |-> j.items]
           /\ j.kind \in Kinds \ {"none"}
           /\ j.items \in Seq(ToSet(j.items)) /\ Len(j.items) >= 1
           /\ j.kind \in {"logo", "icon"} => Len(j.items) = 1
<1>1. /\ c.batch \in Seq(ToSet(c.batch)) /\ c.sizes \in Seq(ToSet(c.sizes))
      /\ BatchStyles \in Nat \ {0}
  BY CommandsAssumption
<1>2. /\ <<c.subject>> \in Seq(ToSet(<<c.subject>>)) /\ Len(<<c.subject>>) = 1
      /\ c.batch # <<>> => Len(c.batch) >= 1
      /\ c.sizes # <<>> => Len(c.sizes) >= 1
  <2>1. ToSet(<<c.subject>>) = {c.subject} BY DEF ToSet
  <2> QED BY <2>1, <1>1
<1>3. CASE c.tool = "logo"
  <2>1. JobOf(c) = LogoJob(c) BY <1>3 DEF JobOf
  <2>2. CASE c.batch = <<>> BY <2>1, <2>2, <1>2 DEF LogoJob, Kinds
  <2>3. CASE c.batch # <<>>
    <3> DEFINE k == IF Len(c.batch) > BatchStyles THEN BatchStyles ELSE Len(c.batch)
               some == SubSeq(c.batch, 1, k)
    <3>1. k \in 1..Len(c.batch) BY <1>1, <1>2, <2>3
    <3>2. some \in Seq(ToSet(some)) /\ Len(some) = k
      <4> HIDE DEF k
      <4>1. some \in Seq(ToSet(c.batch)) /\ Len(some) = k BY <3>1, <1>1
      <4> HIDE DEF some
      <4> QED BY <4>1 DEF ToSet
    <3>3. j = [kind |-> "logos", provider |-> c.provider, items |-> some]
      BY <2>1, <2>3 DEF LogoJob
    <3>4. Len(some) >= 1 BY <3>1, <3>2, <1>1
    <3> HIDE DEF some, k
    <3> QED BY <3>2, <3>3, <3>4 DEF Kinds
  <2> QED BY <2>2, <2>3
<1>4. CASE c.tool = "icon"
  <2>1. JobOf(c) = IconJob(c) BY <1>4 DEF JobOf
  <2>2. CASE c.sizes # <<>>
    BY <2>1, <2>2, <1>1, <1>2 DEF IconJob, Kinds
  <2>3. CASE c.sizes = <<>> /\ c.batch # <<>>
    BY <2>1, <2>3, <1>1, <1>2 DEF IconJob, Kinds
  <2>4. CASE c.sizes = <<>> /\ c.batch = <<>>
    BY <2>1, <2>4, <1>1, <1>2 DEF IconJob, Kinds
  <2> QED BY <2>2, <2>3, <2>4
<1>5. CASE c.tool = "cip"
  <2>1. JobOf(c) = MockupJob(c) BY <1>5 DEF JobOf
  <2> DEFINE all == IF c.batch = <<>> THEN <<c.subject>> ELSE c.batch
  <2>2. all \in Seq(ToSet(all)) /\ Len(all) >= 1
    <3>1. CASE c.batch = <<>> BY <3>1, <1>2
    <3>2. CASE c.batch # <<>> BY <3>2, <1>1, <1>2
    <3> QED BY <3>1, <3>2
  <2>3. j = [kind |-> "mockups", provider |-> "gemini", items |-> all]
    BY <2>1 DEF MockupJob
  <2> HIDE DEF all
  <2> QED BY <2>2, <2>3 DEF Kinds
<1> QED BY <1>3, <1>4, <1>5, CommandsAssumption

LEMMA AppendRule ==
    ASSUME NEW s, s \in Seq(ToSet(s)), NEW x, NEW t, t = Append(s, x)
    PROVE  /\ t \in Seq(ToSet(t)) /\ DOMAIN t = 1..(Len(s) + 1)
           /\ \A i \in 1..Len(s) : t[i] = s[i]
           /\ t[Len(s) + 1] = x
<1>1. s \in Seq(ToSet(s) \union {x})
  <2> DEFINE S == ToSet(s)
  <2>1. s \in Seq(S) OBVIOUS
  <2> HIDE DEF S
  <2>2. s \in Seq(S \union {x}) BY <2>1
  <2> QED BY <2>2 DEF S
<1>2. /\ t \in Seq(ToSet(s) \union {x}) /\ Len(t) = Len(s) + 1
      /\ \A i \in 1..Len(s) : t[i] = s[i]
      /\ t[Len(s) + 1] = x
  <2> DEFINE S == ToSet(s) \union {x}
  <2>1. s \in Seq(S) /\ x \in S BY <1>1
  <2> HIDE DEF S
  <2> QED BY <2>1
<1>3. t \in Seq(ToSet(t)) BY <1>2 DEF ToSet
<1> QED BY <1>2, <1>3

\* Where a file is left alone a picture survives, and a file taken by an item alike
\* is accounted for.
LEMMA SurvivesRule ==
    ASSUME NEW j, NEW k \in Nat, NEW k2 \in Nat, k <= k2, NEW d, NEW d2, NEW l, NEW l2,
           l \subseteq l2, NEW n \in Nat, NEW name,
           \/ Survives(j, k, d, l, n, name) /\ d2[name] = d[name]
           \/ n < k /\ AlikeIn(j, k, n) /\ TookIn(d2, l2, k, name)
    PROVE  Survives(j, k2, d2, l2, n, name)
<1>1. CASE Survives(j, k, d, l, n, name) /\ d2[name] = d[name]
  <2>1. CASE d[name] = n BY <1>1, <2>1 DEF Survives
  <2>2. CASE d[name] # n
    <3>1. PICK m \in (n + 1)..k : AlikeIn(j, m, n) /\ TookIn(d, l, m, name)
      BY <1>1, <2>2 DEF Survives
    <3>2. TookIn(d2, l2, m, name) BY <1>1, <3>1 DEF TookIn
    <3>3. m \in (n + 1)..k2 BY <3>1
    <3> QED BY <3>1, <3>2, <3>3 DEF Survives
  <2> QED BY <2>1, <2>2
<1>2. CASE n < k /\ AlikeIn(j, k, n) /\ TookIn(d2, l2, k, name)
  <2>1. k \in (n + 1)..k2 BY <1>2
  <2> QED BY <1>2, <2>1 DEF Survives
<1> QED BY <1>1, <1>2

\* An earlier item of the name of the item in hand is alike.
LEMMA NameIsAlike ==
    ASSUME BatchInv, stage = "save"
    PROVE  /\ FileName(item) = NameOf(job, item, second)
           /\ \A i \in DOMAIN reported :
                 /\ reported[i].item \in Nat /\ reported[i].item < item
                 /\ reported[i].name = FileName(item) => AlikeIn(job, item, reported[i].item)
<1>1. job.kind \in Kinds \ {"none"} => FileName(item) = NameOf(job, item, second)
  BY DEF FileName, NameOf, NumberedName, SizeName, MockupName, DatedName, Kinds
<1>2. job.kind \in Kinds /\ item \in 1..Len(job.items) /\ second \in Nat
      /\ job.items \in Seq(ToSet(job.items)) /\ job.kind # "none"
  BY DEF BatchInv, BatchTypes
<1>3. \A i \in DOMAIN reported : reported[i].item \in Nat \ {0} /\ reported[i].item < item
  BY DEF BatchInv, Accounted, Told
<1>4. ASSUME NEW i \in DOMAIN reported, reported[i].name = NameOf(job, item, second)
      PROVE  AlikeIn(job, item, reported[i].item)
  <2> DEFINE n == reported[i].item
  <2>1. n \in Nat \ {0} /\ n < item BY <1>3
  <2>2. PICK s \in Nat : NameOf(job, item, second) = NameOf(job, n, s)
    BY <1>4 DEF BatchInv, Stored
  <2>3. n # item BY <1>2, <2>1
  <2> HIDE DEF n
  <2>4. CASE job.kind \in {"logos", "icons"} BY <2>2, <2>3, <2>4 DEF NameOf
  <2>5. CASE job.kind = "sizes" BY <2>2, <2>5 DEF NameOf, AlikeIn, n
  <2>6. CASE job.kind = "mockups" BY <2>2, <2>6 DEF NameOf, AlikeIn, n
  <2>7. CASE job.kind \in {"logo", "icon"}
    <3>1. Len(job.items) = 1 BY <2>7 DEF BatchInv, BatchTypes
    <3> QED BY <3>1, <1>2, <2>1
  <2> QED BY <2>4, <2>5, <2>6, <2>7, <1>2 DEF Kinds
<1> QED BY <1>1, <1>2, <1>3, <1>4

Moves == \/ stage' \in {"ask", "save"} /\ item' = item + 1 /\ item < Len(job.items)
         \/ stage' = "done" /\ item' = item /\ item = Len(job.items)

\* The item left behind is told or missed, and was neither before.
LEMMA AccountStep ==
    ASSUME BatchInv, stage \in {"ask", "examine", "save"}, job' = job, Moves,
           \/ \A n : (Told(n)' <=> Told(n)) /\ (Missed(n)' <=> (Missed(n) \/ n = item))
           \/ \A n : (Told(n)' <=> (Told(n) \/ n = item)) /\ (Missed(n)' <=> Missed(n))
    PROVE  Accounted'
<1>1. /\ BatchTypes /\ item \in 1..Len(job.items) /\ Len(job.items) \in Nat /\ item \in Nat
      /\ stage # "done"
  BY DEF BatchInv, BatchTypes
<1>2. \A n : Told(n) \/ Missed(n) => n \in Nat \ {0} /\ n < item
  BY <1>1 DEF BatchInv, Accounted
<1>3. \/ stage' # "done" /\ item' = item + 1
      \/ stage' = "done" /\ item' = item /\ item = Len(job.items)
  BY DEF Moves
<1>4. \A n : Told(n)' \/ Missed(n)' =>
         n \in Nat \ {0} /\ n <= item' /\ (stage' # "done" => n < item')
  <2> SUFFICES ASSUME NEW n, Told(n)' \/ Missed(n)'
               PROVE  n \in Nat \ {0} /\ n <= item' /\ (stage' # "done" => n < item')
    OBVIOUS
  <2>1. n = item \/ Told(n) \/ Missed(n) OBVIOUS
  <2>2. n \in Nat \ {0} /\ n <= item BY <1>1, <1>2, <2>1
  <2> QED BY <1>1, <1>3, <2>2
<1>5. job.kind \notin {"none", "icons"} =>
         \A n \in 1..Len(job.items) : n < item => (Told(n) <=> ~ Missed(n))
  BY <1>1 DEF BatchInv, Accounted
<1>6. ASSUME job.kind \notin {"none", "icons"}, NEW n \in 1..Len(job.items),
             n < item' \/ stage' = "done"
      PROVE  Told(n)' <=> ~ Missed(n)'
  <2>1. n \in Nat /\ (n < item \/ n = item) BY <1>3, <1>6, <1>1
  <2>2. CASE n < item
    <3>1. n # item BY <2>1, <2>2, <1>1
    <3>2. Told(n) <=> ~ Missed(n) BY <2>2, <1>5, <1>6
    <3> QED BY <3>1, <3>2
  <2>3. CASE n = item
    <3>1. ~ (item < item) BY <1>1
    <3>2. ~ Told(n) /\ ~ Missed(n) BY <2>3, <3>1, <1>2
    <3> QED BY <2>3, <3>2
  <2> QED BY <2>1, <2>2, <2>3
<1> QED BY <1>4, <1>6 DEF Accounted

LEMMA OnwardMoves ==
    ASSUME BatchInv, stage \in {"ask", "examine", "save"}, Onward
    PROVE  Moves
<1>1. item \in 1..Len(job.items) /\ Len(job.items) \in Nat BY DEF BatchInv, BatchTypes
<1> QED BY <1>1 DEF Onward, Moves

\* An item in hand is passed on, its picture in sight, or given up.
LEMMA PassStep ==
    ASSUME BatchInv, UNCHANGED <<job, disk, reported>>, job.kind # "icons",
           stage \in {"ask", "examine"}, second' \in Nat,
           \/ stage' \in {"examine", "save"} /\ UNCHANGED <<item, lost>>
           \/ \E why, last : /\ why = "timeout" => last = "pending"
                             /\ lost' = lost \union {[item |-> item, why |-> why, last |-> last]}
                             /\ Onward
    PROVE  BatchInv'
<1>1. /\ BatchTypes /\ item \in 1..Len(job.items) /\ Len(job.items) \in Nat /\ second \in Nat
      /\ job.items \in Seq(ToSet(job.items)) /\ job.kind # "none" /\ item \in Nat
  BY DEF BatchInv, BatchTypes
<1>2. /\ stage' \in {"ask", "examine", "save", "done"} /\ item' \in Nat /\ second' \in Nat
      /\ stage' \in {"ask", "examine", "save"} => item' \in 1..Len(job.items)
      /\ item <= item' /\ lost \subseteq lost'
  BY <1>1 DEF Onward
<1>3. BatchTypes' BY <1>1, <1>2 DEF BatchTypes
<1>4. \A n : Told(n)' <=> Told(n) BY DEF Told
<1>5. Stored'
  <2> SUFFICES ASSUME NEW i \in DOMAIN reported
               PROVE  Survives(job, item', disk, lost', reported[i].item, reported[i].name)
    BY DEF BatchInv, Stored
  <2>1. Survives(job, item, disk, lost, reported[i].item, reported[i].name)
    BY DEF BatchInv, Stored
  <2>2. reported[i].item \in Nat BY DEF BatchInv, Accounted, Told
  <2> QED BY <2>1, <2>2, <1>1, <1>2, SurvivesRule
<1>6. CASE stage' \in {"examine", "save"} /\ UNCHANGED <<item, lost>>
  <2>1. \A n : Missed(n)' <=> Missed(n) BY <1>6 DEF Missed
  <2>2. stage # "done" /\ stage' # "done" BY <1>6
  <2>3. Accounted' BY <1>4, <1>6, <2>1, <2>2 DEF BatchInv, Accounted
  <2>4. Excused' BY <1>6 DEF BatchInv, Excused
  <2> QED BY <1>3, <1>5, <2>3, <2>4 DEF BatchInv
<1>7. CASE \E why, last :
              /\ why = "timeout" => last = "pending"
              /\ lost' = lost \union {[item |-> item, why |-> why, last |-> last]}
              /\ Onward
  <2>1. PICK why, last :
              /\ why = "timeout" => last = "pending"
              /\ lost' = lost \union {[item |-> item, why |-> why, last |-> last]}
              /\ Onward
    BY <1>7
  <2> DEFINE l == [item |-> item, why |-> why, last |-> last]
  <2>2. l.item = item /\ (l.why = "timeout" => l.last = "pending") /\ lost' = lost \union {l}
    BY <2>1
  <2> HIDE DEF l
  <2>3. \A n : Missed(n)' <=> (Missed(n) \/ n = item) BY <2>2 DEF Missed
  <2>4. Accounted' BY <1>4, <2>1, <2>3, OnwardMoves, AccountStep
  <2>5. Excused' BY <2>2 DEF BatchInv, Excused
  <2> QED BY <1>3, <1>5, <2>4, <2>5 DEF BatchInv
<1> QED BY <1>6, <1>7

\* A picture is saved and reported, or its file spoilt.
LEMMA SaveStep == ASSUME BatchInv, Save PROVE BatchInv'
<1> DEFINE name == FileName(item)
           new == [item |-> item, name |-> name]
<1>1. /\ BatchTypes /\ item \in 1..Len(job.items) /\ Len(job.items) \in Nat /\ second \in Nat
      /\ item \in Nat /\ stage = "save" /\ job.kind # "none"
      /\ reported \in Seq(ToSet(reported))
  BY DEF BatchInv, BatchTypes, Save
<1>2. /\ name = NameOf(job, item, second)
      /\ \A i \in DOMAIN reported :
            /\ reported[i].item \in Nat /\ reported[i].item < item
            /\ reported[i].name = name => AlikeIn(job, item, reported[i].item)
  BY <1>1, NameIsAlike
<1>3. /\ disk' = [x \in DOMAIN disk \union {name} |-> IF x = name THEN item ELSE disk[x]]
      /\ reported' = Append(reported, new)
      /\ UNCHANGED <<job, seen, polls, second, lost>>
  BY DEF Save
<1>4. /\ Moves
      /\ stage' = "save" => job.kind = "icons"
      /\ job.kind = "icons" => stage' # "ask"
  <2>1. CASE job.kind = "icons" /\ item < Len(job.items)
    BY <1>1, <2>1 DEF Save, Moves
  <2>2. CASE ~ (job.kind = "icons" /\ item < Len(job.items))
    <3>1. Onward BY <2>2 DEF Save
    <3>2. job.kind = "icons" => ~ (item < Len(job.items)) BY <2>2
    <3> QED BY <3>1, <3>2, <1>1, OnwardMoves DEF Onward
  <2> QED BY <2>1, <2>2
<1>5. new.item = item /\ new.name = name OBVIOUS
<1> HIDE DEF name, new
<1>6. /\ reported' \in Seq(ToSet(reported')) /\ DOMAIN reported' = 1..(Len(reported) + 1)
      /\ \A i \in 1..Len(reported) : reported'[i] = reported[i]
      /\ reported'[Len(reported) + 1] = new
      /\ Len(reported) \in Nat /\ DOMAIN reported = 1..Len(reported)
  <2>1. Len(reported) \in Nat /\ DOMAIN reported = 1..Len(reported) BY <1>1
  <2>2. reported \in Seq(ToSet(reported)) BY <1>1
  <2>3. /\ reported' \in Seq(ToSet(reported')) /\ DOMAIN reported' = 1..(Len(reported) + 1)
        /\ \A i \in 1..Len(reported) : reported'[i] = reported[i]
        /\ reported'[Len(reported) + 1] = new
    <3>1. reported' = Append(reported, new) BY <1>3
    <3> DEFINE P(t) == /\ t \in Seq(ToSet(t)) /\ DOMAIN t = 1..(Len(reported) + 1)
                       /\ \A i \in 1..Len(reported) : t[i] = reported[i]
                       /\ t[Len(reported) + 1] = new
    <3>2. \A t : t = Append(reported, new) => P(t) BY <2>2, AppendRule
    <3> HIDE DEF P
    <3>3. P(reported') BY <3>1, <3>2
    <3> QED BY <3>3 DEF P
  <2> QED BY <2>1, <2>3
<1>7. \A i \in DOMAIN reported' :
         (i \in DOMAIN reported /\ reported'[i] = reported[i]) \/ reported'[i] = new
  BY <1>6
<1>8. BatchTypes'
  <2>1. /\ stage' \in {"ask", "save", "done"} /\ item' \in Nat
        /\ stage' \in {"ask", "examine", "save"} => item' \in 1..Len(job.items)
    BY <1>1, <1>4 DEF Moves
  <2> QED BY <2>1, <1>1, <1>3, <1>4, <1>6 DEF BatchTypes
<1>9. Accounted'
  <2>1. \A n : Told(n)' <=> (Told(n) \/ n = item)
    <3>1. \A n : Told(n)' => Told(n) \/ n = item BY <1>5, <1>7 DEF Told
    <3>2. \A n : Told(n) => Told(n)' BY <1>6 DEF Told
    <3>3. Len(reported) + 1 \in DOMAIN reported' BY <1>6
    <3>4. \A n : n = item => Told(n)' BY <1>5, <1>6, <3>3 DEF Told
    <3> QED BY <3>1, <3>2, <3>4
  <2>2. \A n : Missed(n)' <=> Missed(n) BY <1>3 DEF Missed
  <2> QED BY <1>1, <1>3, <1>4, <2>1, <2>2, AccountStep
<1>10. Stored'
  <2> SUFFICES ASSUME NEW i \in DOMAIN reported'
               PROVE  /\ reported'[i].name \in DOMAIN disk'
                      /\ \E s \in Nat : reported'[i].name = NameOf(job, reported'[i].item, s)
                      /\ Survives(job, item', disk', lost, reported'[i].item, reported'[i].name)
    BY <1>3 DEF Stored
  <2>1. item' \in Nat /\ item <= item' BY <1>1, <1>4 DEF Moves
  <2>2. CASE reported'[i] = new
    <3>1. disk'[name] = item BY <1>3
    <3> QED BY <1>1, <1>2, <1>3, <1>5, <2>2, <3>1 DEF Survives
  <2>3. CASE i \in DOMAIN reported /\ reported'[i] = reported[i]
    <3>1. /\ reported[i].name \in DOMAIN disk
          /\ \E s \in Nat : reported[i].name = NameOf(job, reported[i].item, s)
          /\ Survives(job, item, disk, lost, reported[i].item, reported[i].name)
      BY <2>3 DEF BatchInv, Stored
    <3>2. reported[i].item \in Nat /\ reported[i].item < item BY <1>2, <2>3
    <3>3. CASE reported[i].name = name
      <4>1. TookIn(disk', lost, item, reported[i].name) BY <1>3, <3>3 DEF TookIn
      <4>2. AlikeIn(job, item, reported[i].item) BY <1>2, <2>3, <3>3
      <4>3. Survives(job, item', disk', lost, reported[i].item, reported[i].name)
        BY <1>1, <2>1, <3>2, <4>1, <4>2, SurvivesRule
      <4> QED BY <1>3, <2>3, <3>1, <4>3
    <3>4. CASE reported[i].name # name
      <4>1. disk'[reported[i].name] = disk[reported[i].name] BY <1>3, <3>1, <3>4
      <4>2. Survives(job, item', disk', lost, reported[i].item, reported[i].name)
        BY <1>1, <2>1, <3>1, <3>2, <4>1, SurvivesRule
      <4> QED BY <1>3, <2>3, <3>1, <4>2
    <3> QED BY <3>3, <3>4
  <2> QED BY <1>7, <2>2, <2>3
<1>11. Excused' BY <1>3 DEF BatchInv, Excused
<1> QED BY <1>8, <1>9, <1>10, <1>11 DEF BatchInv

LEMMA SpoilStep == ASSUME BatchInv, FailToSave PROVE BatchInv'
<1> DEFINE name == FileName(item)
           new == [item |-> item, why |-> "unsaved", last |-> seen]
<1>1. /\ BatchTypes /\ item \in 1..Len(job.items) /\ Len(job.items) \in Nat /\ second \in Nat
      /\ item \in Nat /\ stage = "save" /\ job.kind # "none"
  BY DEF BatchInv, BatchTypes, FailToSave
<1>2. \A i \in DOMAIN reported :
         /\ reported[i].item \in Nat /\ reported[i].item < item
         /\ reported[i].name = name => AlikeIn(job, item, reported[i].item)
  BY <1>1, NameIsAlike
<1>3. /\ disk' = [x \in DOMAIN disk \union {name} |-> IF x = name THEN 0 ELSE disk[x]]
      /\ lost' = lost \union {new}
      /\ UNCHANGED <<job, seen, polls, second>>
      /\ \/ job.kind = "icons" /\ reported' = <<>> /\ stage' = "done" /\ item' = item
         \/ job.kind # "icons" /\ Onward /\ reported' = reported
  BY DEF FailToSave, Skip
<1>4. new.item = item /\ new.why = "unsaved" OBVIOUS
<1> HIDE DEF name, new
<1>5. \A n : Missed(n)' <=> (Missed(n) \/ n = item) BY <1>3, <1>4 DEF Missed
<1>6. Excused' BY <1>3, <1>4 DEF BatchInv, Excused
<1>7. CASE job.kind = "icons" /\ reported' = <<>> /\ stage' = "done" /\ item' = item
  <2>1. DOMAIN reported' = {} /\ reported' \in Seq(ToSet(reported')) BY <1>7
  <2>2. BatchTypes' BY <1>1, <1>3, <1>7, <2>1 DEF BatchTypes
  <2>3. \A n : ~ Told(n)' BY <2>1 DEF Told
  <2>4. \A n : Missed(n) => n \in Nat \ {0} /\ n <= item BY DEF BatchInv, Accounted
  <2>5. Accounted' BY <1>1, <1>3, <1>5, <1>7, <2>3, <2>4 DEF Accounted
  <2>6. Stored' BY <2>1 DEF Stored
  <2> QED BY <1>6, <2>2, <2>5, <2>6 DEF BatchInv
<1>8. CASE job.kind # "icons" /\ Onward /\ reported' = reported
  <2>1. Moves /\ (stage' \in {"ask", "done"}) BY <1>1, <1>8, OnwardMoves DEF Onward
  <2>2. BatchTypes'
    <3>1. item' \in Nat /\ (stage' = "ask" => item' \in 1..Len(job.items))
      BY <1>1, <2>1 DEF Moves
    <3> QED BY <1>1, <1>3, <1>8, <2>1, <3>1 DEF BatchTypes
  <2>3. \A n : Told(n)' <=> Told(n) BY <1>8 DEF Told
  <2>4. Accounted' BY <1>1, <1>3, <1>5, <2>1, <2>3, AccountStep
  <2>5. Stored'
    <3> SUFFICES ASSUME NEW i \in DOMAIN reported
                 PROVE  /\ reported[i].name \in DOMAIN disk'
                        /\ \E s \in Nat : reported[i].name = NameOf(job, reported[i].item, s)
                        /\ Survives(job, item', disk', lost', reported[i].item, reported[i].name)
      BY <1>3, <1>8 DEF Stored
    <3>1. /\ reported[i].name \in DOMAIN disk
          /\ \E s \in Nat : reported[i].name = NameOf(job, reported[i].item, s)
          /\ Survives(job, item, disk, lost, reported[i].item, reported[i].name)
      BY DEF BatchInv, Stored
    <3>2. item' \in Nat /\ item <= item' /\ lost \subseteq lost' BY <1>1, <1>3, <2>1 DEF Moves
    <3>3. reported[i].item \in Nat /\ reported[i].item < item BY <1>2
    <3>4. CASE reported[i].name = name
      <4>1. TookIn(disk', lost', item, reported[i].name) BY <1>3, <1>4, <3>4 DEF TookIn
      <4>2. AlikeIn(job, item, reported[i].item) BY <1>2, <3>4
      <4>3. Survives(job, item', disk', lost', reported[i].item, reported[i].name)
        BY <1>1, <3>2, <3>3, <4>1, <4>2, SurvivesRule
      <4> QED BY <1>3, <3>1, <4>3
    <3>5. CASE reported[i].name # name
      <4>1. disk'[reported[i].name] = disk[reported[i].name] BY <1>3, <3>1, <3>5
      <4>2. Survives(job, item', disk', lost', reported[i].item, reported[i].name)
        BY <1>1, <3>1, <3>2, <3>3, <4>1, SurvivesRule
      <4> QED BY <1>3, <3>1, <4>2
    <3> QED BY <3>4, <3>5
  <2> QED BY <1>6, <2>2, <2>4, <2>5 DEF BatchInv
<1> QED BY <1>3, <1>7, <1>8

\* A set of icons is asked for once, and what comes back is numbered.
LEMMA IconsStep == ASSUME BatchInv, AskIcons PROVE BatchInv'
<1>1. /\ BatchTypes /\ stage = "ask" /\ job.kind = "icons" /\ item = 1 /\ second \in Nat
      /\ job = [kind |-> job.kind, provider |-> job.provider, items |-> job.items]
      /\ job.items \in Seq(ToSet(job.items)) /\ Len(job.items) \in Nat /\ 1 <= Len(job.items)
      /\ second' \in Nat /\ UNCHANGED <<disk, reported, item, lost>>
  BY DEF BatchInv, BatchTypes, AskIcons, Asking
<1>2. \A n : ~ Told(n) /\ ~ Missed(n)
  <2>1. \A n : Told(n) \/ Missed(n) => n \in Nat \ {0} /\ n < 1
    BY <1>1 DEF BatchInv, Accounted
  <2>2. \A n \in Nat \ {0} : ~ (n < 1) OBVIOUS
  <2> QED BY <2>1, <2>2
<1>3. /\ \A n : ~ Told(n)' /\ ~ Missed(n)'
      /\ DOMAIN reported' = {}
  <2>1. \A n : ~ Told(n)' /\ ~ Missed(n)' BY <1>1, <1>2 DEF Told, Missed
  <2>2. \A i \in DOMAIN reported : FALSE BY <1>2 DEF Told
  <2> QED BY <1>1, <2>1, <2>2
<1>4. \E items : /\ job' = [job EXCEPT !.items = items]
                 /\ items \in Seq(ToSet(items))
                 /\ stage' = "done" \/ (stage' = "save" /\ 1 <= Len(items))
  <2>1. CASE stage' = "done" /\ job' = [job EXCEPT !.items = <<>>]
    <3>1. <<>> \in Seq(ToSet(<<>>)) OBVIOUS
    <3> QED BY <2>1, <3>1
  <2>2. CASE \E text \in Texts :
                LET drawn == Len(Drawings(text))
                IN  /\ drawn > 0
                    /\ job' = [job EXCEPT !.items = SubSeq(@, 1, IF drawn < Len(@) THEN drawn
                                                                ELSE Len(@))]
                    /\ stage' = "save"
    <3>1. PICK text \in Texts :
                LET drawn == Len(Drawings(text))
                IN  /\ drawn > 0
                    /\ job' = [job EXCEPT !.items = SubSeq(@, 1, IF drawn < Len(@) THEN drawn
                                                                ELSE Len(@))]
                    /\ stage' = "save"
      BY <2>2
    <3> DEFINE drawn == Len(Drawings(text))
               k == IF drawn < Len(job.items) THEN drawn ELSE Len(job.items)
               items == SubSeq(job.items, 1, k)
    <3>2. drawn \in Nat
      <4> DEFINE blocks == IF text.svg # <<>> THEN text.svg
                           ELSE IF text.xml # <<>> THEN text.xml ELSE text.bare
                 I == {i \in DOMAIN blocks : blocks[i]}
      <4>1. \E m \in Nat : DOMAIN blocks = 1..m
        <5>1. \A n, s : s \in BoundedSeq(BOOLEAN, n) /\ n \in Nat => \E m \in Nat : DOMAIN s = 1..m
          BY DEF BoundedSeq, SeqOf
        <5>2. /\ text.svg \in BoundedSeq(BOOLEAN, MaxBlocks)
              /\ text.xml \in BoundedSeq(BOOLEAN, 1) /\ text.bare \in {<<>>, <<TRUE>>}
          BY DEF Texts
        <5>3. DOMAIN <<>> = 1..0 /\ DOMAIN <<TRUE>> = 1..1 OBVIOUS
        <5>4. MaxBlocks \in Nat /\ 1 \in Nat BY CommandsAssumption
        <5>5. \A s \in {text.svg, text.xml, text.bare} : \E m \in Nat : DOMAIN s = 1..m
          BY <5>1, <5>2, <5>3, <5>4
        <5>6. blocks \in {text.svg, text.xml, text.bare} OBVIOUS
        <5> QED BY <5>5, <5>6
      <4>2. PICK m \in Nat : I \subseteq 1..m BY <4>1
      <4>3. Len(Kept(blocks, I)) = Cardinality(I) /\ Cardinality(I) \in Nat
        <5> HIDE DEF blocks, I
        <5> QED BY <4>2, KeptRule, NthRule
      <4>4. Drawings(text) = Kept(blocks, I) BY DEF Drawings
      <4> HIDE DEF blocks, I
      <4> QED BY <4>3, <4>4
    <3>3. drawn > 0 /\ job' = [job EXCEPT !.items = items] /\ stage' = "save" BY <3>1
    <3> HIDE DEF drawn
    <3>4. k \in 1..Len(job.items) BY <1>1, <3>2, <3>3
    <3> HIDE DEF k
    <3>5. items \in Seq(ToSet(job.items)) /\ Len(items) = k BY <1>1, <3>4
    <3> HIDE DEF items
    <3>6. items \in Seq(ToSet(items)) BY <3>5 DEF ToSet
    <3>7. 1 <= Len(items) BY <1>1, <3>4, <3>5
    <3> QED BY <3>3, <3>6, <3>7
  <2> QED BY <2>1, <2>2 DEF AskIcons
<1>5. PICK items : /\ job' = [job EXCEPT !.items = items]
                   /\ items \in Seq(ToSet(items))
                   /\ stage' = "done" \/ (stage' = "save" /\ 1 <= Len(items))
  BY <1>4
<1>6. job' = [kind |-> "icons", provider |-> job.provider, items |-> items] BY <1>1, <1>5
<1>7. job'.kind = "icons" /\ job'.items = items /\ job'.provider = job.provider BY <1>6
<1>8. BatchTypes'
  <2>1. Len(items) \in Nat BY <1>5
  <2>2. stage' \in {"ask", "examine", "save"} => item' \in 1..Len(items) BY <1>1, <1>5, <2>1
  <2>3. reported' \in Seq(ToSet(reported')) /\ item' \in Nat /\ second' \in Nat
    BY <1>1 DEF BatchTypes
  <2> QED BY <1>5, <1>6, <1>7, <2>2, <2>3 DEF BatchTypes, Kinds
<1>9. Accounted' BY <1>3, <1>7 DEF Accounted
<1>10. Stored' BY <1>3 DEF Stored
<1>11. Excused' BY <1>1 DEF BatchInv, Excused
<1> QED BY <1>8, <1>9, <1>10, <1>11 DEF BatchInv

LEMMA StartStep == ASSUME BatchInv, NEW c \in Commands, Start(c) PROVE BatchInv'
<1>1. /\ BatchTypes /\ stage = "idle" /\ job.kind = "none" /\ reported = <<>> /\ lost = {}
      /\ second \in Nat /\ item \in Nat
      /\ UNCHANGED <<second, disk, reported, lost>>
  BY DEF BatchInv, BatchTypes, Start
<1>2. DOMAIN reported' = {} /\ lost' = {} /\ reported' \in Seq(ToSet(reported'))
  BY <1>1 DEF BatchTypes
<1>3. \A n : ~ Told(n)' /\ ~ Missed(n)' BY <1>2 DEF Told, Missed
<1>4. Stored' /\ Excused' BY <1>2 DEF Stored, Excused
<1>5. CASE LogoReady(c)
  <2>1. stage' = "ask" /\ item' = 1 /\ job' = JobOf(c) BY <1>5 DEF Start
  <2>2. /\ job' = [kind |-> job'.kind, provider |-> job'.provider, items |-> job'.items]
        /\ job'.kind \in Kinds \ {"none"}
        /\ job'.items \in Seq(ToSet(job'.items)) /\ Len(job'.items) >= 1
        /\ job'.kind \in {"logo", "icon"} => Len(job'.items) = 1
    <3> DEFINE P(j) == /\ j = [kind |-> j.kind, provider |-> j.provider, items |-> j.items]
                       /\ j.kind \in Kinds \ {"none"}
                       /\ j.items \in Seq(ToSet(j.items)) /\ Len(j.items) >= 1
                       /\ j.kind \in {"logo", "icon"} => Len(j.items) = 1
    <3>1. \A j : j = JobOf(c) => P(j) BY CommandJobs
    <3> HIDE DEF P
    <3>2. P(job') BY <2>1, <3>1
    <3> QED BY <3>2 DEF P
  <2>3. 1 \in 1..Len(job'.items) BY <2>2
  <2>4. BatchTypes' BY <1>1, <1>2, <2>1, <2>2, <2>3 DEF BatchTypes
  <2>5. Accounted'
    <3>1. \A n \in Nat \ {0} : ~ (n < 1) OBVIOUS
    <3>2. \A n \in 1..Len(job'.items) : ~ (n < item' \/ stage' = "done") BY <2>1, <2>2, <3>1
    <3> QED BY <1>3, <3>2 DEF Accounted
  <2> QED BY <1>4, <2>4, <2>5 DEF BatchInv
<1>6. CASE ~ LogoReady(c)
  <2>1. stage' = "done" /\ item' = item /\ job' = job BY <1>6 DEF Start
  <2>2. BatchTypes' BY <1>1, <1>2, <2>1 DEF BatchTypes
  <2>3. Accounted' BY <1>1, <1>3, <2>1 DEF Accounted
  <2> QED BY <1>4, <2>2, <2>3 DEF BatchInv
<1> QED BY <1>5, <1>6

LEMMA WorkStep == ASSUME BatchInv, Work PROVE BatchInv'
<1>1. CASE AskAtlas \/ AskGemini \/ AskMockup \/ AskIcon
  <2>1. stage = "ask" /\ job.kind # "icons" /\ second' \in Nat
        /\ UNCHANGED <<disk, reported, job>>
    BY <1>1 DEF BatchInv, BatchTypes, AskAtlas, AskGemini, AskMockup, AskIcon, Asking
  <2>2. \/ stage' \in {"examine", "save"} /\ UNCHANGED <<item, lost>>
        \/ Skip("failed") \/ Skip("refused")
    BY <1>1 DEF AskAtlas, AskGemini, AskMockup, AskIcon, Answer
  <2>3. ASSUME NEW why, Skip(why), why = "timeout" => seen = "pending"
        PROVE  BatchInv'
    BY <2>1, <2>3, PassStep DEF Skip
  <2> QED BY <2>1, <2>2, <2>3, PassStep
<1>2. CASE Examine
  <2>1. stage = "examine" /\ job.kind # "icons" /\ second' \in Nat
        /\ UNCHANGED <<disk, reported, job>>
    BY <1>2 DEF Examine, BatchInv, BatchTypes
  <2>2. \/ stage' \in {"examine", "save"} /\ UNCHANGED <<item, lost>>
        \/ Skip("failed") \/ Skip("download")
        \/ seen = "pending" /\ Skip("timeout")
    BY <1>2 DEF Examine, TimesOut
  <2>3. ASSUME NEW why, Skip(why), why = "timeout" => seen = "pending"
        PROVE  BatchInv'
    BY <2>1, <2>3, PassStep DEF Skip
  <2> QED BY <2>1, <2>2, <2>3, PassStep
<1> QED BY <1>1, <1>2, IconsStep, SaveStep, SpoilStep DEF Work

\* ImageBatch: whatever the service answers, however fast, and whichever files cannot
\* be written, an image command leaves no item untold, and a reported picture gives its
\* file up to a later item of its size or deliverable only (logo/generate.py,
\* icon/generate.py, cip/generate.py).
THEOREM BatchesAreHonest == Spec => []BatchIsHonest
<1>1. Init => BatchInv
  <2> SUFFICES ASSUME BatchInit PROVE BatchInv BY DEF Init
  <2>1. /\ stage = "idle" /\ item = 0 /\ second = 0 /\ lost = {} /\ reported = <<>>
        /\ job = [kind |-> "none", provider |-> "none", items |-> <<>>]
    BY DEF BatchInit, NoJob
  <2>2. job.kind = "none" /\ job.provider = "none" /\ job.items = <<>> BY <2>1
  <2>3. DOMAIN reported = {} /\ reported \in Seq(ToSet(reported))
        /\ job.items \in Seq(ToSet(job.items))
    BY <2>1, <2>2
  <2>4. BatchTypes BY <2>1, <2>2, <2>3 DEF BatchTypes, Kinds
  <2>5. Accounted BY <2>1, <2>2, <2>3 DEF Accounted, Told, Missed
  <2>6. Stored /\ Excused BY <2>1, <2>3 DEF Stored, Excused
  <2> QED BY <2>4, <2>5, <2>6 DEF BatchInv
<1>2. BatchInv /\ [Next]_vars => BatchInv'
  <2> SUFFICES ASSUME BatchInv, [Next]_vars PROVE BatchInv' OBVIOUS
  <2>1. CASE UNCHANGED batchVars
    BY <2>1 DEF batchVars, BatchInv, BatchTypes, Accounted, Told, Missed, Stored, Excused
  <2>2. CASE Work BY <2>2, WorkStep
  <2>3. CASE \E c \in Commands : Start(c) BY <2>3, StartStep
  <2> QED BY <2>1, <2>2, <2>3 DEF Next, vars, Searches, Generates, Persists, Draws, BatchNext
<1>3. BatchInv => BatchIsHonest
  <2> SUFFICES ASSUME BatchInv PROVE BatchIsHonest OBVIOUS
  <2>1. \A i \in DOMAIN reported :
           \/ disk[reported[i].name] = reported[i].item
           \/ \E m \in (reported[i].item + 1)..item :
                 Alike(m, reported[i].item) /\ Took(m, reported[i].name)
    BY DEF BatchInv, Stored, Survives, AlikeIn, TookIn, Alike, Took
  <2>2. \A l \in lost : l.why = "timeout" => l.last = "pending" BY DEF BatchInv, Excused
  <2>3. ASSUME stage = "done", job.kind \notin {"none", "icons"}, NEW n \in 1..Len(job.items)
        PROVE  (\E i \in DOMAIN reported : reported[i].item = n) # (\E l \in lost : l.item = n)
    <3>1. Told(n) <=> ~ Missed(n) BY <2>3 DEF BatchInv, Accounted
    <3> QED BY <3>1 DEF Told, Missed
  <2> QED BY <2>1, <2>2, <2>3 DEF BatchIsHonest
<1> QED BY <1>1, <1>2, <1>3, PTL DEF Spec

-----------------------------------------------------------------------------
(* The search engine.                                                      *)

IsCatalogue(c) == c # Gone /\ c \in Seq(ToSet(c)) /\ None \notin ToSet(c)

FileInv ==
    /\ versions \in Seq(ToSet(versions)) /\ Len(versions) >= 1
    /\ \A s \in 1..Len(versions) : versions[s] = Gone \/ IsCatalogue(versions[s])

\* The file held these rows under this signature.
Held(rows, s) == s \in 1..Len(versions) /\ versions[s] # Gone /\ rows = versions[s]

\* A cached row list is what the file held; a cached index fits what the file held.
CacheInv ==
    /\ rowCache # None => Held(rowCache.rows, rowCache.signature)
    /\ indexCache = [v \in Variants |-> indexCache[v]]
    /\ \A v \in Variants : indexCache[v] # None =>
          /\ indexCache[v].signature \in 1..Len(versions)
          /\ indexCache[v].index = Fit(Filtered(v, versions[indexCache[v].signature]))

\* The rows in hand were the file's at one moment since the question.
Fresh == Held(question.rows, question.before) /\ question.since <= question.before

QuestionInv ==
    at # "idle" =>
        /\ at \in {"stat", "open", "close", "identify", "rank"}
        /\ question = [query |-> question.query, since |-> question.since,
                       load |-> question.load, tries |-> question.tries,
                       before |-> question.before, head |-> question.head,
                       rows |-> question.rows, variant |-> question.variant]
        /\ question.query \in Queries /\ question.since \in 1..Len(versions)
        /\ question.load \in {"rows", "data"}
        /\ question.load = "data" => question.variant \in Variants
        /\ at = "identify" => question.load = "rows" /\ (question.rows = <<>> \/ Fresh)
        /\ at = "rank" => question.load = "data" /\ Fresh

AnswerInv ==
    /\ answer.how # "crash"
    /\ answer.how = "ranked" =>
          /\ answer.since \in Nat
          /\ \E s \in answer.since..Len(versions) :
                /\ s \in 1..Len(versions) /\ versions[s] # Gone
                /\ \A row \in ToSet(answer.rows) :
                      /\ row \in ToSet(versions[s])
                      /\ row.about = answer.query.topic
                      /\ Passes(answer.variant, row)
    /\ answer.how = "exact" /\ answer.query.kind = "style" =>
          /\ answer.since \in Nat
          /\ \/ Head(answer.rows).status # "deprecated"
             \/ \E s \in answer.since..Len(versions) :
                   /\ s \in 1..Len(versions) /\ versions[s] # Gone
                   /\ \/ ~ StyleContract(versions[s])
                      \/ \E retired \in ToSet(versions[s]) :
                            /\ retired.domain = "style"
                            /\ retired.target = Head(answer.rows).id

SearchInv == FileInv /\ CacheInv /\ QuestionInv /\ AnswerInv

LEMMA VariantTyped == ASSUME NEW q \in Queries, NEW rows PROVE Variant(rows, q) \in Variants
<1>1. Generation(rows, q) \in Generations BY DEF Generation, Generations
<1>2. q.base \in Bases /\ "any" \in Bases BY QueriesAssumption DEF Bases
<1>3. (IF Generation(rows, q) = "legacy-unavailable" THEN "any" ELSE q.base) \in Bases
  BY <1>2
<1> QED BY <1>1, <1>3 DEF Variant, Variants

\* The rows of a variant are rows of the file that pass.
LEMMA FilteredRule ==
    ASSUME NEW rows, rows \in Seq(ToSet(rows)), NEW variant, NEW data,
           data = Filtered(variant, rows)
    PROVE  /\ data \in Seq(ToSet(data)) /\ Len(data) \in Nat /\ DOMAIN data = 1..Len(data)
           /\ \A i \in 1..Len(data) : data[i] \in ToSet(rows) /\ Passes(variant, data[i])
<1> DEFINE I == {i \in DOMAIN rows : Passes(variant, rows[i])}
<1>1. I \subseteq 1..Len(rows) /\ Len(rows) \in Nat OBVIOUS
<1>2. \A i \in I : rows[i] \in ToSet(rows) /\ Passes(variant, rows[i]) BY DEF ToSet
<1>3. data = Kept(rows, I) BY DEF Filtered
<1> HIDE DEF I
<1>4. /\ data \in Seq(ToSet(data))
      /\ \A k \in 1..Len(data) : \E i \in I : data[k] = rows[i]
  <2>1. PICK n \in Nat : I \subseteq 1..n BY <1>1
  <2>2. /\ Kept(rows, I) \in Seq(ToSet(Kept(rows, I)))
        /\ Len(Kept(rows, I)) = Cardinality(I)
        /\ \A k \in 1..Cardinality(I) : /\ Nth(I, k) \in I
                                        /\ Kept(rows, I)[k] = rows[Nth(I, k)]
    BY <2>1, KeptRule
  <2> QED BY <1>3, <2>2
<1> QED BY <1>2, <1>4

LEMMA SearchStarts == SearchInit \/ Opening(Gone) => SearchInv
<1> SUFFICES ASSUME NEW c, c = Gone \/ IsCatalogue(c), Opening(c) PROVE SearchInv
  BY FileAssumption DEF SearchInit, IsCatalogue
<1>1. FileInv
  <2>1. versions = <<c>> BY DEF Opening
  <2>2. ToSet(<<c>>) = {c} BY DEF ToSet
  <2>3. versions \in Seq({c}) /\ Len(versions) = 1 /\ versions[1] = c BY <2>1
  <2> QED BY <2>1, <2>2, <2>3 DEF FileInv
<1>2. CacheInv BY DEF Opening, CacheInv
<1>3. QuestionInv BY DEF Opening, QuestionInv
<1>4. AnswerInv BY DEF Opening, AnswerInv, NoAnswer
<1> QED BY <1>1, <1>2, <1>3, <1>4 DEF SearchInv

\* Once written, a content stays what its signature stands for.
LEMMA RewriteStep == ASSUME SearchInv, Rewrite PROVE SearchInv'
<1>1. PICK c \in Rewrites : versions' = Append(versions, c) BY DEF Rewrite
<1>2. UNCHANGED <<at, question, rowCache, indexCache, answer>> BY DEF Rewrite
<1>3. /\ versions' \in Seq(ToSet(versions')) /\ Len(versions) \in Nat /\ Len(versions) >= 1
      /\ Len(versions') = Len(versions) + 1
      /\ \A s \in 1..Len(versions) : versions'[s] = versions[s]
      /\ versions'[Len(versions) + 1] = c
  <2> DEFINE P(t) == /\ t \in Seq(ToSet(t)) /\ DOMAIN t = 1..(Len(versions) + 1)
                     /\ \A i \in 1..Len(versions) : t[i] = versions[i]
                     /\ t[Len(versions) + 1] = c
  <2>1. versions \in Seq(ToSet(versions)) /\ Len(versions) >= 1 BY DEF SearchInv, FileInv
  <2>2. \A t : t = Append(versions, c) => P(t) BY <2>1, AppendRule
  <2> HIDE DEF P
  <2>3. P(versions') BY <1>1, <2>2
  <2>4. Len(versions) \in Nat BY <2>1
  <2>5. versions' \in Seq(ToSet(versions')) /\ DOMAIN versions' = 1..(Len(versions) + 1)
    BY <2>3 DEF P
  <2>6. Len(versions') = Len(versions) + 1 BY <2>4, <2>5
  <2> QED BY <2>1, <2>3, <2>4, <2>6 DEF P
<1>4. \A s \in 1..Len(versions) : s \in 1..Len(versions') BY <1>3
<1>5. \A s \in 1..Len(versions') : s \in 1..Len(versions) \/ s = Len(versions) + 1 BY <1>3
<1>6. FileInv'
  <2>1. c = Gone \/ IsCatalogue(c) BY FileAssumption DEF IsCatalogue
  <2>2. \A s \in 1..Len(versions') : versions'[s] = Gone \/ IsCatalogue(versions'[s])
    BY <1>3, <1>5, <2>1 DEF SearchInv, FileInv
  <2> QED BY <1>3, <2>2 DEF FileInv
<1>7. \A rows, s : Held(rows, s) => Held(rows, s)' BY <1>3, <1>4 DEF Held
<1>8. CacheInv'
  <2>1. rowCache' # None => Held(rowCache.rows, rowCache.signature)'
    BY <1>2, <1>7 DEF SearchInv, CacheInv
  <2> QED BY <1>2, <1>3, <1>4, <2>1 DEF SearchInv, CacheInv
<1>9. QuestionInv'
  <2>1. Fresh => Fresh' BY <1>2, <1>7 DEF Fresh
  <2> QED BY <1>2, <1>4, <2>1 DEF SearchInv, QuestionInv
<1>10. AnswerInv'
  <2>1. \A n \in Nat : \A s \in n..Len(versions) : s \in n..Len(versions') BY <1>3
  <2> QED BY <1>2, <1>3, <1>4, <2>1 DEF SearchInv, AnswerInv
<1> QED BY <1>6, <1>8, <1>9, <1>10 DEF SearchInv

LEMMA AskStep == ASSUME SearchInv, NEW q \in Queries, Ask(q) PROVE SearchInv'
<1>1. /\ UNCHANGED <<versions, rowCache, indexCache>> /\ at = "idle" /\ Len(versions) \in Nat
      /\ Len(versions) >= 1
  BY DEF Ask, SearchInv, FileInv
<1>2. FileInv' /\ CacheInv' BY <1>1 DEF SearchInv, FileInv, CacheInv, Held
<1>3. QuestionInv'
  <2>1. CASE OnDisk = Gone BY <1>1, <2>1 DEF Ask, QuestionInv
  <2>2. CASE OnDisk # Gone
    <3>1. at' = "stat" /\ question' = [NoQuestion EXCEPT !.query = q, !.since = Signature,
                                                        !.load = "rows"]
      BY <2>2 DEF Ask
    <3>2. question' = [query |-> q, since |-> Len(versions), load |-> "rows", tries |-> 0,
                       before |-> 0, head |-> <<>>, rows |-> <<>>, variant |-> None]
      BY <3>1 DEF NoQuestion, Signature
    <3>3. /\ question'.query = q /\ question'.since = Len(versions) /\ question'.load = "rows"
          /\ question'.tries = 0 /\ question'.before = 0 /\ question'.head = <<>>
          /\ question'.rows = <<>> /\ question'.variant = None
      BY <3>2
    <3>4. Len(versions) \in 1..Len(versions) BY <1>1
    <3> QED BY <1>1, <3>1, <3>2, <3>3, <3>4 DEF QuestionInv
  <2> QED BY <2>1, <2>2
<1>4. AnswerInv'
  <2>1. CASE OnDisk = Gone
    <3>1. answer'.how = "missing" BY <2>1 DEF Ask, NoAnswer
    <3> QED BY <3>1 DEF AnswerInv
  <2>2. CASE OnDisk # Gone BY <1>1, <2>2 DEF Ask, SearchInv, AnswerInv
  <2> QED BY <2>1, <2>2
<1> QED BY <1>2, <1>3, <1>4 DEF SearchInv

\* What an identifier search finds in the rows it looks through.
LEMMA IdentityRule ==
    ASSUME NEW rows, rows \in Seq(ToSet(rows)), NEW q, NEW row, row = StyleIdentity(rows, q)
    PROVE  row = None \/ row \in ToSet(rows)
<1> DEFINE exact == {i \in DOMAIN rows : q.name \in Identities(rows[i])}
           Contained(r) == Identities(r) \intersect q.mentions
           Best(r) == {n \in Contained(r) : \A m \in Contained(r) : Weight[m] <= Weight[n]}
           candidates == {r \in ToSet(rows) : Contained(r) # {}}
           best == {r \in candidates : \A s \in candidates : \A n \in Best(r), m \in Best(s) :
                                           Weight[m] <= Weight[n]}
           ids == {r.id : r \in best}
<1>1. row = IF exact # {} THEN FirstOf(rows, exact)
            ELSE IF Cardinality(ids) = 1 THEN CHOOSE r \in best : TRUE
            ELSE None
  BY DEF StyleIdentity
<1>2. exact \subseteq Nat /\ \A i \in exact : rows[i] \in ToSet(rows) BY DEF ToSet
<1>3. best \subseteq ToSet(rows) OBVIOUS
<1> HIDE DEF exact, best
<1>e. best = {} => ids = {} OBVIOUS
<1> HIDE DEF ids
<1>4. CASE exact # {} BY <1>1, <1>2, <1>4, FirstOfRule
<1>5. CASE exact = {} /\ Cardinality(ids) = 1
  <2>1. Cardinality({}) = 0 BY FS_EmptySet
  <2>2. best # {} BY <1>5, <1>e, <2>1
  <2>3. row = CHOOSE r \in best : TRUE BY <1>1, <1>5
  <2> QED BY <1>3, <2>2, <2>3
<1>6. CASE exact = {} /\ Cardinality(ids) # 1 BY <1>1, <1>6
<1> QED BY <1>4, <1>5, <1>6

LEMMA RowOfRule ==
    ASSUME NEW rows, rows \in Seq(ToSet(rows)), NEW id, NEW row, row = RowOf(rows, id), row # None
    PROVE  row \in ToSet(rows) /\ row.id = id
<1> DEFINE I == {i \in DOMAIN rows : rows[i].id = id}
<1>1. I \subseteq Nat /\ \A i \in I : rows[i] \in ToSet(rows) /\ rows[i].id = id BY DEF ToSet
<1>2. row = FirstOf(rows, I) BY DEF RowOf
<1> HIDE DEF I
<1>3. I # {} BY <1>2 DEF FirstOf
<1>4. PICK i \in I : FirstOf(rows, I) = rows[i] BY <1>1, <1>3, FirstOfRule, Zenon
<1> QED BY <1>1, <1>2, <1>4

\* Where a style search leads: to a style in use, or where the catalogue redirects.
LEMMA DestinationRule ==
    ASSUME NEW rows, rows \in Seq(ToSet(rows)), StyleContract(rows),
           NEW named, named = None \/ named \in ToSet(rows),
           NEW row, row = Destination(rows, named).row, row # None
    PROVE  \/ row.status # "deprecated"
           \/ \E retired \in ToSet(rows) : retired.domain = "style" /\ retired.target = row.id
<1>1. CASE named = None \/ named.status # "deprecated" BY <1>1 DEF Destination
<1>2. CASE named # None /\ named.status = "deprecated" /\ named.parent # None
  <2>1. row = RowOf(rows, named.parent) BY <1>2 DEF Destination
  <2>2. ParentMustBeActive(rows, named) BY <1>2 DEF StyleContract
  <2> QED BY <1>2, <2>1, <2>2 DEF ParentMustBeActive
<1>3. CASE /\ named # None /\ named.status = "deprecated" /\ named.parent = None
           /\ named.domain = "style"
  <2>1. row = RowOf(rows, named.target) BY <1>3 DEF Destination
  <2> QED BY <1>3, <2>1, RowOfRule
<1>4. CASE /\ named # None /\ named.status = "deprecated" /\ named.parent = None
           /\ named.domain # "style"
  BY <1>4 DEF Destination
<1> QED BY <1>1, <1>2, <1>3, <1>4

\* With the rows in hand the search goes on to look for an identity or to rank.
LEMMA LoadedStep ==
    ASSUME SearchInv, at # "idle", versions' = versions,
           NEW rows, Held(rows, Signature), Loaded(rows, Signature)
    PROVE  QuestionInv'
<1>1. /\ question' = [question EXCEPT !.rows = rows, !.before = Signature]
      /\ at' = IF question.load = "rows" THEN "identify" ELSE "rank"
  BY DEF Loaded
<1>2. /\ question = [query |-> question.query, since |-> question.since,
                     load |-> question.load, tries |-> question.tries,
                     before |-> question.before, head |-> question.head,
                     rows |-> question.rows, variant |-> question.variant]
      /\ question.query \in Queries /\ question.since \in 1..Len(versions)
      /\ question.load \in {"rows", "data"}
      /\ question.load = "data" => question.variant \in Variants
  BY DEF SearchInv, QuestionInv
<1>3. question' = [query |-> question.query, since |-> question.since,
                   load |-> question.load, tries |-> question.tries, before |-> Signature,
                   head |-> question.head, rows |-> rows, variant |-> question.variant]
  BY <1>1, <1>2
<1>4. /\ question'.query = question.query /\ question'.since = question.since
      /\ question'.load = question.load /\ question'.tries = question.tries
      /\ question'.before = Signature /\ question'.head = question.head
      /\ question'.rows = rows /\ question'.variant = question.variant
  BY <1>3
<1>5. question.since <= Signature /\ Signature' = Signature BY <1>2 DEF Signature
<1>6. Fresh' BY <1>4, <1>5 DEF Fresh, Held
<1>7. /\ at' \in {"stat", "open", "close", "identify", "rank"}
      /\ at' = "identify" => question.load = "rows"
      /\ at' = "rank" => question.load = "data"
  BY <1>1, <1>2
<1> QED BY <1>2, <1>3, <1>4, <1>6, <1>7 DEF QuestionInv

\* A change of the question's other fields.
LEMMA QuestionKept ==
    ASSUME SearchInv, at # "idle", versions' = versions,
           at' \in {"stat", "open", "close", "identify"},
           NEW load \in {"rows", "data"}, NEW tries, NEW before, NEW head, NEW rows, NEW variant,
           question' = [query |-> question.query, since |-> question.since, load |-> load,
                        tries |-> tries, before |-> before, head |-> head, rows |-> rows,
                        variant |-> variant],
           load = "data" => variant \in Variants,
           at' = "identify" => load = "rows" /\ rows = <<>>
    PROVE  QuestionInv'
<1>1. question.query \in Queries /\ question.since \in 1..Len(versions)
  BY DEF SearchInv, QuestionInv
<1>2. /\ question'.query = question.query /\ question'.since = question.since
      /\ question'.load = load /\ question'.tries = tries
      /\ question'.before = before /\ question'.head = head
      /\ question'.rows = rows /\ question'.variant = variant
  OBVIOUS
<1> QED BY <1>1, <1>2 DEF QuestionInv

LEMMA FailedStep ==
    ASSUME SearchInv, at # "idle", versions' = versions, LoadFailed
    PROVE  QuestionInv' /\ AnswerInv'
<1>1. CASE /\ question.load = "rows" /\ question' = [question EXCEPT !.rows = <<>>]
           /\ at' = "identify" /\ answer' = answer
  <2>1. question' = [query |-> question.query, since |-> question.since,
                     load |-> question.load, tries |-> question.tries,
                     before |-> question.before, head |-> question.head,
                     rows |-> <<>>, variant |-> question.variant]
    BY <1>1 DEF SearchInv, QuestionInv
  <2>2. QuestionInv' BY <1>1, <2>1, QuestionKept
  <2>3. AnswerInv' BY <1>1 DEF SearchInv, AnswerInv
  <2> QED BY <2>2, <2>3
<1>2. CASE Reply("read-error", <<>>)
  <2>1. at' = "idle" /\ answer'.how = "read-error" BY <1>2 DEF Reply
  <2> QED BY <2>1 DEF QuestionInv, AnswerInv
<1> QED BY <1>1, <1>2 DEF LoadFailed

\* Opening the file again, or for the first time, keeps what is asked.
LEMMA ReadStep == ASSUME SearchInv, Stat \/ Open \/ Close PROVE SearchInv'
<1>1. /\ at # "idle" /\ versions' = versions /\ indexCache' = indexCache
      /\ Signature \in 1..Len(versions)
      /\ question = [query |-> question.query, since |-> question.since,
                     load |-> question.load, tries |-> question.tries,
                     before |-> question.before, head |-> question.head,
                     rows |-> question.rows, variant |-> question.variant]
      /\ question.load \in {"rows", "data"}
      /\ question.load = "data" => question.variant \in Variants
  BY DEF SearchInv, QuestionInv, FileInv, Signature, Stat, Open, Close
<1>2. FileInv' BY <1>1 DEF SearchInv, FileInv
<1>3. rowCache' = rowCache => CacheInv' BY <1>1 DEF SearchInv, CacheInv, Held
<1>4. answer' = answer => AnswerInv' BY <1>1 DEF SearchInv, AnswerInv
<1>5. OnDisk # Gone => Held(OnDisk, Signature) BY <1>1 DEF OnDisk, Held, Signature
<1>6. CASE LoadFailed /\ rowCache' = rowCache
  BY <1>1, <1>2, <1>3, <1>6, FailedStep DEF SearchInv
<1>7. ASSUME at' \in {"open", "close"}, UNCHANGED <<answer, rowCache>>,
             \E tries, before, head :
                question' = [question EXCEPT !.tries = tries, !.before = before, !.head = head]
      PROVE  SearchInv'
  <2>1. PICK tries, before, head :
           question' = [question EXCEPT !.tries = tries, !.before = before, !.head = head]
    BY <1>7
  <2>2. question' = [query |-> question.query, since |-> question.since,
                     load |-> question.load, tries |-> tries, before |-> before, head |-> head,
                     rows |-> question.rows, variant |-> question.variant]
    BY <1>1, <2>1
  <2>3. QuestionInv' BY <1>1, <1>7, <2>2, QuestionKept
  <2> QED BY <1>2, <1>3, <1>4, <1>7, <2>3 DEF SearchInv
<1>8. CASE Stat
  <2>1. CASE OnDisk = Gone BY <1>6, <1>8, <2>1 DEF Stat
  <2>2. CASE OnDisk # Gone /\ rowCache # None /\ rowCache.signature = Signature
    <3>1. Loaded(rowCache.rows, Signature) /\ UNCHANGED <<answer, rowCache>>
      BY <1>8, <2>2 DEF Stat
    <3>2. Held(rowCache.rows, Signature) BY <2>2 DEF SearchInv, CacheInv
    <3>3. QuestionInv' BY <1>1, <3>1, <3>2, LoadedStep
    <3> QED BY <1>2, <1>3, <1>4, <3>1, <3>3 DEF SearchInv
  <2>3. CASE OnDisk # Gone /\ ~ (rowCache # None /\ rowCache.signature = Signature)
    <3>1. /\ question' = [question EXCEPT !.tries = Attempts] /\ at' = "open"
          /\ UNCHANGED <<answer, rowCache>>
      BY <1>8, <2>3 DEF Stat
    <3>2. question' = [question EXCEPT !.tries = Attempts, !.before = question.before,
                                       !.head = question.head]
      BY <1>1, <3>1
    <3>3. \E tries, before, head :
             question' = [question EXCEPT !.tries = tries, !.before = before, !.head = head]
      BY <3>2, Zenon
    <3> QED BY <1>7, <3>1, <3>3
  <2> QED BY <2>1, <2>2, <2>3
<1>9. CASE Open
  <2>1. CASE OnDisk = Gone BY <1>6, <1>9, <2>1 DEF Open
  <2>2. CASE OnDisk # Gone
    <3>1. /\ question' = [question EXCEPT !.before = Signature, !.head = OnDisk]
          /\ at' = "close" /\ UNCHANGED <<answer, rowCache>>
      BY <1>9, <2>2 DEF Open
    <3>2. question' = [question EXCEPT !.tries = question.tries, !.before = Signature,
                                       !.head = OnDisk]
      BY <1>1, <3>1
    <3>3. \E tries, before, head :
             question' = [question EXCEPT !.tries = tries, !.before = before, !.head = head]
      BY <3>2, Zenon
    <3> QED BY <1>7, <3>1, <3>3
  <2> QED BY <2>1, <2>2
<1>10. CASE Close
  <2>1. CASE LoadFailed /\ rowCache' = rowCache BY <1>6, <2>1
  <2>2. CASE OnDisk # Gone /\ Stable
    <3>1. /\ rowCache' = [signature |-> Signature, rows |-> Bytes]
          /\ Loaded(Bytes, Signature) /\ answer' = answer
      BY <1>10, <2>2 DEF Close
    <3>2. Bytes = OnDisk BY <2>2 DEF Bytes, Stable
    <3>3. QuestionInv' BY <1>1, <1>5, <2>2, <3>1, <3>2, LoadedStep
    <3>4. rowCache'.signature = Signature /\ rowCache'.rows = OnDisk BY <3>1, <3>2
    <3>5. Held(OnDisk, Signature)' BY <1>1, <1>5, <2>2 DEF Held, OnDisk, Signature
    <3>6. Held(rowCache.rows, rowCache.signature)' BY <1>1, <3>4, <3>5 DEF Held, OnDisk, Signature
    <3>7. CacheInv' BY <1>1, <3>6 DEF SearchInv, CacheInv
    <3> QED BY <1>2, <1>4, <3>1, <3>3, <3>7 DEF SearchInv
  <2>3. CASE OnDisk # Gone /\ ~ Stable /\ question.tries > 1
    <3>1. /\ question' = [question EXCEPT !.tries = @ - 1] /\ at' = "open"
          /\ UNCHANGED <<answer, rowCache>>
      BY <1>10, <2>3 DEF Close
    <3>2. question' = [question EXCEPT !.tries = question.tries - 1,
                                       !.before = question.before, !.head = question.head]
      BY <1>1, <3>1
    <3>3. \E tries, before, head :
             question' = [question EXCEPT !.tries = tries, !.before = before, !.head = head]
      BY <3>2, Zenon
    <3> QED BY <1>7, <3>1, <3>3
  <2> QED BY <1>10, <2>1, <2>2, <2>3 DEF Close
<1> QED BY <1>8, <1>9, <1>10

\* A reply ends the question.
LEMMA ReplyStep ==
    ASSUME SearchInv, versions' = versions, CacheInv', NEW how, NEW rows, Reply(how, rows),
           how # "crash", how = "ranked" \/ how = "exact" => AnswerInv'
    PROVE  SearchInv'
<1>1. at' = "idle" /\ answer'.how = how BY DEF Reply
<1>2. FileInv' BY DEF SearchInv, FileInv
<1>3. QuestionInv' BY <1>1 DEF QuestionInv
<1>4. AnswerInv' BY <1>1 DEF AnswerInv
<1> QED BY <1>2, <1>3, <1>4 DEF SearchInv

LEMMA IdentifyStep == ASSUME SearchInv, Identify PROVE SearchInv'
<1> DEFINE q == question.query
           variant == Variant(question.rows, q)
           found == IF q.kind = "style"
                      THEN Destination(question.rows, StyleIdentity(question.rows, q))
                      ELSE [row |-> StackExact(question.rows, q, variant), redirect |-> None]
<1>1. /\ at = "identify" /\ UNCHANGED <<versions, rowCache, indexCache>>
      /\ question = [query |-> question.query, since |-> question.since,
                     load |-> question.load, tries |-> question.tries,
                     before |-> question.before, head |-> question.head,
                     rows |-> question.rows, variant |-> question.variant]
      /\ q \in Queries /\ question.since \in 1..Len(versions)
      /\ question.rows = <<>> \/ Fresh
  BY DEF Identify, SearchInv, QuestionInv
<1>2. FileInv' /\ CacheInv' BY <1>1 DEF SearchInv, FileInv, CacheInv, Held
<1>3. \/ found.row # None /\ Reply("exact", <<found.row>>)
      \/ found.redirect # None /\ Reply("redirect", <<>>)
      \/ Reply("missing", <<>>)
      \/ /\ question' = [question EXCEPT !.load = "data", !.variant = variant]
         /\ at' = "stat" /\ answer' = answer
  BY DEF Identify
<1>v. variant \in Variants BY <1>1, VariantTyped
<1> HIDE DEF variant
<1>4. CASE found.row # None /\ Reply("exact", <<found.row>>)
  <2> DEFINE row == found.row
  <2>1. answer' = [how |-> "exact", rows |-> <<row>>, query |-> q,
                   since |-> question.since, variant |-> question.variant]
    BY <1>4 DEF Reply
  <2>2. q.kind = "style" => row = Destination(question.rows, StyleIdentity(question.rows, q)).row
    OBVIOUS
  <2>r. row # None BY <1>4
  <2> HIDE DEF row, found
  <2>3. /\ answer'.how = "exact" /\ answer'.query = q /\ answer'.since = question.since
        /\ Head(answer'.rows) = row
    BY <2>1
  <2>4. question.since \in Nat BY <1>1
  <2>5. ASSUME q.kind = "style"
        PROVE  \/ row.status # "deprecated"
               \/ \E s \in question.since..Len(versions) :
                     /\ s \in 1..Len(versions) /\ versions[s] # Gone
                     /\ \/ ~ StyleContract(versions[s])
                        \/ \E retired \in ToSet(versions[s]) :
                              /\ retired.domain = "style"
                              /\ retired.target = row.id
    <3> DEFINE named == StyleIdentity(question.rows, q)
    <3>1. question.rows \in Seq(ToSet(question.rows))
      <4>1. CASE question.rows = <<>> BY <4>1
      <4>2. CASE Fresh BY <4>2 DEF Fresh, Held, SearchInv, FileInv, IsCatalogue
      <4> QED BY <1>1, <4>1, <4>2
    <3>2. named = None \/ named \in ToSet(question.rows) BY <3>1, IdentityRule
    <3>3. row = Destination(question.rows, named).row BY <2>2, <2>5
    <3> HIDE DEF named
    <3>4. CASE question.rows = <<>>
      <4>1. named = None BY <3>2, <3>4 DEF ToSet
      <4>2. row = None BY <3>3, <4>1 DEF Destination
      <4> QED BY <2>r, <4>2
    <3>5. CASE Fresh
      <4> DEFINE s == question.before
      <4>1. s \in question.since..Len(versions) BY <1>1, <3>5 DEF Fresh, Held
      <4>2. s \in 1..Len(versions) /\ versions[s] # Gone /\ versions[s] = question.rows
        BY <3>5 DEF Fresh, Held
      <4>3. StyleContract(question.rows) =>
              \/ row.status # "deprecated"
              \/ \E retired \in ToSet(question.rows) :
                    retired.domain = "style" /\ retired.target = row.id
        BY <3>1, <3>2, <3>3, <2>r, DestinationRule
      <4> HIDE DEF s
      <4> QED BY <4>1, <4>2, <4>3
    <3> QED BY <1>1, <3>4, <3>5
  <2>6. AnswerInv' BY <1>1, <2>3, <2>4, <2>5 DEF AnswerInv
  <2> QED BY <1>1, <1>2, <1>4, <2>6, ReplyStep
<1>5. CASE Reply("redirect", <<>>) BY <1>1, <1>2, <1>5, ReplyStep
<1>6. CASE Reply("missing", <<>>) BY <1>1, <1>2, <1>6, ReplyStep
<1>7. CASE /\ question' = [question EXCEPT !.load = "data", !.variant = variant]
           /\ at' = "stat" /\ answer' = answer
  <2>1. question' = [query |-> question.query, since |-> question.since, load |-> "data",
                     tries |-> question.tries, before |-> question.before,
                     head |-> question.head, rows |-> question.rows, variant |-> variant]
    BY <1>1, <1>7
  <2>2. QuestionInv' BY <1>1, <1>7, <1>v, <2>1, QuestionKept
  <2>3. AnswerInv' BY <1>1, <1>7 DEF SearchInv, AnswerInv
  <2> QED BY <1>2, <2>2, <2>3 DEF SearchInv
<1> QED BY <1>3, <1>4, <1>5, <1>6, <1>7

\* A cached index of the same signature fits the rows in hand, so a ranking never
\* points beyond them.
LEMMA RankStep == ASSUME SearchInv, Rank PROVE SearchInv'
<1> DEFINE variant == question.variant
           data == Filtered(variant, question.rows)
           index == IF Reusable(variant) THEN indexCache[variant].index ELSE Fit(data)
           matches == {i \in DOMAIN index : index[i] = question.query.topic}
<1>1. /\ at = "rank" /\ UNCHANGED <<versions, rowCache>>
      /\ question.since \in 1..Len(versions) /\ variant \in Variants
      /\ Fresh /\ Held(question.rows, question.before)
      /\ question.rows \in Seq(ToSet(question.rows))
  BY DEF Rank, SearchInv, QuestionInv, Fresh, Held, FileInv, IsCatalogue
<1>2. /\ Len(data) \in Nat /\ DOMAIN data = 1..Len(data)
      /\ \A i \in 1..Len(data) : data[i] \in ToSet(question.rows) /\ Passes(variant, data[i])
  <2> HIDE DEF variant
  <2> QED BY <1>1, FilteredRule
<1>3. index = Fit(data)
  BY <1>1 DEF Reusable, SearchInv, CacheInv, Held
<1>4. \/ data = <<>> /\ Reply("empty", <<>>) /\ UNCHANGED indexCache
      \/ /\ indexCache' = [indexCache EXCEPT ![variant] =
                             [signature |-> question.before, index |-> index]]
         /\ \/ (\E i \in matches : i > Len(data)) /\ Reply("crash", <<>>)
            \/ Reply("ranked", Kept(data, matches))
            \/ Reply("abstained", <<>>)
  BY DEF Rank
<1>5. matches \subseteq 1..Len(data) /\ \A i \in matches : data[i].about = question.query.topic
  <2> HIDE DEF data, index
  <2>1. index = [i \in 1..Len(data) |-> data[i].about] BY <1>3 DEF Fit
  <2> QED BY <2>1
<1>m. ASSUME indexCache' = [indexCache EXCEPT ![variant] =
                             [signature |-> question.before, index |-> index]]
      PROVE  CacheInv'
  <2> DEFINE entry == [signature |-> question.before, index |-> index]
  <2>1. entry.signature = question.before /\ entry.index = index OBVIOUS
  <2>2. question.before \in 1..Len(versions) /\ question.rows = versions[question.before]
    BY <1>1 DEF Held
  <2>3. indexCache' = [indexCache EXCEPT ![variant] = entry] BY <1>m
  <2>f. indexCache = [v \in Variants |-> indexCache[v]] BY DEF SearchInv, CacheInv
  <2> HIDE DEF entry, index
  <2>4. /\ indexCache'[variant] = entry
        /\ \A v \in Variants \ {variant} : indexCache'[v] = indexCache[v]
        /\ indexCache' = [v \in Variants |-> indexCache'[v]]
    BY <1>1, <2>3, <2>f
  <2>5. entry.index = Fit(Filtered(variant, versions[question.before])) BY <1>3, <2>1, <2>2
  <2> HIDE DEF variant, data
  <2>6. ASSUME NEW v \in Variants, indexCache'[v] # None
        PROVE  /\ indexCache'[v].signature \in 1..Len(versions)
               /\ indexCache'[v].index
                     = Fit(Filtered(v, versions[indexCache'[v].signature]))
    <3>1. CASE v = variant BY <2>1, <2>2, <2>4, <2>5, <3>1
    <3>2. CASE v # variant BY <2>4, <2>6, <3>2 DEF SearchInv, CacheInv
    <3> QED BY <3>1, <3>2
  <2>7. rowCache' # None => Held(rowCache.rows, rowCache.signature)'
    BY <1>1 DEF SearchInv, CacheInv, Held
  <2> QED BY <1>1, <2>4, <2>6, <2>7 DEF CacheInv
<1>6. CASE data = <<>> /\ Reply("empty", <<>>) /\ UNCHANGED indexCache
  <2>1. CacheInv' BY <1>1, <1>6 DEF SearchInv, CacheInv, Held
  <2> QED BY <1>1, <1>6, <2>1, ReplyStep
<1>7. ASSUME CacheInv', \E i \in matches : i > Len(data) PROVE FALSE
  <2> HIDE DEF matches, data
  <2> QED BY <1>2, <1>5, <1>7
<1>8. ASSUME CacheInv', Reply("ranked", Kept(data, matches)) PROVE SearchInv'
  <2> DEFINE rows == Kept(data, matches)
  <2>1. answer' = [how |-> "ranked", rows |-> rows, query |-> question.query,
                   since |-> question.since, variant |-> variant]
    BY <1>8 DEF Reply
  <2>2. /\ answer'.how = "ranked" /\ answer'.rows = rows /\ answer'.query = question.query
        /\ answer'.since = question.since /\ answer'.variant = variant
    BY <2>1
  <2> HIDE DEF matches, data, variant
  <2>3. /\ rows \in Seq(ToSet(rows)) /\ Len(rows) = Cardinality(matches)
        /\ Cardinality(matches) \in Nat
        /\ \A k \in 1..Cardinality(matches) : /\ Nth(matches, k) \in matches
                                              /\ rows[k] = data[Nth(matches, k)]
    BY <1>2, <1>5, KeptRule, NthRule
  <2> HIDE DEF rows
  <2>4. \A row \in ToSet(rows) : \E i \in matches : row = data[i]
    <3>1. DOMAIN rows = 1..Cardinality(matches) BY <2>3
    <3> QED BY <2>3, <3>1 DEF ToSet
  <2>5. \A row \in ToSet(rows) : /\ row \in ToSet(versions[question.before])
                                 /\ row.about = question.query.topic
                                 /\ Passes(variant, row)
    BY <1>1, <1>2, <1>5, <2>4 DEF Held
  <2>6. /\ question.before \in question.since..Len(versions) /\ question.since \in Nat
        /\ question.before \in 1..Len(versions) /\ versions[question.before] # Gone
    BY <1>1 DEF Fresh, Held
  <2>7. AnswerInv' BY <1>1, <2>2, <2>5, <2>6 DEF AnswerInv
  <2> QED BY <1>1, <1>8, <2>7, ReplyStep
<1>9. ASSUME CacheInv', Reply("abstained", <<>>) PROVE SearchInv'
  BY <1>1, <1>9, ReplyStep
<1> HIDE DEF matches, data, index, variant
<1> QED BY <1>4, <1>m, <1>6, <1>7, <1>8, <1>9

LEMMA SearchAlways == Spec => []SearchInv
<1>1. Init => SearchInv BY SearchStarts DEF Init
<1>2. SearchInv /\ [Next]_vars => SearchInv'
  <2> SUFFICES ASSUME SearchInv, [Next]_vars PROVE SearchInv' OBVIOUS
  <2>1. CASE UNCHANGED searchVars
    <3>1. FileInv' /\ CacheInv' BY <2>1 DEF searchVars, SearchInv, FileInv, CacheInv, Held
    <3>2. QuestionInv' BY <2>1 DEF searchVars, SearchInv, QuestionInv, Fresh, Held
    <3>3. AnswerInv' BY <2>1 DEF searchVars, SearchInv, AnswerInv
    <3> QED BY <3>1, <3>2, <3>3 DEF SearchInv
  <2>2. CASE Serve BY <2>2, ReadStep, IdentifyStep, RankStep DEF Serve
  <2>3. CASE \E q \in Queries : Ask(q) BY <2>3, AskStep
  <2> QED BY <2>1, <2>2, <2>3, RewriteStep
       DEF Next, vars, Searches, Generates, Persists, Draws, SearchNext
<1> QED BY <1>1, <1>2, PTL DEF Spec

\* CatalogueSearch: however the catalogue is rewritten under the process, its caches are
\* what the file held and its rankings rows of one moment since the question (core.py:
\* _load_csv_snapshot, _get_bm25).
THEOREM SearchesAreFaithful == Spec => []AnswersAreFaithful
<1>1. SearchInv => AnswersAreFaithful
  <2> SUFFICES ASSUME SearchInv PROVE AnswersAreFaithful OBVIOUS
  <2>1. rowCache # None => rowCache.rows = versions[rowCache.signature]
    BY DEF SearchInv, CacheInv, Held
  <2> QED BY <2>1 DEF SearchInv, AnswerInv, AnswersAreFaithful
<1> QED BY <1>1, SearchAlways, PTL

\* A name leads to the only row that has it.
LEMMA LookupRule ==
    ASSUME NEW rows, rows \in Seq(ToSet(rows)), StyleContract(rows),
           NEW row \in ToSet(rows), NEW name \in Identities(row)
    PROVE  Lookup(rows, name) = row
<1> DEFINE I == {i \in DOMAIN rows : name \in Identities(rows[i])}
<1>1. PICK j \in DOMAIN rows : rows[j] = row BY DEF ToSet
<1>2. I \subseteq 1..Len(rows) /\ Len(rows) \in Nat /\ j \in I /\ DOMAIN rows = 1..Len(rows)
  BY <1>1
<1>3. \A i \in I : i = j
  <2> SUFFICES ASSUME NEW i \in I, i # j PROVE FALSE OBVIOUS
  <2>1. name \in Identities(rows[i]) \intersect Identities(rows[j]) BY <1>1
  <2>2. i \in 1..Len(rows) /\ j \in 1..Len(rows) BY <1>2
  <2> QED BY <2>1, <2>2 DEF StyleContract
<1>4. Lookup(rows, name) = LastOf(rows, I) BY DEF Lookup
<1> HIDE DEF I
<1>5. \E i \in I : LastOf(rows, I) = rows[i]
  <2>1. I # {} BY <1>2
  <2> QED BY <1>2, <2>1, LastOfRule, Zenon
<1> QED BY <1>1, <1>3, <1>4, <1>5

\* Following parents from a row, whose parent, if it is retired, is in use.
LEMMA ResolveRule ==
    ASSUME NEW rows, rows \in Seq(ToSet(rows)), None \notin ToSet(rows), StyleContract(rows),
           NEW row \in ToSet(rows), NEW name \in Identities(row), row.domain = None
    PROVE  /\ Resolve(rows, name) # None
           /\ Resolve(rows, name).status # "deprecated"
           /\ Resolve(rows, name) = Destination(rows, row).row
<1> DEFINE n == Len(rows)
           last == IF row.status # "deprecated" THEN row ELSE RowOf(rows, row.parent)
           Then(r) == IF r = None \/ r.status # "deprecated" THEN r ELSE Lookup(rows, r.parent)
           Walks(f) == f = [k \in 0..n |-> IF k = 0 THEN Lookup(rows, name) ELSE Then(f[k - 1])]
<1>1. n \in Nat \ {0}
  <2>1. \E i \in DOMAIN rows : rows[i] = row BY DEF ToSet
  <2> QED BY <2>1
<1>2. Lookup(rows, name) = row /\ row # None BY LookupRule
<1>3. /\ last # None /\ last.status # "deprecated"
      /\ Destination(rows, row).row = last
      /\ Then(row) = last
  <2>1. CASE row.status # "deprecated" BY <1>2, <2>1 DEF Destination
  <2>2. CASE row.status = "deprecated"
    <3>1. row.parent # None /\ ParentMustBeActive(rows, row) BY <2>2 DEF StyleContract
    <3>2. last = RowOf(rows, row.parent) /\ last # None /\ last.status = "active"
      BY <2>2, <3>1 DEF ParentMustBeActive
    <3> HIDE DEF last
    <3>3. last \in ToSet(rows) /\ last.id = row.parent BY <3>2, RowOfRule
    <3>4. Lookup(rows, row.parent) = last BY <3>3, LookupRule DEF Identities
    <3>5. Then(row) = last BY <1>2, <2>2, <3>4
    <3> QED BY <1>2, <2>2, <3>1, <3>2, <3>5 DEF Destination
  <2> QED BY <2>1, <2>2
<1>4. Then(last) = last BY <1>3
<1> HIDE DEF n, last, Then
<1>5. \E f : Walks(f)
  <2> DEFINE f == [k \in 0..n |-> IF k = 0 THEN row ELSE last]
  <2>1. \A k \in 0..n : f[k] = IF k = 0 THEN Lookup(rows, name) ELSE Then(f[k - 1])
    <3> SUFFICES ASSUME NEW k \in 0..n, k # 0 PROVE f[k] = Then(f[k - 1]) BY <1>2
    <3>1. k - 1 \in 0..n BY <1>1
    <3>2. f[k] = last /\ f[k - 1] \in {row, last} BY <3>1
    <3> HIDE DEF f
    <3> QED BY <3>2, <1>3, <1>4
  <2>2. f = [k \in 0..n |-> f[k]] OBVIOUS
  <2> HIDE DEF f
  <2>3. f = [k \in 0..n |-> IF k = 0 THEN Lookup(rows, name) ELSE Then(f[k - 1])]
    BY <2>1, <2>2
  <2> QED BY <2>3
<1>6. ASSUME NEW f, Walks(f) PROVE f[n] = last
  <2> DEFINE Off == {k \in 1..n : f[k] # last}
  <2>1. /\ f[0] = row
        /\ \A k \in 1..n : f[k] = Then(f[k - 1])
    BY <1>1, <1>2, <1>6
  <2>2. Off = {}
    <3> SUFFICES ASSUME Off # {} PROVE FALSE OBVIOUS
    <3>1. Off \subseteq Nat BY <1>1
    <3>2. PICK m \in Off : \A i \in Off : m <= i
      <4> HIDE DEF Off
      <4> QED BY <3>1, MinRule
    <3>3. m \in 1..n /\ f[m] # last /\ f[m] = Then(f[m - 1]) BY <2>1
    <3>4. m - 1 = 0 \/ (m - 1 \in 1..n /\ f[m - 1] = last) BY <3>2, <3>3, <1>1
    <3> QED BY <1>3, <1>4, <2>1, <3>3, <3>4
  <2> QED BY <1>1, <2>2
<1>7. Resolve(rows, name) = last
  <2> DEFINE walk == CHOOSE f : Walks(f)
  <2>1. Walks(walk) BY <1>5
  <2> HIDE DEF walk
  <2>2. walk[n] = last BY <1>6, <2>1
  <2>3. Resolve(rows, name) = IF walk[n] = None \/ walk[n].status = "deprecated" THEN None
                              ELSE walk[n]
    BY DEF Resolve, walk, Walks, n, Then
  <2> QED BY <2>2, <2>3, <1>3
<1> QED BY <1>3, <1>7

\* CatalogueSearch: of a catalogue the guardrail accepts, neither the search nor the
\* generator gives out a retired style (core.py: _style_identity and
\* _style_search_destination; design_system.py: _resolve_style; validate_data.py:
\* _check_style_contract).
THEOREM NoStyleIsRetired == Spec => []NoRetiredStyle
<1>1. SearchInv => NoRetiredStyle
  <2> SUFFICES ASSUME SearchInv PROVE NoRetiredStyle OBVIOUS
  <2> DEFINE rows == versions[Len(versions)]
  <2>1. rows # Gone => rows \in Seq(ToSet(rows)) /\ None \notin ToSet(rows)
    BY DEF SearchInv, FileInv, IsCatalogue
  <2> HIDE DEF rows
  <2>2. rows # Gone /\ StyleContract(rows) =>
           \A row \in ToSet(rows) : \A name \in Identities(row) :
              row.domain = None =>
                 /\ Resolve(rows, name) # None
                 /\ Resolve(rows, name).status # "deprecated"
                 /\ Resolve(rows, name) = Destination(rows, row).row
    BY <2>1, ResolveRule
  <2>3. answer.how = "exact" /\ answer.query.kind = "style" =>
           \/ Head(answer.rows).status # "deprecated"
           \/ \E s \in answer.since..Len(versions) : versions[s] # Gone /\
                 \/ ~StyleContract(versions[s])
                 \/ \E retired \in ToSet(versions[s]) :
                       retired.domain = "style" /\ retired.target = Head(answer.rows).id
    BY DEF SearchInv, AnswerInv
  <2> QED BY <2>2, <2>3 DEF NoRetiredStyle, rows
<1> QED BY <1>1, SearchAlways, PTL
=============================================================================

-------------------------- MODULE CatalogueSearch --------------------------
(***************************************************************************)
(* The search engine of the ui-ux-pro-max skill: a process that answers    *)
(* questions about one catalogue file, keeping the rows it read and the    *)
(* indexes it fitted in memory, while a maintainer rewrites the file.      *)
(*                                                                         *)
(* The file is the sequence of contents it has had; its signature          *)
(* (modification time and size) is the number of the content, so a write   *)
(* always changes it.  A content is a sequence of rows, or Gone.  Of a     *)
(* row's text only two things are kept: the names that identify it and     *)
(* the subject it is about; scoring finds the rows about the subject, and  *)
(* whether the best score clears the threshold is left open.               *)
(***************************************************************************)
EXTENDS PythonLists

CONSTANTS
    Contents,      \* what the file may hold when the process starts
    Rewrites,      \* what the maintainer may write over it
    Queries,       \* the questions: [kind, name, mentions, topic, legacy, current,
                   \*                 base, fresh]
    Recommended,   \* the style names the product and reasoning files cite
    LandingIds,    \* the identifiers of the landing catalogue
    Weight,        \* how distinctive a contained name is
    Attempts,      \* reads of a file that keeps changing
    MaxWrites,     \* bound: contents of the file in a behaviour
    MaxAsks,       \* bound: questions in a behaviour
    Gone           \* the file does not exist

ASSUME FileAssumption ==
    \A content \in Contents \union Rewrites :
        content # Gone => content \in Seq(ToSet(content)) /\ None \notin ToSet(content)

Bases == {"any", "base", "aria", "radix"}

\* legacy: the query asks for an older generation; current: its stack has a
\* current version; base: the component base a shadcn query names; fresh: it
\* asks for a new application of a stack that is all legacy.
ASSUME QueriesAssumption ==
    \A q \in Queries :
        q.kind \in {"style", "stack"} /\ {q.legacy, q.current, q.fresh} \subseteq BOOLEAN
        /\ q.base \in Bases

VARIABLES
    versions,      \* the contents the file has had, the last one current
    at,            \* where the process is
    question,      \* the query being answered, the load under way and its data
    rowCache,      \* _csv_cache: the rows last read and their signature
    indexCache,    \* _bm25_cache: per variant, the index and its signature
    answer,        \* the last answer
    asked          \* questions so far

searchVars == <<versions, at, question, rowCache, indexCache, answer, asked>>

Generations == {"active-only", "current-only", "legacy-only",
                "legacy-unavailable", "non-legacy"}

\* An index is cached for each generation and base.
Variants == Generations \X Bases

Signature == Len(versions)
OnDisk == versions[Signature]

(***************************************************************************)
(* What the rows say.                                                      *)
(***************************************************************************)

\* A row's stable identities: its id and its aliases.
Identities(row) == row.names \union {row.id}

RowOf(rows, id) == FirstOf(rows, {i \in DOMAIN rows : rows[i].id = id})

\* The row a query names outright, or else the one whose identity the query
\* contains, when the most distinctive of these is a single row.
StyleIdentity(rows, q) ==
    LET exact == {i \in DOMAIN rows : q.name \in Identities(rows[i])}
        Contained(r) == Identities(r) \intersect q.mentions
        Best(r) == {n \in Contained(r) : \A m \in Contained(r) : Weight[m] <= Weight[n]}
        candidates == {r \in ToSet(rows) : Contained(r) # {}}
        best == {r \in candidates : \A s \in candidates : \A n \in Best(r), m \in Best(s) :
                                        Weight[m] <= Weight[n]}
    IN  IF exact # {} THEN FirstOf(rows, exact)
        ELSE IF Cardinality({r.id : r \in best}) = 1 THEN CHOOSE r \in best : TRUE
        ELSE None

\* A deprecated style leads to its parent, to another style, or to the
\* pattern of another domain.
Destination(rows, row) ==
    IF row = None \/ row.status # "deprecated" THEN [row |-> row, redirect |-> None]
    ELSE IF row.parent # None THEN [row |-> RowOf(rows, row.parent), redirect |-> None]
    ELSE IF row.domain = "style" THEN [row |-> RowOf(rows, row.target), redirect |-> None]
    ELSE IF row.domain # None THEN [row |-> None, redirect |-> row.target]
    ELSE [row |-> None, redirect |-> None]

\* The generation of guidance a query is answered from: the legacy rows if
\* there are any, and none where the stack has a current version instead.
Generation(rows, q) ==
    LET statuses == {r.status : r \in ToSet(rows)}
    IN  IF q.kind = "style" THEN "active-only"
        ELSE IF q.legacy /\ "deprecated" \in statuses THEN "legacy-only"
        ELSE IF q.legacy /\ q.current THEN "legacy-unavailable"
        ELSE IF "active" \in statuses THEN "current-only"
        ELSE "non-legacy"

\* No row is of no generation, whatever base the query names.
Variant(rows, q) ==
    LET generation == Generation(rows, q)
    IN <<generation, IF generation = "legacy-unavailable" THEN "any" ELSE q.base>>

OfGeneration(generation, row) ==
    CASE generation \in {"active-only", "current-only"} -> row.status = "active"
      [] generation = "legacy-only" -> row.status = "deprecated"
      [] generation = "non-legacy" -> row.status # "deprecated"
      [] generation = "legacy-unavailable" -> FALSE

Passes(variant, row) ==
    /\ OfGeneration(variant[1], row)
    /\ variant[2] # "any" => variant[2] \in row.bases

Filtered(variant, rows) == Kept(rows, {i \in DOMAIN rows : Passes(variant, rows[i])})

TheOnly(data, matches) ==
    IF Cardinality(matches) = 1 THEN FirstOf(data, matches) ELSE None

\* The row that tells a new application what to take instead of the stack.
Successor(data, q) ==
    IF q.fresh THEN TheOnly(data, {i \in DOMAIN data : data[i].successor}) ELSE None

\* The one row that names an API identifier, among those that apply.
Identifier(data, q) == TheOnly(data, {i \in DOMAIN data : q.name \in Identities(data[i])})

StackExact(rows, q, variant) ==
    LET data == Filtered(variant, rows)
    IN IF Successor(data, q) # None THEN Successor(data, q) ELSE Identifier(data, q)

\* Fitting keeps, for each position, what the row there is about.
Fit(rows) == [i \in 1..Len(rows) |-> rows[i].about]

(***************************************************************************)
(* The guardrail run before a catalogue is published.                      *)
(***************************************************************************)
ParentMustExist(rows, row) ==
    row.parent # None => RowOf(rows, row.parent) # None /\ row.parent # row.id

\* A parent is another row, and one in use.
ParentMustBeActive(rows, row) ==
    row.parent # None =>
        LET parent == RowOf(rows, row.parent)
        IN parent # None /\ row.parent # row.id /\ parent.status = "active"

\* Following parents comes back: there is a parent at every step for as many
\* steps as there are rows.
ParentCycle(rows, row) ==
    LET chain[k \in 0..Len(rows)] ==
            IF k = 0 THEN row.id
            ELSE IF RowOf(rows, chain[k - 1]) = None THEN None
            ELSE RowOf(rows, chain[k - 1]).parent
    IN chain[Len(rows)] # None

\* An identity leads to the last row that claims it.
Lookup(rows, name) == LastOf(rows, {i \in DOMAIN rows : name \in Identities(rows[i])})

\* Identities are unambiguous; a supplemental row has a parent, a deprecated
\* one exactly one successor, and only it may redirect; the names cited
\* elsewhere lead to rows that are not deprecated.
StyleContract(rows) ==
    /\ \A i, j \in 1..Len(rows) :
          i # j => Identities(rows[i]) \intersect Identities(rows[j]) = {}
    /\ \A row \in ToSet(rows) :
          /\ row.status = "supplemental" => row.parent # None
          /\ row.status # "deprecated" => row.domain = None
          /\ row.status = "deprecated" => (row.parent # None) # (row.domain # None)
          /\ row.domain = "style" => RowOf(rows, row.target) # None
          /\ row.domain = "landing" => row.target \in LandingIds
          /\ ParentMustBeActive(rows, row)
          /\ ~ParentCycle(rows, row)
    /\ \A name \in Recommended :
          Lookup(rows, name) # None /\ Lookup(rows, name).status # "deprecated"

\* How the design generator resolves a style name: it follows parents until
\* a style that is not deprecated, and gives up on a cycle or a dead end.
Resolve(rows, name) ==
    LET walk[k \in 0..Len(rows)] ==
            IF k = 0 THEN Lookup(rows, name)
            ELSE IF walk[k - 1] = None \/ walk[k - 1].status # "deprecated" THEN walk[k - 1]
            ELSE Lookup(rows, walk[k - 1].parent)
        end == walk[Len(rows)]
    IN IF end = None \/ end.status = "deprecated" THEN None ELSE end

-----------------------------------------------------------------------------
NoAnswer == [how |-> "none", rows |-> <<>>, query |-> None, since |-> 0, variant |-> None]
NoQuestion == [query |-> None, since |-> 0, load |-> None, tries |-> 0, before |-> 0,
               head |-> <<>>, rows |-> <<>>, variant |-> None]

Opening(content) ==
    /\ versions = <<content>>
    /\ at = "idle"
    /\ question = NoQuestion
    /\ rowCache = None
    /\ indexCache = [v \in Variants |-> None]
    /\ answer = NoAnswer
    /\ asked = 0

SearchInit == \E content \in Contents : Opening(content)

\* The maintainer writes the file: whole, in part, or takes it away.
Rewrite ==
    /\ Len(versions) < MaxWrites
    /\ \E c \in Rewrites : versions' = Append(versions, c)
    /\ UNCHANGED <<at, question, rowCache, indexCache, answer, asked>>

Reply(how, rows) ==
    /\ answer' = [how |-> how, rows |-> rows, query |-> question.query,
                  since |-> question.since, variant |-> question.variant]
    /\ at' = "idle"
    /\ question' = NoQuestion

\* search and search_stack: a file that is not there is an error at once.
Ask(q) ==
    /\ at = "idle"
    /\ asked < MaxAsks
    /\ asked' = asked + 1
    /\ IF OnDisk = Gone
         THEN /\ answer' = [NoAnswer EXCEPT !.how = "missing", !.query = q]
              /\ UNCHANGED <<at, question>>
         ELSE /\ question' = [NoQuestion EXCEPT !.query = q, !.since = Signature,
                                                !.load = "rows"]
              /\ at' = "stat"
              /\ UNCHANGED answer
    /\ UNCHANGED <<versions, rowCache, indexCache>>

\* The rows of a load are in hand: the first load looks for an identity, the
\* second is ranked.
Loaded(rows, signature) ==
    /\ question' = [question EXCEPT !.rows = rows, !.before = signature]
    /\ at' = IF question.load = "rows" THEN "identify" ELSE "rank"

\* A load failed: no identity is looked for, or the search reports the error.
LoadFailed ==
    \/ /\ question.load = "rows"
       /\ question' = [question EXCEPT !.rows = <<>>]
       /\ at' = "identify"
       /\ UNCHANGED answer
    \/ /\ question.load = "data"
       /\ Reply("read-error", <<>>)

\* _load_csv_snapshot: rows already read under this signature are reused.
Stat ==
    /\ at = "stat"
    /\ IF OnDisk = Gone THEN LoadFailed
       ELSE IF rowCache # None /\ rowCache.signature = Signature
         THEN Loaded(rowCache.rows, Signature) /\ UNCHANGED answer
         ELSE /\ question' = [question EXCEPT !.tries = Attempts]
              /\ at' = "open"
              /\ UNCHANGED answer
    /\ UNCHANGED <<versions, rowCache, indexCache, asked>>

\* An attempt: the signature before, and the beginning of the file.
Open ==
    /\ at = "open"
    /\ IF OnDisk = Gone THEN LoadFailed
       ELSE /\ question' = [question EXCEPT !.before = Signature, !.head = OnDisk]
            /\ at' = "close"
            /\ UNCHANGED answer
    /\ UNCHANGED <<versions, rowCache, indexCache, asked>>

\* What was read, when the file may have changed under the reader: the first
\* row from what it held when opened and the others from what it holds now.
Bytes ==
    IF question.before = Signature THEN OnDisk
    ELSE SubSeq(question.head, 1, 1) \o SubSeq(OnDisk, 2, Len(OnDisk))

Trusting == OnDisk # Gone

Stable == question.before = Signature

\* The rest of the file and the signature after: only a read between two
\* equal signatures is kept.
Close ==
    /\ at = "close"
    /\ IF OnDisk = Gone THEN LoadFailed /\ UNCHANGED rowCache
       ELSE IF Stable
         THEN /\ rowCache' = [signature |-> Signature, rows |-> Bytes]
              /\ Loaded(Bytes, Signature)
              /\ UNCHANGED answer
       ELSE IF question.tries > 1
         THEN /\ question' = [question EXCEPT !.tries = @ - 1]
              /\ at' = "open"
              /\ UNCHANGED <<answer, rowCache>>
         ELSE LoadFailed /\ UNCHANGED rowCache
    /\ UNCHANGED <<versions, indexCache, asked>>

\* A style named by the query, or its destination, is the whole answer; so is
\* the one row of a stack that fits exactly.  Anything else is ranked.
Identify ==
    /\ at = "identify"
    /\ LET q == question.query
           variant == Variant(question.rows, q)
           found == IF q.kind = "style"
                      THEN Destination(question.rows, StyleIdentity(question.rows, q))
                      ELSE [row |-> StackExact(question.rows, q, variant), redirect |-> None]
       IN  \/ /\ found.row # None
              /\ Reply("exact", <<found.row>>)
           \/ /\ found.row = None /\ found.redirect # None
              /\ Reply("redirect", <<>>)
           \/ /\ found.row = None /\ found.redirect = None
              /\ IF OnDisk = Gone THEN Reply("missing", <<>>)
                 ELSE /\ question' = [question EXCEPT !.load = "data", !.variant = variant]
                      /\ at' = "stat"
                      /\ UNCHANGED answer
    /\ UNCHANGED <<versions, rowCache, indexCache, asked>>

\* The index cached for this variant serves while the signature is the same.
ReusableWhenever(variant) == indexCache[variant] # None

Reusable(variant) ==
    indexCache[variant] # None /\ indexCache[variant].signature = question.before

\* _search_csv_detailed: filter, fit or reuse the index, score, and answer
\* with the rows at the positions that match, unless the best is too weak.
Rank ==
    /\ at = "rank"
    /\ LET variant == question.variant
           data == Filtered(variant, question.rows)
           index == IF Reusable(variant) THEN indexCache[variant].index ELSE Fit(data)
           matches == {i \in DOMAIN index : index[i] = question.query.topic}
       IN  IF data = <<>> THEN Reply("empty", <<>>) /\ UNCHANGED indexCache
           ELSE /\ indexCache' = [indexCache EXCEPT ![variant] =
                                    [signature |-> question.before, index |-> index]]
                /\ \/ IF \E i \in matches : i > Len(data) THEN Reply("crash", <<>>)
                      ELSE Reply("ranked", Kept(data, matches))
                   \/ Reply("abstained", <<>>)
    /\ UNCHANGED <<versions, rowCache, asked>>

Serve == Stat \/ Open \/ Close \/ Identify \/ Rank

SearchNext == Rewrite \/ Serve \/ \E q \in Queries : Ask(q)

-----------------------------------------------------------------------------
(***************************************************************************)
(* The search engine's caches never drift from the file: the rows kept     *)
(* are what the file held under the signature they are kept with, and a    *)
(* ranked answer consists of rows the file held at one moment since the    *)
(* question, about its subject and of the generation it asked for.  The    *)
(* hazard is _load_csv_snapshot and _get_bm25 (core.py) reading a file     *)
(* that is being rewritten, and indexes that outlive their rows.           *)
(***************************************************************************)
AnswersAreFaithful ==
    /\ rowCache # None => rowCache.rows = versions[rowCache.signature]
    /\ answer.how # "crash"
    /\ answer.how = "ranked" =>
          \E s \in answer.since..Len(versions) :
             \A row \in ToSet(answer.rows) :
                /\ versions[s] # Gone
                /\ row \in ToSet(versions[s])
                /\ row.about = answer.query.topic
                /\ Passes(answer.variant, row)

(***************************************************************************)
(* What the guardrail of validate_data.py accepts, the search and the      *)
(* generator never answer with a retired style for: a style search names a *)
(* deprecated row only where the catalogue redirects one retired style to  *)
(* another, and every style the product and reasoning files cite resolves  *)
(* to a style in use, the one the search gives.                            *)
(***************************************************************************)
NoRetiredStyle ==
    /\ answer.how = "exact" /\ answer.query.kind = "style" =>
          LET row == Head(answer.rows)
          IN  \/ row.status # "deprecated"
              \/ \E s \in answer.since..Len(versions) : versions[s] # Gone /\
                    \/ ~StyleContract(versions[s])
                    \/ \E retired \in ToSet(versions[s]) :
                          retired.domain = "style" /\ retired.target = row.id
    /\ LET rows == versions[Len(versions)]
       IN  rows # Gone /\ StyleContract(rows) =>
              \A row \in ToSet(rows) : \A name \in Identities(row) :
                 row.domain = None =>
                    /\ Resolve(rows, name) # None
                    /\ Resolve(rows, name).status # "deprecated"
                    /\ Resolve(rows, name) = Destination(rows, row).row
=============================================================================

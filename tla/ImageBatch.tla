---------------------------- MODULE ImageBatch -----------------------------
(***************************************************************************)
(* The image scripts of the design skill: one command makes a logo, a set  *)
(* of logo variants, a set of icons, an icon at several sizes or a set of  *)
(* corporate identity mockups.  Each picture is asked of an outside        *)
(* service, which answers, refuses or fails, or, with Atlas Cloud, takes   *)
(* the order and is polled until the picture is ready; it is saved to a    *)
(* file of its own and its name reported.                                  *)
(*                                                                         *)
(* A picture is the number of the item it was made for; a failure of any   *)
(* kind (no key, HTTP error, invalid answer, no image in it) is one value, *)
(* since the scripts catch them all in one place.  Sizes and deliverables  *)
(* may be asked for twice; a deliverable is its name as a file name shows  *)
(* it, in lower case.                                                      *)
(***************************************************************************)
EXTENDS PythonLists

CONSTANTS
    Commands,      \* the commands: [tool, provider, batch, sizes, subject, logo]
    MaxPolls,      \* ATLAS_MAX_POLLS
    BatchStyles,   \* how many variants a logo batch knows
    Entries,       \* the deliverables of the catalogue, in its order
    Score,         \* how well a deliverable's name matches each of them
    MaxBlocks      \* bound: code blocks in an answer

ASSUME CommandsAssumption ==
    /\ \A c \in Commands : /\ c.tool \in {"logo", "icon", "cip"}
                           /\ c.batch \in Seq(ToSet(c.batch)) /\ c.sizes \in Seq(ToSet(c.sizes))
    /\ BatchStyles \in Nat \ {0} /\ MaxBlocks \in Nat

VARIABLES
    job,           \* what the command asks for: [kind, provider, items]
    stage,         \* where it is
    item,          \* the item in hand
    seen,          \* the last answer about it
    polls,         \* how often its order was polled
    second,        \* the clock the file names are made from
    disk,          \* the pictures saved, by file name
    reported,      \* the results: [item, name]
    lost           \* the items that failed, why, and the answer last seen

batchVars == <<job, stage, item, seen, polls, second, disk, reported, lost>>

NoJob == [kind |-> "none", provider |-> "none", items |-> <<>>]

BatchInit ==
    /\ job = NoJob
    /\ stage = "idle"
    /\ item = 0
    /\ seen = "none"
    /\ polls = 0
    /\ second = 0
    /\ disk = <<>>
    /\ reported = <<>>
    /\ lost = {}

-----------------------------------------------------------------------------
\* A logo command makes one, or a batch, of as many variants as it knows.
LogoJob(c) ==
    IF c.batch = <<>> THEN [kind |-> "logo", provider |-> c.provider, items |-> <<c.subject>>]
    ELSE [kind |-> "logos", provider |-> c.provider,
          items |-> SubSeq(c.batch, 1, IF Len(c.batch) > BatchStyles THEN BatchStyles
                                       ELSE Len(c.batch))]

\* An icon command makes it at the sizes given, else a batch, else one.
IconJob(c) ==
    IF c.sizes # <<>> THEN [kind |-> "sizes", provider |-> "gemini", items |-> c.sizes]
    ELSE IF c.batch # <<>> THEN [kind |-> "icons", provider |-> "gemini", items |-> c.batch]
    ELSE [kind |-> "icon", provider |-> "gemini", items |-> <<c.subject>>]

\* A mockup command makes a set of deliverables, or one.
MockupJob(c) ==
    [kind |-> "mockups", provider |-> "gemini",
     items |-> IF c.batch = <<>> THEN <<c.subject>> ELSE c.batch]

JobOf(c) == CASE c.tool = "logo" -> LogoJob(c)
              [] c.tool = "icon" -> IconJob(c)
              [] c.tool = "cip" -> MockupJob(c)

\* The best scored deliverable, the first of equals, if any scores at all.
Search(name) ==
    LET hits == {e \in DOMAIN Entries : Score[name][e] > 0}
        Beats(e, f) == \/ Score[name][e] > Score[name][f]
                       \/ (Score[name][e] = Score[name][f] /\ e <= f)
    IN {Entries[e] : e \in {h \in hits : \A f \in hits : Beats(h, f)}}

\* A mockup shows the deliverable its name resolves to, or the name itself.
Deliverable(name) ==
    IF Search(name) = {} THEN name ELSE CHOOSE entry \in Search(name) : TRUE

\* Mutated form of MockupName: the deliverable is left out.
MockupNameBare(n) == <<"mockup", second>>

MockupName(n) == <<"mockup", Deliverable(job.items[n]), second>>
SizeName(n) == <<"sizes", job.items[n]>>
NumberedName(n) == <<job.kind, n>>
DatedName == <<job.kind, second>>

\* A batch numbers its files, an icon is named by its size, a mockup by what
\* it shows and the second it is saved in, a single picture by the second.
FileName(n) ==
    CASE job.kind \in {"logos", "icons"} -> NumberedName(n)
      [] job.kind = "sizes" -> SizeName(n)
      [] job.kind = "mockups" -> MockupName(n)
      [] job.kind \in {"logo", "icon"} -> DatedName

\* The logo of a mockup can be read, or the user goes on without one.
LogoReady(c) == c.tool = "cip" => c.logo \notin {"unreadable", "generate", "exit"}

Start(c) ==
    /\ stage = "idle"
    /\ IF LogoReady(c)
         THEN job' = JobOf(c) /\ stage' = "ask" /\ item' = 1
         ELSE stage' = "done" /\ UNCHANGED <<job, item>>
    /\ UNCHANGED <<seen, polls, second, disk, reported, lost>>

\* The next item, or the end of the batch.
Onward ==
    IF item < Len(job.items) THEN stage' = "ask" /\ item' = item + 1
    ELSE stage' = "done" /\ UNCHANGED item

\* A failed item is printed and skipped.
Skip(why) ==
    /\ lost' = lost \union {[item |-> item, why |-> why, last |-> seen]}
    /\ Onward

\* Making a picture may take less than a second, and nothing waits for the
\* clock where a name depends on it.
Asking(kinds) ==
    /\ stage = "ask"
    /\ job.kind \in kinds
    /\ polls' = 0
    /\ second' \in {second, second + 1}
    /\ UNCHANGED <<disk, reported>>

\* The service sends the picture, or fails.
Answer ==
    \/ seen' = "completed" /\ stage' = "save" /\ UNCHANGED <<item, lost>>
    \/ seen' = "failed" /\ Skip("failed")

\* _generate_with_atlas places an order: it has a first status, or fails.
AskAtlas ==
    /\ Asking({"logo", "logos"})
    /\ job.provider = "atlas"
    /\ \/ seen' \in {"pending", "completed", "failed"} /\ stage' = "examine"
          /\ UNCHANGED <<item, lost>>
       \/ seen' = "failed" /\ Skip("refused")
    /\ UNCHANGED job

AskGemini ==
    /\ Asking({"logo", "logos"})
    /\ job.provider = "gemini"
    /\ Answer
    /\ UNCHANGED job

AskMockup == Asking({"mockups"}) /\ Answer /\ UNCHANGED job

\* An answer in text: its code blocks, each of which may hold a drawing, and
\* drawings outside of blocks.
Texts == [svg : BoundedSeq(BOOLEAN, MaxBlocks), xml : BoundedSeq(BOOLEAN, 1),
          bare : {<<>>, <<TRUE>>}]

\* extract_svgs: the svg blocks, else the xml blocks, else the bare drawings,
\* those of them that hold a drawing.
Drawings(text) ==
    LET blocks == IF text.svg # <<>> THEN text.svg
                  ELSE IF text.xml # <<>> THEN text.xml ELSE text.bare
    IN  Kept(blocks, {i \in DOMAIN blocks : blocks[i]})

\* One icon is the first drawing of the answer.
AskIcon ==
    /\ Asking({"icon", "sizes"})
    /\ \/ \E text \in Texts : Drawings(text) # <<>> /\ seen' = "completed"
          /\ stage' = "save" /\ UNCHANGED <<item, lost>>
       \/ seen' = "failed" /\ Skip("failed")
    /\ UNCHANGED job

\* A set of icons is one answer: as many drawings as it holds, up to the
\* number asked for, or none when the service fails.
AskIcons ==
    /\ Asking({"icons"})
    /\ \/ \E text \in Texts :
             LET drawn == Len(Drawings(text))
             IN  /\ drawn > 0
                 /\ job' = [job EXCEPT !.items = SubSeq(@, 1, IF drawn < Len(@) THEN drawn
                                                             ELSE Len(@))]
                 /\ stage' = "save" /\ seen' = "completed"
       \/ stage' = "done" /\ seen' = "failed" /\ job' = [job EXCEPT !.items = <<>>]
    /\ UNCHANGED <<item, lost>>

TimesOutUnread == polls = MaxPolls

\* The last poll allowed has been made, and its answer was not the end of it.
TimesOut == seen = "pending" /\ polls = MaxPolls

\* An answer is looked at: the picture is downloaded, the failure raised, or,
\* while the order is pending, it is polled again until the polls run out.
Examine ==
    /\ stage = "examine"
    /\ \/ /\ seen = "completed"
          /\ stage' = "save"
          /\ UNCHANGED <<item, lost, seen, polls>>
       \/ /\ seen = "completed"
          /\ Skip("download")
          /\ UNCHANGED <<seen, polls>>
       \/ /\ seen = "failed"
          /\ Skip("failed")
          /\ UNCHANGED <<seen, polls>>
       \/ /\ TimesOut
          /\ Skip("timeout")
          /\ UNCHANGED <<seen, polls>>
       \/ /\ seen = "pending"
          /\ ~TimesOut
          /\ polls' = polls + 1
          /\ seen' \in {"pending", "completed", "failed"}
          /\ UNCHANGED <<stage, item, lost>>
    /\ UNCHANGED <<job, second, disk, reported>>

\* The picture is written and reported.
Save ==
    /\ stage = "save"
    /\ disk' = [name \in DOMAIN disk \union {FileName(item)} |->
                    IF name = FileName(item) THEN item ELSE disk[name]]
    /\ reported' = Append(reported, [item |-> item, name |-> FileName(item)])
    /\ IF job.kind = "icons" /\ item < Len(job.items)
         THEN item' = item + 1 /\ UNCHANGED stage
         ELSE Onward
    /\ UNCHANGED <<job, seen, polls, second, lost>>

\* The file cannot be written: the item is lost, and a set of icons reports
\* nothing at all, whatever it had saved.
FailToSave ==
    /\ stage = "save"
    /\ disk' = [name \in DOMAIN disk \union {FileName(item)} |->
                    IF name = FileName(item) THEN 0 ELSE disk[name]]
    /\ IF job.kind = "icons"
         THEN /\ reported' = <<>>
              /\ stage' = "done"
              /\ lost' = lost \union {[item |-> item, why |-> "unsaved", last |-> seen]}
              /\ UNCHANGED item
         ELSE Skip("unsaved") /\ UNCHANGED reported
    /\ UNCHANGED <<job, seen, polls, second>>

Work == AskAtlas \/ AskGemini \/ AskMockup \/ AskIcon \/ AskIcons \/ Examine \/ Save \/ FailToSave

BatchNext == Work \/ \E c \in Commands : Start(c)

-----------------------------------------------------------------------------
\* Items whose names may be one: of the same size, or of the same deliverable.
Alike(m, n) ==
    \/ job.kind = "sizes" /\ job.items[m] = job.items[n]
    \/ job.kind = "mockups" /\ Deliverable(job.items[m]) = Deliverable(job.items[n])

\* A file is an item's by now: its picture, or what is left of a failed write.
Took(m, name) ==
    \/ disk[name] = m
    \/ disk[name] = 0 /\ \E l \in lost : l.item = m /\ l.why = "unsaved"

(***************************************************************************)
(* An image command tells of every item: it is reported or lost, and never *)
(* both.  A reported file holds the picture it was reported for, unless a  *)
(* later item alike took it: a size given twice, or deliverables that      *)
(* resolve to one and are saved in one second (icon/generate.py:383,       *)
(* cip/generate.py:265); never a different size, deliverable or variant.   *)
(* And a picture the service said was ready is never given up as timed out *)
(* (logo/generate.py:256-281).                                             *)
(***************************************************************************)
BatchIsHonest ==
    /\ \A i \in DOMAIN reported :
          LET n == reported[i].item
          IN  \/ disk[reported[i].name] = n
              \/ \E m \in (n + 1)..item : Alike(m, n) /\ Took(m, reported[i].name)
    /\ \A l \in lost : l.why = "timeout" => l.last = "pending"
    /\ stage = "done" /\ job.kind \notin {"none", "icons"} =>
          \A n \in 1..Len(job.items) :
             (\E i \in DOMAIN reported : reported[i].item = n) # (\E l \in lost : l.item = n)
=============================================================================

---------------------------- MODULE DesignStore ----------------------------
(***************************************************************************)
(* The design-system folder of a project: agents generate a design system  *)
(* and persist it as a MASTER file and, when a page is named, a file of    *)
(* that page, next to each other and without a lock.  Each document is     *)
(* written whole to a temporary file and then published: linked when it    *)
(* must not replace anything, renamed over its target when forced.         *)
(***************************************************************************)
EXTENDS PythonLists

CONSTANTS
    Agents,        \* the processes that persist, each one once
    Projects,      \* the project names they use
    SlugOf,        \* the folder a project name is cut down to
    Pages,         \* the page names
    PageSlugOf,    \* the file a page name is cut down to
    PageTypes,     \* the type a page's name shows, None when it shows none
    Found,         \* what the searches about a page find: [style, ux, landing]
    MASTER         \* the master document of a folder

VARIABLES
    files,         \* what each path holds: the document published there
    temps,         \* per agent, the state of its temporary file
    agent,         \* per agent, its request and how far it got
    forced         \* history: the paths replaced by a forced run

storeVars == <<files, temps, agent, forced>>

Slugs == {SlugOf[p] : p \in Projects}
Paths == Slugs \X ({PageSlugOf[p] : p \in Pages} \union {MASTER})

\* The file of a project's master, or of one of its pages.
FileOf(project, name) ==
    <<SlugOf[project], IF name = MASTER THEN MASTER ELSE PageSlugOf[name]>>
Requests ==
    [project : Projects, page : {None}, found : {None}, force : BOOLEAN]
    \union [project : Projects, page : Pages, found : Found, force : BOOLEAN]

\* A page's type is in its name, or in what the style found is best for.
PageType(page, found) ==
    IF PageTypes[page] # None THEN PageTypes[page]
    ELSE IF found.style # None /\ found.style.bestFor # None THEN found.style.bestFor
    ELSE "General"

OverridesAsFound(page, found) ==
    [type |-> PageType(page, found),
     layout |-> (IF found.style = None THEN {}
                 ELSE IF found.style.dense THEN {"Max Width", "Grid"}
                 ELSE {"Max Width", "Layout"})
                \union (IF found.landing THEN {"Sections"} ELSE {}),
     advice |-> (IF found.style # None /\ found.style.effects THEN {"Effects"} ELSE {})
                \union (IF found.ux THEN {"UX"} ELSE {})
                \union (IF found.landing THEN {"CTA Placement"} ELSE {})]

\* What the searches found about the page overrides the master; where they
\* found nothing there is a default layout, and advice to go by the master.
Overrides(page, found) ==
    LET o == OverridesAsFound(page, found)
    IN  [o EXCEPT !.layout = IF @ = {} THEN {"Max Width", "Layout"} ELSE @,
                  !.advice = IF @ = {} THEN {"Refer to MASTER.md"} ELSE @]

\* A document is of the project and the page its agent was asked for, laid
\* out from that agent's design system.
MasterDocument(a) ==
    [by |-> a, of |-> MASTER, project |-> agent[a].request.project, whole |-> TRUE,
     overrides |-> None]
PageDocument(a) ==
    LET r == agent[a].request
    IN [by |-> a, of |-> r.page, project |-> r.project, whole |-> TRUE,
        overrides |-> Overrides(r.page, r.found)]

Document(a) == IF agent[a].doing = MASTER THEN MasterDocument(a) ELSE PageDocument(a)
Path(a) == FileOf(agent[a].request.project, agent[a].doing)

Idle == [pc |-> "idle", request |-> None, doing |-> None, created |-> {}, status |-> None]

StoreInit ==
    /\ files = [p \in Paths |-> None]
    /\ temps = [a \in Agents |-> "none"]
    /\ agent = [a \in Agents |-> Idle]
    /\ forced = {}

\* persist_design_system makes the folders and starts with the master.
Begin(a, r) ==
    /\ agent[a].pc = "idle"
    /\ agent' = [agent EXCEPT ![a] = [Idle EXCEPT !.pc = "write", !.request = r,
                                                  !.doing = MASTER]]
    /\ UNCHANGED <<files, temps, forced>>

\* The temporary file is created, then filled and synced.
Create(a) ==
    /\ agent[a].pc = "write"
    /\ temps[a] = "none"
    /\ temps' = [temps EXCEPT ![a] = "partial"]
    /\ UNCHANGED <<files, agent, forced>>

Fill(a) ==
    /\ agent[a].pc = "write"
    /\ temps[a] = "partial"
    /\ temps' = [temps EXCEPT ![a] = "whole"]
    /\ agent' = [agent EXCEPT ![a].pc = "publish"]
    /\ UNCHANGED <<files, forced>>

\* The disk refuses the document, or its link or its renaming: the temporary
\* file goes and the error reaches the caller.
FailToWrite(a) ==
    /\ agent[a].pc \in {"write", "publish"}
    /\ temps' = [temps EXCEPT ![a] = "none"]
    /\ agent' = [agent EXCEPT ![a].pc = "raised"]
    /\ UNCHANGED <<files, forced>>

OverwriteAlways(a) == TRUE

\* A link is made only where nothing is; a forced run renames over anything.
MayPublish(a) == agent[a].request.force \/ files[Path(a)] = None

\* os.replace or os.link: the document appears whole, or the link is refused
\* and what is there stays.
Publish(a) ==
    /\ agent[a].pc = "publish"
    /\ IF MayPublish(a)
         THEN /\ files' = [files EXCEPT ![Path(a)] =
                              [Document(a) EXCEPT !.whole = (temps[a] = "whole")]]
              /\ forced' = IF agent[a].request.force /\ files[Path(a)] # None
                             THEN forced \union {Path(a)} ELSE forced
              /\ agent' = [agent EXCEPT ![a].pc = "unlink",
                                        ![a].created = @ \union {Path(a)}]
              /\ temps' = IF agent[a].request.force
                            THEN [temps EXCEPT ![a] = "none"] ELSE temps
         ELSE /\ agent' = [agent EXCEPT ![a].pc = "unlink"]
              /\ UNCHANGED <<files, temps, forced>>

NothingCreated(a) == agent[a].created = {}

\* The temporary name is removed; then the page, when one was asked for, or
\* the answer.
Unlink(a) ==
    /\ agent[a].pc = "unlink"
    /\ temps' = [temps EXCEPT ![a] = "none"]
    /\ agent' =
         IF agent[a].doing = MASTER /\ agent[a].request.page # None
         THEN [agent EXCEPT ![a].pc = "write", ![a].doing = agent[a].request.page]
         ELSE [agent EXCEPT ![a].pc = "returned",
                            ![a].status = IF NothingCreated(a) THEN "skipped_exists"
                                          ELSE "success"]
    /\ UNCHANGED <<files, forced>>

\* The process is killed and leaves what it left.
Crash(a) ==
    /\ agent[a].pc \in {"write", "publish", "unlink"}
    /\ agent' = [agent EXCEPT ![a].pc = "dead"]
    /\ UNCHANGED <<files, temps, forced>>

Advance(a) == Create(a) \/ Fill(a) \/ FailToWrite(a) \/ Publish(a) \/ Unlink(a) \/ Crash(a)

StoreNext == \E a \in Agents : Advance(a) \/ \E r \in Requests : Begin(a, r)

-----------------------------------------------------------------------------
(* The paths an agent was asked for. *)
Wanted(a) == LET r == agent[a].request
             IN  {FileOf(r.project, n) : n \in {MASTER, r.page} \ {None}}

(***************************************************************************)
(* Agents persisting at once and killed anywhere: a document that exists   *)
(* is whole, of the project and page its path names, and a page's never    *)
(* without a layout and advice, whatever was found; what an agent reports  *)
(* as created is still its own unless a forced run replaced it; an agent   *)
(* that reports nothing found every path it wanted taken; and no temporary *)
(* file outlives an agent that was not killed.  design_system.py:1030:     *)
(* exclusive creation makes the default no-overwrite contract safe when    *)
(* multiple agents persist concurrently.                                   *)
(***************************************************************************)
StoreReportsHold ==
    /\ \A p \in Paths : files[p] # None =>
          /\ files[p].whole
          /\ FileOf(files[p].project, files[p].of) = p
          /\ p[2] # MASTER => files[p].overrides.layout # {} /\ files[p].overrides.advice # {}
    /\ \A a \in Agents :
          /\ \A p \in agent[a].created :
                files[p] # None /\ (files[p].by = a \/ p \in forced)
          /\ agent[a].status = "skipped_exists" => \A p \in Wanted(a) : files[p] # None
          /\ agent[a].pc \in {"returned", "raised"} => temps[a] = "none"
=============================================================================

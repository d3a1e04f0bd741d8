------------------------------- MODULE Skills -------------------------------
(***************************************************************************)
(* The scripts of the design skills side by side.  They share no state, so *)
(* a behaviour runs one of them: the search engine over a catalogue being  *)
(* rewritten, the generator, the persistence of several agents, or an      *)
(* image command.                                                          *)
(***************************************************************************)
EXTENDS CatalogueSearch, DesignGenerator, DesignStore, ImageBatch

VARIABLE tool   \* the script that runs

vars == <<tool, searchVars, generateVars, storeVars, batchVars>>

Init ==
    /\ tool \in {"search", "generate", "persist", "images"}
    /\ IF tool = "search" THEN SearchInit ELSE Opening(Gone)
    /\ GeneratorInit
    /\ StoreInit
    /\ BatchInit

Searches == /\ tool = "search" /\ SearchNext
            /\ UNCHANGED <<tool, generateVars, storeVars, batchVars>>

Generates == /\ tool = "generate" /\ GeneratorNext
             /\ UNCHANGED <<tool, searchVars, storeVars, batchVars>>

Persists == /\ tool = "persist" /\ StoreNext
            /\ UNCHANGED <<tool, searchVars, generateVars, batchVars>>

Draws == /\ tool = "images" /\ BatchNext
         /\ UNCHANGED <<tool, searchVars, generateVars, storeVars>>

Next == Searches \/ Generates \/ Persists \/ Draws

Spec == Init /\ [][Next]_vars
=============================================================================

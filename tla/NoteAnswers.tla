---------------------------- MODULE NoteAnswers -----------------------------
(***************************************************************************)
(* What the orchestrator can rely on of an answer of the pipeline, as a    *)
(* set of tags and their origins: which rule it was, or the LLM.           *)
(***************************************************************************)

TaggingModes == {"rules_only", "llm_only", "hybrid"}

(* The result of every rule that applies, and of the loaded tags that none *)
(* of them covers any that the LLM chooses; one source only where the mode *)
(* says so.                                                                *)
Answers(mode, applicable, loaded) ==
    LET ruled == IF mode = "llm_only" THEN {} ELSE applicable
        open  == IF mode = "rules_only" THEN {} ELSE loaded \ {x.tag : x \in ruled}
    IN  {ruled \cup [tag : found, origin : {"llm"}] : found \in SUBSET open}
=============================================================================

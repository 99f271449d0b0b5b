---------------------------- MODULE NoteTagging -----------------------------
(***************************************************************************)
(* One run of the pipeline, seen from the orchestrator that awaits it: it  *)
(* is under way until it answers, once and for all, or raises, and nothing *)
(* of the answer can be seen before.                                       *)
(***************************************************************************)
EXTENDS NoteAnswers

VARIABLES
    mode, applicable, loaded,  \* what the run is given
    status,                    \* "running", "answered" or "raised"
    answer

given == <<mode, applicable, loaded>>

Init == status = "running" /\ answer = {}

Finish ==
    /\ status = "running"
    /\ status' = "answered"
    /\ answer' \in Answers(mode, applicable, loaded)
    /\ UNCHANGED given

(* Only the engine raises, and in llm_only mode it does not run.           *)
Raise ==
    /\ status = "running"
    /\ mode # "llm_only"
    /\ status' = "raised"
    /\ UNCHANGED <<given, answer>>

Next == Finish \/ Raise

Spec == Init /\ [][Next]_<<given, status, answer>>
=============================================================================

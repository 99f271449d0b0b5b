----------------------------- MODULE TagSession -----------------------------
(***************************************************************************)
(* POST /tag from the database's point of view: Orchestrator.tag_note      *)
(* (application/orchestrator.py) inside the session that get_db_session    *)
(* opens (api/dependencies.py), for several requests at a time, while the  *)
(* taxonomy is being edited.                                               *)
(*                                                                         *)
(* PostgreSQL runs the session's statements at READ COMMITTED, so each of  *)
(* the reads sees what is committed at its own moment.  The rules and      *)
(* their conditions are two statements: lazy="selectin" loads the          *)
(* conditions of the rules that the first one returned.  The pipeline is   *)
(* abstracted to what NoteTagging promises of its answer, which Pipeline   *)
(* implements; results of the same tag and origin are one.  The code of    *)
(* the dependency after its yield, the commit, runs when the response has  *)
(* been sent.                                                              *)
(***************************************************************************)
EXTENDS RuleTable, NoteAnswers

CONSTANTS
    TaggingMode, \* the setting, the same for all requests
    Requests,
    Holds,       \* the conditions that hold for the notes
    NoResponse

Origins == RuleIds \cup {"llm"}
Results == [tag : TagIds, origin : Origins]

ASSUME RequestsAssumption ==
    (\A results \in SUBSET Results : NoResponse # results) /\ "llm" \notin RuleIds

VARIABLES
    stage,             \* stage[q]: where tag_note and its session are
    loaded_tags,       \* get_all_active_tags()
    loaded_rules,      \* the rule rows of get_all_active_rules()
    loaded_conditions, \* their conditions, as the second statement found them
    final_results,     \* the answer of the pipeline
    flushed,           \* the results inserted in the open transaction
    session_active,    \* FALSE once a flush has failed: the session refuses to commit
    response,          \* what the client got
    stored             \* the committed rows of tag_results, by request

loadedVars == <<loaded_tags, loaded_rules, loaded_conditions>>
sessionVars == <<stage, loadedVars, final_results, flushed, session_active, response, stored>>
vars == <<tableVars, sessionVars>>

Stages == {"new", "read_rules", "read_conditions", "pipeline", "save", "starved", "failed",
           "commit", "done"}

Init ==
    /\ TableInit
    /\ stage = [q \in Requests |-> "new"]
    /\ loaded_tags = [q \in Requests |-> {}]
    /\ loaded_rules = [q \in Requests |-> {}]
    /\ loaded_conditions = [q \in Requests |-> [r \in RuleIds |-> {}]]
    /\ final_results = [q \in Requests |-> {}]
    /\ flushed = [q \in Requests |-> {}]
    /\ session_active = [q \in Requests |-> TRUE]
    /\ response = [q \in Requests |-> NoResponse]
    /\ stored = [q \in Requests |-> {}]

GoTo(q, s) == stage' = [stage EXCEPT ![q] = s]

-----------------------------------------------------------------------------
(* Loading the taxonomy *)

ReadTags(q) ==
    /\ stage[q] = "new"
    /\ loaded_tags' = [loaded_tags EXCEPT ![q] = active_tags]
    /\ GoTo(q, "read_rules")
    /\ UNCHANGED <<tableVars, loaded_rules, loaded_conditions, final_results, flushed,
                   session_active, response, stored>>

ReadRules(q) ==
    /\ stage[q] = "read_rules"
    /\ loaded_rules' = [loaded_rules EXCEPT ![q] = {r \in RuleIds : Live(r) /\ rules[r].is_enabled}]
    /\ GoTo(q, "read_conditions")
    /\ UNCHANGED <<tableVars, loaded_tags, loaded_conditions, final_results, flushed,
                   session_active, response, stored>>

(* A rule deleted since the first statement has no conditions any more,    *)
(* and TagRule refuses a rule without: to_domain() raises, and the request *)
(* is starved of its rules.                                                *)
MutFound(r) ==  \* a mutant: the second statement asks for enabled rules again
    IF Live(r) /\ rules[r].is_enabled THEN rules[r].conditions ELSE {}
Found(r) == IF Live(r) THEN rules[r].conditions ELSE {}

MutReadConditions(q) ==  \* a mutant: TagRule does not insist on a condition
    /\ stage[q] = "read_conditions"
    /\ loaded_conditions' = [loaded_conditions EXCEPT ![q] =
                                [r \in RuleIds |-> IF r \in loaded_rules[q] THEN Found(r) ELSE {}]]
    /\ GoTo(q, "pipeline")
    /\ UNCHANGED <<tableVars, loaded_tags, loaded_rules, final_results, flushed,
                   session_active, response, stored>>

ReadConditions(q) ==
    /\ stage[q] = "read_conditions"
    /\ loaded_conditions' = [loaded_conditions EXCEPT ![q] =
                                [r \in RuleIds |-> IF r \in loaded_rules[q] THEN Found(r) ELSE {}]]
    /\ GoTo(q, IF \E r \in loaded_rules[q] : Found(r) = {} THEN "starved" ELSE "pipeline")
    /\ UNCHANGED <<tableVars, loaded_tags, loaded_rules, final_results, flushed,
                   session_active, response, stored>>

-----------------------------------------------------------------------------
(* Tagging *)

(* The rules that apply: all of their conditions hold and their tag is     *)
(* loaded.                                                                 *)
RulesResults(q) ==
    {[tag |-> TagOf[r], origin |-> r] :
        r \in {s \in loaded_rules[q] : /\ TagOf[s] \in loaded_tags[q]
                                       /\ loaded_conditions[q][s] \subseteq Holds}}

RunPipeline(q) ==
    /\ stage[q] = "pipeline"
    /\ \E results \in Answers(TaggingMode, RulesResults(q), loaded_tags[q]) :
        final_results' = [final_results EXCEPT ![q] = results]
    /\ GoTo(q, "save")
    /\ UNCHANGED <<tableVars, loadedVars, flushed, session_active, response, stored>>

(* A read that fails, or a pattern that does not compile: tag_note catches *)
(* the exception.  Nothing has been written yet.                           *)
FailEarly(q) ==
    /\ stage[q] \in {"new", "read_rules", "read_conditions", "pipeline"}
    /\ GoTo(q, "failed")
    /\ UNCHANGED <<tableVars, loadedVars, final_results, flushed, session_active, response, stored>>

-----------------------------------------------------------------------------
(* Saving the results, one flush each *)

SaveResult(q) ==
    /\ stage[q] = "save"
    /\ \E x \in final_results[q] \ flushed[q] :
        flushed' = [flushed EXCEPT ![q] = @ \cup {x}]
    /\ UNCHANGED <<tableVars, stage, loadedVars, final_results, session_active, response, stored>>

(* A mutant: the failure is confined to the one INSERT (a savepoint). *)
MutSaveFails(q) ==
    /\ stage[q] = "save"
    /\ final_results[q] \ flushed[q] # {}
    /\ GoTo(q, "failed")
    /\ UNCHANGED <<tableVars, loadedVars, final_results, flushed, session_active, response, stored>>

(* A flush that fails (a connection lost, a note_id of more than 36        *)
(* characters) rolls the transaction back and deactivates the session.     *)
SaveFails(q) ==
    /\ stage[q] = "save"
    /\ final_results[q] \ flushed[q] # {}
    /\ flushed' = [flushed EXCEPT ![q] = {}]
    /\ session_active' = [session_active EXCEPT ![q] = FALSE]
    /\ GoTo(q, "failed")
    /\ UNCHANGED <<tableVars, loadedVars, final_results, response, stored>>

-----------------------------------------------------------------------------
(* The response, and then the commit *)

MutRespond(q) ==  \* a mutant: the exception is not caught, and no answer is sent
    /\ stage[q] = "save" /\ flushed[q] = final_results[q]
    /\ response' = [response EXCEPT ![q] = final_results[q]]
    /\ GoTo(q, "commit")
    /\ UNCHANGED <<tableVars, loadedVars, final_results, flushed, session_active, stored>>

Respond(q) ==
    /\ \/ /\ stage[q] = "save" /\ flushed[q] = final_results[q]
          /\ response' = [response EXCEPT ![q] = final_results[q]]
       \/ /\ stage[q] \in {"starved", "failed"}
          /\ response' = [response EXCEPT ![q] = {}]
    /\ GoTo(q, "commit")
    /\ UNCHANGED <<tableVars, loadedVars, final_results, flushed, session_active, stored>>

Commit(q) ==
    /\ stage[q] = "commit"
    /\ session_active[q]
    /\ stored' = [stored EXCEPT ![q] = flushed[q]]
    /\ GoTo(q, "done")
    /\ UNCHANGED <<tableVars, loadedVars, final_results, flushed, session_active, response>>

(* commit() raises, on a deactivated session or because the database does  *)
(* not take the commit; the client has its response already.               *)
CommitFails(q) ==
    /\ stage[q] = "commit"
    /\ GoTo(q, "done")
    /\ UNCHANGED <<tableVars, loadedVars, final_results, flushed, session_active, response, stored>>

(* The process dies: the database rolls the transaction back. *)
Crash(q) ==
    /\ stage[q] # "done"
    /\ GoTo(q, "done")
    /\ UNCHANGED <<tableVars, loadedVars, final_results, flushed, session_active, response, stored>>

-----------------------------------------------------------------------------
Step(q) ==
    \/ ReadTags(q) \/ ReadRules(q) \/ ReadConditions(q)
    \/ RunPipeline(q) \/ FailEarly(q)
    \/ SaveResult(q) \/ SaveFails(q)
    \/ Respond(q) \/ Commit(q) \/ CommitFails(q)

Next ==
    \/ TableNext /\ UNCHANGED sessionVars
    \/ \E q \in Requests : Step(q) \/ Crash(q)

Spec == Init /\ [][Next]_vars

(* The server runs the steps of the requests it has begun. *)
FairSpec == Spec /\ \A q \in Requests : WF_vars(stage[q] # "new" /\ Step(q))

-----------------------------------------------------------------------------
TypeOK ==
    /\ TableOK
    /\ stage \in [Requests -> Stages]
    /\ loaded_tags \in [Requests -> SUBSET TagIds]
    /\ loaded_rules \in [Requests -> SUBSET RuleIds]
    /\ loaded_conditions \in [Requests -> [RuleIds -> SUBSET Conditions]]
    /\ final_results \in [Requests -> SUBSET Results]
    /\ flushed \in [Requests -> SUBSET Results]
    /\ session_active \in [Requests -> BOOLEAN]
    /\ response \in [Requests -> {NoResponse} \cup SUBSET Results]
    /\ stored \in [Requests -> SUBSET Results]

(* What a request has stored is nothing or exactly its answer.  A request  *)
(* that answered [] after a failed INSERT has not kept the results it had  *)
(* inserted before.                                                        *)
AllOrNothing ==
    \A q \in Requests : stored[q] # {} => stored[q] = response[q]

(* No rule contributes to an answer without conditions of its own that     *)
(* hold: in particular a rule deleted while it was being loaded does not   *)
(* match every note, as an empty list of conditions would.                 *)
NoVacuousRule ==
    \A q \in Requests : \A x \in final_results[q] :
        x.origin # "llm" =>
            /\ loaded_conditions[q][x.origin] # {}
            /\ loaded_conditions[q][x.origin] \subseteq Holds

(* A request answers [] for want of the conditions of an enabled rule only *)
(* if one of the rules it loaded has been deleted: no update of a rule     *)
(* ever shows a reader a rule without conditions.                          *)
OnlyDeleteStarves ==
    \A q \in Requests :
        stage[q] = "starved" => \E r \in loaded_rules[q] : rules[r] = Deleted

(* A request that has begun comes to its end. *)
RequestEnds == \A q \in Requests : stage[q] = "read_rules" ~> stage[q] = "done"

(* Every behaviour of the requests is one of the promise. *)
Promise == INSTANCE AtomicTagging
ImplementsPromise == Promise!Spec

-----------------------------------------------------------------------------
(* What the docs say and the code does not do. *)

(* "4. Results persisted to tag_results table  5. Response returned"       *)
(* (README.md): a request that was answered and is over has its results.   *)
AnswerIsStored ==
    \A q \in Requests :
        stage[q] = "done" /\ response[q] # NoResponse => stored[q] = response[q]
=============================================================================

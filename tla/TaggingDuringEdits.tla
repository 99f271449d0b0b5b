------------------------- MODULE TaggingDuringEdits -------------------------
(***************************************************************************)
(* POST /tag while PUT and DELETE /rules/{id} are carried out: the         *)
(* requests of TagSession read the very tables that the transactions of    *)
(* RuleStore write, statement by statement.  The two meet in what is       *)
(* committed and nowhere else: a reader takes no lock and waits for none,  *)
(* and no editor looks at a request.                                       *)
(***************************************************************************)
EXTENDS RuleStore

CONSTANTS
    TaggingMode,
    Requests,    \* the tagging requests
    Holds,       \* the conditions that hold for the notes
    NoResponse

VARIABLES
    progress,   \* the stage of TagSession
    loaded_tags, loaded_rules, loaded_conditions,
    final_results, flushed, session_active, response, stored

sessionVars == <<progress, loaded_tags, loaded_rules, loaded_conditions, final_results, flushed,
                 session_active, response, stored>>
liveVars == <<vars, sessionVars>>

(* The requests, over the rule that the editors edit and its tag. *)
Session == INSTANCE TagSession WITH
    TagIds <- {"tag"}, RuleIds <- {"rule"}, TagOf <- [r \in {"rule"} |-> "tag"],
    Conditions <- CondIds, tags <- {"tag"}, active_tags <- {"tag"},
    rules <- [r \in {"rule"} |->
                IF exists THEN [is_enabled |-> is_enabled, conditions |-> conditions] ELSE Deleted],
    stage <- progress

ASSUME LiveAssumption == \A results \in SUBSET Session!Results : NoResponse # results

LiveInit == Init /\ Session!Init

EditorStep == Next /\ UNCHANGED sessionVars

RequestStep(q) == UNCHANGED vars /\ (Session!Step(q) \/ Session!Crash(q))

LiveNext == EditorStep \/ \E q \in Requests : RequestStep(q)

LiveSpec == LiveInit /\ [][LiveNext]_liveVars

-----------------------------------------------------------------------------
(* To a request the editors are a RuleTable: it cannot tell their          *)
(* statements from edits of one step each, whatever is open when it reads. *)
ImplementsSession == Session!Spec

(* A request answers [] for want of the conditions of an enabled rule only *)
(* if a DELETE of that rule has committed: no PUT, in whatever state of    *)
(* its two flushes, and no editor that fails or waits, does that to it.    *)
OnlyCommittedDeleteStarves ==
    \A q \in Requests :
        progress[q] = "starved" =>
            \E e \in Editors : request[e].op = "delete" /\ stage[e] = "committed"
=============================================================================

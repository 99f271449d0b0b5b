------------------------------ MODULE Pipeline ------------------------------
(***************************************************************************)
(* The LangGraph pipeline that tags one note (application/pipeline.py):    *)
(* run_rules, run_llm and merge, with the routing of should_run_rules and  *)
(* should_run_llm between them.  The language model is awaited: between    *)
(* the call and the reply the pipeline is suspended, with no bound on how  *)
(* long.                                                                   *)
(***************************************************************************)
EXTENDS LLMChain, NoteAnswers

CONSTANTS
    TagIds,      \* the tags of the taxonomy
    TagLoads,    \* the sets of active tags the orchestrator may load
    RuleLoads,   \* the lists of rules it may load, in priority order
    Texts,       \* the notes: sets of condition values
    Replies,     \* the replies of the language model
    ForeignLists \* the lists of results an injected chain of a test returns

(* A result, from either source (domain/tag_result.py).  Its reasoning is  *)
(* the name of the rule that matched, or where the LLM's comes from.       *)
Reasons == STRING \cup {"stated", "default"}
Result == [tag : TagIds, confidence : Confidences, source : {"rules", "llm"},
           reasoning : Reasons]

ASSUME LoadsAssumption ==
    /\ TagLoads \subseteq SUBSET TagIds
    /\ TagIds \subseteq STRING
    /\ RuleLoads \subseteq Seq(Rule(TagIds))

ASSUME LLMAssumption ==
    /\ \A reply \in Replies : reply \in Reply /\ (reply.kind # "items" => reply.items = <<>>)
    /\ \A list \in ForeignLists :
        /\ list \in Seq(Result)
        /\ \A i \in DOMAIN list : list[i].source = "llm" /\ ValidConfidence(list[i].confidence)

VARIABLES
    tagging_mode,   \* the settings' TaggingMode
    llm_chain,      \* which chain is injected: "none", "LLMChain" or "foreign"
    tags, rules,    \* the taxonomy the orchestrator loaded
    text,           \* the note
    node,           \* the node that runs next, or how the run ended
    rules_results,
    llm_results,
    final_results,
    error           \* whether run_llm_node recorded an error

inputs == <<tagging_mode, llm_chain, tags, rules, text>>
vars == <<inputs, node, rules_results, llm_results, final_results, error>>

ShouldRunRules(mode) == IF mode = "llm_only" THEN "run_llm" ELSE "run_rules"
ShouldRunLLM(mode) == IF mode = "rules_only" THEN "merge" ELSE "run_llm"

Init ==
    /\ tagging_mode \in TaggingModes
    /\ llm_chain \in {"none", "LLMChain", "foreign"}
    /\ tags \in TagLoads
    /\ rules \in RuleLoads
    /\ text \in Texts
    /\ node = ShouldRunRules(tagging_mode)
    /\ rules_results = <<>>
    /\ llm_results = <<>>
    /\ final_results = <<>>
    /\ error = FALSE

-----------------------------------------------------------------------------
(* run_rules_node *)

RunRules ==
    /\ node = "run_rules"
    /\ ~EvaluationRaises(tags, rules, text)
    /\ rules_results' \in Evaluate(tags, rules, text)
    /\ node' = ShouldRunLLM(tagging_mode)
    /\ UNCHANGED <<inputs, llm_results, final_results, error>>

(* Nothing in the node or the graph catches what the engine raises: it     *)
(* leaves ainvoke, and there is no final result.                           *)
RulesRaise ==
    /\ node = "run_rules"
    /\ EvaluationRaises(tags, rules, text)
    /\ node' = "raised"
    /\ UNCHANGED <<inputs, rules_results, llm_results, final_results, error>>

-----------------------------------------------------------------------------
(* run_llm_node and LLMChain.run *)

(* A mutant: a missing chain is not skipped. *)
MutSkipLLM ==
    /\ node = "run_llm"
    /\ llm_chain = "LLMChain" /\ tags = {}
    /\ node' = "merge"
    /\ UNCHANGED <<inputs, rules_results, llm_results, final_results, error>>

SkipLLM ==
    /\ node = "run_llm"
    /\ \/ llm_chain = "none"
       \/ llm_chain = "LLMChain" /\ tags = {}
    /\ node' = "merge"
    /\ UNCHANGED <<inputs, rules_results, llm_results, final_results, error>>

CallLLM ==
    /\ node = "run_llm"
    /\ llm_chain = "LLMChain" /\ tags # {}
    /\ node' = "await_llm"
    /\ UNCHANGED <<inputs, rules_results, llm_results, final_results, error>>

LLMReplies ==
    /\ node = "await_llm"
    /\ \E reply \in Replies : llm_results' \in ResultsOf(reply, tags)
    /\ node' = "merge"
    /\ UNCHANGED <<inputs, rules_results, final_results, error>>

(* A chain injected by a test: it filters nothing, and it may raise. *)
ForeignChain ==
    /\ node = "run_llm"
    /\ llm_chain = "foreign"
    /\ \/ llm_results' \in ForeignLists /\ UNCHANGED error
       \/ error' = TRUE /\ UNCHANGED llm_results
    /\ node' = "merge"
    /\ UNCHANGED <<inputs, rules_results, final_results>>

-----------------------------------------------------------------------------
(* merge_results_node *)

TagsOf(results) == {results[i].tag : i \in DOMAIN results}

(* Mutants: the merge trusts the chain to have filtered; it forgets that   *)
(* the rules win; it drops a confidence equal to the threshold; it drops   *)
(* what is less than the threshold, and NaN is not; its sort is not stable.*)
MutKeptTrusting(from_rules, all) ==
    {i \in DOMAIN all : i <= Len(from_rules) \/ all[i].tag \notin TagsOf(from_rules)}

MutKeptBoth(from_rules, all) ==
    {i \in DOMAIN all :
        \/ i <= Len(from_rules)
        \/ all[i].confidence = Threshold \/ Lt(Threshold, all[i].confidence)}

MutKeptAbove(from_rules, all) ==
    {i \in DOMAIN all :
        \/ i <= Len(from_rules)
        \/ /\ all[i].tag \notin TagsOf(from_rules)
           /\ Lt(Threshold, all[i].confidence)}

MutKeptNotLess(from_rules, all) ==
    {i \in DOMAIN all :
        \/ i <= Len(from_rules)
        \/ /\ all[i].tag \notin TagsOf(from_rules)
           /\ ~Lt(all[i].confidence, Threshold)}

MutSortsBefore(all, i, j) == ~Lt(all[i].confidence, all[j].confidence)

(* Where the loop keeps a result of rules_results \o llm_results: every    *)
(* one of the rules, and one of the LLM if no rule covers its tag and its  *)
(* confidence is at least the threshold, which NaN never is.               *)
Kept(from_rules, all) ==
    {i \in DOMAIN all :
        \/ i <= Len(from_rules)
        \/ /\ all[i].tag \notin TagsOf(from_rules)
           /\ all[i].confidence = Threshold \/ Lt(Threshold, all[i].confidence)}

(* list.sort is stable, with reverse=True as well. *)
SortsBefore(all, i, j) ==
    /\ ~Lt(all[i].confidence, all[j].confidence)
    /\ all[i].confidence = all[j].confidence => i < j

Merged(from_rules, from_llm) ==
    LET all == from_rules \o from_llm
    IN  {[k \in DOMAIN p |-> all[p[k]]] :
            p \in Listings(Kept(from_rules, all), LAMBDA i, j : SortsBefore(all, i, j))}

Merge ==
    /\ node = "merge"
    /\ final_results' \in Merged(rules_results, llm_results)
    /\ node' = "end"
    /\ UNCHANGED <<inputs, rules_results, llm_results, error>>

-----------------------------------------------------------------------------
LocalStep == RunRules \/ RulesRaise \/ SkipLLM \/ CallLLM \/ ForeignChain \/ Merge

Next == LocalStep \/ LLMReplies

Spec == Init /\ [][Next]_vars

(* The event loop runs every step that is ready.  That the provider        *)
(* answers every call sooner or later, if only by closing the connection,  *)
(* which ainvoke reports by raising, is an assumption: no timeout ends the *)
(* call.                                                                   *)
FairSpec == Spec /\ WF_vars(LocalStep) /\ WF_vars(LLMReplies)

-----------------------------------------------------------------------------
(* Every variable keeps to its type: in particular every result, from      *)
(* whichever source, names a tag of the taxonomy.                          *)
TypeOK ==
    /\ tagging_mode \in TaggingModes
    /\ llm_chain \in {"none", "LLMChain", "foreign"}
    /\ tags \in SUBSET TagIds
    /\ rules \in RuleLoads
    /\ text \in Texts
    /\ node \in {"run_rules", "run_llm", "await_llm", "merge", "end", "raised"}
    /\ rules_results \in Seq(Result)
    /\ llm_results \in Seq(Result)
    /\ final_results \in Seq(Result)
    /\ error \in BOOLEAN

(* The rules a reader of the domain models expects to apply: enabled, of a *)
(* loaded tag, every condition satisfied.                                  *)
Satisfied(condition) ==
    LET occurring == {condition.values[i] : i \in DOMAIN condition.values} \cap text
    IN  CASE condition.condition_type = "keyword_none" -> occurring = {}
          [] condition.condition_type = "regex"        -> occurring \ Malformed # {}
          [] OTHER                                     -> occurring # {}

Applicable ==
    {i \in DOMAIN rules :
        /\ rules[i].is_enabled
        /\ rules[i].tag_id \in tags
        /\ \A j \in DOMAIN rules[i].conditions : Satisfied(rules[i].conditions[j])}

(* The engine's results are the applicable rules' and no others, one per   *)
(* rule, in the order of the rules: short-circuit evaluation, an excluded  *)
(* keyword and a pattern after a failed condition change nothing.          *)
RulesExact ==
    node \notin {"run_rules", "raised"} /\ tagging_mode # "llm_only" =>
        /\ Len(rules_results) = Cardinality(Applicable)
        /\ \E at \in [DOMAIN rules_results -> DOMAIN rules] :
            /\ {at[k] : k \in DOMAIN at} = Applicable
            /\ \A j, k \in DOMAIN at : j < k => at[j] < at[k]
            /\ \A k \in DOMAIN at : /\ rules_results[k].tag = rules[at[k]].tag_id
                                    /\ rules_results[k].reasoning = rules[at[k]].name

(* Whatever the LLM does (no chain, a failure, any reply), the answer      *)
(* starts with the results of the rules, all of them, in their order.      *)
RulesLead ==
    node = "end" =>
        /\ Len(rules_results) <= Len(final_results)
        /\ \A k \in DOMAIN rules_results : final_results[k] = rules_results[k]

(* A tag the rules found is never reported on the word of the LLM as well. *)
NoSourceConflict ==
    node = "end" =>
        \A i, j \in DOMAIN final_results :
            final_results[i].tag = final_results[j].tag
                => final_results[i].source = final_results[j].source

(* A result of the LLM is in the answer only with a confidence in the band *)
(* between the threshold and 1.0.  NaN passes the chain's filter and the   *)
(* validator of TagResult, and must still not get through.                 *)
LLMInBand ==
    node = "end" =>
        \A i \in DOMAIN final_results :
            final_results[i].source = "llm" =>
                /\ final_results[i].confidence \in Int
                /\ Threshold <= final_results[i].confidence
                /\ final_results[i].confidence <= MaxConf

(* The order of the answer is decided by what the two sources returned:    *)
(* the merge has dropped whatever the sort could not compare, so there is  *)
(* one sorted list and list.sort finds it, however it goes about it.       *)
OrderDecided ==
    node = "merge" =>
        \E answer \in Merged(rules_results, llm_results) :
            \A other \in Merged(rules_results, llm_results) : other = answer

(* The merge drops no result of the LLM it has no reason to drop.          *)
LLMComplete ==
    node = "end" =>
        \A i \in DOMAIN llm_results :
            \/ llm_results[i].tag \in TagsOf(rules_results)
            \/ llm_results[i].confidence = NaN
            \/ Lt(llm_results[i].confidence, Threshold)
            \/ \E k \in DOMAIN final_results : final_results[k] = llm_results[i]

(* With the service's own chain every tag of the answer is an active tag   *)
(* that was loaded: neither a hallucinated slug nor a rule of a tag that   *)
(* is no longer active puts another in.                                    *)
LoadedTagsOnly ==
    llm_chain # "foreign" => TagsOf(final_results) \subseteq tags

(* A run ends without an answer only because an enabled rule of a loaded   *)
(* tag holds a pattern re cannot compile: nothing of the LLM's does it.    *)
RaisesOnlyOnPattern ==
    node = "raised" =>
        \E i \in DOMAIN rules :
            /\ Considered(rules[i], tags)
            /\ \E j \in DOMAIN rules[i].conditions :
                LET condition == rules[i].conditions[j]
                IN  /\ condition.condition_type = "regex"
                    /\ \E v \in DOMAIN condition.values : condition.values[v] \in Malformed

(* The mode decides which sources an answer has, and whether the model is  *)
(* ever called.                                                            *)
ModeRespected ==
    /\ tagging_mode = "rules_only" => node # "await_llm" /\ llm_results = <<>>
    /\ tagging_mode = "llm_only" => rules_results = <<>> /\ node # "raised"

(* The rules that apply, the tags the LLM may find (a chain that a test    *)
(* injects may find any), what can be seen of a run, and of its answer.    *)
ApplicableRules == {[tag |-> rules[i].tag_id, origin |-> rules[i].name] : i \in Applicable}

Findable == IF llm_chain = "foreign" THEN TagIds ELSE tags

RunStatus ==
    IF node = "end" THEN "answered" ELSE IF node = "raised" THEN "raised" ELSE "running"

Origin(result) ==
    [tag |-> result.tag, origin |-> IF result.source = "rules" THEN result.reasoning ELSE "llm"]

Answer == {Origin(final_results[i]) : i \in DOMAIN final_results}

(* The orchestrator sees no more of a run than NoteTagging promises: the   *)
(* nodes, the reply of the model and its order make no difference to it.   *)
Note == INSTANCE NoteTagging WITH
    mode <- tagging_mode, applicable <- ApplicableRules, loaded <- Findable,
    status <- RunStatus, answer <- Answer
ImplementsNoteTagging == Note!Spec

(* Every run ends, with an answer or with the exception of a pattern.      *)
Terminates == <>(node \in {"end", "raised"})

=============================================================================

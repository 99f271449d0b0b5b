-------------------------- MODULE TagSessionProofs --------------------------
(***************************************************************************)
(* Proofs about TagSession, for any number of requests, rules, tags and    *)
(* conditions, whatever edits of the taxonomy, failures and crashes come   *)
(* between two of a request's steps.                                       *)
(***************************************************************************)
EXTENDS TagSession, TLAPS

(* The table keeps to its promise: a live rule has conditions and a tag. *)
LEMMA TableInvariant == TableOK /\ [TableNext]_tableVars => TableOK'
<1> SUFFICES ASSUME TableOK, [TableNext]_tableVars PROVE TableOK'
    OBVIOUS
<1> USE TagOfAssumption, MarkersAssumption DEF TableOK, Live
<1>1. ASSUME NEW t \in TagIds, CreateTag(t) PROVE TableOK'
    BY <1>1 DEF CreateTag
<1>2. ASSUME NEW r \in RuleIds, CreateRule(r) PROVE TableOK'
    BY <1>2 DEF CreateRule
<1>3. ASSUME NEW r \in RuleIds, UpdateRule(r) PROVE TableOK'
    BY <1>3 DEF UpdateRule
<1>4. ASSUME NEW r \in RuleIds, DeleteRule(r) PROVE TableOK'
    BY <1>4 DEF DeleteRule
<1>5. CASE UNCHANGED tableVars
    BY <1>5 DEF tableVars
<1> QED BY <1>1, <1>2, <1>3, <1>4, <1>5 DEF TableNext

(* A deleted rule stays deleted, and no rule's id becomes unused again. *)
LEMMA IdsNotReused ==
    ASSUME TableOK, [TableNext]_tableVars, NEW r \in RuleIds
    PROVE  /\ rules[r] = Deleted => rules'[r] = Deleted
           /\ rules[r] # Unused => rules'[r] # Unused
BY MarkersAssumption
   DEF TableOK, TableNext, tableVars, CreateTag, CreateRule, UpdateRule, DeleteRule, Live

(* The committed taxonomy never shows a rule without conditions. *)
THEOREM TableCorrect == TableSpec => []TableOK
<1>1. TableInit => TableOK
    BY DEF TableInit, TableOK
<1> QED BY <1>1, TableInvariant, PTL DEF TableSpec

-----------------------------------------------------------------------------
(* What is known of a request at each stage. *)

Loading == {"new", "read_rules", "read_conditions", "pipeline"}

Answered(q) ==
    /\ stage[q] \in Loading \cup {"save", "starved", "failed"}
        => response[q] = NoResponse /\ stored[q] = {}
    /\ stage[q] = "commit" =>
        /\ response[q] # NoResponse /\ stored[q] = {}
        /\ flushed[q] # {} => flushed[q] = response[q]
    /\ stored[q] # {} => stored[q] = response[q]

Pending(q) ==
    /\ stage[q] \in Loading \cup {"starved"} => final_results[q] = {}
    /\ stage[q] \in Loading \cup {"starved", "failed"} => flushed[q] = {}
    /\ flushed[q] \subseteq final_results[q]

Loaded(q) ==
    /\ \A r \in loaded_rules[q] : rules[r] # Unused
    /\ stage[q] = "pipeline" => \A r \in loaded_rules[q] : loaded_conditions[q][r] # {}
    /\ stage[q] = "starved" => \E r \in loaded_rules[q] : rules[r] = Deleted
    /\ \A x \in final_results[q] :
        x.origin # "llm" => /\ loaded_conditions[q][x.origin] # {}
                            /\ loaded_conditions[q][x.origin] \subseteq Holds

IInv == TypeOK /\ \A q \in Requests : Answered(q) /\ Pending(q) /\ Loaded(q)

(* Nothing is answered, stored or loaded at first. *)
LEMMA InitIInv == Init => IInv
<1> SUFFICES ASSUME Init PROVE IInv
    OBVIOUS
<1>1. TypeOK
    BY DEF Init, TableInit, TypeOK, TableOK, Stages
<1>2. \A q \in Requests : Answered(q) /\ Pending(q) /\ Loaded(q)
    BY DEF Init, Answered, Pending, Loaded, Loading
<1> QED BY <1>1, <1>2 DEF IInv

(* Whatever the mode, an answer is a set of results: those of rules that   *)
(* apply, and those of the LLM, of tags that were loaded.                  *)
LEMMA AnswerContents ==
    ASSUME NEW mode, NEW applicable, NEW loaded, NEW results \in Answers(mode, applicable, loaded)
    PROVE  \A x \in results : x \in applicable \/ x \in [tag : loaded, origin : {"llm"}]
BY DEF Answers

(* The results of the pipeline are results, and none is vacuous. *)
LEMMA PipelineResults ==
    ASSUME IInv, NEW q \in Requests, stage[q] = "pipeline",
           NEW results \in Answers(TaggingMode, RulesResults(q), loaded_tags[q])
    PROVE  /\ results \in SUBSET Results
           /\ \A x \in results : x.origin # "llm" =>
                /\ loaded_conditions[q][x.origin] # {}
                /\ loaded_conditions[q][x.origin] \subseteq Holds
<1>1. loaded_tags[q] \in SUBSET TagIds /\ loaded_rules[q] \in SUBSET RuleIds
    BY DEF IInv, TypeOK
<1>2. RulesResults(q) \in SUBSET Results
    BY <1>1, TagOfAssumption DEF RulesResults, Results, Origins
<1>3. \A x \in [tag : loaded_tags[q], origin : {"llm"}] : x \in Results /\ x.origin = "llm"
    BY <1>1 DEF Results, Origins
<1>4. \A x \in RulesResults(q) : x.origin \in loaded_rules[q]
                                 /\ loaded_conditions[q][x.origin] \subseteq Holds
    BY DEF RulesResults
<1>5. \A r \in loaded_rules[q] : loaded_conditions[q][r] # {}
    BY DEF IInv, Loaded
<1> QED BY <1>2, <1>3, <1>4, <1>5, AnswerContents

(* No step of a request touches the taxonomy, nor another request. *)
Others(q) == \A p \in Requests \ {q} :
    /\ stage'[p] = stage[p] /\ loaded_rules'[p] = loaded_rules[p]
    /\ loaded_conditions'[p] = loaded_conditions[p]
    /\ final_results'[p] = final_results[p] /\ flushed'[p] = flushed[p]
    /\ response'[p] = response[p] /\ stored'[p] = stored[p]

(* A step of a request preserves the invariant. *)
LEMMA StepIInv ==
    ASSUME IInv, NEW q \in Requests, Step(q) \/ Crash(q)
    PROVE  IInv'
<1> USE DEF GoTo, loadedVars, tableVars
<1>a. TypeOK /\ TableOK /\ Answered(q) /\ Pending(q) /\ Loaded(q)
    BY DEF IInv, TypeOK
<1>b. ASSUME UNCHANGED tableVars PROVE TableOK'
    BY <1>a, <1>b DEF TableOK, Live
<1>c. ASSUME UNCHANGED tableVars, Others(q),
             TypeOK', Answered(q)', Pending(q)', Loaded(q)'
      PROVE  IInv'
    <2> SUFFICES ASSUME NEW p \in Requests, p # q
                 PROVE  Answered(p)' /\ Pending(p)' /\ Loaded(p)'
        BY <1>c DEF IInv
    <2>1. Answered(p) /\ Pending(p) /\ Loaded(p)
        BY DEF IInv
    <2> QED BY <1>c, <2>1 DEF Others, Answered, Pending, Loaded
<1>1. CASE ReadTags(q)
    <2>1. UNCHANGED tableVars /\ Others(q)
        BY <1>1, <1>a DEF ReadTags, TypeOK, Others
    <2>2. TypeOK'
        BY <1>1, <1>a, <1>b DEF ReadTags, TypeOK, Stages, TableOK
    <2>3. Answered(q)' /\ Pending(q)' /\ Loaded(q)'
        BY <1>1, <1>a DEF ReadTags, Answered, Pending, Loaded, Loading, TypeOK
    <2> QED BY <1>c, <2>1, <2>2, <2>3
<1>2. CASE ReadRules(q)
    <2>1. UNCHANGED tableVars /\ Others(q)
        BY <1>2, <1>a DEF ReadRules, TypeOK, Others
    <2>2. TypeOK'
        BY <1>2, <1>a, <1>b DEF ReadRules, TypeOK, Stages
    <2>3. Answered(q)' /\ Pending(q)' /\ Loaded(q)'
        BY <1>2, <1>a DEF ReadRules, Answered, Pending, Loaded, Loading, TypeOK, Live
    <2> QED BY <1>c, <2>1, <2>2, <2>3
<1>3. CASE ReadConditions(q)
    <2>a. \A r \in RuleIds : Found(r) \in SUBSET Conditions
        BY <1>a DEF Found, Live, TableOK, Row
    <2>b. \A r \in RuleIds : Found(r) = {} <=> ~ Live(r)
        BY <1>a DEF Found, Live, TableOK, Row
    <2>1. UNCHANGED tableVars /\ Others(q)
        BY <1>3, <1>a DEF ReadConditions, TypeOK, Others
    <2>2. TypeOK'
        BY <1>3, <1>a, <1>b, <2>a DEF ReadConditions, TypeOK, Stages
    <2>3. Answered(q)' /\ Pending(q)'
        BY <1>3, <1>a DEF ReadConditions, Answered, Pending, Loading, TypeOK
    <2>c. /\ loaded_rules[q] \in SUBSET RuleIds
          /\ UNCHANGED <<loaded_rules, rules, final_results>>
          /\ final_results[q] = {}
          /\ \A r \in loaded_rules[q] : loaded_conditions'[q][r] = Found(r)
        BY <1>3, <1>a DEF ReadConditions, Pending, Loading, TypeOK
    <2>4. Loaded(q)'
        <3>1. CASE \E r \in loaded_rules[q] : Found(r) = {}
            <4>1. stage'[q] = "starved"
                BY <1>3, <1>a, <3>1 DEF ReadConditions, TypeOK
            <4>2. PICK r \in loaded_rules[q] : Found(r) = {}
                BY <3>1
            <4>3. rules[r] = Deleted
                BY <1>a, <2>b, <2>c, <4>2 DEF Loaded, Live
            <4> QED BY <1>a, <2>c, <4>1, <4>3 DEF Loaded
        <3>2. CASE \A r \in loaded_rules[q] : Found(r) # {}
            <4>1. stage'[q] = "pipeline"
                BY <1>3, <1>a, <3>2 DEF ReadConditions, TypeOK
            <4> QED BY <1>a, <2>c, <3>2, <4>1 DEF Loaded
        <3> QED BY <3>1, <3>2
    <2> QED BY <1>c, <2>1, <2>2, <2>3, <2>4
<1>4. CASE RunPipeline(q)
    <2> stage[q] = "pipeline"
        BY <1>4 DEF RunPipeline
    <2>a. PICK results \in Answers(TaggingMode, RulesResults(q), loaded_tags[q]) :
            final_results' = [final_results EXCEPT ![q] = results]
        BY <1>4 DEF RunPipeline
    <2>b. /\ final_results'[q] \in SUBSET Results
          /\ \A x \in final_results'[q] : x.origin # "llm" =>
                /\ loaded_conditions[q][x.origin] # {}
                /\ loaded_conditions[q][x.origin] \subseteq Holds
        BY <1>a, <2>a, PipelineResults DEF TypeOK
    <2>1. UNCHANGED tableVars /\ Others(q)
        BY <1>4, <1>a DEF RunPipeline, TypeOK, Others
    <2>2. TypeOK'
        BY <1>4, <1>a, <1>b, <2>a, <2>b DEF RunPipeline, TypeOK, Stages
    <2>3. Answered(q)' /\ Pending(q)' /\ Loaded(q)'
        BY <1>4, <1>a, <2>b DEF RunPipeline, Answered, Pending, Loaded, Loading, TypeOK
    <2> QED BY <1>c, <2>1, <2>2, <2>3
<1>5. CASE FailEarly(q)
    <2>1. UNCHANGED tableVars /\ Others(q)
        BY <1>5, <1>a DEF FailEarly, TypeOK, Others
    <2>2. TypeOK'
        BY <1>5, <1>a, <1>b DEF FailEarly, TypeOK, Stages
    <2>3. Answered(q)' /\ Pending(q)' /\ Loaded(q)'
        BY <1>5, <1>a DEF FailEarly, Answered, Pending, Loaded, Loading, TypeOK
    <2> QED BY <1>c, <2>1, <2>2, <2>3
<1>6. CASE SaveResult(q)
    <2>1. UNCHANGED tableVars /\ Others(q)
        BY <1>6, <1>a DEF SaveResult, TypeOK, Others
    <2>2. TypeOK'
        BY <1>6, <1>a, <1>b DEF SaveResult, TypeOK, Stages
    <2>3. Answered(q)' /\ Pending(q)' /\ Loaded(q)'
        BY <1>6, <1>a DEF SaveResult, Answered, Pending, Loaded, Loading, TypeOK
    <2> QED BY <1>c, <2>1, <2>2, <2>3
<1>7. CASE SaveFails(q)
    <2>1. UNCHANGED tableVars /\ Others(q)
        BY <1>7, <1>a DEF SaveFails, TypeOK, Others
    <2>2. TypeOK'
        BY <1>7, <1>a, <1>b DEF SaveFails, TypeOK, Stages
    <2>3. Answered(q)' /\ Pending(q)' /\ Loaded(q)'
        BY <1>7, <1>a DEF SaveFails, Answered, Pending, Loaded, Loading, TypeOK
    <2> QED BY <1>c, <2>1, <2>2, <2>3
<1>8. CASE Respond(q)
    <2>1. UNCHANGED tableVars /\ Others(q)
        BY <1>8, <1>a DEF Respond, TypeOK, Others
    <2>2. TypeOK'
        BY <1>8, <1>a, <1>b DEF Respond, TypeOK, Stages
    <2>3. Answered(q)' /\ Pending(q)' /\ Loaded(q)'
        BY <1>8, <1>a, RequestsAssumption DEF Respond, Answered, Pending, Loaded, Loading, TypeOK
    <2> QED BY <1>c, <2>1, <2>2, <2>3
<1>9. CASE Commit(q)
    <2>1. UNCHANGED tableVars /\ Others(q)
        BY <1>9, <1>a DEF Commit, TypeOK, Others
    <2>2. TypeOK'
        BY <1>9, <1>a, <1>b DEF Commit, TypeOK, Stages
    <2>3. Answered(q)' /\ Pending(q)' /\ Loaded(q)'
        BY <1>9, <1>a DEF Commit, Answered, Pending, Loaded, Loading, TypeOK
    <2> QED BY <1>c, <2>1, <2>2, <2>3
<1>10. CASE CommitFails(q) \/ Crash(q)
    <2>1. UNCHANGED tableVars /\ Others(q)
        BY <1>10, <1>a DEF CommitFails, Crash, TypeOK, Others
    <2>2. TypeOK'
        BY <1>10, <1>a, <1>b DEF CommitFails, Crash, TypeOK, Stages
    <2>3. Answered(q)' /\ Pending(q)' /\ Loaded(q)'
        BY <1>10, <1>a DEF CommitFails, Crash, Answered, Pending, Loaded, Loading, TypeOK
    <2> QED BY <1>c, <2>1, <2>2, <2>3
<1> QED BY <1>1, <1>2, <1>3, <1>4, <1>5, <1>6, <1>7, <1>8, <1>9, <1>10 DEF Step

(* An edit of the taxonomy preserves the invariant as well. *)
LEMMA EditIInv ==
    ASSUME IInv, TableNext, UNCHANGED sessionVars
    PROVE  IInv'
<1>1. TypeOK'
    BY TableInvariant DEF IInv, TypeOK, sessionVars, loadedVars
<1> SUFFICES ASSUME NEW q \in Requests
             PROVE  Answered(q)' /\ Pending(q)' /\ Loaded(q)'
    BY <1>1 DEF IInv
<1>2. TypeOK /\ TableOK /\ Answered(q) /\ Pending(q) /\ Loaded(q)
    BY DEF IInv, TypeOK
<1>3. Answered(q)' /\ Pending(q)'
    BY <1>2 DEF Answered, Pending, sessionVars, loadedVars
<1>4. \A r \in loaded_rules[q] : /\ rules[r] = Deleted => rules'[r] = Deleted
                                 /\ rules[r] # Unused => rules'[r] # Unused
    BY <1>2, IdsNotReused DEF TypeOK
<1>5. Loaded(q)'
    BY <1>2, <1>4 DEF Loaded, sessionVars, loadedVars
<1> QED BY <1>3, <1>5

(* So does every step. *)
LEMMA NextIInv == IInv /\ [Next]_vars => IInv'
<1> SUFFICES ASSUME IInv, [Next]_vars PROVE IInv'
    OBVIOUS
<1>1. CASE TableNext /\ UNCHANGED sessionVars
    BY <1>1, EditIInv
<1>2. ASSUME NEW q \in Requests, Step(q) \/ Crash(q) PROVE IInv'
    BY <1>2, StepIInv
<1>3. CASE UNCHANGED vars
    BY <1>3 DEF vars, tableVars, sessionVars, loadedVars, IInv, TypeOK, TableOK, Live,
                Answered, Pending, Loaded
<1> QED BY <1>1, <1>2, <1>3 DEF Next

(* The inductive invariant of a request, its session and the taxonomy. *)
THEOREM Inductive == Spec => []IInv
BY InitIInv, NextIInv, PTL DEF Spec

-----------------------------------------------------------------------------
(* Its parts. *)

(* Every variable keeps its type; the taxonomy never shows a rule without  *)
(* conditions, or one whose tag does not exist.                            *)
THEOREM TypeCorrect == Spec => []TypeOK
<1>1. IInv => TypeOK
    BY DEF IInv
<1> QED BY <1>1, Inductive, PTL

(* tag_results holds nothing of a request or exactly what it answered,     *)
(* whatever flush, commit or process failed.                               *)
THEOREM NothingOrAll == Spec => []AllOrNothing
<1>1. IInv => AllOrNothing
    BY DEF IInv, Answered, AllOrNothing
<1> QED BY <1>1, Inductive, PTL

(* A rule contributes to an answer only with conditions of its own that    *)
(* hold, although rules and conditions are read at two moments.            *)
THEOREM ConditionsDecide == Spec => []NoVacuousRule
<1>1. IInv => NoVacuousRule
    BY DEF IInv, Loaded, NoVacuousRule
<1> QED BY <1>1, Inductive, PTL

(* Only the deletion of a rule between the two reads loses a request its   *)
(* rules: an update never does.                                            *)
THEOREM UpdatesNeverStarve == Spec => []OnlyDeleteStarves
<1>1. IInv => OnlyDeleteStarves
    BY DEF IInv, Loaded, OnlyDeleteStarves
<1> QED BY <1>1, Inductive, PTL

-----------------------------------------------------------------------------
(* A session implements the promise of AtomicTagging. *)

(* Every step of a request, or of an editor, is a step of the promise or   *)
(* leaves the response and the stored results alone.                       *)
LEMMA StepRefines ==
    IInv /\ [Next]_vars => [Promise!Next]_<<response, stored>>
<1> SUFFICES ASSUME IInv, [Next]_vars, ~ UNCHANGED <<response, stored>>
             PROVE  Promise!Next
    OBVIOUS
<1>1. PICK q \in Requests : Step(q) \/ Crash(q)
    BY DEF Next, vars, sessionVars
<1>2. TypeOK /\ Answered(q) /\ Pending(q)
    BY DEF IInv
<1>3. CASE Respond(q)
    <2>1. response[q] = NoResponse
        BY <1>2, <1>3 DEF Respond, Answered
    <2>2. \E results \in SUBSET Results : response' = [response EXCEPT ![q] = results]
        BY <1>2, <1>3 DEF Respond, TypeOK
    <2>3. UNCHANGED stored
        BY <1>3 DEF Respond
    <2> QED BY <2>1, <2>2, <2>3 DEF Promise!Next, Promise!Answer
<1>4. CASE Commit(q)
    <2>1. response[q] # NoResponse /\ stored[q] = {}
        BY <1>4, <1>2 DEF Commit, Answered
    <2>2. flushed[q] # {}
        BY <1>4, <1>2, <2>1 DEF Commit, TypeOK
    <2>3. flushed[q] = response[q]
        BY <1>4, <1>2, <2>2 DEF Commit, Answered
    <2> QED BY <1>4, <2>1, <2>3 DEF Commit, Promise!Next, Promise!Store
<1> QED
    BY <1>1, <1>3, <1>4
       DEF Step, ReadTags, ReadRules, ReadConditions, RunPipeline, FailEarly, SaveResult,
           SaveFails, CommitFails, Crash

(* A request is answered once, and stores nothing or exactly its answer,   *)
(* all together: TagSession implements AtomicTagging.                      *)
THEOREM KeepsPromise == Spec => ImplementsPromise
<1>1. Init => Promise!Init
    BY DEF Init, Promise!Init
<1>2. IInv /\ [Next]_vars => [Promise!Next]_<<response, stored>>
    BY StepRefines
<1> QED BY <1>1, <1>2, Inductive, PTL DEF Spec, ImplementsPromise, Promise!Spec
=============================================================================

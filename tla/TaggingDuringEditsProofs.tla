---------------------- MODULE TaggingDuringEditsProofs ----------------------
(***************************************************************************)
(* Proofs about TaggingDuringEdits, for any number of requests, editors    *)
(* and conditions, whatever statements of theirs interleave: requests      *)
(* among the transactions of RuleStore are requests among the edits of     *)
(* RuleTable, so that what TagSessionProofs proves of these holds of       *)
(* those.                                                                  *)
(***************************************************************************)
EXTENDS TaggingDuringEdits, RuleStoreProofs

SP == INSTANCE TagSessionProofs WITH
    TagIds <- {"tag"}, RuleIds <- {"rule"}, TagOf <- [r \in {"rule"} |-> "tag"],
    Conditions <- CondIds, tags <- {"tag"}, active_tags <- {"tag"},
    rules <- [r \in {"rule"} |->
                IF exists THEN [is_enabled |-> is_enabled, conditions |-> conditions] ELSE Deleted],
    stage <- progress

(* What TagSession assumes of its constants. *)
LEMMA SessionAssumptions ==
    /\ [r \in {"rule"} |-> "tag"] \in [{"rule"} -> {"tag"}]
    /\ Unused \notin SP!Row /\ Deleted \notin SP!Row /\ Unused # Deleted
    /\ (\A results \in SUBSET SP!Results : NoResponse # results) /\ "llm" \notin {"rule"}
<1>1. SP!Results = Session!Results
    BY DEF SP!Results, Session!Results, SP!Origins, Session!Origins
<1> QED BY <1>1, LiveAssumption, MarkersAssumption DEF SP!Row, Loaded

(* To the editors the requests are not there. *)
LEMMA EditorsGoOn == LiveSpec => Spec
<1>1. LiveInit => Init
    BY DEF LiveInit
<1>2. [LiveNext]_liveVars => [Next]_vars
    BY DEF LiveNext, EditorStep, RequestStep, liveVars
<1> QED BY <1>1, <1>2, PTL DEF LiveSpec, Spec

(* The two instances of TagSession, the one of the specification and the   *)
(* one of its theorems, say the same.                                      *)
LEMMA SameTable == Session!TableNext <=> SP!TableNext
BY DEF Session!TableNext, SP!TableNext, Session!CreateTag, SP!CreateTag,
       Session!CreateRule, SP!CreateRule, Session!UpdateRule, SP!UpdateRule,
       Session!DeleteRule, SP!DeleteRule, Session!Row, SP!Row, Session!Live, SP!Live

LEMMA SameStep ==
    ASSUME NEW q \in Requests
    PROVE  Session!Step(q) \/ Session!Crash(q) <=> SP!Step(q) \/ SP!Crash(q)
<1> USE DEF Session!GoTo, SP!GoTo, Session!tableVars, SP!tableVars, Session!loadedVars, SP!loadedVars
<1>1. Session!ReadTags(q) <=> SP!ReadTags(q)
    BY DEF Session!ReadTags, SP!ReadTags
<1>2. Session!ReadRules(q) <=> SP!ReadRules(q)
    BY DEF Session!ReadRules, SP!ReadRules, Session!Live, SP!Live
<1>3. Session!ReadConditions(q) <=> SP!ReadConditions(q)
    BY DEF Session!ReadConditions, SP!ReadConditions, Session!Found, SP!Found, Session!Live, SP!Live
<1>4. Session!RunPipeline(q) <=> SP!RunPipeline(q)
    BY DEF Session!RunPipeline, SP!RunPipeline, Session!RulesResults, SP!RulesResults,
           Session!Answers, SP!Answers
<1>5. Session!FailEarly(q) <=> SP!FailEarly(q)
    BY DEF Session!FailEarly, SP!FailEarly
<1>6. Session!SaveResult(q) <=> SP!SaveResult(q)
    BY DEF Session!SaveResult, SP!SaveResult
<1>7. Session!SaveFails(q) <=> SP!SaveFails(q)
    BY DEF Session!SaveFails, SP!SaveFails
<1>8. Session!Respond(q) <=> SP!Respond(q)
    BY DEF Session!Respond, SP!Respond
<1>9. Session!Commit(q) <=> SP!Commit(q)
    BY DEF Session!Commit, SP!Commit
<1>10. Session!CommitFails(q) <=> SP!CommitFails(q)
    BY DEF Session!CommitFails, SP!CommitFails
<1>11. Session!Crash(q) <=> SP!Crash(q)
    BY DEF Session!Crash, SP!Crash
<1> QED BY <1>1, <1>2, <1>3, <1>4, <1>5, <1>6, <1>7, <1>8, <1>9, <1>10, <1>11
       DEF Session!Step, SP!Step

(* Between the specifications. *)
LEMMA SameSpec == Session!Spec <=> SP!Spec
<1>1. Session!Init <=> SP!Init
    BY DEF Session!Init, SP!Init, Session!TableInit, SP!TableInit, Session!Row, SP!Row,
           Session!Live, SP!Live
<1>2. Session!sessionVars = SP!sessionVars /\ Session!vars = SP!vars
    BY DEF Session!vars, SP!vars, Session!sessionVars, SP!sessionVars, Session!tableVars,
           SP!tableVars, Session!loadedVars, SP!loadedVars
<1>3. Session!Next <=> SP!Next
    BY SameTable, SameStep, <1>2
       DEF Session!Next, SP!Next, Session!sessionVars, SP!sessionVars, Session!loadedVars,
           SP!loadedVars
<1>4. [Session!Next]_(Session!vars) <=> [SP!Next]_(SP!vars)
    BY <1>2, <1>3
       DEF Session!vars, SP!vars, Session!sessionVars, SP!sessionVars, Session!tableVars,
           SP!tableVars, Session!loadedVars, SP!loadedVars
<1> QED BY <1>1, <1>4, PTL DEF Session!Spec, SP!Spec

-----------------------------------------------------------------------------
(* ImplementsSession *)

(* An editor's step is an edit of the taxonomy, to a request, or nothing. *)
LEMMA EditorStepRefines ==
    ASSUME IInv, IInv', EditorStep
    PROVE  [Session!Next]_(Session!vars)
<1>1. [Table!TableNext]_(Table!tableVars)
    BY StepRefines DEF EditorStep
<1>2. UNCHANGED Session!sessionVars
    BY DEF EditorStep, sessionVars, Session!sessionVars, Session!loadedVars
<1>3. CASE UNCHANGED Table!tableVars
    BY <1>2, <1>3 DEF Table!tableVars, Session!vars, Session!tableVars
<1>4. CASE Table!TableNext
    <2>1. Session!TableNext
        BY <1>4 DEF Table!TableNext, Session!TableNext, Table!CreateTag, Session!CreateTag,
            Table!CreateRule, Session!CreateRule, Table!UpdateRule, Session!UpdateRule,
            Table!DeleteRule, Session!DeleteRule, Table!Row, Session!Row, Table!Live, Session!Live
    <2> QED BY <1>2, <2>1 DEF Session!Next
<1> QED BY <1>1, <1>3, <1>4

(* Requests that read what RuleStore's transactions have committed behave  *)
(* as TagSession's do among edits of one step each: no statement that is   *)
(* open, waits, fails or is rolled back makes a difference to them.        *)
THEOREM RequestsSeeEdits == LiveSpec => ImplementsSession
<1>1. LiveInit => Session!Init
    BY DEF LiveInit
<1>2. IInv /\ IInv' /\ [LiveNext]_liveVars => [Session!Next]_(Session!vars)
    <2> SUFFICES ASSUME IInv, IInv', [LiveNext]_liveVars PROVE [Session!Next]_(Session!vars)
        OBVIOUS
    <2>1. CASE EditorStep
        BY <2>1, EditorStepRefines
    <2>2. ASSUME NEW q \in Requests, RequestStep(q) PROVE [Session!Next]_(Session!vars)
        BY <2>2 DEF RequestStep, Session!Next
    <2>3. CASE UNCHANGED liveVars
        BY <2>3 DEF liveVars, vars, table, sessionVars, Session!vars, Session!tableVars,
                    Session!sessionVars, Session!loadedVars
    <2> QED BY <2>1, <2>2, <2>3 DEF LiveNext
<1> QED BY <1>1, <1>2, EditorsGoOn, Inductive, PTL DEF LiveSpec, ImplementsSession, Session!Spec

-----------------------------------------------------------------------------
(* OnlyCommittedDeleteStarves *)

(* A rule that is gone was deleted: the commit of a DELETE is in the       *)
(* table's history.                                                        *)
DeleteCommitted == \E e \in Editors : request[e].op = "delete" /\ stage[e] = "committed"

LEMMA GoneWasDeleted ==
    ASSUME IInv, exists \/ DeleteCommitted, [Next]_vars
    PROVE  exists' \/ DeleteCommitted'
<1>1. TypeOK
    BY DEF IInv
<1>2. ASSUME NEW e \in Editors, Step(e) \/ Lose(e) PROVE exists' \/ DeleteCommitted'
    <2>1. UNCHANGED request
        BY <1>2 DEF Step, Lose, Fail, GetRule, NotFound, GetConditions, ConditionsGone, Refuse,
            GetAgain, Vanished, GetConditionsAgain, UpdateRow, StaleRow, DeleteCondition,
            WaitForRow, RowReleased, ConditionsDeleted, DeleteRow, Cascade, InsertConditions,
            Conflict, DeadlockVictim, Respond, Commit
    <2>2. CASE DeleteCommitted
        BY <1>1, <1>2, <2>1, <2>2, CommittedStays DEF DeleteCommitted
    <2>3. CASE exists /\ ~Commit(e)
        BY <1>2, <2>3, OnlyCommitsWrite DEF table
    <2>4. CASE exists /\ Commit(e)
        <3>1. CASE Put(e)
            BY <2>4, <3>1, CommitEffect
        <3>2. CASE ~Put(e)
            <4>1. request[e].op = "delete"
                BY <1>1, <3>2 DEF TypeOK, Request, Put
            <4>2. stage'[e] = "committed"
                BY <1>1, <2>4 DEF Commit, GoTo, TypeOK
            <4> QED BY <2>1, <4>1, <4>2 DEF DeleteCommitted
        <3> QED BY <3>1, <3>2
    <2> QED BY <2>2, <2>3, <2>4
<1>3. CASE UNCHANGED vars
    BY <1>3 DEF vars, table, DeleteCommitted
<1> QED BY <1>2, <1>3 DEF Next

(* What is proved of TagSession holds of requests among transactions too:  *)
(* a request stores nothing or what it answered, and no rule contributes   *)
(* to an answer without conditions that hold.                              *)
THEOREM AnswersAmongEdits == LiveSpec => [](SP!AllOrNothing /\ SP!NoVacuousRule)
<1>1. SP!Spec => []SP!AllOrNothing
    BY SP!NothingOrAll, SessionAssumptions
<1>2. SP!Spec => []SP!NoVacuousRule
    BY SP!ConditionsDecide, SessionAssumptions
<1> QED BY <1>1, <1>2, RequestsSeeEdits, SameSpec, PTL DEF ImplementsSession

(* Only the committed DELETE of the rule makes a request lose its rules,   *)
(* whatever the statements of the editors do between its two reads.        *)
THEOREM OnlyDeletesStarve == LiveSpec => []OnlyCommittedDeleteStarves
<1>1. LiveSpec => [](exists \/ DeleteCommitted)
    <2>1. Init => exists
        BY DEF Init
    <2>2. IInv /\ (exists \/ DeleteCommitted) /\ [Next]_vars => (exists \/ DeleteCommitted)'
        BY GoneWasDeleted
    <2> QED BY <2>1, <2>2, EditorsGoOn, Inductive, PTL DEF Spec
<1>2. LiveSpec => []SP!OnlyDeleteStarves
    <2>1. SP!Spec => []SP!OnlyDeleteStarves
        BY SP!UpdatesNeverStarve, SessionAssumptions
    <2> QED BY <2>1, RequestsSeeEdits, SameSpec, PTL DEF ImplementsSession
<1>3. LiveSpec => []SP!TypeOK
    <2>1. SP!Spec => []SP!TypeOK
        BY SP!TypeCorrect, SessionAssumptions
    <2> QED BY <2>1, RequestsSeeEdits, SameSpec, PTL DEF ImplementsSession
<1>4. LiveSpec => []IInv
    BY EditorsGoOn, Inductive, PTL
<1>5. IInv /\ (exists \/ DeleteCommitted) /\ SP!OnlyDeleteStarves /\ SP!TypeOK
        => OnlyCommittedDeleteStarves
    <2> SUFFICES ASSUME IInv, exists \/ DeleteCommitted, SP!OnlyDeleteStarves, SP!TypeOK,
                        NEW q \in Requests, progress[q] = "starved", exists
                 PROVE  FALSE
        BY DEF OnlyCommittedDeleteStarves, DeleteCommitted
    <2>1. PICK r \in {"rule"} : TheRow = Deleted
        BY DEF SP!OnlyDeleteStarves, SP!TypeOK, TheRow
    <2> QED BY <2>1, RowIsRow DEF IInv
<1> QED BY <1>1, <1>2, <1>3, <1>4, <1>5, PTL
==============================================================================

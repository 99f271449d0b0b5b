-------------------------- MODULE RuleStoreProofs ---------------------------
(***************************************************************************)
(* Proofs about RuleStore, for any number of editors and conditions and    *)
(* every interleaving of their statements: an edited rule never loses its  *)
(* conditions, every commit is an edit of RuleTable, and PUTs that replace *)
(* the conditions do not deadlock.                                         *)
(***************************************************************************)
EXTENDS RuleStore, FiniteSetTheorems, WellFoundedInduction, TLAPS

(* Every condition is a number. *)
LEMMA Numbers == CondIds \in SUBSET Nat
BY ConditionsAssumption DEF CondIds

(* The next condition to delete is the first of those to delete. *)
LEMMA NextExists ==
    ASSUME TypeOK, NEW e \in Editors, ToDelete(e) # {}
    PROVE  NextToDelete(e) \in ToDelete(e) /\ \A d \in ToDelete(e) : NextToDelete(e) <= d
<1>0. orm[e].conditions \in SUBSET CondIds
    BY DEF TypeOK, Loaded
<1>1. ToDelete(e) \in SUBSET Nat
    BY <1>0, Numbers DEF ToDelete
<1>2. \E c \in ToDelete(e) : \A d \in ToDelete(e) : ~(<<d, c>> \in OpToRel(<, Nat))
    BY <1>1, NatLessThanWellFounded, WFMin
<1>3. \A c, d \in Nat : ~(<<d, c>> \in OpToRel(<, Nat)) => c <= d
    BY DEF OpToRel
<1>4. \E c \in ToDelete(e) : \A d \in ToDelete(e) : c <= d
    BY <1>1, <1>2, <1>3
<1> QED BY <1>4 DEF NextToDelete

(* The rule that an endpoint builds is a rule; it has a condition if what  *)
(* was read had one.                                                       *)
LEMMA UpdatedIsRule ==
    ASSUME TypeOK, NEW e \in Editors, Put(e)
    PROVE  /\ Updated(e) \in Loaded
           /\ Valid(e) /\ existing[e].conditions # {} => Updated(e).conditions # {}
<1>1. request[e] \in [op : {"put"}, sets : {"on", "off", "absent"}, brings : {"kept", "new", "invalid"}]
    BY DEF TypeOK, Request, Put
<1>2. existing[e] \in Loaded
    BY DEF TypeOK
<1>3. NewConditions[e] \in (SUBSET CondIds) \ {{}}
    BY ConditionsAssumption DEF CondIds
<1> QED BY <1>1, <1>2, <1>3 DEF Updated, Loaded, Valid

-----------------------------------------------------------------------------
(* The inductive invariant *)

(* No other transaction refers to, or deletes, a rule that one deletes. *)
Exclusive ==
    \A e, f \in Editors :
        e # f /\ writes[e].removed => ~writes[f].removed /\ writes[f].inserted = {}

(* What is known of an editor at each stage. *)
Progress(e) ==
    /\ stage[e] \in Reading \cup {"update"} \cup Ended => writes[e] = Nothing
    /\ stage[e] \notin {"new", "read_conditions"} \cup Ended => existing[e].conditions # {}
    /\ stage[e] \notin Ended \cup (Reading \ {"reread_conditions"}) => Valid(e)
    /\ stage[e] \in {"update", "insert"} => Put(e)
    /\ stage[e] \in {"delete_rule", "cascade"} => ~Put(e)
    /\ stage[e] \notin {"cascade", "respond", "commit"} => ~writes[e].removed
    /\ stage[e] \notin {"respond", "commit"} => writes[e].inserted = {}

(* What its transaction has written is consistent with the committed rule. *)
Consistent(e) ==
    /\ Put(e) => ~writes[e].removed
    /\ ~Put(e) => writes[e].inserted = {} /\ ~writes[e].updated
    /\ writes[e].inserted # {} => exists
    /\ Put(e) /\ stage[e] \in {"respond", "commit"} => writes[e].inserted # {}
    /\ ~Put(e) /\ stage[e] \in {"cascade", "respond", "commit"} => (writes[e].removed <=> exists)
    /\ ~Put(e) /\ stage[e] \in {"respond", "commit"} => writes[e].deleted = conditions

IInv ==
    /\ TypeOK
    /\ RuleIntact
    /\ Exclusive
    /\ \A e \in Editors : Progress(e) /\ Consistent(e)

(* Before the first request the rule has its conditions. *)
LEMMA InitIInv == Init => IInv
<1> SUFFICES ASSUME Init PROVE IInv
    OBVIOUS
<1>1. TypeOK
    BY ConditionsAssumption DEF Init, TypeOK, CondIds, Stages, Reading, Loaded, Writes, Nothing
<1>2. RuleIntact
    BY ConditionsAssumption DEF Init, RuleIntact
<1>3. Exclusive /\ \A e \in Editors : Progress(e) /\ Consistent(e)
    BY DEF Init, Exclusive, Progress, Consistent, Nothing, Reading, Ended
<1> QED BY <1>1, <1>2, <1>3 DEF IInv

(* The other editors, as a step of e leaves them. *)
Others(e) == \A f \in Editors \ {e} :
    stage'[f] = stage[f] /\ existing'[f] = existing[f] /\ writes'[f] = writes[f]

(* A step that commits nothing preserves what concerns the other editors. *)
LEMMA Frame ==
    ASSUME IInv, NEW e \in Editors, UNCHANGED <<table, request>>, Others(e),
           TypeOK', Progress(e)', Consistent(e)',
           writes'[e].removed => \A f \in Editors \ {e} :
                ~writes[f].removed /\ writes[f].inserted = {},
           writes'[e].removed \/ writes'[e].inserted # {} => \A f \in Editors \ {e} :
                ~writes[f].removed
    PROVE  IInv'
<1>1. RuleIntact'
    BY DEF IInv, RuleIntact, table
<1>2. Exclusive'
    BY DEF IInv, Exclusive, Others
<1>3. ASSUME NEW f \in Editors, f # e PROVE Progress(f)' /\ Consistent(f)'
    BY <1>3 DEF IInv, Progress, Consistent, Others, table, Put, Valid
<1> QED BY <1>1, <1>2, <1>3 DEF IInv

(* Of an editor that writes nothing new, or drops what it has written,     *)
(* nobody need be told.                                                    *)
LEMMA QuietFrame ==
    ASSUME IInv, NEW e \in Editors, UNCHANGED <<table, request>>, Others(e),
           TypeOK', Progress(e)', Consistent(e)',
           \/ writes'[e] = Nothing
           \/ /\ writes'[e].removed = writes[e].removed
              /\ writes'[e].inserted = writes[e].inserted
    PROVE  IInv'
<1>0. \/ ~writes'[e].removed /\ writes'[e].inserted = {}
      \/ /\ writes'[e].removed = writes[e].removed
         /\ writes'[e].inserted = writes[e].inserted
    BY DEF Nothing
<1>1. writes'[e].removed => \A f \in Editors \ {e} :
        ~writes[f].removed /\ writes[f].inserted = {}
    BY <1>0 DEF IInv, Exclusive
<1>2. writes'[e].removed \/ writes'[e].inserted # {} => \A f \in Editors \ {e} :
        ~writes[f].removed
    BY <1>0 DEF IInv, Exclusive
<1> QED BY <1>1, <1>2, Frame

(* A failure, or the loss of the transaction, preserves the invariant. *)
LEMMA FailIInv ==
    ASSUME IInv, NEW e \in Editors, UNCHANGED <<table, request, existing, orm, tried, awaits>>,
           GoTo(e, "failed"), Write(e, Nothing),
           answer' \in [Editors -> {0, 200, 204, 404, 409, 500}]
    PROVE  IInv'
<1>1. TypeOK /\ Consistent(e)
    BY DEF IInv
<1>2. TypeOK'
    BY <1>1 DEF TypeOK, GoTo, Write, table, Stages, Ended, Writes, Nothing
<1>3. Others(e) /\ stage'[e] = "failed" /\ writes'[e] = Nothing
    BY <1>1 DEF Others, GoTo, Write, TypeOK
<1>4. Progress(e)' /\ Consistent(e)'
    BY <1>1, <1>3 DEF Progress, Consistent, Nothing, Ended, Reading, table, Put
<1> QED BY <1>2, <1>3, <1>4, QuietFrame

(* Every step that commits nothing preserves the invariant. *)
LEMMA StepIInv ==
    ASSUME IInv, NEW e \in Editors, Step(e) \/ Lose(e), ~Commit(e)
    PROVE  IInv'
<1> USE DEF GoTo, Write, table
<1>a. TypeOK /\ RuleIntact /\ Progress(e) /\ Consistent(e)
    BY DEF IInv
<1>w. /\ writes[e] \in Writes
      /\ exists \in BOOLEAN /\ conditions \in SUBSET CondIds /\ awaits[e] \in SUBSET CondIds
    BY <1>a DEF TypeOK
<1>b. ASSUME NEW status \in {404, 409, 500}, Fail(e, status) PROVE IInv'
    <2>1. answer' \in [Editors -> {0, 200, 204, 404, 409, 500}]
        BY <1>a, <1>b DEF Fail, TypeOK
    <2> QED BY <1>b, <2>1, FailIInv DEF Fail
<1>1. CASE NotFound(e) \/ ConditionsGone(e) \/ Refuse(e) \/ Vanished(e) \/ StaleRow(e)
           \/ Conflict(e) \/ DeadlockVictim(e)
    BY <1>1, <1>b DEF NotFound, ConditionsGone, Refuse, Vanished, StaleRow, Conflict, DeadlockVictim
<1>2. CASE Lose(e)
    BY <1>a, <1>2, FailIInv DEF Lose, TypeOK
<1>3. CASE GetRule(e)
    <2>a. [existing[e] EXCEPT !.is_enabled = is_enabled] \in Loaded
        BY <1>a DEF TypeOK, Loaded
    <2>1. TypeOK'
        BY <1>3, <1>a, <2>a DEF GetRule, TypeOK, Stages, Reading
    <2>2. UNCHANGED <<table, request>> /\ Others(e)
        BY <1>3, <1>a DEF GetRule, Others, TypeOK
    <2>3. Progress(e)' /\ Consistent(e)'
        BY <1>3, <1>a
           DEF GetRule, Progress, Consistent, Nothing, Reading, Ended, TypeOK, Put, Valid
    <2>4. writes'[e].removed = writes[e].removed /\ writes'[e].inserted = writes[e].inserted
        BY <1>3, <1>a DEF GetRule, TypeOK, Writes
    <2> QED BY <2>1, <2>2, <2>3, <2>4, QuietFrame
<1>4. CASE GetConditions(e)
    <2>a. [existing[e] EXCEPT !.conditions = conditions] \in Loaded
        BY <1>a DEF TypeOK, Loaded
    <2>1. TypeOK'
        BY <1>4, <1>a, <2>a DEF GetConditions, TypeOK, Stages, Reading
    <2>2. UNCHANGED <<table, request>> /\ Others(e)
        BY <1>4, <1>a DEF GetConditions, Others, TypeOK
    <2>3. Progress(e)' /\ Consistent(e)'
        BY <1>4, <1>a
           DEF GetConditions, Progress, Consistent, Nothing, Reading, Ended, TypeOK, Put, Valid
    <2>4. writes'[e].removed = writes[e].removed /\ writes'[e].inserted = writes[e].inserted
        BY <1>4, <1>a DEF GetConditions, TypeOK, Writes
    <2> QED BY <2>1, <2>2, <2>3, <2>4, QuietFrame
<1>5. CASE GetAgain(e)
    <2>a. [orm[e] EXCEPT !.is_enabled = is_enabled] \in Loaded
        BY <1>a DEF TypeOK, Loaded
    <2>1. TypeOK'
        BY <1>5, <1>a, <2>a DEF GetAgain, TypeOK, Stages, Reading, Writing, FirstWrite
    <2>2. UNCHANGED <<table, request>> /\ Others(e)
        BY <1>5, <1>a DEF GetAgain, Others, TypeOK
    <2>3. Progress(e)' /\ Consistent(e)'
        BY <1>5, <1>a
           DEF GetAgain, Progress, Consistent, Nothing, Reading, Ended, TypeOK, Put, Valid, FirstWrite
    <2>4. writes'[e].removed = writes[e].removed /\ writes'[e].inserted = writes[e].inserted
        BY <1>5, <1>a DEF GetAgain, TypeOK, Writes
    <2> QED BY <2>1, <2>2, <2>3, <2>4, QuietFrame
<1>6. CASE GetConditionsAgain(e)
    <2>1. TypeOK'
        BY <1>6, <1>a DEF GetConditionsAgain, TypeOK, Stages, Reading, Writing, Loaded, Writes, FirstWrite
    <2>2. UNCHANGED <<table, request>> /\ Others(e)
        BY <1>6, <1>a DEF GetConditionsAgain, Others, TypeOK
    <2>3. Progress(e)' /\ Consistent(e)'
        BY <1>6, <1>a
           DEF GetConditionsAgain, Progress, Consistent, Nothing, Reading, Ended, TypeOK, Put, Valid, FirstWrite
    <2>4. writes'[e].removed = writes[e].removed /\ writes'[e].inserted = writes[e].inserted
        BY <1>6, <1>a DEF GetConditionsAgain, TypeOK, Writes
    <2> QED BY <2>1, <2>2, <2>3, <2>4, QuietFrame
<1>7. CASE UpdateRow(e)
    <2>b. ChangesRule(e) \in BOOLEAN
        BY Zenon DEF ChangesRule
    <2>a. [writes[e] EXCEPT !.updated = ChangesRule(e)] \in Writes
        BY <1>w, <2>b DEF Writes
    <2>1. TypeOK'
        BY <1>7, <1>a, <2>a DEF UpdateRow, TypeOK, Stages, Writing
    <2>2. UNCHANGED <<table, request>> /\ Others(e)
        BY <1>7, <1>a DEF UpdateRow, Others, TypeOK
    <2>3. Progress(e)' /\ Consistent(e)'
        BY <1>7, <1>a
           DEF UpdateRow, Progress, Consistent, Nothing, Reading, Ended, TypeOK, Put, Valid, ChangesRule
    <2>4. writes'[e].removed = writes[e].removed /\ writes'[e].inserted = writes[e].inserted
        BY <1>7, <1>a DEF UpdateRow, TypeOK, Writes
    <2> QED BY <2>1, <2>2, <2>3, <2>4, QuietFrame
<1>8. CASE DeleteCondition(e)
    <2>a. NextToDelete(e) \in CondIds
        BY <1>8, <1>a, NextExists DEF DeleteCondition, ToDelete, TypeOK, Loaded
    <2>b. [writes[e] EXCEPT !.deleted = @ \cup ({NextToDelete(e)} \cap conditions)] \in Writes
        BY <1>w DEF Writes
    <2>1. TypeOK'
        BY <1>8, <1>a, <2>a, <2>b DEF DeleteCondition, TypeOK
    <2>2. UNCHANGED <<table, request>> /\ Others(e)
        BY <1>8, <1>a DEF DeleteCondition, Others, TypeOK
    <2>3. Progress(e)' /\ Consistent(e)'
        BY <1>8, <1>a
           DEF DeleteCondition, Progress, Consistent, Nothing, Reading, Ended, TypeOK, Put, Valid
    <2>4. writes'[e].removed = writes[e].removed /\ writes'[e].inserted = writes[e].inserted
        BY <1>8, <1>a DEF DeleteCondition, TypeOK, Writes
    <2> QED BY <2>1, <2>2, <2>3, <2>4, QuietFrame
<1>9. CASE WaitForRow(e)
    <2>a. NextToDelete(e) \in CondIds
        BY <1>9, <1>a, NextExists DEF WaitForRow, ToDelete, TypeOK, Loaded
    <2>1. TypeOK'
        BY <1>9, <1>a, <2>a DEF WaitForRow, TypeOK, Stages, Writing
    <2>2. UNCHANGED <<table, request>> /\ Others(e)
        BY <1>9, <1>a DEF WaitForRow, Others, TypeOK
    <2>3. Progress(e)' /\ Consistent(e)'
        BY <1>9, <1>a
           DEF WaitForRow, Progress, Consistent, Nothing, Reading, Ended, TypeOK, Put, Valid
    <2> QED BY <1>9, <2>1, <2>2, <2>3, QuietFrame DEF WaitForRow
<1>10. CASE RowReleased(e)
    <2>a. [writes[e] EXCEPT !.deleted = @ \cup (awaits[e] \cap conditions)] \in Writes
        BY <1>w DEF Writes
    <2>1. TypeOK'
        BY <1>10, <1>a, <2>a DEF RowReleased, TypeOK, Stages, Writing
    <2>2. UNCHANGED <<table, request>> /\ Others(e)
        BY <1>10, <1>a DEF RowReleased, Others, TypeOK
    <2>3. Progress(e)' /\ Consistent(e)'
        BY <1>10, <1>a
           DEF RowReleased, Progress, Consistent, Nothing, Reading, Ended, TypeOK, Put, Valid
    <2>4. writes'[e].removed = writes[e].removed /\ writes'[e].inserted = writes[e].inserted
        BY <1>10, <1>a DEF RowReleased, TypeOK, Writes
    <2> QED BY <2>1, <2>2, <2>3, <2>4, QuietFrame
<1>11. CASE ConditionsDeleted(e)
    <2>1. TypeOK'
        BY <1>11, <1>a DEF ConditionsDeleted, TypeOK, Stages, Reading, Writing, Loaded, Writes
    <2>2. UNCHANGED <<table, request>> /\ Others(e)
        BY <1>11, <1>a DEF ConditionsDeleted, Others, TypeOK
    <2>3. Progress(e)' /\ Consistent(e)'
        BY <1>11, <1>a
           DEF ConditionsDeleted, Progress, Consistent, Nothing, Reading, Ended, TypeOK, Put, Valid
    <2>4. writes'[e].removed = writes[e].removed /\ writes'[e].inserted = writes[e].inserted
        BY <1>11, <1>a DEF ConditionsDeleted, TypeOK, Writes
    <2> QED BY <2>1, <2>2, <2>3, <2>4, QuietFrame
<1>12. CASE DeleteRow(e)
    <2>a. [writes[e] EXCEPT !.removed = exists] \in Writes
        BY <1>w DEF Writes
    <2>1. TypeOK'
        BY <1>12, <1>a, <2>a DEF DeleteRow, TypeOK, Stages, Writing
    <2>2. UNCHANGED <<table, request>> /\ Others(e)
        BY <1>12, <1>a DEF DeleteRow, Others, TypeOK
    <2>3. Progress(e)' /\ Consistent(e)'
        BY <1>12, <1>a
           DEF DeleteRow, Progress, Consistent, Nothing, Reading, Ended, TypeOK, Writes, Put, Valid
    <2>4. \A f \in Editors \ {e} : ~writes[f].removed /\ writes[f].inserted = {}
        BY <1>12 DEF DeleteRow, Free, BlockedBy, WritesRow
    <2> QED BY <2>1, <2>2, <2>3, <2>4, Frame
<1>13. CASE Cascade(e)
    <2>a. [writes[e] EXCEPT !.deleted = conditions] \in Writes
        BY <1>w DEF Writes
    <2>1. TypeOK'
        BY <1>13, <1>a, <2>a DEF Cascade, TypeOK, Stages
    <2>2. UNCHANGED <<table, request>> /\ Others(e)
        BY <1>13, <1>a DEF Cascade, Others, TypeOK
    <2>3. Progress(e)' /\ Consistent(e)'
        BY <1>13, <1>a
           DEF Cascade, Progress, Consistent, Nothing, Reading, Ended, TypeOK, Put, Valid
    <2>4. writes'[e].removed = writes[e].removed /\ writes'[e].inserted = writes[e].inserted
        BY <1>13, <1>a DEF Cascade, TypeOK, Writes
    <2> QED BY <2>1, <2>2, <2>3, <2>4, QuietFrame
<1>14. CASE InsertConditions(e)
    <2>1. Put(e) /\ Updated(e).conditions \in (SUBSET CondIds) \ {{}}
        BY <1>14, <1>a, UpdatedIsRule DEF InsertConditions, Progress, Loaded, Reading, Ended
    <2>a. [writes[e] EXCEPT !.inserted = Updated(e).conditions] \in Writes
        BY <1>w, <2>1 DEF Writes
    <2>2. TypeOK'
        BY <1>14, <1>a, <2>a DEF InsertConditions, TypeOK, Stages
    <2>3. UNCHANGED <<table, request>> /\ Others(e)
        BY <1>14, <1>a DEF InsertConditions, Others, TypeOK
    <2>4. /\ writes'[e].inserted = Updated(e).conditions
          /\ writes'[e].removed = writes[e].removed
        BY <1>14, <1>a DEF InsertConditions, TypeOK, Writes
    <2>5. Progress(e)' /\ Consistent(e)'
        BY <1>14, <1>a, <2>1, <2>4
           DEF InsertConditions, Progress, Consistent, Reading, Ended, TypeOK, Put, Valid
    <2>6. \A f \in Editors \ {e} : ~writes[f].removed
        BY <1>14 DEF InsertConditions, Free, BlockedBy
    <2>7. ~writes'[e].removed
        BY <1>a, <2>1, <2>4 DEF Consistent
    <2> QED BY <2>2, <2>3, <2>5, <2>6, <2>7, Frame
<1>15. CASE Respond(e)
    <2>1. TypeOK'
        BY <1>15, <1>a DEF Respond, TypeOK, Stages, Reading, Writing, Loaded, Writes
    <2>2. UNCHANGED <<table, request>> /\ Others(e)
        BY <1>15, <1>a DEF Respond, Others, TypeOK
    <2>3. Progress(e)' /\ Consistent(e)'
        BY <1>15, <1>a
           DEF Respond, Progress, Consistent, Nothing, Reading, Ended, TypeOK, Put, Valid
    <2>4. writes'[e].removed = writes[e].removed /\ writes'[e].inserted = writes[e].inserted
        BY <1>15, <1>a DEF Respond, TypeOK, Writes
    <2> QED BY <2>1, <2>2, <2>3, <2>4, QuietFrame
<1> QED BY <1>1, <1>2, <1>3, <1>4, <1>5, <1>6, <1>7, <1>8, <1>9, <1>10, <1>11, <1>12, <1>13, <1>14, <1>15 DEF Step

(* What a commit does to the rule: a PUT leaves it with conditions, a      *)
(* DELETE leaves nothing, or finds nothing.                                *)
LEMMA CommitEffect ==
    ASSUME IInv, NEW e \in Editors, Commit(e)
    PROVE  /\ Put(e) => exists /\ exists' /\ conditions' # {}
           /\ ~Put(e) => ~exists' /\ conditions' = {}
           /\ conditions' \in SUBSET CondIds /\ exists' \in BOOLEAN /\ is_enabled' \in BOOLEAN
<1>1. TypeOK /\ Consistent(e) /\ Progress(e) /\ stage[e] = "commit"
    BY DEF IInv, Commit
<1>2. CASE Put(e)
    <2>1. Updated(e).is_enabled \in BOOLEAN
        BY <1>1, <1>2, UpdatedIsRule DEF Loaded
    <2>2. writes[e] \in Writes
        BY <1>1 DEF TypeOK
    <2> QED BY <1>1, <1>2, <2>1, <2>2 DEF Commit, Consistent, TypeOK, Writes
<1>3. CASE ~Put(e)
    <2>1. /\ writes[e].removed <=> exists
          /\ writes[e].deleted = conditions
          /\ writes[e].inserted = {}
          /\ ~writes[e].updated
        BY <1>1, <1>3 DEF Consistent
    <2>2. exists' = FALSE /\ conditions' = {}
        BY <2>1 DEF Commit
    <2>3. is_enabled' = is_enabled
        BY <2>1 DEF Commit
    <2>4. is_enabled \in BOOLEAN
        BY <1>1 DEF TypeOK
    <2> QED BY <1>3, <2>2, <2>3, <2>4
<1> QED BY <1>2, <1>3

(* A commit preserves the invariant: what the other transactions have      *)
(* written keeps them consistent with the rule it leaves.                  *)
LEMMA CommitIInv ==
    ASSUME IInv, NEW e \in Editors, Commit(e)
    PROVE  IInv'
<1>1. TypeOK /\ RuleIntact /\ Exclusive /\ Progress(e) /\ Consistent(e) /\ stage[e] = "commit"
    BY DEF IInv, Commit
<1>2. TypeOK'
    <2>1. Nothing \in Writes
        BY DEF Nothing, Writes
    <2>2. awaits' \in [Editors -> SUBSET CondIds]
        BY <1>1 DEF Commit, TypeOK
    <2>3. /\ stage' \in [Editors -> Stages]
          /\ writes' \in [Editors -> Writes]
          /\ UNCHANGED <<request, existing, orm, tried, answer>>
        BY <1>1, <2>1 DEF Commit, TypeOK, GoTo, Write, Stages, Ended
    <2> QED BY <1>1, <2>2, <2>3, CommitEffect DEF TypeOK
<1>3. RuleIntact'
    BY CommitEffect DEF RuleIntact
<1>4. /\ Others(e) /\ UNCHANGED request
      /\ stage'[e] = "committed" /\ writes'[e] = Nothing
    BY <1>1 DEF Others, Commit, GoTo, Write, TypeOK
<1>5. Exclusive'
    BY <1>1, <1>4 DEF Exclusive, Others, Nothing
<1>6. Progress(e)' /\ Consistent(e)'
    BY <1>4 DEF Progress, Consistent, Nothing, Ended, Reading, Put
<1>7. ASSUME NEW f \in Editors, f # e PROVE Progress(f)' /\ Consistent(f)'
    <2>1. Progress(f) /\ Consistent(f)
        BY DEF IInv
    <2>2. Progress(f)'
        BY <1>4, <1>7, <2>1 DEF Others, Progress, Put, Valid
    <2>3. ~(writes[e].removed /\ (writes[f].removed \/ writes[f].inserted # {}))
        BY <1>1, <1>7 DEF Exclusive
    <2>4. writes[f].removed => writes[e].inserted = {} /\ ~writes[e].removed
        BY <1>1, <1>7 DEF Exclusive
    <2>5. writes[f].inserted # {} => exists'
        BY <1>1, <2>1, <2>3 DEF Commit, Consistent
    <2>6. CASE ~Put(f) /\ stage[f] \in {"cascade", "respond", "commit"}
        <3>1. ~exists /\ ~Put(e)
            BY <1>1, <2>1, <2>4, <2>6, CommitEffect DEF Consistent
        <3>2. ~exists' /\ conditions = {} /\ conditions' = {}
            BY <1>1, <3>1, CommitEffect DEF RuleIntact
        <3> QED BY <1>4, <1>7, <2>1, <2>2, <2>6, <3>1, <3>2 DEF Others, Consistent, Put
    <2>7. CASE ~(~Put(f) /\ stage[f] \in {"cascade", "respond", "commit"})
        BY <1>4, <1>7, <2>1, <2>2, <2>5, <2>7 DEF Others, Consistent, Put
    <2> QED BY <2>6, <2>7
<1> QED BY <1>2, <1>3, <1>5, <1>6, <1>7 DEF IInv

(* So does every step. *)
LEMMA NextIInv == IInv /\ [Next]_vars => IInv'
<1> SUFFICES ASSUME IInv, [Next]_vars PROVE IInv'
    OBVIOUS
<1>1. ASSUME NEW e \in Editors, Step(e) \/ Lose(e) PROVE IInv'
    BY <1>1, StepIInv, CommitIInv
<1>2. CASE UNCHANGED vars
    BY <1>2 DEF vars, table, IInv, TypeOK, RuleIntact, Exclusive, Progress, Consistent, Put, Valid
<1> QED BY <1>1, <1>2 DEF Next

(* The inductive invariant of the rule and its editors' transactions. *)
THEOREM Inductive == Spec => []IInv
BY InitIInv, NextIInv, PTL DEF Spec

-----------------------------------------------------------------------------
(* Its parts. *)

(* Every variable keeps its type. *)
THEOREM TypeCorrect == Spec => []TypeOK
<1>1. IInv => TypeOK
    BY DEF IInv
<1> QED BY <1>1, Inductive, PTL

(* A committed rule has a condition, and no condition outlives its rule,   *)
(* however many PUTs and DELETEs interleave, fail, deadlock or get lost.   *)
THEOREM NeverWithoutConditions == Spec => []RuleIntact
<1>1. IInv => RuleIntact
    BY DEF IInv
<1> QED BY <1>1, Inductive, PTL

-----------------------------------------------------------------------------
(* The transactions implement RuleTable. *)

(* The rule as a row of RuleTable. *)
TheRow == [is_enabled |-> is_enabled, conditions |-> conditions]

(* A rule that exists is a row of RuleTable. *)
LEMMA RowIsRow ==
    ASSUME TypeOK, RuleIntact, exists
    PROVE  TheRow \in Table!Row /\ TheRow \notin {Unused, Deleted}
<1>1. TheRow \in Loaded
    BY DEF TheRow, TypeOK, Loaded
<1> QED BY <1>1, MarkersAssumption DEF TheRow, TypeOK, RuleIntact, Loaded, Table!Row

(* Only a commit touches the committed rows. *)
LEMMA OnlyCommitsWrite ==
    ASSUME NEW e \in Editors, Step(e) \/ Lose(e), ~Commit(e)
    PROVE  UNCHANGED table
<1>1. CASE \/ NotFound(e) \/ ConditionsGone(e) \/ Refuse(e) \/ Vanished(e) \/ StaleRow(e)
           \/ Conflict(e) \/ DeadlockVictim(e) \/ Lose(e)
    BY <1>1 DEF NotFound, ConditionsGone, Refuse, Vanished, StaleRow, Conflict, DeadlockVictim,
                Fail, Lose, table
<1>2. CASE GetRule(e) \/ GetConditions(e) \/ GetAgain(e) \/ GetConditionsAgain(e) \/ Respond(e)
    BY <1>2 DEF GetRule, GetConditions, GetAgain, GetConditionsAgain, Respond, table
<1>3. CASE UpdateRow(e) \/ DeleteCondition(e) \/ WaitForRow(e) \/ RowReleased(e) \/ ConditionsDeleted(e)
    BY <1>3 DEF UpdateRow, DeleteCondition, WaitForRow, RowReleased, ConditionsDeleted, table
<1>4. CASE DeleteRow(e) \/ Cascade(e) \/ InsertConditions(e)
    BY <1>4 DEF DeleteRow, Cascade, InsertConditions, table
<1> QED BY <1>1, <1>2, <1>3, <1>4 DEF Step

(* A commit is an update or the deletion of the rule, or changes nothing;  *)
(* no other step touches the rule.                                         *)
LEMMA StepRefines == IInv /\ IInv' /\ [Next]_vars => [Table!TableNext]_(Table!tableVars)
<1> DEFINE rules == [r \in {"rule"} |-> IF exists THEN TheRow ELSE Deleted]
<1> SUFFICES ASSUME IInv, IInv', [Next]_vars, ~ UNCHANGED table
             PROVE  [Table!TableNext]_(Table!tableVars)
    BY DEF Table!tableVars, table
<1>1. PICK e \in Editors : Commit(e)
    BY OnlyCommitsWrite DEF Next, vars, table
<1>2. TypeOK /\ RuleIntact /\ TypeOK' /\ RuleIntact'
    BY DEF IInv
<1>3. CASE Put(e)
    <2>1. exists /\ exists'
        BY <1>1, <1>3, CommitEffect
    <2>2. TheRow \notin {Unused, Deleted} /\ TheRow' \in Table!Row
        BY <1>2, <2>1, RowIsRow DEF Table!Row, TheRow, TypeOK, RuleIntact
    <2>3. Table!Live("rule")
        BY <2>1, <2>2 DEF Table!Live, TheRow
    <2>4. rules' = [rules EXCEPT !["rule"] = TheRow']
        BY <2>1
    <2>5. Table!UpdateRule("rule")
        BY <2>2, <2>3, <2>4 DEF Table!UpdateRule, TheRow
    <2> QED BY <2>5 DEF Table!TableNext
<1>4. CASE ~Put(e) /\ exists
    <2>1. ~exists'
        BY <1>1, <1>4, CommitEffect
    <2>2. TheRow \notin {Unused, Deleted}
        BY <1>2, <1>4, RowIsRow
    <2>3. Table!Live("rule")
        BY <1>4, <2>2 DEF Table!Live, TheRow
    <2>4. rules' = [rules EXCEPT !["rule"] = Deleted]
        BY <2>1
    <2>5. Table!DeleteRule("rule")
        BY <2>3, <2>4 DEF Table!DeleteRule, TheRow
    <2> QED BY <2>5 DEF Table!TableNext
<1>5. CASE ~Put(e) /\ ~exists
    <2>1. ~exists'
        BY <1>1, <1>5, CommitEffect
    <2> QED BY <1>5, <2>1 DEF Table!tableVars
<1> QED BY <1>3, <1>4, <1>5

(* Whatever their transactions do meanwhile, readers see the editors of a  *)
(* rule update or delete it one commit at a time: RuleStore implements     *)
(* RuleTable.                                                              *)
THEOREM ImplementsRuleTable == Spec => ImplementsTable
<1>1. Init => Table!TableInit
    <2> SUFFICES ASSUME Init PROVE Table!TableInit
        OBVIOUS
    <2>1. TypeOK /\ RuleIntact /\ exists
        BY InitIInv DEF IInv, Init
    <2>2. TheRow \in Table!Row
        BY <2>1, RowIsRow
    <2> QED BY <2>1, <2>2 DEF Table!TableInit, TheRow
<1>2. IInv /\ IInv' /\ [Next]_vars => [Table!TableNext]_(Table!tableVars)
    BY StepRefines
<1> QED BY <1>1, <1>2, Inductive, PTL DEF Spec, ImplementsTable, Table!TableSpec

-----------------------------------------------------------------------------
(* FailsOnlyOnConflict.  As long as nobody has committed, the table is as  *)
(* it was at first, everybody has read just that, and a PUT has deleted    *)
(* all of it before it inserts.                                            *)

Clean(e) ==
    /\ stage[e] = "get_again" => existing[e].conditions = OldConditions
    /\ stage[e] \in Writing => orm[e].conditions = OldConditions
    /\ stage[e] \in Reading \cup {"update"} => tried[e] = {}
    /\ stage[e] \in (Reading \cup Writing) \ {"wait_for_row"} => awaits[e] = {}
    /\ stage[e] = "wait_for_row" => awaits[e] \subseteq OldConditions
    /\ stage[e] \in {"delete_conditions", "wait_for_row"} =>
        tried[e] \ awaits[e] \subseteq writes[e].deleted
    /\ stage[e] = "insert" => OldConditions \subseteq writes[e].deleted

NobodyCommitted == \A e \in Editors : stage[e] # "committed"
Pristine ==
    NobodyCommitted =>
        exists /\ conditions = OldConditions /\ \A e \in Editors : Clean(e)

(* A step of one editor leaves the others as they are; it is the commit of *)
(* the editor, or one that is not.                                         *)
LEMMA CleanFrame ==
    ASSUME TypeOK, NEW e \in Editors, Step(e) \/ Lose(e), ~Commit(e),
           NEW f \in Editors, f # e, Clean(f)
    PROVE  Clean(f)'
<1> USE DEF Clean, TypeOK, GoTo, Write
<1>1. CASE \/ NotFound(e) \/ ConditionsGone(e) \/ Refuse(e) \/ Vanished(e) \/ StaleRow(e)
           \/ Conflict(e) \/ DeadlockVictim(e) \/ Lose(e)
    BY <1>1 DEF NotFound, ConditionsGone, Refuse, Vanished, StaleRow, Conflict, DeadlockVictim,
                Fail, Lose
<1>2. CASE GetRule(e) \/ GetConditions(e) \/ GetAgain(e) \/ GetConditionsAgain(e)
    BY <1>2 DEF GetRule, GetConditions, GetAgain, GetConditionsAgain
<1>3. CASE UpdateRow(e) \/ DeleteCondition(e) \/ WaitForRow(e) \/ RowReleased(e)
           \/ ConditionsDeleted(e)
    BY <1>3 DEF UpdateRow, DeleteCondition, WaitForRow, RowReleased, ConditionsDeleted
<1>4. CASE DeleteRow(e) \/ Cascade(e) \/ InsertConditions(e) \/ Respond(e)
    BY <1>4 DEF DeleteRow, Cascade, InsertConditions, Respond
<1> QED BY <1>1, <1>2, <1>3, <1>4 DEF Step

(* Who reads the first table keeps it in mind, and deletes all of it.      *)
LEMMA CleanStep ==
    ASSUME TypeOK, NEW e \in Editors, Step(e) \/ Lose(e), ~Commit(e),
           conditions = OldConditions, Clean(e)
    PROVE  Clean(e)'
<1> USE DEF Clean, TypeOK, GoTo, Write, Reading, Writing
<1>1. CASE \/ NotFound(e) \/ ConditionsGone(e) \/ Refuse(e) \/ Vanished(e) \/ StaleRow(e)
           \/ Conflict(e) \/ DeadlockVictim(e) \/ Lose(e)
    BY <1>1 DEF NotFound, ConditionsGone, Refuse, Vanished, StaleRow, Conflict, DeadlockVictim,
                Fail, Lose
<1>2. CASE GetRule(e)
    BY <1>2 DEF GetRule, Loaded
<1>2a. CASE GetConditions(e)
    BY <1>2a DEF GetConditions, Loaded
<1>3. CASE GetAgain(e)
    BY <1>3 DEF GetAgain, FirstWrite
<1>4. CASE GetConditionsAgain(e)
    BY <1>4 DEF GetConditionsAgain, FirstWrite
<1>5. CASE UpdateRow(e)
    BY <1>5 DEF UpdateRow
<1>6. CASE DeleteCondition(e)
    <2>1. NextToDelete(e) \in OldConditions
        BY <1>6, NextExists DEF DeleteCondition, ToDelete
    <2> QED BY <1>6, <2>1 DEF DeleteCondition, Writes
<1>7. CASE WaitForRow(e)
    <2>1. NextToDelete(e) \in OldConditions
        BY <1>7, NextExists DEF WaitForRow, ToDelete
    <2> QED BY <1>7, <2>1 DEF WaitForRow
<1>8. CASE RowReleased(e)
    BY <1>8 DEF RowReleased, Writes
<1>9. CASE ConditionsDeleted(e)
    BY <1>9 DEF ConditionsDeleted, ToDelete
<1>10. CASE DeleteRow(e) \/ Cascade(e) \/ InsertConditions(e) \/ Respond(e)
    BY <1>10 DEF DeleteRow, Cascade, InsertConditions, Respond
<1> QED BY <1>1, <1>2, <1>2a, <1>3, <1>4, <1>5, <1>6, <1>7, <1>8, <1>9, <1>10 DEF Step

(* The statement that a deadlocked editor waits for is one of its writing. *)
LEMMA DeadlockedWrites ==
    ASSUME NEW e \in Editors, Deadlocked(e)
    PROVE  stage[e] \in Writing
BY DEF Deadlocked, BlockedBy, Writing

(* A commit stays.                                                         *)
LEMMA CommittedStays ==
    ASSUME TypeOK, NEW e \in Editors, Step(e) \/ Lose(e),
           NEW f \in Editors, stage[f] = "committed"
    PROVE  stage'[f] = "committed"
<1> USE DEF TypeOK, GoTo
<1>1. CASE DeadlockVictim(e)
    BY <1>1, DeadlockedWrites DEF DeadlockVictim, Fail, Writing
<1>2. CASE \/ NotFound(e) \/ ConditionsGone(e) \/ Refuse(e) \/ Vanished(e) \/ StaleRow(e)
           \/ Conflict(e) \/ Lose(e)
    BY <1>2 DEF NotFound, ConditionsGone, Refuse, Vanished, StaleRow, Conflict, Fail, Lose, Ended
<1>3. CASE GetRule(e) \/ GetConditions(e) \/ GetAgain(e) \/ GetConditionsAgain(e)
    BY <1>3 DEF GetRule, GetConditions, GetAgain, GetConditionsAgain
<1>4. CASE UpdateRow(e) \/ DeleteCondition(e) \/ WaitForRow(e) \/ RowReleased(e)
           \/ ConditionsDeleted(e)
    BY <1>4 DEF UpdateRow, DeleteCondition, WaitForRow, RowReleased, ConditionsDeleted
<1>5. CASE DeleteRow(e) \/ Cascade(e) \/ InsertConditions(e) \/ Respond(e) \/ Commit(e)
    BY <1>5 DEF DeleteRow, Cascade, InsertConditions, Respond, Commit
<1> QED BY <1>1, <1>2, <1>3, <1>4, <1>5 DEF Step

(* The first commit is the first change.                                   *)
LEMMA PristineStep == TypeOK /\ Pristine /\ [Next]_vars => Pristine'
<1> SUFFICES ASSUME TypeOK, Pristine, [Next]_vars, NobodyCommitted'
             PROVE  exists' /\ conditions' = OldConditions /\ \A e \in Editors : Clean(e)'
    BY DEF Pristine
<1>1. ASSUME NEW e \in Editors, Step(e) \/ Lose(e)
      PROVE  exists' /\ conditions' = OldConditions /\ \A f \in Editors : Clean(f)'
    <2>1. NobodyCommitted
        BY <1>1, CommittedStays DEF NobodyCommitted
    <2>2. ~Commit(e)
        BY DEF Commit, GoTo, TypeOK, NobodyCommitted
    <2>3. exists /\ conditions = OldConditions /\ \A f \in Editors : Clean(f)
        BY <2>1 DEF Pristine
    <2>4. UNCHANGED table
        BY <1>1, <2>2, OnlyCommitsWrite
    <2>5. \A f \in Editors : Clean(f)'
        BY <1>1, <2>2, <2>3, CleanFrame, CleanStep
    <2> QED BY <2>3, <2>4, <2>5 DEF table
<1>2. CASE UNCHANGED vars
    BY <1>2 DEF vars, table, Pristine, NobodyCommitted, Clean
<1> QED BY <1>1, <1>2 DEF Next

(* A request with a body that the domain model accepts fails only because  *)
(* of another editor, who has committed or waits for it in a ring.         *)
THEOREM FailuresHaveACause == Spec => FailsOnlyOnConflict
<1> DEFINE Caused ==
        \A e \in Editors :
            answer[e] = 0 /\ answer'[e] \in {404, 409, 500} /\ Valid(e) =>
                Deadlocked(e) \/ \E f \in Editors \ {e} : stage[f] = "committed"
<1>1. Init => Pristine
    BY DEF Init, Pristine, Clean, Reading, Writing
<1>2. IInv => TypeOK /\ RuleIntact
    BY DEF IInv
<1>3. IInv /\ Pristine /\ [Next]_vars => Caused
    <2> SUFFICES ASSUME IInv, Pristine, [Next]_vars, NEW e \in Editors,
                        answer[e] = 0, answer'[e] \in {404, 409, 500}, Valid(e), ~Deadlocked(e)
                 PROVE  \E f \in Editors \ {e} : stage[f] = "committed"
        OBVIOUS
    <2>1. \/ NotFound(e) \/ ConditionsGone(e) \/ Vanished(e) \/ StaleRow(e) \/ Conflict(e)
        <3>1. ASSUME NEW f \in Editors, Step(f) \/ Lose(f)
              PROVE  \/ NotFound(e) \/ ConditionsGone(e) \/ Vanished(e) \/ StaleRow(e)
                     \/ Conflict(e)
            <4> USE <1>2 DEF TypeOK
            <4>1. CASE \/ NotFound(f) \/ ConditionsGone(f) \/ Refuse(f) \/ Vanished(f)
                       \/ StaleRow(f) \/ Conflict(f) \/ DeadlockVictim(f)
                <5>1. f = e
                    BY <4>1 DEF NotFound, ConditionsGone, Refuse, Vanished, StaleRow, Conflict,
                                DeadlockVictim, Fail
                <5> QED BY <4>1, <5>1 DEF Refuse, DeadlockVictim
            <4>2. CASE \/ GetRule(f) \/ GetConditions(f) \/ GetAgain(f) \/ GetConditionsAgain(f)
                       \/ UpdateRow(f) \/ DeleteCondition(f) \/ WaitForRow(f) \/ RowReleased(f)
                       \/ ConditionsDeleted(f) \/ DeleteRow(f) \/ Cascade(f)
                       \/ InsertConditions(f) \/ Commit(f) \/ Lose(f)
                <5>1. answer' = answer
                    BY <4>2 DEF GetRule, GetConditions, GetAgain, GetConditionsAgain, UpdateRow,
                                DeleteCondition, WaitForRow, RowReleased, ConditionsDeleted,
                                DeleteRow, Cascade, InsertConditions, Commit, Lose
                <5> QED BY <5>1
            <4>3. CASE Respond(f)
                BY <4>3 DEF Respond
            <4> QED BY <3>1, <4>1, <4>2, <4>3 DEF Step
        <3>2. CASE UNCHANGED vars
            BY <3>2 DEF vars
        <3> QED BY <3>1, <3>2 DEF Next
    <2>2. stage[e] # "committed"
        BY <2>1 DEF NotFound, ConditionsGone, Vanished, StaleRow, Conflict
    <2>3. ASSUME NobodyCommitted PROVE FALSE
        <3>1. exists /\ conditions = OldConditions /\ Clean(e) /\ OldConditions # {}
            BY <2>3, ConditionsAssumption DEF Pristine
        <3>2. Conflict(e)
            BY <2>1, <3>1 DEF NotFound, ConditionsGone, Vanished, StaleRow
        <3> QED BY <3>1, <3>2 DEF Conflict, Duplicate, Clean
    <2> QED BY <2>2, <2>3 DEF NobodyCommitted
<1>4. Spec => []Pristine
    <2>1. IInv /\ Pristine /\ [Next]_vars => Pristine'
        BY <1>2, PristineStep
    <2> QED BY <1>1, <2>1, Inductive, PTL DEF Spec
<1>5. Spec => [][Caused]_vars
    <2>1. IInv /\ Pristine /\ [Next]_vars => [Caused]_vars
        BY <1>3
    <2> QED BY <2>1, <1>4, Inductive, PTL DEF Spec
<1> QED BY <1>5 DEF FailsOnlyOnConflict

-----------------------------------------------------------------------------
(* ReplacingNeverDeadlocks *)

(* A finite set of numbers has a greatest one. *)
LEMMA Greatest ==
    ASSUME NEW S \in SUBSET Nat, S # {}, IsFiniteSet(S)
    PROVE  \E m \in S : \A n \in S : n <= m
<1> DEFINE above(i) == {j \in S : i < j}
           counts == {Cardinality(above(m)) : m \in S}
<1>1. \A m \in S : IsFiniteSet(above(m)) /\ Cardinality(above(m)) \in Nat
    BY FS_Subset, FS_CardinalityType
<1>2. counts \in SUBSET Nat /\ counts # {}
    BY <1>1
<1>3. \E c \in counts : \A d \in counts : ~(<<d, c>> \in OpToRel(<, Nat))
    BY <1>2, NatLessThanWellFounded, WFMin
<1>4. \A c, d \in Nat : ~(<<d, c>> \in OpToRel(<, Nat)) => c <= d
    BY DEF OpToRel
<1>5. PICK m \in S : \A n \in S : Cardinality(above(m)) <= Cardinality(above(n))
    BY <1>2, <1>3, <1>4
<1>6. SUFFICES ASSUME NEW n \in S, m < n PROVE FALSE
    BY <1>5
<1>7. above(n) \subseteq above(m) /\ n \in above(m) /\ n \notin above(n)
    <2>1. m \in Nat /\ n \in Nat /\ \A j \in S : j \in Nat
        OBVIOUS
    <2>2. \A j \in S : n < j => m < j
        BY <1>6, <2>1
    <2>3. ~(n < n)
        BY <2>1
    <2> QED BY <1>6, <2>2, <2>3
<1> HIDE DEF above
<1>8. Cardinality(above(n)) <= Cardinality(above(m)) /\ Cardinality(above(n)) # Cardinality(above(m))
    BY <1>1, <1>7, FS_Subset
<1>9. Cardinality(above(m)) <= Cardinality(above(n))
    BY <1>5, <1>6
<1> QED BY <1>1, <1>6, <1>8, <1>9

(* An editor sends its DELETEs in the order of the ids: whatever rows it   *)
(* holds come before the one it waits for, or is to delete next.           *)
Ordered(e) ==
    /\ stage[e] \in Reading \cup {"update"} => tried[e] = {}
    /\ stage[e] \in {"delete_conditions", "wait_for_row"} =>
        /\ writes[e].deleted \subseteq tried[e]
        /\ \A c \in tried[e], d \in ToDelete(e) : c < d
    /\ stage[e] = "wait_for_row" =>
        /\ awaits[e] \subseteq tried[e]
        /\ \A c \in writes[e].deleted, d \in awaits[e] : c < d

(* The conditions that a PUT brings are its own until it has committed. *)
Replaces(e) == Put(e) /\ request[e].brings = "new"

Unknown(e) ==
    Replaces(e) /\ stage[e] # "committed" =>
        /\ NewConditions[e] \cap conditions = {}
        /\ \A f \in Editors :
            /\ NewConditions[e] \cap existing[f].conditions = {}
            /\ NewConditions[e] \cap orm[f].conditions = {}
            /\ NewConditions[e] \cap writes[f].deleted = {}
            /\ f # e => NewConditions[e] \cap writes[f].inserted = {}

OrderInv == \A e \in Editors : Ordered(e) /\ Unknown(e)

LEMMA InitOrder == Init => OrderInv
BY FreshAssumption DEF Init, OrderInv, Ordered, Unknown, Nothing, Reading

(* The order of an editor is its own. *)
LEMMA OrderStep ==
    ASSUME IInv, NEW e \in Editors, Step(e) \/ Lose(e), NEW f \in Editors, Ordered(f)
    PROVE  Ordered(f)'
<1> USE DEF Ordered, GoTo, Write
<1>1. TypeOK /\ Progress(e)
    BY DEF IInv
<1>2. CASE f # e
    <2>1. /\ stage'[f] = stage[f] /\ tried'[f] = tried[f] /\ orm'[f] = orm[f]
          /\ writes'[f] = writes[f] /\ awaits'[f] \subseteq awaits[f]
        <3> USE <1>1, <1>2 DEF TypeOK
        <3>1. CASE \/ NotFound(e) \/ ConditionsGone(e) \/ Refuse(e) \/ Vanished(e) \/ StaleRow(e)
                   \/ Conflict(e) \/ DeadlockVictim(e) \/ Lose(e)
            BY <3>1 DEF NotFound, ConditionsGone, Refuse, Vanished, StaleRow, Conflict,
                        DeadlockVictim, Fail, Lose
        <3>2. CASE GetRule(e) \/ GetConditions(e) \/ GetAgain(e) \/ GetConditionsAgain(e)
            BY <3>2 DEF GetRule, GetConditions, GetAgain, GetConditionsAgain
        <3>3. CASE UpdateRow(e) \/ DeleteCondition(e) \/ WaitForRow(e) \/ RowReleased(e)
                   \/ ConditionsDeleted(e)
            BY <3>3 DEF UpdateRow, DeleteCondition, WaitForRow, RowReleased, ConditionsDeleted
        <3>4. CASE DeleteRow(e) \/ Cascade(e) \/ InsertConditions(e) \/ Respond(e) \/ Commit(e)
            BY <3>4 DEF DeleteRow, Cascade, InsertConditions, Respond, Commit
        <3> QED BY <3>1, <3>2, <3>3, <3>4 DEF Step
    <2> QED BY <2>1 DEF ToDelete
<1>3. CASE f = e
    <2> USE <1>1, <1>3 DEF TypeOK, Reading
    <2>1. CASE \/ NotFound(e) \/ ConditionsGone(e) \/ Refuse(e) \/ Vanished(e) \/ StaleRow(e)
               \/ Conflict(e) \/ DeadlockVictim(e) \/ Lose(e)
        BY <2>1 DEF NotFound, ConditionsGone, Refuse, Vanished, StaleRow, Conflict,
                    DeadlockVictim, Fail, Lose
    <2>2. CASE GetRule(e) \/ GetConditions(e)
        BY <2>2 DEF GetRule, GetConditions
    <2>3. CASE GetAgain(e) \/ GetConditionsAgain(e)
        BY <2>3 DEF GetAgain, GetConditionsAgain, FirstWrite, Progress, Nothing
    <2>4. CASE UpdateRow(e)
        BY <2>4 DEF UpdateRow, Progress, Nothing
    <2>5. ASSUME ToDelete(e) # {}, tried' = [tried EXCEPT ![e] = @ \cup {NextToDelete(e)}],
                 orm' = orm, stage[e] = "delete_conditions"
          PROVE  /\ \A c \in tried'[e], d \in ToDelete(e)' : c < d
                 /\ \A c \in writes[e].deleted : c < NextToDelete(e)
        <3>1. ToDelete(e)' = ToDelete(e) \ {NextToDelete(e)}
            BY <2>5 DEF ToDelete
        <3>2. ToDelete(e) \in SUBSET Nat
            <4>1. orm[e] \in Loaded
                OBVIOUS
            <4> QED BY <4>1, Numbers DEF ToDelete, Loaded
        <3>3. /\ NextToDelete(e) \in ToDelete(e)
              /\ \A d \in ToDelete(e) : NextToDelete(e) <= d
            BY <2>5, NextExists
        <3>4. \A d \in ToDelete(e)' : NextToDelete(e) < d
            BY <3>1, <3>2, <3>3
        <3>5. \A c \in tried[e], d \in ToDelete(e) : c < d
            BY <2>5
        <3>6. tried'[e] = tried[e] \cup {NextToDelete(e)}
            BY <2>5
        <3> QED BY <2>5, <3>1, <3>3, <3>4, <3>5, <3>6
    <2>6. CASE DeleteCondition(e)
        <3>1. /\ \A c \in tried'[e], d \in ToDelete(e)' : c < d
              /\ stage'[e] = "delete_conditions"
            BY <2>5, <2>6 DEF DeleteCondition
        <3>2. writes'[e].deleted \subseteq tried'[e]
            BY <2>6 DEF DeleteCondition, Writes
        <3> QED BY <3>1, <3>2
    <2>7. CASE WaitForRow(e)
        <3>1. /\ \A c \in tried'[e], d \in ToDelete(e)' : c < d
              /\ \A c \in writes[e].deleted : c < NextToDelete(e)
            BY <2>5, <2>7 DEF WaitForRow
        <3>2. stage'[e] = "wait_for_row" /\ awaits'[e] = {NextToDelete(e)} /\ writes' = writes
            BY <2>7 DEF WaitForRow
        <3>3. writes'[e].deleted \subseteq tried'[e] /\ NextToDelete(e) \in tried'[e]
            BY <2>7 DEF WaitForRow
        <3> QED BY <3>1, <3>2, <3>3
    <2>8. CASE RowReleased(e)
        <3>1. /\ stage'[e] = "delete_conditions" /\ tried' = tried /\ orm' = orm
              /\ writes'[e].deleted \subseteq writes[e].deleted \cup awaits[e]
            BY <2>8 DEF RowReleased, Writes
        <3>2. awaits[e] \subseteq tried[e]
            BY <2>8 DEF RowReleased
        <3>3. \A c \in tried[e], d \in ToDelete(e) : c < d
            BY <2>8 DEF RowReleased
        <3>4. ToDelete(e)' = ToDelete(e) /\ tried'[e] = tried[e]
            BY <3>1 DEF ToDelete
        <3>5. writes'[e].deleted \subseteq tried'[e]
            BY <2>8, <3>1, <3>2 DEF RowReleased
        <3> QED BY <3>1, <3>3, <3>4, <3>5
    <2>9. CASE ConditionsDeleted(e) \/ DeleteRow(e) \/ Cascade(e) \/ InsertConditions(e)
               \/ Respond(e) \/ Commit(e)
        BY <2>9 DEF ConditionsDeleted, DeleteRow, Cascade, InsertConditions, Respond, Commit
    <2> QED BY <2>1, <2>2, <2>3, <2>4, <2>6, <2>7, <2>8, <2>9 DEF Step
<1> QED BY <1>2, <1>3

(* Nobody but the PUT that brings a condition ever has it in hand. *)
LEMMA UnknownStep ==
    ASSUME IInv, OrderInv, NEW e \in Editors, Step(e) \/ Lose(e), NEW p \in Editors
    PROVE  Unknown(p)'
<1> SUFFICES ASSUME Replaces(p)', stage'[p] # "committed", NEW f \in Editors
             PROVE  /\ NewConditions[p] \cap conditions' = {}
                    /\ NewConditions[p] \cap existing'[f].conditions = {}
                    /\ NewConditions[p] \cap orm'[f].conditions = {}
                    /\ NewConditions[p] \cap writes'[f].deleted = {}
                    /\ f # p => NewConditions[p] \cap writes'[f].inserted = {}
    BY DEF Unknown
<1> USE DEF GoTo, Write
<1>1. TypeOK
    BY DEF IInv
<1>2. request' = request
    BY DEF Step, Lose, Fail, GetRule, NotFound, GetConditions, ConditionsGone, Refuse,
        GetAgain, Vanished, GetConditionsAgain, UpdateRow, StaleRow, DeleteCondition,
        WaitForRow, RowReleased, ConditionsDeleted, DeleteRow, Cascade, InsertConditions,
        Conflict, DeadlockVictim, Respond, Commit
<1>3. Replaces(p) /\ stage[p] # "committed"
    BY <1>1, <1>2, CommittedStays DEF Replaces, Put
<1>4. /\ NewConditions[p] \cap conditions = {}
      /\ NewConditions[p] \cap existing[f].conditions = {}
      /\ NewConditions[p] \cap orm[f].conditions = {}
      /\ NewConditions[p] \cap existing[e].conditions = {}
      /\ NewConditions[p] \cap orm[e].conditions = {}
      /\ NewConditions[p] \cap writes[f].deleted = {}
      /\ NewConditions[p] \cap writes[e].deleted = {}
      /\ f # p => NewConditions[p] \cap writes[f].inserted = {}
      /\ e # p => NewConditions[p] \cap writes[e].inserted = {}
    BY <1>3 DEF OrderInv, Unknown
<1> USE <1>1 DEF TypeOK
<1>5. CASE \/ NotFound(e) \/ ConditionsGone(e) \/ Refuse(e) \/ Vanished(e) \/ StaleRow(e)
           \/ Conflict(e) \/ DeadlockVictim(e) \/ Lose(e)
    <2>1. UNCHANGED <<conditions, existing, orm>> /\ writes' = [writes EXCEPT ![e] = Nothing]
        BY <1>5 DEF NotFound, ConditionsGone, Refuse, Vanished, StaleRow, Conflict,
                DeadlockVictim, Fail, Lose, table
    <2> QED BY <1>4, <2>1 DEF Nothing
<1>6. CASE GetRule(e) \/ GetConditions(e) \/ GetAgain(e) \/ GetConditionsAgain(e)
    <2>1. /\ UNCHANGED <<conditions, writes>>
          /\ existing'[f].conditions \subseteq existing[f].conditions \cup conditions
          /\ orm'[f].conditions \subseteq orm[f].conditions \cup existing[e].conditions \cup conditions
        <3>1. CASE GetRule(e) \/ GetConditions(e)
            BY <3>1 DEF GetRule, GetConditions, Loaded, table
        <3>2. CASE GetAgain(e) \/ GetConditionsAgain(e)
            BY <3>2 DEF GetAgain, GetConditionsAgain, Loaded, table
        <3> QED BY <1>6, <3>1, <3>2
    <2> QED BY <1>4, <2>1
<1>7. CASE UpdateRow(e) \/ WaitForRow(e) \/ ConditionsDeleted(e) \/ DeleteRow(e) \/ Respond(e)
    <2>1. /\ UNCHANGED <<conditions, existing, orm>>
          /\ writes'[f].deleted = writes[f].deleted /\ writes'[f].inserted = writes[f].inserted
        BY <1>7 DEF UpdateRow, WaitForRow, ConditionsDeleted, DeleteRow, Respond, Writes, table
    <2> QED BY <1>4, <2>1
<1>8. CASE DeleteCondition(e) \/ RowReleased(e) \/ Cascade(e)
    <2>1. /\ UNCHANGED <<conditions, existing, orm>>
          /\ writes'[f].deleted \subseteq writes[f].deleted \cup conditions
          /\ writes'[f].inserted = writes[f].inserted
        BY <1>8 DEF DeleteCondition, RowReleased, Cascade, Writes, table
    <2> QED BY <1>4, <2>1
<1>9. CASE InsertConditions(e)
    <2>1. /\ UNCHANGED <<conditions, existing, orm>>
          /\ writes'[f].deleted = writes[f].deleted
          /\ writes'[f].inserted = IF f = e THEN Updated(e).conditions ELSE writes[f].inserted
        BY <1>9 DEF InsertConditions, Writes, table
    <2>2. e # p => NewConditions[p] \cap Updated(e).conditions = {}
        <3>1. request[e].brings \in {"kept", "new", "invalid"}
            <4>1. Put(e)
                BY <1>9 DEF IInv, Progress, InsertConditions
            <4> QED BY <4>1 DEF Request, Put
        <3> QED BY <1>4, <3>1, FreshAssumption DEF Updated
    <2> QED BY <1>4, <2>1, <2>2
<1>10. CASE Commit(e)
    <2>1. e # p
        BY <1>10 DEF Commit
    <2>2. /\ conditions' \subseteq conditions \cup writes[e].inserted
          /\ UNCHANGED <<existing, orm>>
          /\ writes' = [writes EXCEPT ![e] = Nothing]
        BY <1>10 DEF Commit
    <2> QED BY <1>4, <2>1, <2>2 DEF Nothing
<1> QED BY <1>5, <1>6, <1>7, <1>8, <1>9, <1>10 DEF Step

(* So both hold throughout. *)
LEMMA OrderKept == Spec => []OrderInv
<1>1. IInv /\ OrderInv /\ [Next]_vars => OrderInv'
    <2> SUFFICES ASSUME IInv, OrderInv, [Next]_vars PROVE OrderInv'
        OBVIOUS
    <2>1. ASSUME NEW e \in Editors, Step(e) \/ Lose(e) PROVE OrderInv'
        BY <2>1, OrderStep, UnknownStep DEF OrderInv
    <2>2. CASE UNCHANGED vars
        BY <2>2 DEF vars, table, OrderInv, Ordered, Unknown, ToDelete, Replaces, Put
    <2> QED BY <2>1, <2>2 DEF Next
<1> QED BY <1>1, InitOrder, Inductive, PTL DEF Spec

(* A PUT that replaces waits for another only to update the rule, while it *)
(* holds nothing, or for a condition beyond all that it holds.             *)
AwaitedRows(e) == IF stage[e] = "delete_conditions" THEN {NextToDelete(e)} ELSE awaits[e]

LEMMA WaitsAhead ==
    ASSUME IInv, OrderInv, NEW e \in Editors, NEW f \in BlockedBy(e), Replaces(e), Put(f)
    PROVE  \/ stage[e] = "update" /\ WritesRow(f)
           \/ /\ stage[e] \in {"delete_conditions", "wait_for_row"}
              /\ AwaitedRows(e) \cap writes[f].deleted # {}
              /\ \A c \in writes[e].deleted, d \in AwaitedRows(e) : c < d
<1>1. TypeOK /\ Progress(e) /\ Consistent(f) /\ Ordered(e) /\ Unknown(e) /\ f \in Editors /\ f # e
    BY DEF IInv, OrderInv, BlockedBy
<1>2. stage[e] # "insert"
    <2> SUFFICES ASSUME stage[e] = "insert" PROVE FALSE
        OBVIOUS
    <2>1. Updated(e).conditions = NewConditions[e]
        BY DEF Updated, Replaces
    <2>2. ~writes[f].removed
        BY <1>1 DEF Consistent
    <2>3. NewConditions[e] \cap (writes[f].deleted \cup writes[f].inserted) = {}
        BY <1>1 DEF Unknown
    <2> QED BY <2>1, <2>2, <2>3 DEF BlockedBy
<1>3. stage[e] \notin {"delete_rule", "cascade"}
    BY <1>1 DEF Progress, Replaces
<1>4. CASE stage[e] = "delete_conditions"
    <2>1. ToDelete(e) # {} /\ NextToDelete(e) \in writes[f].deleted
        BY <1>4 DEF BlockedBy
    <2>2. NextToDelete(e) \in ToDelete(e)
        BY <1>1, <2>1, NextExists
    <2> QED BY <1>1, <1>4, <2>1, <2>2 DEF Ordered, AwaitedRows
<1>5. CASE stage[e] = "wait_for_row"
    BY <1>1, <1>5 DEF BlockedBy, Ordered, AwaitedRows
<1>6. CASE stage[e] = "update"
    BY <1>6 DEF BlockedBy
<1> QED BY <1>2, <1>3, <1>4, <1>5, <1>6 DEF BlockedBy

(* PUTs that bring conditions of their own never wait for each other in a  *)
(* ring: the greatest row that one of a ring awaits is held by another of  *)
(* the ring, which awaits a greater one.                                   *)
THEOREM ReplacingIsDeadlockFree == Spec => []ReplacingNeverDeadlocks
<1>1. IInv /\ OrderInv => ReplacingNeverDeadlocks
    <2> SUFFICES ASSUME IInv, OrderInv, NEW ring \in SUBSET Editors, ring # {},
                        \A e \in ring : BlockedBy(e) \cap ring # {},
                        \A e \in ring : Put(e) /\ request[e].brings # "kept"
                 PROVE  FALSE
        BY DEF ReplacingNeverDeadlocks
    <2>1. \A e \in ring : Replaces(e)
        <3> SUFFICES ASSUME NEW e \in ring PROVE Replaces(e)
            OBVIOUS
        <3>1. stage[e] \in Writing
            BY DEF BlockedBy, Writing
        <3>2. Valid(e) /\ request[e] \in Request
            BY <3>1 DEF IInv, TypeOK, Progress, Writing, Reading, Ended
        <3> QED BY <3>2 DEF Valid, Put, Request, Replaces
    <2> DEFINE deleting == {e \in ring : stage[e] # "update"}
    <2>2. \A e \in ring : \A f \in BlockedBy(e) \cap ring : f \in deleting
        <3> SUFFICES ASSUME NEW e \in ring, NEW f \in BlockedBy(e) \cap ring PROVE stage[f] # "update"
            OBVIOUS
        <3>1. WritesRow(f) \/ writes[f].deleted # {}
            BY <2>1, WaitsAhead DEF Replaces
        <3> QED BY <3>1 DEF IInv, Progress, Nothing, WritesRow
    <2> DEFINE held(e) == AwaitedRows(e) \cap UNION {writes[f].deleted : f \in deleting}
    <2>3. \A e \in deleting :
            /\ held(e) # {}
            /\ \A c \in writes[e].deleted, d \in AwaitedRows(e) : c < d
        <3> SUFFICES ASSUME NEW e \in deleting
                     PROVE  /\ held(e) # {}
                            /\ \A c \in writes[e].deleted, d \in AwaitedRows(e) : c < d
            OBVIOUS
        <3>1. PICK f \in BlockedBy(e) \cap ring : TRUE
            OBVIOUS
        <3>2. f \in deleting
            BY <2>2, <3>1
        <3>3. /\ AwaitedRows(e) \cap writes[f].deleted # {}
              /\ \A c \in writes[e].deleted, d \in AwaitedRows(e) : c < d
            BY <2>1, <3>1, WaitsAhead DEF Replaces
        <3> QED BY <3>2, <3>3
    <2> DEFINE first == [e \in deleting |-> CHOOSE c \in held(e) : TRUE]
               awaited == {first[e] : e \in deleting}
    <2>4. \A e \in deleting : first[e] \in held(e)
        BY <2>3
    <2>5. deleting # {}
        BY <2>2
    <2>6. awaited \in SUBSET Nat /\ awaited # {}
        <3>1. \A f \in deleting : writes[f].deleted \in SUBSET Nat
            <4>1. \A f \in Editors : writes[f].deleted \in SUBSET CondIds
                BY DEF IInv, TypeOK, Writes
            <4> QED BY <4>1, Numbers
        <3>2. \A e \in deleting : \E f \in deleting : first[e] \in writes[f].deleted
            BY <2>4
        <3>3. \A e \in deleting : first[e] \in Nat
            BY <3>1, <3>2
        <3> HIDE DEF first, deleting
        <3> QED BY <2>5, <3>3
    <2>7. IsFiniteSet(awaited)
        <3>1. IsFiniteSet(deleting)
            BY EditorsAssumption, FS_Subset
        <3>2. first \in Surjection(deleting, awaited)
            BY DEF Surjection
        <3> QED BY <3>1, <3>2, FS_Surjection DEF ExistsSurjection
    <2>8. PICK m \in awaited : \A n \in awaited : n <= m
        BY <2>6, <2>7, Greatest
    <2>9. PICK f \in deleting : m \in writes[f].deleted
        <3>1. PICK e \in deleting : m = first[e]
            BY <2>8
        <3>2. m \in UNION {writes[f].deleted : f \in deleting}
            <4>1. first[e] \in held(e)
                BY <2>4
            <4> HIDE DEF first
            <4> QED BY <3>1, <4>1
        <3> HIDE DEF deleting
        <3> QED BY <3>2
    <2>10. m < first[f] /\ first[f] \in awaited
        <3>1. first[f] \in AwaitedRows(f) /\ first[f] \in awaited
            BY <2>4
        <3> HIDE DEF first, awaited
        <3> QED BY <2>3, <2>9, <3>1
    <2>11. m \in Nat /\ first[f] \in Nat /\ first[f] <= m
        BY <2>6, <2>8, <2>10
    <2> HIDE DEF first, awaited
    <2> QED BY <2>10, <2>11
<1> QED BY <1>1, Inductive, OrderKept, PTL
==============================================================================

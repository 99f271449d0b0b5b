----------------------------- MODULE RuleStore ------------------------------
(***************************************************************************)
(* PUT and DELETE /rules/{id} as the transactions they are: the statements *)
(* that api/routers/rules.py and infrastructure/db/repository.py make the  *)
(* session send, for several editors of one rule at a time.  No statement  *)
(* touches two rules, so one is enough.                                    *)
(*                                                                         *)
(* PostgreSQL runs the statements at READ COMMITTED. A reader sees what is *)
(* committed and never waits; a statement that writes a row waits for the  *)
(* transaction that has written it, then acts on what is committed, a      *)
(* DELETE only on the row it waited for, not on a new one with its key. An *)
(* UPDATE or DELETE of a row that is gone affects no row; of these only    *)
(* the UPDATE is an error to SQLAlchemy (StaleDataError). An INSERT of a   *)
(* condition locks the rule it refers to against deletion.                 *)
(*                                                                         *)
(* is_enabled stands for the columns of tag_rules that a PUT may set; a    *)
(* condition is its id, a number, the order in which rows are deleted.     *)
(***************************************************************************)
EXTENDS Naturals, FiniteSets

CONSTANTS
    Editors,        \* each sends one request
    OldConditions,  \* the conditions the rule has at first
    NewConditions,  \* NewConditions[e]: the conditions of e's PUT, with fresh uuids
    Unused, Deleted \* the markers of RuleTable

CondIds == OldConditions \cup UNION {NewConditions[e] : e \in Editors}
Loaded == [is_enabled : BOOLEAN, conditions : SUBSET CondIds]

ASSUME ConditionsAssumption ==
    /\ OldConditions \in (SUBSET Nat) \ {{}}
    /\ NewConditions \in [Editors -> (SUBSET Nat) \ {{}}]

ASSUME FreshAssumption ==
    \A e, f \in Editors :
        NewConditions[e] \cap (OldConditions \cup IF f = e THEN {} ELSE NewConditions[f]) = {}

ASSUME EditorsAssumption == IsFiniteSet(Editors)

ASSUME MarkersAssumption ==
    /\ \A row \in Loaded : row \notin {Unused, Deleted}
    /\ Unused # Deleted

(* A PUT may set is_enabled on or off, or not at all; it may bring         *)
(* conditions, keep those there are, or bring an empty list or an unknown  *)
(* type, which the domain models refuse.                                   *)
Request == [op : {"put"}, sets : {"on", "off", "absent"}, brings : {"kept", "new", "invalid"}]
           \cup [op : {"delete"}]

VARIABLES
    exists, is_enabled, conditions,  \* the committed rows of the rule
    request,     \* request[e]: what e asks for
    stage,       \* stage[e]: the statement it sends next, or how it ended
    existing,    \* existing[e]: what the endpoint loaded
    orm,         \* orm[e]: what the repository loaded when it got the rule again
    tried,       \* tried[e]: the conditions it has sent a DELETE for
    awaits,      \* awaits[e]: the condition whose row its DELETE waits for, while it stands
    writes,      \* writes[e]: what its open transaction has written, and so locks
    answer       \* answer[e]: the HTTP status, 0 if none yet

table == <<exists, is_enabled, conditions>>
vars == <<table, request, stage, existing, orm, tried, awaits, writes, answer>>

Nothing == [updated |-> FALSE, removed |-> FALSE, deleted |-> {}, inserted |-> {}]
Writes == [updated : BOOLEAN, removed : BOOLEAN,
           deleted : SUBSET CondIds, inserted : SUBSET CondIds]

Reading == {"new", "read_conditions", "get_again", "reread_conditions"}
Writing == {"update", "delete_conditions", "wait_for_row", "delete_rule", "cascade", "insert"}
Ended == {"committed", "failed"}
Stages == Reading \cup Writing \cup {"respond", "commit"} \cup Ended

Init ==
    /\ exists = TRUE
    /\ is_enabled \in BOOLEAN
    /\ conditions = OldConditions
    /\ request \in [Editors -> Request]
    /\ stage = [e \in Editors |-> "new"]
    /\ existing = [e \in Editors |-> [is_enabled |-> FALSE, conditions |-> {}]]
    /\ orm = existing
    /\ tried = [e \in Editors |-> {}]
    /\ awaits = tried
    /\ writes = [e \in Editors |-> Nothing]
    /\ answer = [e \in Editors |-> 0]

Put(e) == request[e].op = "put"
MutValid(e) == TRUE  \* a mutant: an empty list of conditions is accepted
Valid(e) == Put(e) => request[e].brings # "invalid"

(* The TagRule that the endpoint builds from the request and what it read. *)
Updated(e) ==
    [is_enabled |-> IF request[e].sets = "absent"
                    THEN existing[e].is_enabled ELSE request[e].sets = "on",
     conditions |-> CASE request[e].brings = "kept"    -> existing[e].conditions
                      [] request[e].brings = "new"     -> NewConditions[e]
                      [] request[e].brings = "invalid" -> {}]

(* The session sends an UPDATE only for columns whose value is another     *)
(* than the one it loaded.                                                 *)
ChangesRule(e) == Updated(e).is_enabled # orm[e].is_enabled

ToDelete(e) == orm[e].conditions \ tried[e]
MutNextToDelete(e) ==  \* a mutant: not every session deletes in the order of the ids
    CHOOSE c \in ToDelete(e) :
        \A d \in ToDelete(e) : IF Put(e) /\ request[e].sets = "off" THEN d <= c ELSE c <= d
NextToDelete(e) == CHOOSE c \in ToDelete(e) : \A d \in ToDelete(e) : c <= d

-----------------------------------------------------------------------------
(* Row locks *)

WritesRow(f) == writes[f].updated \/ writes[f].removed

(* The editors whose transactions e's next statement waits for. *)
BlockedBy(e) ==
    {f \in Editors \ {e} :
        \/ stage[e] = "update" /\ ChangesRule(e) /\ WritesRow(f)
        \/ stage[e] = "delete_conditions" /\ ToDelete(e) # {}
            /\ NextToDelete(e) \in writes[f].deleted
        \/ stage[e] = "wait_for_row" /\ awaits[e] \cap writes[f].deleted # {}
        \/ stage[e] = "delete_rule" /\ (WritesRow(f) \/ writes[f].inserted # {})
        \/ stage[e] = "cascade"
            /\ writes[f].deleted \cap (conditions \ writes[e].deleted) # {}
        \/ stage[e] = "insert"
            /\ \/ writes[f].removed
               \/ Updated(e).conditions \cap (writes[f].deleted \cup writes[f].inserted) # {}}

Free(e) == BlockedBy(e) = {}

(* Editors that wait for each other in a ring. *)
Deadlocked(e) ==
    \E ring \in SUBSET Editors :
        /\ e \in ring
        /\ \A f \in ring : /\ BlockedBy(f) \cap ring # {}
                           /\ \E g \in ring : f \in BlockedBy(g)

-----------------------------------------------------------------------------
GoTo(e, s) == stage' = [stage EXCEPT ![e] = s]
Write(e, w) == writes' = [writes EXCEPT ![e] = w]

(* A mutant: the session of a failed request stays open. *)
MutFail(e, status) ==
    /\ answer' = [answer EXCEPT ![e] = status]
    /\ GoTo(e, "failed")
    /\ UNCHANGED <<table, request, existing, orm, tried, awaits, writes>>

(* An exception leaves the endpoint; the dependency closes the session     *)
(* without a commit, which rolls back and releases the locks.              *)
Fail(e, status) ==
    /\ answer' = [answer EXCEPT ![e] = status]
    /\ GoTo(e, "failed")
    /\ Write(e, Nothing)
    /\ UNCHANGED <<table, request, existing, orm, tried, awaits>>

-----------------------------------------------------------------------------
(* The endpoint's get_rule_by_id *)

GetRule(e) ==
    /\ stage[e] = "new"
    /\ exists
    /\ existing' = [existing EXCEPT ![e].is_enabled = is_enabled]
    /\ GoTo(e, "read_conditions")
    /\ UNCHANGED <<table, request, orm, tried, awaits, writes, answer>>

NotFound(e) ==
    /\ stage[e] = "new"
    /\ ~exists
    /\ Fail(e, 404)

GetConditions(e) ==
    /\ stage[e] = "read_conditions"
    /\ conditions # {}
    /\ existing' = [existing EXCEPT ![e].conditions = conditions]
    /\ GoTo(e, "get_again")
    /\ UNCHANGED <<table, request, orm, tried, awaits, writes, answer>>

(* The rule has been deleted since: to_domain() refuses a rule without     *)
(* conditions.                                                             *)
ConditionsGone(e) ==
    /\ stage[e] = "read_conditions"
    /\ conditions = {}
    /\ Fail(e, 500)

-----------------------------------------------------------------------------
(* The repository's session.get *)

(* A mutant: the new conditions are flushed before the old ones go. *)
MutFirstWrite(e) == IF Put(e) THEN "insert" ELSE "delete_conditions"
FirstWrite(e) == IF Put(e) THEN "update" ELSE "delete_conditions"

Refuse(e) ==
    /\ stage[e] = "get_again"
    /\ ~Valid(e)
    /\ Fail(e, 500)

(* The identity map holds the row weakly.  As a rule nobody refers to it   *)
(* any more, and it is loaded again; else the session has it still.        *)
GetAgain(e) ==
    /\ stage[e] = "get_again"
    /\ Valid(e)
    /\ \/ orm' = [orm EXCEPT ![e] = existing[e]] /\ GoTo(e, FirstWrite(e))
       \/ /\ exists
          /\ orm' = [orm EXCEPT ![e].is_enabled = is_enabled]
          /\ GoTo(e, "reread_conditions")
    /\ UNCHANGED <<table, request, existing, tried, awaits, writes, answer>>

Vanished(e) ==
    /\ stage[e] = "get_again"
    /\ Valid(e)
    /\ ~exists
    /\ Fail(e, 500)

GetConditionsAgain(e) ==
    /\ stage[e] = "reread_conditions"
    /\ orm' = [orm EXCEPT ![e].conditions = conditions]
    /\ GoTo(e, FirstWrite(e))
    /\ UNCHANGED <<table, request, existing, tried, awaits, writes, answer>>

-----------------------------------------------------------------------------
(* The first flush: the rule's columns and the conditions it had *)

UpdateRow(e) ==
    /\ stage[e] = "update"
    /\ Free(e)
    /\ ChangesRule(e) => exists
    /\ Write(e, [writes[e] EXCEPT !.updated = ChangesRule(e)])
    /\ GoTo(e, "delete_conditions")
    /\ UNCHANGED <<table, request, existing, orm, tried, awaits, answer>>

StaleRow(e) ==
    /\ stage[e] = "update"
    /\ Free(e)
    /\ ChangesRule(e) /\ ~exists
    /\ Fail(e, 500)

DeleteCondition(e) ==
    /\ stage[e] = "delete_conditions"
    /\ ToDelete(e) # {}
    /\ Free(e)
    /\ LET c == NextToDelete(e)
       IN  /\ tried' = [tried EXCEPT ![e] = @ \cup {c}]
           /\ Write(e, [writes[e] EXCEPT !.deleted = @ \cup ({c} \cap conditions)])
    /\ UNCHANGED <<table, request, stage, existing, orm, awaits, answer>>

WaitForRow(e) ==
    /\ stage[e] = "delete_conditions"
    /\ ToDelete(e) # {}
    /\ ~Free(e)
    /\ LET c == NextToDelete(e)
       IN  /\ tried' = [tried EXCEPT ![e] = @ \cup {c}]
           /\ awaits' = [awaits EXCEPT ![e] = {c}]
    /\ GoTo(e, "wait_for_row")
    /\ UNCHANGED <<table, request, existing, orm, writes, answer>>

RowReleased(e) ==
    /\ stage[e] = "wait_for_row"
    /\ Free(e)
    /\ Write(e, [writes[e] EXCEPT !.deleted = @ \cup (awaits[e] \cap conditions)])
    /\ awaits' = [awaits EXCEPT ![e] = {}]
    /\ GoTo(e, "delete_conditions")
    /\ UNCHANGED <<table, request, existing, orm, tried, answer>>

ConditionsDeleted(e) ==
    /\ stage[e] = "delete_conditions"
    /\ ToDelete(e) = {}
    /\ GoTo(e, IF Put(e) THEN "insert" ELSE "delete_rule")
    /\ UNCHANGED <<table, request, existing, orm, tried, awaits, writes, answer>>

-----------------------------------------------------------------------------
(* The rest of a DELETE: the rule, and what conditions it has by now *)

DeleteRow(e) ==
    /\ stage[e] = "delete_rule"
    /\ Free(e)
    /\ Write(e, [writes[e] EXCEPT !.removed = exists])
    /\ GoTo(e, "cascade")
    /\ UNCHANGED <<table, request, existing, orm, tried, awaits, answer>>

Cascade(e) ==
    /\ stage[e] = "cascade"
    /\ Free(e)
    /\ Write(e, [writes[e] EXCEPT !.deleted = conditions])
    /\ GoTo(e, "respond")
    /\ UNCHANGED <<table, request, existing, orm, tried, awaits, answer>>

-----------------------------------------------------------------------------
(* The second flush of a PUT: its conditions *)

Duplicate(e) == Updated(e).conditions \cap (conditions \ writes[e].deleted) # {}

(* A mutant: the condition has no foreign key. *)
MutInsertConditions(e) ==
    /\ stage[e] = "insert"
    /\ Free(e)
    /\ ~Duplicate(e)
    /\ Write(e, [writes[e] EXCEPT !.inserted = Updated(e).conditions])
    /\ GoTo(e, "respond")
    /\ UNCHANGED <<table, request, existing, orm, tried, awaits, answer>>

InsertConditions(e) ==
    /\ stage[e] = "insert"
    /\ Free(e)
    /\ exists /\ ~Duplicate(e)
    /\ Write(e, [writes[e] EXCEPT !.inserted = Updated(e).conditions])
    /\ GoTo(e, "respond")
    /\ UNCHANGED <<table, request, existing, orm, tried, awaits, answer>>

(* The primary key is taken, or the foreign key finds no rule: both are an *)
(* IntegrityError, and integrity_error_handler answers 409.                *)
Conflict(e) ==
    /\ stage[e] = "insert"
    /\ Free(e)
    /\ ~exists \/ Duplicate(e)
    /\ Fail(e, 409)

(* The database ends one of a ring of waiting transactions. *)
DeadlockVictim(e) ==
    /\ Deadlocked(e)
    /\ Fail(e, 500)

-----------------------------------------------------------------------------
(* The response, then the commit *)

MutRespond(e) ==  \* a mutant: a PUT creates
    /\ stage[e] = "respond"
    /\ answer' = [answer EXCEPT ![e] = IF Put(e) THEN 201 ELSE 204]
    /\ GoTo(e, "commit")
    /\ UNCHANGED <<table, request, existing, orm, tried, awaits, writes>>

Respond(e) ==
    /\ stage[e] = "respond"
    /\ answer' = [answer EXCEPT ![e] = IF Put(e) THEN 200 ELSE 204]
    /\ GoTo(e, "commit")
    /\ UNCHANGED <<table, request, existing, orm, tried, awaits, writes>>

(* A row that the commit deletes is not there for those who wait for it,   *)
(* even if the commit inserts its key again.                               *)
Commit(e) ==
    /\ stage[e] = "commit"
    /\ exists' = (exists /\ ~writes[e].removed)
    /\ is_enabled' = IF writes[e].updated THEN Updated(e).is_enabled ELSE is_enabled
    /\ conditions' = (conditions \ writes[e].deleted) \cup writes[e].inserted
    /\ awaits' = [f \in Editors |-> awaits[f] \ writes[e].deleted]
    /\ Write(e, Nothing)
    /\ GoTo(e, "committed")
    /\ UNCHANGED <<request, existing, orm, tried, answer>>

(* The process dies, the connection is lost or the commit is refused: the  *)
(* database rolls back, whatever has been answered.                        *)
Lose(e) ==
    /\ stage[e] \notin Ended
    /\ GoTo(e, "failed")
    /\ Write(e, Nothing)
    /\ UNCHANGED <<table, request, existing, orm, tried, awaits, answer>>

-----------------------------------------------------------------------------
Step(e) ==
    \/ GetRule(e) \/ NotFound(e) \/ GetConditions(e) \/ ConditionsGone(e)
    \/ Refuse(e) \/ GetAgain(e) \/ Vanished(e) \/ GetConditionsAgain(e)
    \/ UpdateRow(e) \/ StaleRow(e) \/ DeleteCondition(e) \/ WaitForRow(e) \/ RowReleased(e)
    \/ ConditionsDeleted(e) \/ DeleteRow(e) \/ Cascade(e) \/ InsertConditions(e) \/ Conflict(e)
    \/ DeadlockVictim(e) \/ Respond(e) \/ Commit(e)

Next == \E e \in Editors : Step(e) \/ Lose(e)

Spec == Init /\ [][Next]_vars

(* The server runs a request it has begun; the database grants a free lock *)
(* and resolves a deadlock.                                                *)
FairSpec == Spec /\ \A e \in Editors : WF_vars(stage[e] # "new" /\ Step(e))

-----------------------------------------------------------------------------
TypeOK ==
    /\ exists \in BOOLEAN /\ is_enabled \in BOOLEAN
    /\ conditions \in SUBSET CondIds
    /\ request \in [Editors -> Request]
    /\ stage \in [Editors -> Stages]
    /\ existing \in [Editors -> Loaded]
    /\ orm \in [Editors -> Loaded]
    /\ tried \in [Editors -> SUBSET CondIds]
    /\ awaits \in [Editors -> SUBSET CondIds]
    /\ writes \in [Editors -> Writes]
    /\ answer \in [Editors -> {0, 200, 204, 404, 409, 500}]

(* However edits interleave, a committed rule has a condition, and no      *)
(* condition outlives its rule.                                            *)
RuleIntact == exists <=> conditions # {}

(* A request with a well-formed body fails only because of another editor: *)
(* one that has committed, or one it is in a deadlock with.                *)
FailsOnlyOnConflict ==
    [][\A e \in Editors :
        answer[e] = 0 /\ answer'[e] \in {404, 409, 500} /\ Valid(e) =>
            Deadlocked(e) \/ \E f \in Editors \ {e} : stage[f] = "committed"]_vars

(* Every session deletes conditions in the order of their ids, after the   *)
(* UPDATE of the rule: PUTs that bring conditions of their own may wait    *)
(* for each other, but never in a ring.  A deadlock takes a DELETE, or a   *)
(* PUT that inserts ids again which others may be deleting.                *)
ReplacingNeverDeadlocks ==
    \A ring \in SUBSET Editors :
        ring # {} /\ (\A e \in ring : BlockedBy(e) \cap ring # {}) =>
            \E e \in ring : ~Put(e) \/ request[e].brings = "kept"

(* No edit that has begun waits for ever. *)
EditEnds == \A e \in Editors : stage[e] = "read_conditions" ~> stage[e] \in Ended

(* Every commit is an edit of RuleTable. *)
Table == INSTANCE RuleTable WITH
    TagIds <- {"tag"}, RuleIds <- {"rule"}, TagOf <- [r \in {"rule"} |-> "tag"],
    Conditions <- CondIds, tags <- {"tag"}, active_tags <- {"tag"},
    rules <- [r \in {"rule"} |->
                IF exists THEN [is_enabled |-> is_enabled, conditions |-> conditions] ELSE Deleted]
ImplementsTable == Table!TableSpec

-----------------------------------------------------------------------------
(* What docs and comments say and the code does not do. *)

(* "Update an existing rule and replace all its conditions ... clean slate *)
(* on every update" (repository.py).                                       *)
ReplacesAll ==
    [][\A e \in Editors :
        Commit(e) /\ Put(e) => conditions' = Updated(e).conditions]_vars

(* "Apply partial updates" (rules.py): what a PUT does not bring it leaves *)
(* as it is.                                                               *)
PartialUpdate ==
    [][\A e \in Editors :
        Commit(e) /\ Put(e) =>
            /\ request[e].sets = "absent" => is_enabled' = is_enabled
            /\ request[e].brings = "kept" => conditions' = conditions]_vars
=============================================================================

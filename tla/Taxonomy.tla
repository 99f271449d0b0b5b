------------------------------ MODULE Taxonomy ------------------------------
(***************************************************************************)
(* POST of categories, tags and rules, and GET /taxonomy, as the           *)
(* transactions they are (api/routers/taxonomy.py, api/routers/rules.py,   *)
(* infrastructure/db/repository.py), for several requests at a time.       *)
(*                                                                         *)
(* A request inserts at most one row of the three tables, under a fresh    *)
(* uuid: the request itself stands for the row and for its id.  The row is *)
(* seen by others once the request has committed, and nothing changes or   *)
(* deletes it: a category and a tag have no PUT and no DELETE, and what    *)
(* RuleStore does to rules is left to it.                                  *)
(*                                                                         *)
(* An INSERT of a slug that an open transaction has inserted waits for its *)
(* end.  A foreign key sees committed rows only, and does not wait for one *)
(* that is being inserted.                                                 *)
(***************************************************************************)
CONSTANTS
    Requests,
    CategorySlugs, TagSlugs,
    Unknown        \* an id that no row has

ASSUME UnknownAssumption == Unknown \notin Requests

Ids == Requests \cup {Unknown}

CategoryBody == [op : {"category"}, slug : CategorySlugs, is_active : BOOLEAN]
TagBody == [op : {"tag"}, slug : TagSlugs, category_id : Ids, is_active : BOOLEAN]
RuleBody == [op : {"rule"}, tag_id : Ids]
(* A body is refused by its schema, by the domain model that the endpoint  *)
(* builds, or by the database (a name of more than 255 characters).        *)
InvalidBody == [op : {"invalid"}, for : {"schema", "domain", "database"}]
Body == CategoryBody \cup TagBody \cup RuleBody \cup InvalidBody \cup [op : {"get"}]

NoBody == [op |-> "none"]
NoList == [categories |-> {}, tags |-> {}]

VARIABLES
    body,     \* body[q]: what q asks for
    stage,    \* stage[q]: the statement it sends next, or how it ended
    answer,   \* answer[q]: the HTTP status, 0 if none yet
    listed    \* listed[q]: the categories and tags that a GET has read

vars == <<body, stage, answer, listed>>

(* The stages of a transaction that has inserted its row. *)
Holding == {"insert_conditions", "respond", "commit"}
Ended == {"committed", "failed"}
Stages == {"new", "received", "read_tags"} \cup Holding \cup Ended

Init ==
    /\ body = [q \in Requests |-> NoBody]
    /\ stage = [q \in Requests |-> "new"]
    /\ answer = [q \in Requests |-> 0]
    /\ listed = [q \in Requests |-> NoList]

GoTo(q, s) == stage' = [stage EXCEPT ![q] = s]

-----------------------------------------------------------------------------
(* The tables *)

(* The committed rows of the table that an operation inserts into. *)
Rows(op) == {q \in Requests : body[q].op = op /\ stage[q] = "committed"}

(* What get_all_categories and get_all_active_tags return. *)
Active(op) == {q \in Rows(op) : body[q].is_active}

HasSlug(q) == body[q].op \in {"category", "tag"}

SameKey(p, q) ==
    /\ p # q
    /\ HasSlug(p)
    /\ body[p].op = body[q].op
    /\ body[p].slug = body[q].slug

(* A mutant: a transaction that failed is not rolled back. *)
MutOpen(q) == stage[q] \in Holding \cup {"failed"} /\ answer[q] = 201
Open(q) == stage[q] \in Holding

Free(q) == \A p \in Requests : SameKey(p, q) => ~Open(p)

MutTaken(q) == FALSE  \* a mutant: the slug has no unique index
Taken(q) == \E p \in Rows(body[q].op) : SameKey(p, q)

(* A mutant: a foreign key is content with a row that is not committed.    *)
MutReferenceExists(q) ==
    LET Inserted(op) == {p \in Requests : body[p].op = op /\ (Open(p) \/ p \in Rows(op))}
    IN  /\ body[q].op = "tag" => body[q].category_id \in Inserted("category")
        /\ body[q].op = "rule" => body[q].tag_id \in Inserted("tag")
ReferenceExists(q) ==
    /\ body[q].op = "tag" => body[q].category_id \in Rows("category")
    /\ body[q].op = "rule" => body[q].tag_id \in Rows("tag")

-----------------------------------------------------------------------------
Receive(q, b) ==
    /\ stage[q] = "new"
    /\ body' = [body EXCEPT ![q] = b]
    /\ GoTo(q, "received")
    /\ UNCHANGED <<answer, listed>>

(* The exception of a request, whose session is closed without a commit. *)
Fail(q, status) ==
    /\ answer' = [answer EXCEPT ![q] = status]
    /\ GoTo(q, "failed")
    /\ UNCHANGED <<body, listed>>

Refuse(q) ==
    /\ stage[q] = "received"
    /\ body[q].op = "invalid"
    /\ Fail(q, IF body[q].for = "schema" THEN 422 ELSE 500)

(* create_category, create_tag, and the first flush of create_rule.        *)
Insert(q) ==
    /\ stage[q] = "received"
    /\ body[q].op \in {"category", "tag", "rule"}
    /\ Free(q)
    /\ ~Taken(q) /\ ReferenceExists(q)
    /\ GoTo(q, IF body[q].op = "rule" THEN "insert_conditions" ELSE "respond")
    /\ UNCHANGED <<body, answer, listed>>

(* A mutant: the INSERT does not wait for the transaction that holds the slug. *)
MutConflict(q) ==
    /\ stage[q] = "received"
    /\ body[q].op \in {"category", "tag", "rule"}
    /\ ~Free(q) \/ Taken(q) \/ ~ReferenceExists(q)
    /\ Fail(q, 409)

(* integrity_error_handler: the slug is taken, or the id refers to no row. *)
Conflict(q) ==
    /\ stage[q] = "received"
    /\ body[q].op \in {"category", "tag", "rule"}
    /\ Free(q)
    /\ Taken(q) \/ ~ReferenceExists(q)
    /\ Fail(q, 409)

(* The second flush of create_rule: conditions with fresh ids, of a rule   *)
(* that the transaction has inserted itself.                               *)
InsertConditions(q) ==
    /\ stage[q] = "insert_conditions"
    /\ GoTo(q, "respond")
    /\ UNCHANGED <<body, answer, listed>>

(* The two statements of GET /taxonomy. *)
ReadCategories(q) ==
    /\ stage[q] = "received"
    /\ body[q].op = "get"
    /\ listed' = [listed EXCEPT ![q].categories = Active("category")]
    /\ GoTo(q, "read_tags")
    /\ UNCHANGED <<body, answer>>

ReadTags(q) ==
    /\ stage[q] = "read_tags"
    /\ listed' = [listed EXCEPT ![q].tags = Active("tag")]
    /\ GoTo(q, "respond")
    /\ UNCHANGED <<body, answer>>

MutRespond(q) ==  \* a mutant: the status of a creation on every endpoint
    /\ stage[q] = "respond"
    /\ answer' = [answer EXCEPT ![q] = 201]
    /\ GoTo(q, "commit")
    /\ UNCHANGED <<body, listed>>

Respond(q) ==
    /\ stage[q] = "respond"
    /\ answer' = [answer EXCEPT ![q] = IF body[q].op = "get" THEN 200 ELSE 201]
    /\ GoTo(q, "commit")
    /\ UNCHANGED <<body, listed>>

Commit(q) ==
    /\ stage[q] = "commit"
    /\ GoTo(q, "committed")
    /\ UNCHANGED <<body, answer, listed>>

(* The process dies, the connection is lost or the commit is refused: the  *)
(* database rolls back, whatever has been answered.                        *)
Lose(q) ==
    /\ stage[q] \notin Ended \cup {"new"}
    /\ GoTo(q, "failed")
    /\ UNCHANGED <<body, answer, listed>>

-----------------------------------------------------------------------------
Step(q) ==
    \/ Refuse(q) \/ Insert(q) \/ Conflict(q) \/ InsertConditions(q)
    \/ ReadCategories(q) \/ ReadTags(q) \/ Respond(q) \/ Commit(q)

(* A client knows an id from the answer to the request that drew it. *)
Known == {q \in Requests : answer[q] = 201} \cup {Unknown}
Sendable ==
    {b \in Body : /\ b.op = "tag" => b.category_id \in Known
                  /\ b.op = "rule" => b.tag_id \in Known}

ServerNext == \E q \in Requests : Step(q) \/ Lose(q)
Next ==
    \/ \E q \in Requests, b \in Sendable : Receive(q, b)
    \/ ServerNext

Spec == Init /\ [][Next]_vars

-----------------------------------------------------------------------------
TypeOK ==
    /\ body \in [Requests -> Body \cup {NoBody}]
    /\ stage \in [Requests -> Stages]
    /\ answer \in [Requests -> {0, 200, 201, 409, 422, 500}]
    /\ listed \in [Requests -> [categories : SUBSET Requests, tags : SUBSET Requests]]
    /\ \A q \in Requests :
        /\ stage[q] = "new" <=> body[q] = NoBody
        /\ stage[q] = "read_tags" => body[q].op = "get"
        /\ stage[q] \in Holding => body[q].op \notin {"none", "invalid"}
        /\ answer[q] = 201 => body[q].op \in {"category", "tag", "rule"}

(* Of several requests that were answered 201 for one slug, however they   *)
(* interleave, at most one is in the table or on its way there; the others *)
(* were lost after their answer.                                           *)
OneCreator ==
    \A p, q \in Requests :
        SameKey(p, q) /\ answer[p] = 201 /\ answer[q] = 201 => "failed" \in {stage[p], stage[q]}

(* A tag in the table has its category, a rule its tag, although neither   *)
(* waits for the row it refers to.                                         *)
ReferencesHold ==
    /\ \A q \in Rows("tag") : body[q].category_id \in Rows("category")
    /\ \A q \in Rows("rule") : body[q].tag_id \in Rows("tag")

(* A category that is answered 409 is in the table: the one that was in    *)
(* its way has not been rolled back.                                       *)
CategoryConflictIsDuplicate ==
    \A q \in Requests : body[q].op = "category" /\ answer[q] = 409 => Taken(q)

(* By their slugs, the tables are a catalogue that grows by one entry at a *)
(* time.                                                                   *)
Cat == INSTANCE Catalogue WITH
    RuleIds <- Requests,
    categories <- {body[q].slug : q \in Rows("category")},
    filed <- {<<body[q].slug, body[body[q].category_id].slug>> : q \in Rows("tag")},
    rules <- {<<q, body[body[q].tag_id].slug>> : q \in Rows("rule")}
ImplementsCatalogue == Cat!CatalogueSpec

(* A GET that begins after another one has listed a tag lists the tag's    *)
(* category, if active, although the statements of one GET may miss it:    *)
(* what one transaction has read, no later one reads without its parent.   *)
LaterGetsComplete ==
    [][\A p, q \in Requests :
        stage[q] = "received" /\ stage'[q] = "read_tags" =>
            \A t \in listed[p].tags :
                LET c == body[t].category_id
                IN  body[c].is_active => c \in listed'[q].categories]_vars
=============================================================================

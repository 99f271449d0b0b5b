--------------------------- MODULE TaxonomyProofs ---------------------------
(***************************************************************************)
(* Proofs about Taxonomy, for any number of requests and slugs.            *)
(***************************************************************************)
EXTENDS Taxonomy, TLAPS

Creating == {"category", "tag", "rule"}

(* Every variable keeps its type: no handler mixes up the stages, statuses *)
(* and bodies of its requests.                                             *)
LEMMA TypeInvariant == TypeOK /\ [Next]_vars => TypeOK'
<1> SUFFICES ASSUME TypeOK, [Next]_vars PROVE TypeOK'
    OBVIOUS
<1> USE DEF TypeOK, GoTo, Stages, Holding, Ended
<1>1. ASSUME NEW q \in Requests, NEW b \in Sendable, Receive(q, b) PROVE TypeOK'
    <2>1. b \in Body /\ b # NoBody
        BY DEF Sendable, Body, CategoryBody, TagBody, RuleBody, InvalidBody, NoBody
    <2>2. body[q] = NoBody /\ answer[q] # 201
        BY <1>1 DEF Receive, NoBody
    <2> QED BY <1>1, <2>1, <2>2 DEF Receive
<1>2. ASSUME NEW q \in Requests, Refuse(q) PROVE TypeOK'
    BY <1>2 DEF Refuse, Fail
<1>3. ASSUME NEW q \in Requests, Insert(q) PROVE TypeOK'
    BY <1>3 DEF Insert
<1>4. ASSUME NEW q \in Requests, Conflict(q) PROVE TypeOK'
    BY <1>4 DEF Conflict, Fail
<1>5. ASSUME NEW q \in Requests, InsertConditions(q) PROVE TypeOK'
    BY <1>5 DEF InsertConditions
<1>6. ASSUME NEW q \in Requests, ReadCategories(q) PROVE TypeOK'
    <2>1. Active("category") \in SUBSET Requests
        BY DEF Active, Rows
    <2>2. listed' \in [Requests -> [categories : SUBSET Requests, tags : SUBSET Requests]]
        BY <1>6, <2>1 DEF ReadCategories
    <2> QED BY <1>6, <2>2 DEF ReadCategories
<1>7. ASSUME NEW q \in Requests, ReadTags(q) PROVE TypeOK'
    <2>1. Active("tag") \in SUBSET Requests
        BY DEF Active, Rows
    <2>2. listed' \in [Requests -> [categories : SUBSET Requests, tags : SUBSET Requests]]
        BY <1>7, <2>1 DEF ReadTags
    <2> QED BY <1>7, <2>2 DEF ReadTags
<1>8. ASSUME NEW q \in Requests, Respond(q) PROVE TypeOK'
    <2>1. body[q] \in Body
        BY <1>8 DEF Respond
    <2>2. body[q].op \in {"category", "tag", "rule", "get"}
        BY <1>8, <2>1 DEF Respond, Body, CategoryBody, TagBody, RuleBody, InvalidBody
    <2> QED BY <1>8, <2>2 DEF Respond
<1>9. ASSUME NEW q \in Requests, Commit(q) PROVE TypeOK'
    BY <1>9 DEF Commit
<1>10. ASSUME NEW q \in Requests, Lose(q) PROVE TypeOK'
    BY <1>10 DEF Lose
<1>11. CASE UNCHANGED vars
    BY <1>11 DEF vars
<1> QED BY <1>1, <1>2, <1>3, <1>4, <1>5, <1>6, <1>7, <1>8, <1>9, <1>10, <1>11
        DEF Next, ServerNext, Step

(* The type invariant holds in every state.                                *)
THEOREM TypeCorrect == Spec => []TypeOK
<1>1. Init => TypeOK
    BY DEF Init, TypeOK, Stages, Holding, NoBody, NoList
<1> QED BY <1>1, TypeInvariant, PTL DEF Spec
-----------------------------------------------------------------------------
(* The inductive invariant: of the requests for one slug at most one has   *)
(* inserted its row; whoever has, refers to a committed row; a request is  *)
(* answered 201 on the way to its commit; and a category that was answered *)
(* 409 met a committed one.                                                *)

Inserted(q) == body[q].op \in Creating /\ stage[q] \in Holding \cup {"committed"}

OneInserted == \A p, q \in Requests : SameKey(p, q) => ~(Inserted(p) /\ Inserted(q))
Referring == \A q \in Requests : Inserted(q) => ReferenceExists(q)
Answering ==
    \A q \in Requests : /\ answer[q] = 201 => stage[q] \in {"commit"} \cup Ended
                        /\ answer[q] = 409 => stage[q] \in Ended

IInv == TypeOK /\ OneInserted /\ Referring /\ Answering /\ CategoryConflictIsDuplicate

(* Nothing has been received at first.                                     *)
LEMMA InitIInv == Init => IInv
<1>1. Init => TypeOK
    BY DEF Init, TypeOK, Stages, Holding, NoBody, NoList
<1> QED BY <1>1 DEF Init, IInv, OneInserted, Referring, Answering, Inserted, Holding,
           CategoryConflictIsDuplicate

(* What a step does to one request: its body is drawn once, a commit is    *)
(* for good, and a row comes only from an INSERT, which is a step of no    *)
(* other request.                                                          *)
LEMMA StepOfOne ==
    ASSUME TypeOK, [Next]_vars, NEW q \in Requests
    PROVE  /\ stage[q] # "new" => body'[q] = body[q] /\ stage'[q] # "new"
           /\ stage[q] = "committed" => stage'[q] = "committed"
           /\ Inserted(q)' => Inserted(q) \/ Insert(q)
           /\ answer'[q] = 201 /\ answer[q] # 201 => stage'[q] = "commit"
           /\ answer'[q] = 409 /\ answer[q] # 409 => Conflict(q)
           /\ stage[q] = "commit" => stage'[q] \in {"commit"} \cup Ended
           /\ stage[q] \in Ended => stage'[q] \in Ended
           /\ stage'[q] = "committed" => stage[q] = "committed" \/ Commit(q)
<1> DEFINE Goal ==
           /\ stage[q] # "new" => body'[q] = body[q] /\ stage'[q] # "new"
           /\ stage[q] = "committed" => stage'[q] = "committed"
           /\ Inserted(q)' => Inserted(q) \/ Insert(q)
           /\ answer'[q] = 201 /\ answer[q] # 201 => stage'[q] = "commit"
           /\ answer'[q] = 409 /\ answer[q] # 409 => Conflict(q)
           /\ stage[q] = "commit" => stage'[q] \in {"commit"} \cup Ended
           /\ stage[q] \in Ended => stage'[q] \in Ended
           /\ stage'[q] = "committed" => stage[q] = "committed" \/ Commit(q)
<1> SUFFICES Goal
    OBVIOUS
<1> USE DEF TypeOK, GoTo, Ended, Holding
<1>1. ASSUME NEW p \in Requests, NEW b \in Sendable, Receive(p, b) PROVE Goal
    BY <1>1 DEF Receive, Inserted
<1>2. ASSUME NEW p \in Requests, Refuse(p) PROVE Goal
    BY <1>2 DEF Refuse, Fail, Inserted
<1>3. ASSUME NEW p \in Requests, Insert(p) PROVE Goal
    <2>1. CASE p = q
        BY <1>3, <2>1 DEF Insert, Inserted
    <2>2. CASE p # q
        BY <1>3, <2>2 DEF Insert, Inserted
    <2> QED BY <2>1, <2>2
<1>4. ASSUME NEW p \in Requests, Conflict(p) PROVE Goal
    <2>1. CASE p = q
        BY <1>4, <2>1 DEF Conflict, Fail, Inserted
    <2>2. CASE p # q
        BY <1>4, <2>2 DEF Conflict, Fail, Inserted
    <2> QED BY <2>1, <2>2
<1>5. ASSUME NEW p \in Requests, InsertConditions(p) PROVE Goal
    BY <1>5 DEF InsertConditions, Inserted
<1>6. ASSUME NEW p \in Requests, ReadCategories(p) PROVE Goal
    BY <1>6 DEF ReadCategories, Inserted
<1>7. ASSUME NEW p \in Requests, ReadTags(p) PROVE Goal
    <2>1. body[p].op \notin Creating
        BY <1>7 DEF ReadTags, Creating
    <2> QED BY <1>7, <2>1 DEF ReadTags, Inserted
<1>8. ASSUME NEW p \in Requests, Respond(p) PROVE Goal
    BY <1>8 DEF Respond, Inserted
<1>9. ASSUME NEW p \in Requests, Commit(p) PROVE Goal
    <2>1. CASE p = q
        BY <1>9, <2>1 DEF Commit, Inserted
    <2>2. CASE p # q
        BY <1>9, <2>2 DEF Commit, Inserted
    <2> QED BY <2>1, <2>2
<1>10. ASSUME NEW p \in Requests, Lose(p) PROVE Goal
    BY <1>10 DEF Lose, Inserted
<1>11. CASE UNCHANGED vars
    BY <1>11 DEF vars, Inserted
<1> HIDE DEF Goal
<1> QED BY <1>1, <1>2, <1>3, <1>4, <1>5, <1>6, <1>7, <1>8, <1>9, <1>10, <1>11
        DEF Next, ServerNext, Step

(* Rows and references only grow: a body that has been drawn stays, and so *)
(* does a committed row.                                                   *)
LEMMA RowsStay ==
    ASSUME TypeOK, [Next]_vars, NEW op \in Creating
    PROVE  Rows(op) \subseteq Rows(op)'
<1> SUFFICES ASSUME NEW q \in Rows(op) PROVE q \in Rows(op)'
    OBVIOUS
<1>1. q \in Requests /\ body[q].op = op /\ stage[q] = "committed"
    BY DEF Rows
<1>2. body'[q] = body[q] /\ stage'[q] = "committed"
    BY <1>1, StepOfOne
<1> QED BY <1>1, <1>2 DEF Rows

(* Once received, a request has the key that it has.                       *)
LEMMA KeyStays ==
    ASSUME TypeOK, [Next]_vars, NEW p \in Requests, NEW q \in Requests,
           stage[p] # "new", stage[q] # "new"
    PROVE  SameKey(p, q)' <=> SameKey(p, q)
<1>1. body'[p] = body[p] /\ body'[q] = body[q]
    BY StepOfOne
<1> QED BY <1>1 DEF SameKey, HasSlug

(* Waiting and the unique index keep two INSERTs of one slug apart: the    *)
(* second one waits while the first is open, and fails when it has         *)
(* committed.                                                              *)
LEMMA OneInsertedStep == IInv /\ [Next]_vars => OneInserted'
<1> SUFFICES ASSUME IInv, [Next]_vars,
                    NEW p \in Requests, NEW q \in Requests,
                    SameKey(p, q)', Inserted(p)', Inserted(q)'
             PROVE  FALSE
    BY DEF OneInserted
<1>0. TypeOK
    BY DEF IInv
<1>1. /\ Inserted(p) \/ Insert(p)
      /\ Inserted(q) \/ Insert(q)
    BY <1>0, StepOfOne
<1>2. stage[p] # "new" /\ stage[q] # "new"
    BY <1>1 DEF Inserted, Insert, Holding
<1>3. SameKey(p, q) /\ SameKey(q, p)
    <2>1. SameKey(p, q)
        BY <1>0, <1>2, KeyStays
    <2> QED BY <2>1 DEF SameKey, HasSlug
<1>4. ASSUME NEW r \in Requests, NEW s \in Requests, SameKey(s, r), Insert(r), Inserted(s)
      PROVE  FALSE
    <2>1. ~Open(s)
        BY <1>4 DEF Insert, Free
    <2>2. stage[s] = "committed"
        BY <1>4, <2>1 DEF Inserted, Open
    <2>3. s \in Rows(body[r].op)
        BY <1>4, <2>2 DEF Rows, SameKey
    <2> QED BY <1>4, <2>3 DEF Insert, Taken
<1>5. ASSUME Insert(p), Insert(q) PROVE FALSE
    <2>1. p # q /\ stage[p] = "received" /\ stage[q] = "received"
        BY <1>5, <1>3 DEF Insert, SameKey
    <2>2. stage'[p] = "received"
        BY <1>0, <1>5, <2>1 DEF Insert, GoTo, TypeOK
    <2> QED BY <2>2 DEF Inserted, Holding
<1> QED BY <1>1, <1>3, <1>4, <1>5 DEF IInv, OneInserted

(* A reference that has been checked keeps its row.                        *)
LEMMA ReferringStep == IInv /\ [Next]_vars => Referring'
<1> SUFFICES ASSUME IInv, [Next]_vars, NEW q \in Requests, Inserted(q)'
             PROVE  ReferenceExists(q)'
    BY DEF Referring
<1>0. TypeOK
    BY DEF IInv
<1>1. Inserted(q) \/ Insert(q)
    BY <1>0, StepOfOne
<1>2. ReferenceExists(q)
    BY <1>1 DEF IInv, Referring, Insert
<1>3. stage[q] # "new"
    BY <1>1 DEF Inserted, Insert, Holding
<1>4. body'[q] = body[q]
    BY <1>0, <1>3, StepOfOne
<1>5. Rows("category") \subseteq Rows("category")' /\ Rows("tag") \subseteq Rows("tag")'
    BY <1>0, RowsStay DEF Creating
<1> QED BY <1>2, <1>4, <1>5 DEF ReferenceExists

(* A category is answered 409 for nothing but a committed category: it has *)
(* waited for the open ones, and refers to nothing.                        *)
LEMMA ConflictStep == IInv /\ [Next]_vars => CategoryConflictIsDuplicate'
<1> SUFFICES ASSUME IInv, [Next]_vars,
                    NEW q \in Requests, (body[q].op = "category")', answer'[q] = 409
             PROVE  Taken(q)'
    BY DEF CategoryConflictIsDuplicate
<1>0. TypeOK
    BY DEF IInv
<1>1. stage[q] # "new"
    <2>1. CASE answer[q] = 409
        BY <2>1 DEF IInv, Answering, Ended
    <2>2. CASE answer[q] # 409
        BY <1>0, <2>2, StepOfOne DEF Conflict
    <2> QED BY <2>1, <2>2
<1>2. body[q].op = "category" /\ body'[q] = body[q]
    BY <1>0, <1>1, StepOfOne
<1>3. Taken(q)
    <2>1. CASE answer[q] = 409
        BY <1>2, <2>1 DEF IInv, CategoryConflictIsDuplicate
    <2>2. CASE answer[q] # 409
        <3>1. Conflict(q)
            BY <1>0, <2>2, StepOfOne
        <3>2. ReferenceExists(q)
            BY <1>2 DEF ReferenceExists
        <3> QED BY <3>1, <3>2 DEF Conflict
    <2> QED BY <2>1, <2>2
<1>4. PICK p \in Rows("category") : SameKey(p, q)
    BY <1>2, <1>3 DEF Taken
<1>5. p \in Requests /\ stage[p] # "new"
    BY <1>4 DEF Rows
<1>6. SameKey(p, q)'
    BY <1>0, <1>1, <1>4, <1>5, KeyStays
<1>7. p \in Rows("category")'
    BY <1>0, <1>4, RowsStay DEF Creating
<1> QED BY <1>2, <1>6, <1>7 DEF Taken

(* The answer 201 is the step to the commit, and an ended request stays    *)
(* ended.                                                                  *)
LEMMA AnsweringStep == IInv /\ [Next]_vars => Answering'
<1> SUFFICES ASSUME IInv, [Next]_vars, NEW q \in Requests
             PROVE  /\ answer'[q] = 201 => stage'[q] \in {"commit"} \cup Ended
                    /\ answer'[q] = 409 => stage'[q] \in Ended
    BY DEF Answering
<1>0. TypeOK
    BY DEF IInv
<1>1. ASSUME answer'[q] = 201 PROVE stage'[q] \in {"commit"} \cup Ended
    <2>1. CASE answer[q] = 201
        BY <1>0, <2>1, StepOfOne DEF IInv, Answering
    <2>2. CASE answer[q] # 201
        BY <1>0, <1>1, <2>2, StepOfOne
    <2> QED BY <2>1, <2>2
<1>2. ASSUME answer'[q] = 409 PROVE stage'[q] \in Ended
    <2>1. CASE answer[q] = 409
        BY <1>0, <2>1, StepOfOne DEF IInv, Answering
    <2>2. CASE answer[q] # 409
        <3>1. Conflict(q)
            BY <1>0, <1>2, <2>2, StepOfOne
        <3> QED BY <1>0, <3>1 DEF Conflict, Fail, GoTo, Ended, TypeOK
    <2> QED BY <2>1, <2>2
<1> QED BY <1>1, <1>2

(* The invariant holds in every state.                                     *)
LEMMA Invariant == Spec => []IInv
<1>1. IInv /\ [Next]_vars => IInv'
    BY TypeInvariant, OneInsertedStep, ReferringStep, AnsweringStep, ConflictStep DEF IInv
<1> QED BY <1>1, InitIInv, PTL DEF Spec

-----------------------------------------------------------------------------
(* Of the requests answered 201 for one slug, all but one have been lost.  *)
THEOREM AtMostOneCreator == Spec => []OneCreator
<1>1. IInv => OneCreator
    <2> SUFFICES ASSUME IInv, NEW p \in Requests, NEW q \in Requests, SameKey(p, q),
                        answer[p] = 201, answer[q] = 201
                 PROVE  "failed" \in {stage[p], stage[q]}
        BY DEF OneCreator
    <2>1. ~(Inserted(p) /\ Inserted(q))
        BY DEF IInv, OneInserted
    <2>2. /\ body[p].op \in Creating /\ body[q].op \in Creating
          /\ stage[p] \in {"commit"} \cup Ended /\ stage[q] \in {"commit"} \cup Ended
        BY DEF IInv, TypeOK, Answering, Creating
    <2> QED BY <2>1, <2>2 DEF Inserted, Holding, Ended
<1> QED BY <1>1, Invariant, PTL

(* A committed tag has its category, and a committed rule its tag.         *)
THEOREM NoDanglingReference == Spec => []ReferencesHold
<1>1. IInv => ReferencesHold
    <2> SUFFICES ASSUME IInv
                 PROVE  /\ \A q \in Rows("tag") : body[q].category_id \in Rows("category")
                        /\ \A q \in Rows("rule") : body[q].tag_id \in Rows("tag")
        BY DEF ReferencesHold
    <2>1. \A q \in Rows("tag") \cup Rows("rule") : ReferenceExists(q)
        BY DEF IInv, Referring, Inserted, Rows, Creating
    <2> QED BY <2>1 DEF ReferenceExists, Rows
<1> QED BY <1>1, Invariant, PTL

(* A category that is answered 409 is a duplicate of a committed one.      *)
THEOREM CategoryConflictsAreTrue == Spec => []CategoryConflictIsDuplicate
<1>1. IInv => CategoryConflictIsDuplicate
    BY DEF IInv
<1> QED BY <1>1, Invariant, PTL

-----------------------------------------------------------------------------
(* What a GET has listed is in the tables. *)
ListedTags == \A p \in Requests : listed[p].tags \subseteq Rows("tag")

(* The tags of a list are those of the statement that read them, and stay  *)
(* committed.                                                              *)
LEMMA ListedTagsStep == TypeOK /\ ListedTags /\ [Next]_vars => ListedTags'
<1> SUFFICES ASSUME TypeOK, ListedTags, [Next]_vars,
                    NEW p \in Requests, NEW t \in listed'[p].tags
             PROVE  t \in Rows("tag")'
    BY DEF ListedTags
<1>1. Rows("tag") \subseteq Rows("tag")'
    BY RowsStay DEF Creating
<1>2. ASSUME NEW q \in Requests, ReadCategories(q) PROVE listed'[p].tags = listed[p].tags
    BY <1>2 DEF ReadCategories, TypeOK
<1>3. ASSUME NEW q \in Requests, ReadTags(q)
      PROVE  listed'[p].tags \in {listed[p].tags, Active("tag")}
    BY <1>3 DEF ReadTags, TypeOK
<1>4. ASSUME \A q \in Requests : ~ReadCategories(q) /\ ~ReadTags(q) PROVE listed' = listed
    BY <1>4 DEF Next, ServerNext, Step, Receive, Refuse, Insert, Conflict, InsertConditions,
                Respond, Commit, Lose, Fail, vars
<1>5. listed'[p].tags \in {listed[p].tags, Active("tag")}
    BY <1>2, <1>3, <1>4
<1>6. listed[p].tags \subseteq Rows("tag") /\ Active("tag") \subseteq Rows("tag")
    BY DEF ListedTags, Active
<1> QED BY <1>1, <1>5, <1>6

(* A GET reads the categories of every tag that has been listed before it  *)
(* began: a tag that could be listed had committed, and so had its         *)
(* category before it.                                                     *)
THEOREM LaterGetsAreComplete == Spec => LaterGetsComplete
<1> DEFINE Complete ==
        \A p, q \in Requests :
            stage[q] = "received" /\ stage'[q] = "read_tags" =>
                \A t \in listed[p].tags :
                    LET c == body[t].category_id
                    IN  body[c].is_active => c \in listed'[q].categories
<1>1. Init => ListedTags
    BY DEF Init, ListedTags, NoList
<1>2. IInv => TypeOK
    BY DEF IInv
<1>3. IInv /\ ListedTags /\ [Next]_vars => Complete
    <2> SUFFICES ASSUME IInv, ListedTags, [Next]_vars,
                        NEW p \in Requests, NEW q \in Requests,
                        stage[q] = "received", stage'[q] = "read_tags",
                        NEW t \in listed[p].tags, body[body[t].category_id].is_active
                 PROVE  body[t].category_id \in listed'[q].categories
        OBVIOUS
    <2>1. ReadCategories(q)
        BY <1>2 DEF TypeOK, Next, ServerNext, Step, Receive, Refuse, Insert, Conflict,
                    InsertConditions, ReadCategories, ReadTags, Respond, Commit, Lose, Fail,
                    GoTo, vars
    <2>2. listed'[q].categories = Active("category")
        BY <1>2, <2>1 DEF ReadCategories, TypeOK
    <2>3. t \in Rows("tag")
        BY DEF ListedTags
    <2>4. ReferenceExists(t)
        BY <2>3 DEF IInv, Referring, Inserted, Rows, Creating
    <2>5. body[t].category_id \in Rows("category")
        BY <2>3, <2>4 DEF ReferenceExists, Rows
    <2> QED BY <2>2, <2>5 DEF Active
<1>4. Spec => []ListedTags
    <2>1. IInv /\ ListedTags /\ [Next]_vars => ListedTags'
        BY <1>2, ListedTagsStep
    <2> QED BY <1>1, <2>1, Invariant, PTL DEF Spec
<1>5. Spec => [][Complete]_vars
    <2>1. IInv /\ ListedTags /\ [Next]_vars => [Complete]_vars
        BY <1>3
    <2> QED BY <2>1, <1>4, Invariant, PTL DEF Spec
<1> QED BY <1>5 DEF LaterGetsComplete
-----------------------------------------------------------------------------
(* The refinement of Catalogue.                                            *)

Categories == {body[q].slug : q \in Rows("category")}
Filed == {<<body[q].slug, body[body[q].category_id].slug>> : q \in Rows("tag")}
RulesOf == {<<q, body[body[q].tag_id].slug>> : q \in Rows("rule")}

(* A row's body, and that of the row it refers to, stay as they are.       *)
LEMMA EntriesStay ==
    ASSUME IInv, [Next]_vars
    PROVE  /\ \A q \in Rows("category") : body'[q].slug = body[q].slug
           /\ \A q \in Rows("tag") : /\ body'[q].slug = body[q].slug
                                     /\ body'[q].category_id = body[q].category_id
                                     /\ body[q].category_id \in Rows("category")
           /\ \A q \in Rows("rule") : /\ body'[q].tag_id = body[q].tag_id
                                      /\ body[q].tag_id \in Rows("tag")
<1>0. TypeOK
    BY DEF IInv
<1>1. \A op \in Creating : \A q \in Rows(op) : body'[q] = body[q]
    BY <1>0, StepOfOne DEF Rows
<1>2. \A q \in Rows("tag") \cup Rows("rule") : ReferenceExists(q)
    BY DEF IInv, Referring, Inserted, Rows, Creating
<1>3. \A q \in Rows("tag") : body[q].category_id \in Rows("category")
    BY <1>2 DEF ReferenceExists, Rows
<1>4. \A q \in Rows("rule") : body[q].tag_id \in Rows("tag")
    BY <1>2 DEF ReferenceExists, Rows
<1> QED BY <1>1, <1>3, <1>4 DEF Creating

(* A table that gains the rows of a set gains their entries.               *)
LEMMA CategoriesGrow ==
    ASSUME IInv, [Next]_vars, NEW C, Rows("category")' = Rows("category") \cup C
    PROVE  Categories' = Categories \cup {body'[q].slug : q \in C}
BY EntriesStay DEF Categories

(* The same for the tags.                                                  *)
LEMMA FiledGrow ==
    ASSUME IInv, [Next]_vars, NEW T, Rows("tag")' = Rows("tag") \cup T
    PROVE  Filed' = Filed
                \cup {<<body'[q].slug, body'[body'[q].category_id].slug>> : q \in T}
BY EntriesStay DEF Filed

(* The same for the rules.                                                 *)
LEMMA RulesGrow ==
    ASSUME IInv, [Next]_vars, NEW R, Rows("rule")' = Rows("rule") \cup R
    PROVE  RulesOf' = RulesOf \cup {<<q, body'[body'[q].tag_id].slug>> : q \in R}
BY EntriesStay DEF RulesOf

(* A table that gains no row gains no entry.                               *)
LEMMA NothingGrows ==
    ASSUME IInv, [Next]_vars
    PROVE  /\ Rows("category")' = Rows("category") => Categories' = Categories
           /\ Rows("tag")' = Rows("tag") => Filed' = Filed
           /\ Rows("rule")' = Rows("rule") => RulesOf' = RulesOf
<1>1. ASSUME Rows("category")' = Rows("category") PROVE Categories' = Categories
    BY <1>1, EntriesStay DEF Categories
<1>2. ASSUME Rows("tag")' = Rows("tag") PROVE Filed' = Filed
    BY <1>2, EntriesStay DEF Filed
<1>3. ASSUME Rows("rule")' = Rows("rule") PROVE RulesOf' = RulesOf
    BY <1>3, EntriesStay DEF RulesOf
<1> QED BY <1>1, <1>2, <1>3

(* Only a commit adds a row.                                               *)
LEMMA OnlyCommitAddsRows ==
    ASSUME IInv, [Next]_vars, NEW op \in Creating
    PROVE  Rows(op)' = Rows(op) \cup {q \in Requests : Commit(q) /\ body[q].op = op}
<1>0. TypeOK
    BY DEF IInv
<1>1. ASSUME NEW q \in Rows(op)'
      PROVE  q \in Rows(op) \cup {p \in Requests : Commit(p) /\ body[p].op = op}
    <2>1. q \in Requests /\ body'[q].op = op /\ stage'[q] = "committed"
        BY DEF Rows
    <2>2. stage[q] = "committed" \/ Commit(q)
        BY <1>0, <2>1, StepOfOne
    <2>3. body'[q] = body[q]
        BY <1>0, <2>1, <2>2, StepOfOne DEF Commit
    <2> QED BY <2>1, <2>2, <2>3 DEF Rows
<1>2. ASSUME NEW q \in Requests, Commit(q), body[q].op = op PROVE q \in Rows(op)'
    BY <1>0, <1>2 DEF Commit, GoTo, Rows, TypeOK
<1>3. Rows(op) \subseteq Rows(op)'
    BY <1>0, RowsStay
<1> QED BY <1>1, <1>2, <1>3

(* A commit is of one request.                                             *)
LEMMA OneCommit ==
    ASSUME TypeOK, NEW p \in Requests, NEW q \in Requests, Commit(p), Commit(q)
    PROVE  p = q
BY DEF Commit, GoTo, TypeOK

(* The commit of a request gives its table its row, and the others none.   *)
LEMMA CommitAddsItsRow ==
    ASSUME IInv, [Next]_vars, NEW q \in Requests, Commit(q), NEW op \in Creating
    PROVE  Rows(op)' = IF body[q].op = op THEN Rows(op) \cup {q} ELSE Rows(op)
<1>1. {p \in Requests : Commit(p) /\ body[p].op = op} = IF body[q].op = op THEN {q} ELSE {}
    BY OneCommit DEF IInv
<1> QED BY <1>1, OnlyCommitAddsRows

(* A body is of the kind that its operation says.                          *)
LEMMA BodyOfCategory ==
    ASSUME NEW b \in Body, b.op = "category" PROVE b \in CategoryBody
BY DEF Body, CategoryBody, TagBody, RuleBody, InvalidBody

(* The same of a tag.                                                      *)
LEMMA BodyOfTag ==
    ASSUME NEW b \in Body, b.op = "tag" PROVE b \in TagBody
BY DEF Body, CategoryBody, TagBody, RuleBody, InvalidBody

(* So it is with the body of a row.                                        *)
LEMMA RowsHaveBodies ==
    ASSUME TypeOK
    PROVE  /\ \A q \in Rows("category") : body[q] \in CategoryBody
           /\ \A q \in Rows("tag") : body[q] \in TagBody
<1>1. \A q \in Requests : stage[q] = "committed" => body[q] \in Body
    BY DEF TypeOK
<1> QED BY <1>1, BodyOfCategory, BodyOfTag DEF Rows

(* Every commit adds one entry to the catalogue, or none if it is that of  *)
(* a GET; no other step is seen.                                           *)
LEMMA StepImplementsCatalogue == IInv /\ [Next]_vars => [Cat!CatalogueNext]_Cat!catalogueVars
<1> SUFFICES ASSUME IInv, [Next]_vars PROVE [Cat!CatalogueNext]_Cat!catalogueVars
    OBVIOUS
<1>0. TypeOK
    BY DEF IInv
<1> DEFINE Unseen == Categories' = Categories /\ Filed' = Filed /\ RulesOf' = RulesOf
<1>1. ASSUME \A op \in Creating : Rows(op)' = Rows(op) PROVE Unseen
    BY <1>1, NothingGrows DEF Creating
<1>2. ASSUME \A q \in Requests : ~Commit(q) PROVE Unseen
    <2>1. \A op \in Creating : Rows(op)' = Rows(op)
        BY <1>2, OnlyCommitAddsRows
    <2> QED BY <1>1, <2>1
<1>3. ASSUME NEW q \in Requests, Commit(q)
      PROVE  Unseen \/ Cat!CatalogueNext
    <2>0. /\ stage[q] = "commit" /\ body' = body /\ body[q] \in Body
          /\ \A op \in Creating :
                Rows(op)' = IF body[q].op = op THEN Rows(op) \cup {q} ELSE Rows(op)
        BY <1>0, <1>3, CommitAddsItsRow DEF Commit, TypeOK
    <2>1. ASSUME body[q].op \in Creating
          PROVE  /\ \A p \in Rows(body[q].op) : ~SameKey(p, q) /\ p # q
                 /\ ReferenceExists(q)
        BY <2>0, <2>1 DEF IInv, OneInserted, Referring, Inserted, Holding, Rows
    <2>2. CASE body[q].op = "category"
        <3>1. Categories' = Categories \cup {body[q].slug} /\ Filed' = Filed /\ RulesOf' = RulesOf
            <4>1. Rows("category")' = Rows("category") \cup {q}
                BY <2>0, <2>2 DEF Creating
            <4>2. /\ Rows("tag")' = Rows("tag")
                  /\ Rows("rule")' = Rows("rule")
                BY <2>0, <2>2 DEF Creating
            <4>3. Categories' = Categories \cup {body'[p].slug : p \in {q}}
                BY <4>1, CategoriesGrow
            <4>4. Filed' = Filed /\ RulesOf' = RulesOf
                BY <4>2, NothingGrows
            <4> QED BY <2>0, <4>3, <4>4
        <3>2. body[q].slug \in CategorySlugs /\ body[q].slug \notin Categories
            <4>1. body[q] \in CategoryBody
                BY <2>0, <2>2, BodyOfCategory
            <4>2. ASSUME NEW p \in Rows("category") PROVE body[p].slug # body[q].slug
                BY <2>1, <2>2 DEF SameKey, HasSlug, Creating, Rows
            <4> QED BY <4>1, <4>2 DEF CategoryBody, Categories
        <3> QED BY <3>1, <3>2 DEF Cat!CatalogueNext, Cat!AddCategory, Categories, Filed, RulesOf
    <2>3. CASE body[q].op = "tag"
        <3>1. /\ Categories' = Categories /\ RulesOf' = RulesOf
              /\ Filed' = Filed \cup {<<body[q].slug, body[body[q].category_id].slug>>}
            <4>1. Rows("tag")' = Rows("tag") \cup {q}
                BY <2>0, <2>3 DEF Creating
            <4>2. /\ Rows("category")' = Rows("category")
                  /\ Rows("rule")' = Rows("rule")
                BY <2>0, <2>3 DEF Creating
            <4>3. Filed' = Filed
                    \cup {<<body'[p].slug, body'[body'[p].category_id].slug>> : p \in {q}}
                BY <4>1, FiledGrow
            <4>4. Categories' = Categories /\ RulesOf' = RulesOf
                BY <4>2, NothingGrows
            <4> QED BY <2>0, <4>3, <4>4
        <3>2. body[q].slug \in TagSlugs /\ \A entry \in Filed : entry[1] # body[q].slug
            <4>1. body[q] \in TagBody
                BY <2>0, <2>3, BodyOfTag
            <4>2. ASSUME NEW p \in Rows("tag") PROVE body[p].slug # body[q].slug
                BY <2>1, <2>3 DEF SameKey, HasSlug, Creating, Rows
            <4> QED BY <4>1, <4>2 DEF TagBody, Filed
        <3>3. body[body[q].category_id].slug \in CategorySlugs \cap Categories
            <4>1. body[q].category_id \in Rows("category")
                BY <2>1, <2>3 DEF ReferenceExists, Creating
            <4>2. body[body[q].category_id] \in CategoryBody
                BY <1>0, <4>1, RowsHaveBodies
            <4> QED BY <4>1, <4>2 DEF CategoryBody, Categories
        <3> QED BY <3>1, <3>2, <3>3
                DEF Cat!CatalogueNext, Cat!AddTag, Categories, Filed, RulesOf
    <2>4. CASE body[q].op = "rule"
        <3>1. /\ Categories' = Categories /\ Filed' = Filed
              /\ RulesOf' = RulesOf \cup {<<q, body[body[q].tag_id].slug>>}
            <4>1. Rows("rule")' = Rows("rule") \cup {q}
                BY <2>0, <2>4 DEF Creating
            <4>2. /\ Rows("category")' = Rows("category")
                  /\ Rows("tag")' = Rows("tag")
                BY <2>0, <2>4 DEF Creating
            <4>3. RulesOf' = RulesOf \cup {<<p, body'[body'[p].tag_id].slug>> : p \in {q}}
                BY <4>1, RulesGrow
            <4>4. Categories' = Categories /\ Filed' = Filed
                BY <4>2, NothingGrows
            <4> QED BY <2>0, <4>3, <4>4
        <3>2. \A entry \in RulesOf : entry[1] # q
            BY <2>1, <2>4 DEF RulesOf, Creating
        <3>3. /\ body[body[q].tag_id].slug \in TagSlugs
              /\ \E entry \in Filed : entry[1] = body[body[q].tag_id].slug
            <4>1. body[q].tag_id \in Rows("tag")
                BY <2>1, <2>4 DEF ReferenceExists, Creating
            <4>2. body[body[q].tag_id] \in TagBody
                BY <1>0, <4>1, RowsHaveBodies
            <4> DEFINE entry == <<body[body[q].tag_id].slug,
                                  body[body[body[q].tag_id].category_id].slug>>
            <4>3. entry \in Filed /\ entry[1] = body[body[q].tag_id].slug
                BY <4>1 DEF Filed
            <4> QED BY <4>2, <4>3 DEF TagBody
        <3> QED BY <3>1, <3>2, <3>3
                DEF Cat!CatalogueNext, Cat!AddRule, Categories, Filed, RulesOf
    <2>5. CASE body[q].op \notin Creating
        <3>1. \A op \in Creating : Rows(op)' = Rows(op)
            BY <2>0, <2>5
        <3> QED BY <1>1, <3>1
    <2> HIDE DEF Unseen
    <2> QED BY <2>2, <2>3, <2>4, <2>5 DEF Creating
<1> QED BY <1>2, <1>3 DEF Cat!catalogueVars, Categories, Filed, RulesOf

(* What readers see of the requests is a catalogue that grows by one entry *)
(* at a time, with unique slugs and no entry without the one it refers to. *)
THEOREM ImplementsTheCatalogue == Spec => ImplementsCatalogue
<1>1. Init => Cat!CatalogueInit
    BY DEF Init, Cat!CatalogueInit, Rows, NoBody
<1>2. IInv /\ [Next]_vars => [Cat!CatalogueNext]_Cat!catalogueVars
    BY StepImplementsCatalogue
<1> QED BY <1>1, <1>2, Invariant, PTL DEF Spec, ImplementsCatalogue, Cat!CatalogueSpec
=============================================================================

----------------------------- MODULE SeedProofs -----------------------------
(***************************************************************************)
(* Proofs about Seed, for any script and any number of runs of it.  A run  *)
(* is shown to be a client of Taxonomy, so that what TaxonomyProofs shows  *)
(* of a step of Taxonomy holds of every step of Seed.                      *)
(***************************************************************************)
EXTENDS Seed, TaxonomyProofs

SeedTypes ==
    /\ phase \in [Runs -> {"idle", "sending", "waiting", "done", "stopped"}]
    /\ at \in [Runs -> 1..(Len(Script) + 1)]
    /\ ids \in [Runs -> [Positions -> Ids]]
    /\ \A r \in Runs, n \in Positions : n >= at[r] => ids[r][n] = Unknown
    /\ \A r \in Runs : phase[r] = "waiting" => at[r] \in Positions

(* A row that others see has been answered. *)
RowsAnswered ==
    \A q \in Requests :
        stage[q] \in {"commit", "committed"} /\ body[q].op \in Creating => answer[q] = 201

(* If id is the id of a request, then of one for the item n of the script. *)
IdOf(id, n) ==
    id # Unknown =>
        /\ id \in Requests
        /\ stage[id] # "new"
        /\ body[id].op = Script[n].op
        /\ n \notin Of("rule") => body[id].slug = Script[n].slug

(* A request is for its item, and refers to the parent of the item. *)
ForItem(q) ==
    /\ IdOf(q, q[2])
    /\ q[2] \in Of("tag") => IdOf(body[q].category_id, Script[q[2]].parent)
    /\ q[2] \in Of("rule") => IdOf(body[q].tag_id, Script[q[2]].parent)

Scripted == \A q \in Requests : stage[q] # "new" => ForItem(q)
HeldIds == \A r \in Runs, n \in Positions : IdOf(ids[r][n], n) /\ ids[r][n] \in Known

SeedIInv == IInv /\ SeedTypes /\ RowsAnswered /\ Scripted /\ HeldIds

-----------------------------------------------------------------------------
(* An item is of one of three kinds, and its parent of the one before.     *)
LEMMA Items ==
    /\ Len(Script) \in Nat
    /\ \A n \in Positions : Script[n] \in Item /\ Script[n].op \in Creating
    /\ Positions = Of("category") \cup Of("tag") \cup Of("rule")
    /\ \A n \in Of("category") : Script[n].slug \in CategorySlugs
    /\ \A n \in Of("tag") : Script[n].slug \in TagSlugs /\ Script[n].parent \in Positions
    /\ \A n \in Of("rule") : Script[n].parent \in Positions
<1>1. Len(Script) \in Nat /\ \A n \in Positions : Script[n] \in Item
    BY ScriptAssumption DEF Positions
<1>2. \A n \in Positions : Script[n].op \in Creating
    BY <1>1 DEF Item, Creating
<1>3. \A n \in Of("category") : Script[n].slug \in CategorySlugs
    BY <1>1 DEF Item, Of
<1>4. \A n \in Of("tag") : Script[n].slug \in TagSlugs
    BY <1>1 DEF Item, Of
<1> QED BY <1>1, <1>2, <1>3, <1>4, ScriptAssumption DEF Of, Creating

(* A request is a run, or the past, with a position.                       *)
LEMMA RequestOfItem ==
    /\ \A q \in Requests : q[2] \in Positions /\ q = <<q[1], q[2]>>
    /\ \A r \in Runs \cup {Past}, n \in Positions : <<r, n>> \in Requests
BY ScriptAssumption

(* What the script sends for an item with ids of its own is a body.        *)
LEMMA SentBody ==
    ASSUME NEW n \in Positions, NEW id_of \in [Positions -> Ids], NEW active \in BOOLEAN
    PROVE  LET b == BodyFor(n, id_of, active)
           IN  /\ b \in Body
               /\ b.op = Script[n].op
               /\ n \notin Of("rule") => b.slug = Script[n].slug
               /\ n \notin Of("rule") => b.is_active = active
               /\ n \in Of("tag") => b.category_id = id_of[Script[n].parent]
               /\ n \in Of("rule") => b.tag_id = id_of[Script[n].parent]
<1>1. CASE n \in Of("category")
    BY <1>1, Items DEF BodyFor, Body, CategoryBody, Of
<1>2. CASE n \in Of("tag")
    BY <1>2, Items DEF BodyFor, Body, TagBody, Of
<1>3. CASE n \in Of("rule")
    BY <1>3, Items DEF BodyFor, Body, RuleBody, Of
<1> QED BY <1>1, <1>2, <1>3, Items

(* A run sends the ids it holds, which the API gave it.                    *)
LEMMA StepOfClient == SeedIInv /\ [SeedNext]_<<vars, seedVars>> => [Next]_vars
<1> SUFFICES ASSUME SeedIInv, [SeedNext]_<<vars, seedVars>> PROVE [Next]_vars
    OBVIOUS
<1>1. ASSUME NEW r \in Runs, Send(r) PROVE Next
    <2> DEFINE n == at[r]
               b == BodyFor(n, ids[r], TRUE)
    <2>1. n \in Positions /\ ids[r] \in [Positions -> Ids] /\ <<r, n>> \in Requests
        BY <1>1, RequestOfItem DEF Send, SeedIInv, SeedTypes
    <2>2. b \in Sendable
        <3>1. \A m \in Positions : ids[r][m] \in Known
            BY DEF SeedIInv, HeldIds
        <3>2. b.op = "tag" => n \in Of("tag")
            BY <2>1, SentBody DEF Of
        <3>3. b.op = "rule" => n \in Of("rule")
            BY <2>1, SentBody DEF Of
        <3> QED BY <2>1, <3>1, <3>2, <3>3, SentBody, Items DEF Sendable
    <2>3. Receive(<<r, n>>, b)
        BY <1>1 DEF Send
    <2> QED BY <2>1, <2>2, <2>3 DEF Next
<1>2. ASSUME NEW r \in Runs,
             Start(r) \/ Skip(r) \/ Created(r) \/ LookUp(r) \/ Failed(r) \/ Finish(r) \/ GiveUp(r)
      PROVE  UNCHANGED vars
    BY <1>2 DEF Start, Skip, Created, LookUp, Failed, Finish, GiveUp
<1>3. CASE UNCHANGED <<vars, seedVars>>
    BY <1>3
<1>4. CASE ServerNext
    BY <1>4 DEF Next
<1> QED BY <1>1, <1>2, <1>3, <1>4 DEF SeedNext, RunStep

-----------------------------------------------------------------------------
(* Only Respond answers on the way to a commit, and a creation with 201.   *)
LEMMA RowsAnsweredStep == TypeOK /\ RowsAnswered /\ [Next]_vars => RowsAnswered'
<1> SUFFICES ASSUME TypeOK, RowsAnswered, [Next]_vars PROVE RowsAnswered'
    OBVIOUS
<1> USE DEF TypeOK, RowsAnswered, GoTo, Creating
<1>1. ASSUME NEW q \in Requests, NEW b \in Sendable, Receive(q, b) PROVE RowsAnswered'
    BY <1>1 DEF Receive
<1>2. ASSUME NEW q \in Requests, Refuse(q) \/ Conflict(q) PROVE RowsAnswered'
    BY <1>2 DEF Refuse, Conflict, Fail
<1>3. ASSUME NEW q \in Requests, Insert(q) \/ InsertConditions(q) PROVE RowsAnswered'
    BY <1>3 DEF Insert, InsertConditions
<1>4. ASSUME NEW q \in Requests, ReadCategories(q) \/ ReadTags(q) PROVE RowsAnswered'
    BY <1>4 DEF ReadCategories, ReadTags
<1>5. ASSUME NEW q \in Requests, Respond(q) PROVE RowsAnswered'
    BY <1>5 DEF Respond
<1>6. ASSUME NEW q \in Requests, Commit(q) PROVE RowsAnswered'
    BY <1>6 DEF Commit
<1>7. ASSUME NEW q \in Requests, Lose(q) PROVE RowsAnswered'
    BY <1>7 DEF Lose
<1>8. CASE UNCHANGED vars
    BY <1>8 DEF vars
<1> QED BY <1>1, <1>2, <1>3, <1>4, <1>5, <1>6, <1>7, <1>8 DEF Next, ServerNext, Step

(* IdOf(id, n) after a step. *)
IdOfNext(id, n) ==
    id # Unknown =>
        /\ id \in Requests
        /\ stage'[id] # "new"
        /\ body'[id].op = Script[n].op
        /\ n \notin Of("rule") => body'[id].slug = Script[n].slug

(* What an id stands for does not change.                                  *)
LEMMA IdOfStays ==
    ASSUME TypeOK, [Next]_vars, NEW id, NEW n, IdOf(id, n)
    PROVE  IdOfNext(id, n)
<1>1. CASE id = Unknown
    BY <1>1 DEF IdOfNext
<1>2. CASE id # Unknown
    <2>1. body'[id] = body[id] /\ stage'[id] # "new"
        BY <1>2, StepOfOne DEF IdOf
    <2> QED BY <1>2, <2>1 DEF IdOf, IdOfNext
<1> QED BY <1>1, <1>2

(* Nor is an answer taken back.                                            *)
LEMMA KnownStays == TypeOK /\ Answering /\ [Next]_vars => Known \subseteq Known'
<1> SUFFICES ASSUME TypeOK, Answering, [Next]_vars, NEW q \in Requests, answer[q] = 201
             PROVE  answer'[q] = 201
    BY DEF Known
<1>0. stage[q] \in {"commit"} \cup Ended
    BY DEF Answering
<1> USE <1>0 DEF TypeOK, GoTo, Ended
<1>1. ASSUME NEW p \in Requests, NEW b \in Sendable, Receive(p, b) PROVE answer'[q] = 201
    BY <1>1 DEF Receive
<1>2. ASSUME NEW p \in Requests, Refuse(p) \/ Conflict(p) PROVE answer'[q] = 201
    BY <1>2 DEF Refuse, Conflict, Fail
<1>3. ASSUME NEW p \in Requests, Step(p) \/ Lose(p), ~Refuse(p), ~Conflict(p)
      PROVE  answer'[q] = 201
    BY <1>3 DEF Step, Insert, InsertConditions, ReadCategories, ReadTags, Respond, Commit, Lose
<1>4. CASE UNCHANGED vars
    BY <1>4 DEF vars
<1> QED BY <1>1, <1>2, <1>3, <1>4 DEF Next, ServerNext

(* A request is received from the run whose it is.                         *)
LEMMA OnlySendReceives ==
    ASSUME SeedNext, NEW q \in Requests, stage[q] = "new", stage'[q] # "new", TypeOK
    PROVE  \E r \in Runs : Send(r) /\ q = <<r, at[r]>>
<1>1. ASSUME ServerNext PROVE FALSE
    <2>1. ASSUME NEW p \in Requests, Step(p) \/ Lose(p) PROVE FALSE
        BY <2>1 DEF Step, Lose, Refuse, Insert, Conflict, InsertConditions, ReadCategories,
                    ReadTags, Respond, Commit, Fail, GoTo, TypeOK
    <2> QED BY <1>1, <2>1 DEF ServerNext
<1>2. ASSUME NEW r \in Runs,
             Start(r) \/ Skip(r) \/ Created(r) \/ LookUp(r) \/ Failed(r) \/ Finish(r) \/ GiveUp(r)
      PROVE  FALSE
    BY <1>2 DEF Start, Skip, Created, LookUp, Failed, Finish, GiveUp, vars
<1>3. ASSUME NEW r \in Runs, Send(r) PROVE q = <<r, at[r]>>
    BY <1>3 DEF Send, Receive, GoTo, TypeOK
<1> QED BY <1>1, <1>2, <1>3 DEF SeedNext, RunStep

(* A request that is sent names its parent by the id that the run has for  *)
(* it, and keeps to that.                                                  *)
LEMMA ScriptedStep == SeedIInv /\ [SeedNext]_<<vars, seedVars>> => Scripted'
<1> SUFFICES ASSUME SeedIInv, [SeedNext]_<<vars, seedVars>>, NEW q \in Requests,
                    stage'[q] # "new"
             PROVE  ForItem(q)'
    BY DEF Scripted
<1>0. TypeOK /\ [Next]_vars
    BY StepOfClient DEF SeedIInv, IInv
<1>1. CASE stage[q] # "new"
    <2>1. ForItem(q) /\ body'[q] = body[q]
        BY <1>0, <1>1, StepOfOne DEF SeedIInv, Scripted
    <2>2. IdOfNext(q, q[2])
        BY <1>0, <2>1, IdOfStays DEF ForItem
    <2>3. ASSUME q[2] \in Of("tag")
          PROVE  IdOfNext(body[q].category_id, Script[q[2]].parent)
        BY <1>0, <2>1, <2>3, IdOfStays DEF ForItem
    <2>4. ASSUME q[2] \in Of("rule")
          PROVE  IdOfNext(body[q].tag_id, Script[q[2]].parent)
        BY <1>0, <2>1, <2>4, IdOfStays DEF ForItem
    <2> QED BY <2>1, <2>2, <2>3, <2>4 DEF ForItem, IdOf, IdOfNext
<1>2. CASE stage[q] = "new"
    <2>0. SeedNext
        BY <1>2 DEF vars
    <2>1. PICK r \in Runs : Send(r) /\ q = <<r, at[r]>>
        BY <1>0, <1>2, <2>0, OnlySendReceives
    <2> DEFINE n == at[r]
               b == BodyFor(n, ids[r], TRUE)
    <2>2. /\ n \in Positions /\ q[2] = n
          /\ ids[r] \in [Positions -> Ids]
          /\ \A m \in Positions : IdOf(ids[r][m], m)
        BY <2>1 DEF Send, SeedIInv, SeedTypes, HeldIds
    <2>3. body'[q] = b
        BY <1>0, <2>1 DEF Send, Receive, TypeOK
    <2>4. IdOfNext(q, n)
        <3>1. b.op = Script[n].op /\ (n \notin Of("rule") => b.slug = Script[n].slug)
            BY <2>2, SentBody
        <3> QED BY <2>3, <3>1 DEF IdOfNext
    <2>5. ASSUME n \in Of("tag") PROVE IdOfNext(b.category_id, Script[n].parent)
        <3>1. IdOf(ids[r][Script[n].parent], Script[n].parent)
            BY <2>2, <2>5, Items
        <3>2. b.category_id = ids[r][Script[n].parent]
            BY <2>2, <2>5, SentBody
        <3>3. IdOf(b.category_id, Script[n].parent)
            BY <3>1, <3>2
        <3> QED BY <1>0, <3>3, IdOfStays
    <2>6. ASSUME n \in Of("rule") PROVE IdOfNext(b.tag_id, Script[n].parent)
        <3>1. IdOf(ids[r][Script[n].parent], Script[n].parent)
            BY <2>2, <2>6, Items
        <3>2. b.tag_id = ids[r][Script[n].parent]
            BY <2>2, <2>6, SentBody
        <3>3. IdOf(b.tag_id, Script[n].parent)
            BY <3>1, <3>2
        <3> QED BY <1>0, <3>3, IdOfStays
    <2> QED BY <2>2, <2>3, <2>4, <2>5, <2>6 DEF ForItem, IdOf, IdOfNext
<1> QED BY <1>1, <1>2

(* An id is taken from a 201 to the run's own request for the item, or     *)
(* from a row of the slug of the item.                                     *)
LEMMA HeldIdsStep == SeedIInv /\ [SeedNext]_<<vars, seedVars>> => HeldIds'
<1> SUFFICES ASSUME SeedIInv, [SeedNext]_<<vars, seedVars>>, NEW r \in Runs, NEW n \in Positions
             PROVE  IdOfNext(ids'[r][n], n) /\ ids'[r][n] \in Known'
    BY DEF HeldIds, IdOf, IdOfNext
<1>0. TypeOK /\ [Next]_vars /\ SeedTypes /\ Answering
    BY StepOfClient DEF SeedIInv, IInv
<1>1. CASE ids'[r][n] = ids[r][n]
    <2>1. IdOf(ids[r][n], n) /\ ids[r][n] \in Known
        BY DEF SeedIInv, HeldIds
    <2>2. IdOfNext(ids[r][n], n)
        BY <1>0, <1>1, <2>1, IdOfStays
    <2> QED BY <1>0, <1>1, <2>1, <2>2, KnownStays
<1>2. CASE ids'[r][n] # ids[r][n]
    <2>1. n = at[r] /\ (Created(r) \/ LookUp(r))
        <3>1. ASSUME NEW s \in Runs, Created(s) \/ LookUp(s) PROVE s = r /\ n = at[r]
            BY <1>0, <1>2, <3>1 DEF Created, LookUp, SeedTypes
        <3>2. ASSUME NEW s \in Runs,
                     Start(s) \/ Send(s) \/ Skip(s) \/ Failed(s) \/ Finish(s) \/ GiveUp(s)
              PROVE  FALSE
            BY <1>2, <3>2 DEF Start, Send, Skip, Failed, Finish, GiveUp
        <3> QED BY <1>2, <3>1, <3>2 DEF SeedNext, RunStep, seedVars
    <2>2. UNCHANGED <<body, stage, answer>>
        BY <2>1 DEF Created, LookUp, vars
    <2>3. IdOf(ids'[r][n], n) /\ ids'[r][n] \in Known
        <3>1. CASE Created(r)
            <4>1. ids'[r][n] = <<r, n>> /\ answer[<<r, n>>] = 201 /\ <<r, n>> \in Requests
                BY <1>0, <2>1, <3>1, RequestOfItem DEF Created, SeedTypes
            <4>2. stage[<<r, n>>] # "new"
                BY <1>0, <4>1 DEF Answering, Ended
            <4> QED BY <4>1, <4>2 DEF SeedIInv, Scripted, ForItem, Known
        <3>2. CASE LookUp(r)
            <4>1. n \notin Of("rule") /\ Script[n].op \in Creating
                BY <2>1, <3>2, Items DEF LookUp
            <4>2. ids'[r][n] = IF Found(n) = {} THEN Unknown ELSE CHOOSE q \in Found(n) : TRUE
                BY <1>0, <2>1, <3>2 DEF LookUp, SeedTypes
            <4>3. CASE Found(n) = {}
                BY <4>2, <4>3 DEF IdOf, Known
            <4>4. CASE Found(n) # {}
                <5>1. PICK q \in Found(n) : ids'[r][n] = q
                    BY <4>2, <4>4
                <5>2. /\ q \in Requests /\ stage[q] = "committed"
                      /\ body[q].op = Script[n].op /\ body[q].slug = Script[n].slug
                    BY DEF Found, Active, Rows
                <5>3. answer[q] = 201
                    BY <4>1, <5>2 DEF SeedIInv, RowsAnswered
                <5> QED BY <5>1, <5>2, <5>3 DEF IdOf, Known
            <4> QED BY <4>3, <4>4
        <3> QED BY <2>1, <3>1, <3>2
    <2> QED BY <2>2, <2>3 DEF IdOf, IdOfNext, Known
<1> QED BY <1>1, <1>2

(* A run goes through its items one by one, and holds no id of a later one.*)
LEMMA SeedTypesStep == SeedIInv /\ [SeedNext]_<<vars, seedVars>> => SeedTypes'
<1> SUFFICES ASSUME SeedIInv, [SeedNext]_<<vars, seedVars>> PROVE SeedTypes'
    OBVIOUS
<1>0. SeedTypes /\ Len(Script) \in Nat
    BY Items DEF SeedIInv
<1> USE <1>0 DEF SeedTypes, Positions
<1>1. ASSUME NEW r \in Runs, Start(r) \/ Send(r) \/ Finish(r) \/ GiveUp(r) PROVE SeedTypes'
    BY <1>1 DEF Start, Send, Finish, GiveUp
<1>2. ASSUME NEW r \in Runs, Skip(r) \/ Failed(r) PROVE SeedTypes'
    <2>1. ids' = ids /\ GoOn(r)
        BY <1>2 DEF Skip, Failed
    <2>2. at[r] \in Positions
        BY <1>2 DEF Skip, Failed
    <2> QED BY <2>1, <2>2 DEF GoOn
<1>3. ASSUME NEW r \in Runs, Created(r) \/ LookUp(r) PROVE SeedTypes'
    <2>1. at[r] \in Positions /\ <<r, at[r]>> \in Requests
        BY <1>3, RequestOfItem DEF Created, LookUp
    <2>2. PICK id \in Ids : ids' = [ids EXCEPT ![r][at[r]] = id]
        <3>1. \A q \in Found(at[r]) : q \in Requests
            BY DEF Found, Active, Rows
        <3>2. CASE Created(r)
            BY <2>1, <3>2 DEF Created, Ids
        <3>3. CASE LookUp(r)
            <4> DEFINE id == IF Found(at[r]) = {} THEN Unknown ELSE CHOOSE q \in Found(at[r]) : TRUE
            <4>1. id \in Ids
                BY <3>1 DEF Ids
            <4>2. ids' = [ids EXCEPT ![r][at[r]] = id]
                BY <3>3 DEF LookUp
            <4> QED BY <4>1, <4>2
        <3> QED BY <1>3, <3>2, <3>3
    <2>3. ids' \in [Runs -> [Positions -> Ids]]
        BY <2>1, <2>2
    <2>4. GoOn(r)
        BY <1>3 DEF Created, LookUp
    <2> QED BY <2>1, <2>2, <2>3, <2>4 DEF GoOn
<1>4. CASE UNCHANGED seedVars
    BY <1>4 DEF seedVars
<1> QED BY <1>1, <1>2, <1>3, <1>4 DEF SeedNext, RunStep

-----------------------------------------------------------------------------
(* The rows of the past refer to each other as the script says.            *)
LEMMA SeedInitIInv == SeedInit => SeedIInv
<1> SUFFICES ASSUME SeedInit PROVE SeedIInv
    OBVIOUS
<1>1. PICK old \in SUBSET Positions, active \in [Positions -> BOOLEAN] :
        /\ \A n \in old \ Of("category") : Script[n].parent \in old
        /\ body = [q \in Requests |->
                    IF q[1] = Past /\ q[2] \in old
                    THEN BodyFor(q[2], [n \in Positions |-> <<Past, n>>], active[q[2]])
                    ELSE NoBody]
        /\ stage = [q \in Requests |-> IF q[1] = Past /\ q[2] \in old THEN "committed" ELSE "new"]
        /\ answer = [q \in Requests |-> IF q[1] = Past /\ q[2] \in old THEN 201 ELSE 0]
    BY DEF SeedInit
<1> DEFINE Was(q) == q[1] = Past /\ q[2] \in old
           past == [n \in Positions |-> <<Past, n>>]
<1>2. past \in [Positions -> Ids]
    BY RequestOfItem DEF Ids
<1>3. ASSUME NEW q \in Requests, Was(q)
      PROVE  /\ q = <<Past, q[2]>> /\ q[2] \in Positions
             /\ stage[q] = "committed" /\ answer[q] = 201
             /\ body[q] \in Body /\ body[q].op = Script[q[2]].op /\ body[q].op \in Creating
             /\ q[2] \notin Of("rule") => body[q].slug = Script[q[2]].slug
             /\ q[2] \in Of("tag") => body[q].category_id = <<Past, Script[q[2]].parent>>
             /\ q[2] \in Of("rule") => body[q].tag_id = <<Past, Script[q[2]].parent>>
    <2>1. q = <<Past, q[2]>> /\ q[2] \in Positions
        BY <1>3, RequestOfItem
    <2>2. /\ stage[q] = "committed" /\ answer[q] = 201
          /\ body[q] = BodyFor(q[2], past, active[q[2]])
        BY <1>1, <1>3
    <2> HIDE DEF past
    <2>3. active[q[2]] \in BOOLEAN
        BY <2>1
    <2>4. /\ body[q] \in Body /\ body[q].op = Script[q[2]].op
          /\ q[2] \notin Of("rule") => body[q].slug = Script[q[2]].slug
          /\ q[2] \in Of("tag") => body[q].category_id = past[Script[q[2]].parent]
          /\ q[2] \in Of("rule") => body[q].tag_id = past[Script[q[2]].parent]
        BY <1>2, <2>1, <2>2, <2>3, SentBody
    <2> USE DEF past
    <2> QED BY <2>1, <2>2, <2>4, Items
<1>4. ASSUME NEW q \in Requests, ~Was(q)
      PROVE  stage[q] = "new" /\ answer[q] = 0 /\ body[q] = NoBody
    BY <1>1, <1>4
<1>5. ASSUME NEW q \in Requests, Was(q), q[2] \notin Of("category")
      PROVE  /\ <<Past, Script[q[2]].parent>> \in Requests
             /\ Was(<<Past, Script[q[2]].parent>>)
    BY <1>1, <1>5, <1>3, RequestOfItem
<1> HIDE DEF Was
<1>6. TypeOK
    <2>1. body \in [Requests -> Body \cup {NoBody}]
        BY <1>1, <1>3, <1>4
    <2>2. stage \in [Requests -> Stages] /\ answer \in [Requests -> {0, 200, 201, 409, 422, 500}]
        BY <1>1 DEF Stages, Ended
    <2>3. listed \in [Requests -> [categories : SUBSET Requests, tags : SUBSET Requests]]
        BY DEF SeedInit, NoList
    <2>4. ASSUME NEW q \in Requests
          PROVE  /\ stage[q] = "new" <=> body[q] = NoBody
                 /\ stage[q] = "read_tags" => body[q].op = "get"
                 /\ stage[q] \in Holding => body[q].op \notin {"none", "invalid"}
                 /\ answer[q] = 201 => body[q].op \in {"category", "tag", "rule"}
        BY <1>3, <1>4 DEF Creating, NoBody, Holding
    <2> QED BY <2>1, <2>2, <2>3, <2>4 DEF TypeOK
<1>7. OneInserted
    <2> SUFFICES ASSUME NEW p \in Requests, NEW q \in Requests,
                        SameKey(p, q), Inserted(p), Inserted(q)
                 PROVE  FALSE
        BY DEF OneInserted
    <2>1. Was(p) /\ Was(q)
        BY <1>4 DEF Inserted, Holding
    <2>2. /\ p[2] \in Positions /\ q[2] \in Positions /\ Script[p[2]].op = Script[q[2]].op
          /\ Script[p[2]].op \in {"category", "tag"}
        BY <1>3, <2>1 DEF SameKey, HasSlug
    <2>3. Script[p[2]].slug = Script[q[2]].slug
        BY <1>3, <2>1, <2>2 DEF SameKey, Of
    <2>4. p[2] = q[2]
        BY <2>2, <2>3, ScriptAssumption DEF Of
    <2> QED BY <1>3, <2>1, <2>4 DEF SameKey
<1>8. Referring
    <2> SUFFICES ASSUME NEW q \in Requests, Was(q) PROVE ReferenceExists(q)
        BY <1>4 DEF Referring, Inserted, Holding
    <2>1. ASSUME body[q].op = "tag" PROVE body[q].category_id \in Rows("category")
        <3>1. q[2] \in Of("tag") /\ q[2] \notin Of("category")
            BY <1>3, <2>1 DEF Of
        <3>2. Script[Script[q[2]].parent].op = "category"
            BY <3>1, ScriptAssumption DEF Of
        <3>3. /\ <<Past, Script[q[2]].parent>> \in Requests
              /\ Was(<<Past, Script[q[2]].parent>>)
            BY <1>5, <3>1
        <3> QED BY <1>3, <3>1, <3>2, <3>3 DEF Rows
    <2>2. ASSUME body[q].op = "rule" PROVE body[q].tag_id \in Rows("tag")
        <3>1. q[2] \in Of("rule") /\ q[2] \notin Of("category")
            BY <1>3, <2>2 DEF Of
        <3>2. Script[Script[q[2]].parent].op = "tag"
            BY <3>1, ScriptAssumption DEF Of
        <3>3. /\ <<Past, Script[q[2]].parent>> \in Requests
              /\ Was(<<Past, Script[q[2]].parent>>)
            BY <1>5, <3>1
        <3> QED BY <1>3, <3>1, <3>2, <3>3 DEF Rows
    <2> QED BY <2>1, <2>2 DEF ReferenceExists
<1>9. Answering /\ CategoryConflictIsDuplicate /\ RowsAnswered
    BY <1>3, <1>4 DEF Answering, CategoryConflictIsDuplicate, RowsAnswered, Ended
<1>10. SeedTypes /\ HeldIds
    <2>1. phase \in [Runs -> {"idle"}] /\ at \in [Runs -> {1}] /\ ids \in [Runs -> [Positions -> {Unknown}]]
        BY DEF SeedInit
    <2>2. SeedTypes
        BY <2>1, Items DEF SeedTypes, Ids, Positions
    <2>3. \A r \in Runs, n \in Positions : ids[r][n] = Unknown
        BY <2>1
    <2> QED BY <2>2, <2>3 DEF HeldIds, IdOf, Known
<1>11. Scripted
    <2> SUFFICES ASSUME NEW q \in Requests, Was(q) PROVE ForItem(q)
        BY <1>4 DEF Scripted
    <2>1. IdOf(q, q[2])
        BY <1>3 DEF IdOf
    <2>2. ASSUME q[2] \in Of("tag") \cup Of("rule")
          PROVE  IdOf(<<Past, Script[q[2]].parent>>, Script[q[2]].parent)
        <3>1. q[2] \notin Of("category")
            BY <2>2 DEF Of
        <3> QED BY <1>3, <1>5, <3>1 DEF IdOf
    <2> QED BY <1>3, <2>1, <2>2 DEF ForItem
<1> QED BY <1>6, <1>7, <1>8, <1>9, <1>10, <1>11 DEF SeedIInv, IInv

(* SeedIInv holds in every reachable state.                                *)
LEMMA SeedNextIInv == SeedIInv /\ [SeedNext]_<<vars, seedVars>> => SeedIInv'
BY StepOfClient, TypeInvariant, OneInsertedStep, ReferringStep, AnsweringStep, ConflictStep,
   SeedTypesStep, RowsAnsweredStep, ScriptedStep, HeldIdsStep
   DEF SeedIInv, IInv

LEMMA SeedInvariant == SeedSpec => []SeedIInv
BY SeedInitIInv, SeedNextIInv, PTL DEF SeedSpec

-----------------------------------------------------------------------------
(* Types, of the script and of the requests that it sends.                 *)
THEOREM SeedTypeCorrect == SeedSpec => []SeedTypeOK
<1>1. SeedIInv => SeedTypeOK
    BY DEF SeedIInv, IInv, SeedTypes, SeedTypeOK
<1> QED BY <1>1, SeedInvariant, PTL

(* Every step of any number of runs is a step of Taxonomy: a run sends no  *)
(* id that the API has not given away, so what holds of the steps of all   *)
(* clients holds of it.                                                    *)
THEOREM RunsAreClients == SeedSpec => ClientOfTaxonomy
<1>1. SeedIInv /\ [SeedNext]_<<vars, seedVars>> => [Next]_vars
    BY StepOfClient
<1> QED BY <1>1, SeedInvariant, PTL DEF SeedSpec, ClientOfTaxonomy

(* However many runs of whatever script overlap, and whatever is lost, a   *)
(* tag is filed under its category and a rule under its tag.               *)
THEOREM RunsFileAsScripted == SeedSpec => []FiledAsScripted
<1>1. SeedIInv => FiledAsScripted
    <2> SUFFICES ASSUME SeedIInv, NEW q \in Requests, stage[q] = "committed"
                 PROVE  /\ Script[q[2]].op = "tag" =>
                            body[body[q].category_id].slug = Script[Script[q[2]].parent].slug
                        /\ Script[q[2]].op = "rule" =>
                            body[body[q].tag_id].slug = Script[Script[q[2]].parent].slug
        BY DEF FiledAsScripted
    <2>1. ForItem(q) /\ q[2] \in Positions /\ body[q].op = Script[q[2]].op
        BY RequestOfItem, UnknownAssumption DEF SeedIInv, Scripted, ForItem, IdOf
    <2>2. ReferenceExists(q)
        BY <2>1, Items DEF SeedIInv, IInv, Referring, Inserted
    <2>3. ASSUME Script[q[2]].op = "tag"
          PROVE  body[body[q].category_id].slug = Script[Script[q[2]].parent].slug
        <3>1. q[2] \in Of("tag") /\ Script[q[2]].parent \notin Of("rule")
            BY <2>1, <2>3, ScriptAssumption DEF Of
        <3>2. body[q].category_id # Unknown
            BY <2>1, <2>2, <2>3, UnknownAssumption DEF ReferenceExists, Rows
        <3> QED BY <2>1, <3>1, <3>2 DEF ForItem, IdOf
    <2>4. ASSUME Script[q[2]].op = "rule"
          PROVE  body[body[q].tag_id].slug = Script[Script[q[2]].parent].slug
        <3>1. q[2] \in Of("rule") /\ Script[q[2]].parent \notin Of("rule")
            BY <2>1, <2>4, ScriptAssumption DEF Of
        <3>2. body[q].tag_id # Unknown
            BY <2>1, <2>2, <2>4, UnknownAssumption DEF ReferenceExists, Rows
        <3> QED BY <2>1, <3>1, <3>2 DEF ForItem, IdOf
    <2> QED BY <2>3, <2>4
<1> QED BY <1>1, SeedInvariant, PTL

-----------------------------------------------------------------------------
(* RerunRepairs.  A run is regular as long as nothing of what its theorem  *)
(* excludes has happened; the rest says what a regular run has met so far. *)

AllActive == \A q \in Rows("category") \cup Rows("tag") : body[q].is_active
Regular(r) ==
    /\ ~Lost(r)
    /\ AllActive
    /\ \A n \in Of("category") : n < at[r] => answer[<<r, n>>] = 409

(* The request for a category that the run is past has been answered.      *)
Passed ==
    \A r \in Runs, n \in Of("category") :
        n < at[r] => stage[<<r, n>>] \in {"commit"} \cup Ended
Awaited == \A r \in Runs : phase[r] = "waiting" => body[<<r, at[r]>>] = BodyFor(at[r], ids[r], TRUE)
DoneAtEnd == \A r \in Runs : phase[r] = "done" => at[r] \notin Positions

Resolved(r, n) == answer[<<r, n>>] = 409 => Taken(<<r, n>>)

(* A regular run has the ids of what it is past, and a tag of it that was  *)
(* answered 409 is there.                                                  *)
Repaired ==
    \A r \in Runs : Regular(r) =>
        /\ \A n \in Of("category") : n < at[r] => ids[r][n] \in Rows("category")
        /\ \A n \in Of("tag") : n < at[r] => ids[r][n] # Unknown
        /\ \A n \in Of("tag") : phase[r] = "waiting" /\ n = at[r] => Resolved(r, n)

RepairInv == SeedIInv /\ Passed /\ Awaited /\ DoneAtEnd /\ Repaired

(* What one step does to a run: it keeps to its item, sends it, or goes on *)
(* from it without a change of the tables.                                 *)
LEMMA StepOfRun ==
    ASSUME SeedIInv, [SeedNext]_<<vars, seedVars>>, NEW r \in Runs
    PROVE  \/ /\ at'[r] = at[r] /\ ids'[r] = ids[r]
              /\ phase'[r] = "waiting" => phase[r] = "waiting" \/ Send(r)
              /\ phase'[r] = "done" => phase[r] = "done" \/ Finish(r)
           \/ /\ at'[r] = at[r] + 1 /\ phase'[r] = "sending"
              /\ Skip(r) \/ Created(r) \/ LookUp(r) \/ Failed(r)
              /\ UNCHANGED vars
              /\ \A n \in Positions : n # at[r] => ids'[r][n] = ids[r][n]
<1> DEFINE Stays == /\ at'[r] = at[r] /\ ids'[r] = ids[r]
                    /\ phase'[r] = "waiting" => phase[r] = "waiting" \/ Send(r)
                    /\ phase'[r] = "done" => phase[r] = "done" \/ Finish(r)
           Goes == /\ at'[r] = at[r] + 1 /\ phase'[r] = "sending"
                   /\ Skip(r) \/ Created(r) \/ LookUp(r) \/ Failed(r)
                   /\ UNCHANGED vars
                   /\ \A n \in Positions : n # at[r] => ids'[r][n] = ids[r][n]
<1> SUFFICES Stays \/ Goes
    OBVIOUS
<1> USE DEF SeedIInv, SeedTypes
<1>1. ASSUME NEW s \in Runs, Start(s) \/ Finish(s) \/ GiveUp(s) PROVE Stays
    BY <1>1 DEF Start, Finish, GiveUp
<1>2. ASSUME NEW s \in Runs, Send(s) PROVE Stays
    BY <1>2 DEF Send
<1>3. ASSUME NEW s \in Runs, Skip(s) \/ Created(s) \/ LookUp(s) \/ Failed(s), s # r PROVE Stays
    BY <1>3 DEF Skip, Created, LookUp, Failed, GoOn
<1>4. ASSUME Skip(r) \/ Failed(r) PROVE Goes
    BY <1>4 DEF Skip, Failed, GoOn
<1>5. ASSUME Created(r) \/ LookUp(r) PROVE Goes
    BY <1>5 DEF Created, LookUp, GoOn
<1>6. CASE UNCHANGED seedVars
    BY <1>6 DEF seedVars
<1> HIDE DEF Stays, Goes
<1> QED BY <1>1, <1>2, <1>3, <1>4, <1>5, <1>6 DEF SeedNext, RunStep

(* What has ended, stays as it ended.                                      *)
LEMMA EndedStays ==
    ASSUME TypeOK, [Next]_vars, NEW q \in Requests, stage[q] \in Ended
    PROVE  stage'[q] = stage[q] /\ answer'[q] = answer[q]
<1> USE DEF TypeOK, GoTo, Ended, Holding
<1>1. ASSUME NEW p \in Requests, NEW b \in Sendable, Receive(p, b)
      PROVE  stage'[q] = stage[q] /\ answer'[q] = answer[q]
    BY <1>1 DEF Receive
<1>2. ASSUME NEW p \in Requests, Refuse(p) \/ Conflict(p)
      PROVE  stage'[q] = stage[q] /\ answer'[q] = answer[q]
    BY <1>2 DEF Refuse, Conflict, Fail
<1>3. ASSUME NEW p \in Requests, Step(p) \/ Lose(p), ~Refuse(p), ~Conflict(p)
      PROVE  stage'[q] = stage[q] /\ answer'[q] = answer[q]
    BY <1>3 DEF Step, Insert, InsertConditions, ReadCategories, ReadTags, Respond, Commit, Lose
<1>4. CASE UNCHANGED vars
    BY <1>4 DEF vars
<1> QED BY <1>1, <1>2, <1>3, <1>4 DEF Next, ServerNext

(* A run that is regular was regular.                                      *)
LEMMA RegularBefore ==
    ASSUME RepairInv, [SeedNext]_<<vars, seedVars>>, NEW r \in Runs, Regular(r)'
    PROVE  Regular(r)
<1>0. TypeOK /\ [Next]_vars /\ at[r] \in Nat /\ (at'[r] = at[r] \/ at'[r] = at[r] + 1)
    <2>1. SeedIInv
        BY DEF RepairInv
    <2>2. TypeOK /\ [Next]_vars
        BY <2>1, StepOfClient DEF SeedIInv, IInv
    <2>3. at[r] \in Nat
        BY <2>1, Items DEF SeedIInv, SeedTypes
    <2> QED BY <2>1, <2>2, <2>3, StepOfRun
<1>1. ~Lost(r)
    BY <1>0, EndedStays, RequestOfItem DEF Regular, Lost, Ended
<1>2. AllActive
    <2> SUFFICES ASSUME NEW op \in {"category", "tag"}, NEW q \in Rows(op)
                 PROVE  body[q].is_active
        BY DEF AllActive
    <2>1. q \in Rows(op)'
        BY <1>0, RowsStay DEF Creating
    <2>2. body'[q] = body[q]
        BY <1>0, StepOfOne DEF Rows
    <2> QED BY <2>1, <2>2 DEF Regular, AllActive
<1>3. ASSUME NEW n \in Of("category"), n < at[r] PROVE answer[<<r, n>>] = 409
    <2>1. n \in Positions /\ <<r, n>> \in Requests /\ n < at'[r]
        BY <1>0, <1>3, RequestOfItem DEF Of, Positions
    <2>2. answer'[<<r, n>>] = 409
        BY <2>1 DEF Regular
    <2>3. stage[<<r, n>>] \in {"commit"} \cup Ended
        BY <1>3 DEF RepairInv, Passed
    <2>4. ~Conflict(<<r, n>>)
        BY <2>3 DEF Conflict, Ended
    <2> QED BY <1>0, <2>1, <2>2, <2>4, StepOfOne
<1> QED BY <1>1, <1>2, <1>3 DEF Regular

(* No category is skipped, and the run goes on from it with its answer.    *)
LEMMA PassedStep == RepairInv /\ [SeedNext]_<<vars, seedVars>> => Passed'
<1> SUFFICES ASSUME RepairInv, [SeedNext]_<<vars, seedVars>>,
                    NEW r \in Runs, NEW n \in Of("category"), n < at'[r]
             PROVE  stage'[<<r, n>>] \in {"commit"} \cup Ended
    BY DEF Passed
<1>0. /\ TypeOK /\ [Next]_vars /\ Answering /\ at[r] \in Nat /\ n \in Nat
      /\ n \in Positions /\ <<r, n>> \in Requests
    BY StepOfClient, RequestOfItem, Items
       DEF RepairInv, SeedIInv, IInv, SeedTypes, Of, Positions
<1>1. CASE n < at[r]
    BY <1>0, <1>1, StepOfOne DEF RepairInv, Passed
<1>2. CASE ~(n < at[r])
    <2>1. n = at[r] /\ (Skip(r) \/ Created(r) \/ LookUp(r) \/ Failed(r)) /\ UNCHANGED vars
        BY <1>0, <1>2, StepOfRun DEF RepairInv
    <2>2. ~Skip(r)
        BY <2>1 DEF Skip, HasParent
    <2>3. answer[<<r, n>>] \in {201, 409} \/ stage[<<r, n>>] = "failed"
        BY <2>1, <2>2 DEF Created, LookUp, Failed
    <2>4. stage[<<r, n>>] \in {"commit"} \cup Ended
        BY <1>0, <2>3 DEF Answering, Ended
    <2> QED BY <2>1, <2>4 DEF vars
<1> QED BY <1>1, <1>2

(* A run waits for the request that it has sent.                           *)
LEMMA AwaitedStep == RepairInv /\ [SeedNext]_<<vars, seedVars>> => Awaited'
<1> SUFFICES ASSUME RepairInv, [SeedNext]_<<vars, seedVars>>,
                    NEW r \in Runs, phase'[r] = "waiting"
             PROVE  body'[<<r, at'[r]>>] = BodyFor(at'[r], ids'[r], TRUE)
    BY DEF Awaited, BodyFor
<1>0. TypeOK /\ [Next]_vars
    BY StepOfClient DEF RepairInv, SeedIInv, IInv
<1>1. at'[r] = at[r] /\ ids'[r] = ids[r] /\ (phase[r] = "waiting" \/ Send(r))
    BY StepOfRun DEF RepairInv
<1>2. at[r] \in Positions /\ <<r, at[r]>> \in Requests /\ ids[r] \in [Positions -> Ids]
    BY <1>1, RequestOfItem DEF RepairInv, SeedIInv, SeedTypes, Send
<1>3. CASE Send(r)
    BY <1>0, <1>1, <1>2, <1>3 DEF Send, Receive, TypeOK
<1>4. CASE phase[r] = "waiting"
    <2>1. body[<<r, at[r]>>] = BodyFor(at[r], ids[r], TRUE)
        BY <1>4 DEF RepairInv, Awaited
    <2>2. body[<<r, at[r]>>].op \in Creating
        <3> DEFINE b == BodyFor(at[r], ids[r], TRUE)
        <3>1. b.op = Script[at[r]].op
            BY <1>2, SentBody
        <3> QED BY <1>2, <2>1, <3>1, Items
    <2>3. stage[<<r, at[r]>>] # "new"
        BY <1>0, <1>2, <2>2 DEF TypeOK, NoBody, Creating
    <2> QED BY <1>0, <1>1, <1>2, <2>1, <2>3, StepOfOne
<1> QED BY <1>1, <1>3, <1>4

(* A run is done when it is past its last item.                            *)
LEMMA DoneStep == RepairInv /\ [SeedNext]_<<vars, seedVars>> => DoneAtEnd'
<1> SUFFICES ASSUME RepairInv, [SeedNext]_<<vars, seedVars>>, NEW r \in Runs, phase'[r] = "done"
             PROVE  at'[r] \notin Positions
    BY DEF DoneAtEnd
<1>1. at'[r] = at[r] /\ (phase[r] = "done" \/ Finish(r))
    BY StepOfRun DEF RepairInv
<1> QED BY <1>1 DEF RepairInv, DoneAtEnd, Finish

(* A slug that is taken stays taken.                                       *)
LEMMA TakenStays ==
    ASSUME TypeOK, [Next]_vars, NEW q \in Requests, stage[q] # "new", Taken(q)
    PROVE  Taken(q)'
<1>1. PICK p \in Rows(body[q].op) : SameKey(p, q)
    BY DEF Taken
<1>2. body'[q] = body[q] /\ body[q].op \in Creating
    BY <1>1, StepOfOne DEF SameKey, HasSlug, Creating
<1>3. p \in Requests /\ stage[p] # "new"
    BY <1>1 DEF Rows
<1>4. p \in Rows(body[q].op)' /\ SameKey(p, q)'
    BY <1>1, <1>2, <1>3, RowsStay, KeyStays
<1> QED BY <1>2, <1>4 DEF Taken, Rows

(* The look-up of a slug that is taken by an active row finds such a row.  *)
LEMMA LookUpFinds ==
    ASSUME SeedIInv, AllActive, NEW r \in Runs, NEW n \in Of("category") \cup Of("tag"),
           n = at[r], LookUp(r), Taken(<<r, n>>)
    PROVE  ids'[r][n] \in Rows(Script[n].op)
<1>0. n \in Positions /\ <<r, n>> \in Requests /\ n \notin Of("rule")
    BY RequestOfItem DEF Of
<1>1. stage[<<r, n>>] # "new"
    BY <1>0 DEF LookUp, SeedIInv, IInv, Answering, Ended
<1>2. body[<<r, n>>].op = Script[n].op /\ body[<<r, n>>].slug = Script[n].slug
    BY <1>0, <1>1, UnknownAssumption DEF SeedIInv, Scripted, ForItem, IdOf
<1>3. PICK p \in Rows(Script[n].op) : body[p].slug = Script[n].slug
    BY <1>2 DEF Taken, SameKey
<1>4. Script[n].op \in {"category", "tag"}
    BY DEF Of
<1>5. p \in Found(n)
    BY <1>3, <1>4 DEF Found, Active, AllActive
<1>6. ids'[r][n] = CHOOSE q \in Found(n) : TRUE
    BY <1>0, <1>5 DEF LookUp, SeedIInv, SeedTypes
<1>7. ids'[r][n] \in Found(n)
    BY <1>5, <1>6
<1> QED BY <1>7 DEF Found, Active

(* While a regular run waits, a 409 for a tag can only mean that the tag   *)
(* is there: it was sent with the id of a committed category.              *)
LEMMA ResolvedStep ==
    ASSUME RepairInv, [SeedNext]_<<vars, seedVars>>, NEW r \in Runs, NEW n \in Of("tag"),
           Regular(r), phase'[r] = "waiting", n = at'[r]
    PROVE  Resolved(r, n)'
<1>0. /\ SeedIInv /\ TypeOK /\ Answering /\ ids[r] \in [Positions -> Ids]
      /\ n \in Positions /\ <<r, n>> \in Requests
    BY RequestOfItem DEF RepairInv, SeedIInv, IInv, SeedTypes, Of
<1>1. [Next]_vars
    BY <1>0, StepOfClient
<1>2. n = at[r] /\ ids'[r] = ids[r] /\ (phase[r] = "waiting" \/ Send(r))
    BY <1>0, StepOfRun
<1> SUFFICES ASSUME answer'[<<r, n>>] = 409 PROVE Taken(<<r, n>>)'
    BY DEF Resolved
<1>3. ~Send(r)
    <2> SUFFICES ASSUME Send(r) PROVE FALSE
        OBVIOUS
    <2>1. stage[<<r, n>>] = "new" /\ answer' = answer
        BY <1>2 DEF Send, Receive
    <2> QED BY <1>0, <2>1 DEF Answering, Ended
<1>4. CASE answer[<<r, n>>] = 409
    <2>1. Resolved(r, n)
        BY <1>2, <1>3 DEF RepairInv, Repaired
    <2>2. Taken(<<r, n>>) /\ stage[<<r, n>>] # "new"
        BY <1>0, <1>4, <2>1 DEF Resolved, Answering, Ended
    <2> QED BY <1>0, <1>1, <2>2, TakenStays
<1>5. CASE answer[<<r, n>>] # 409
    <2>1. Conflict(<<r, n>>)
        BY <1>0, <1>1, <1>5, StepOfOne
    <2>2. body[<<r, n>>] = BodyFor(n, ids[r], TRUE)
        <3>1. body[<<r, at[r]>>] = BodyFor(at[r], ids[r], TRUE)
            BY <1>2, <1>3 DEF RepairInv, Awaited
        <3> QED BY <1>2, <3>1, Zenon
    <2>3. body[<<r, n>>].op = "tag" /\ body[<<r, n>>].category_id = ids[r][Script[n].parent]
        <3> DEFINE b == BodyFor(n, ids[r], TRUE)
        <3>1. b.op = Script[n].op /\ b.category_id = ids[r][Script[n].parent]
            BY <1>0, SentBody
        <3>2. Script[n].op = "tag"
            BY DEF Of
        <3> QED BY <2>2, <3>1, <3>2
    <2>4. Script[n].parent \in Of("category") /\ Script[n].parent < at[r]
        BY <1>2, ScriptAssumption
    <2>5. ids[r][Script[n].parent] \in Rows("category")
        BY <2>4 DEF RepairInv, Repaired
    <2>6. ReferenceExists(<<r, n>>)
        BY <2>3, <2>5 DEF ReferenceExists
    <2>7. Taken(<<r, n>>) /\ stage[<<r, n>>] # "new"
        BY <2>1, <2>6 DEF Conflict
    <2> QED BY <1>0, <1>1, <2>7, TakenStays
<1> QED BY <1>4, <1>5

(* A regular run that goes on from a category has found its row.           *)
LEMMA CategoryFound ==
    ASSUME RepairInv, NEW r \in Runs, NEW n \in Of("category"), n = at[r], AllActive,
           answer[<<r, n>>] = 409, Skip(r) \/ Created(r) \/ LookUp(r) \/ Failed(r)
    PROVE  ids'[r][n] \in Rows("category")
<1>0. SeedIInv /\ IInv /\ Answering /\ n \in Positions /\ <<r, n>> \in Requests
    BY RequestOfItem DEF RepairInv, SeedIInv, IInv, Of
<1>1. LookUp(r)
    BY DEF Skip, HasParent, Created, Failed, Of
<1>2. Script[n].op = "category"
    BY DEF Of
<1>3. stage[<<r, n>>] # "new"
    BY <1>0 DEF Answering, Ended
<1>4. body[<<r, n>>].op = "category"
    BY <1>0, <1>2, <1>3, UnknownAssumption DEF SeedIInv, Scripted, ForItem, IdOf
<1>5. Taken(<<r, n>>)
    BY <1>0, <1>4 DEF IInv, CategoryConflictIsDuplicate
<1> QED BY <1>0, <1>1, <1>2, <1>5, LookUpFinds

(* One that goes on from a tag has created or found it.                    *)
LEMMA TagFound ==
    ASSUME RepairInv, NEW r \in Runs, Regular(r), NEW n \in Of("tag"), n = at[r],
           Skip(r) \/ Created(r) \/ LookUp(r) \/ Failed(r)
    PROVE  ids'[r][n] # Unknown
<1>0. /\ SeedIInv /\ SeedTypes /\ AllActive /\ ~Lost(r)
      /\ n \in Positions /\ <<r, n>> \in Requests
    BY RequestOfItem DEF RepairInv, SeedIInv, Regular, Of
<1>1. ~Skip(r)
    <2>1. Script[n].parent \in Of("category") /\ Script[n].parent < at[r]
        BY ScriptAssumption
    <2>2. ids[r][Script[n].parent] \in Rows("category")
        BY <2>1 DEF RepairInv, Repaired
    <2> QED BY <2>2, UnknownAssumption DEF Skip, HasParent, Rows
<1>2. ~Failed(r)
    <2> SUFFICES ASSUME Failed(r) PROVE FALSE
        OBVIOUS
    <2>1. n \notin Of("rule")
        BY DEF Of
    <2>2. stage[<<r, n>>] = "failed" /\ answer[<<r, n>>] # 409
        BY <2>1 DEF Failed
    <2> QED BY <1>0, <2>2 DEF Lost
<1>3. CASE Created(r)
    <2>1. ids'[r][n] = <<r, n>>
        BY <1>0, <1>3 DEF Created, SeedTypes
    <2> QED BY <1>0, <2>1, UnknownAssumption
<1>4. CASE LookUp(r)
    <2>1. phase[r] = "waiting" /\ answer[<<r, n>>] = 409
        BY <1>4 DEF LookUp
    <2>2. Resolved(r, n)
        BY <2>1 DEF RepairInv, Repaired
    <2>3. ids'[r][n] \in Rows(Script[n].op)
        BY <1>0, <1>4, <2>1, <2>2, LookUpFinds DEF Resolved
    <2> QED BY <2>3, UnknownAssumption DEF Rows
<1> QED BY <1>1, <1>2, <1>3, <1>4

(* A regular run, past one more item, has an id for it.                    *)
LEMMA RepairedStep == RepairInv /\ [SeedNext]_<<vars, seedVars>> => Repaired'
<1> SUFFICES ASSUME RepairInv, [SeedNext]_<<vars, seedVars>>, NEW r \in Runs, Regular(r)'
             PROVE  /\ \A n \in Of("category") : n < at'[r] => ids'[r][n] \in Rows("category")'
                    /\ \A n \in Of("tag") : n < at'[r] => ids'[r][n] # Unknown
                    /\ \A n \in Of("tag") :
                            phase'[r] = "waiting" /\ n = at'[r] => Resolved(r, n)'
    BY DEF Repaired
<1>0. TypeOK /\ SeedIInv /\ at[r] \in Nat /\ \A n \in Positions : n \in Nat
    BY Items DEF RepairInv, SeedIInv, IInv, SeedTypes, Positions
<1>1. [Next]_vars /\ Regular(r)
    BY <1>0, StepOfClient, RegularBefore
<1>2. Rows("category") \subseteq Rows("category")'
    BY <1>0, <1>1, RowsStay DEF Creating
<1>3. ASSUME NEW n \in Of("category"), n < at'[r] PROVE ids'[r][n] \in Rows("category")'
    <2>1. CASE ids'[r][n] = ids[r][n] /\ n < at[r]
        BY <1>1, <1>2, <2>1 DEF RepairInv, Repaired
    <2>2. CASE ~(ids'[r][n] = ids[r][n] /\ n < at[r])
        <3>1. /\ n = at[r] /\ (Skip(r) \/ Created(r) \/ LookUp(r) \/ Failed(r))
              /\ UNCHANGED vars
            BY <1>0, <1>3, <2>2, StepOfRun DEF Of
        <3>2. answer[<<r, n>>] = 409
            BY <1>3, <3>1 DEF Regular, vars
        <3>3. ids'[r][n] \in Rows("category")
            BY <1>1, <3>1, <3>2, CategoryFound DEF Regular
        <3> QED BY <1>2, <3>3
    <2> QED BY <2>1, <2>2
<1>4. ASSUME NEW n \in Of("tag"), n < at'[r] PROVE ids'[r][n] # Unknown
    <2>1. CASE ids'[r][n] = ids[r][n] /\ n < at[r]
        BY <1>1, <2>1 DEF RepairInv, Repaired
    <2>2. CASE ~(ids'[r][n] = ids[r][n] /\ n < at[r])
        <3>1. n = at[r] /\ (Skip(r) \/ Created(r) \/ LookUp(r) \/ Failed(r))
            BY <1>0, <1>4, <2>2, StepOfRun DEF Of
        <3> QED BY <1>1, <3>1, TagFound
    <2> QED BY <2>1, <2>2
<1>5. ASSUME NEW n \in Of("tag"), phase'[r] = "waiting", n = at'[r] PROVE Resolved(r, n)'
    BY <1>1, <1>5, ResolvedStep
<1> QED BY <1>3, <1>4, <1>5

LEMMA RepairInit == SeedInit => RepairInv
<1> SUFFICES ASSUME SeedInit PROVE RepairInv
    OBVIOUS
<1>1. phase \in [Runs -> {"idle"}] /\ at \in [Runs -> {1}]
    BY DEF SeedInit
<1>2. \A r \in Runs : phase[r] = "idle" /\ at[r] = 1
    BY <1>1
<1>3. \A n \in Of("category") \cup Of("tag") : ~(n < 1)
    BY Items DEF Of, Positions
<1> QED BY <1>2, <1>3, SeedInitIInv DEF RepairInv, Passed, Awaited, DoneAtEnd, Repaired

LEMMA RepairStep == RepairInv /\ [SeedNext]_<<vars, seedVars>> => RepairInv'
BY SeedNextIInv, PassedStep, AwaitedStep, DoneStep, RepairedStep DEF RepairInv

(* A run that finds the categories of an earlier one makes up for the tags *)
(* that are missing, for any script, whoever else runs it: each tag it     *)
(* sends has a committed category, so that a 409 means that the tag is     *)
(* there.                                                                  *)
THEOREM RerunsRepair == SeedSpec => []RerunRepairs
<1>1. RepairInv => RerunRepairs
    <2> SUFFICES ASSUME RepairInv, NEW r \in Runs, phase[r] = "done", ~Lost(r),
                        \A n \in Of("category") : answer[<<r, n>>] = 409,
                        AllActive,
                        NEW n \in Of("tag")
                 PROVE  ids[r][n] # Unknown
        BY DEF RerunRepairs, AllActive
    <2>1. Regular(r)
        BY DEF Regular
    <2>2. n < at[r]
        BY Items DEF RepairInv, DoneAtEnd, SeedIInv, SeedTypes, Of, Positions
    <2> QED BY <2>1, <2>2 DEF RepairInv, Repaired
<1> QED BY <1>1, RepairInit, RepairStep, PTL DEF SeedSpec

-----------------------------------------------------------------------------
(* RerunAddsRules.  A regular run is settled as long as no tag was new. *)

Settled(r) == Regular(r) /\ \A n \in Of("tag") : n < at[r] => answer[<<r, n>>] = 409

(* The request for a tag that a regular run is past has been answered; a   *)
(* settled run has the rows of its tags, and its rules are not refused.    *)
TagsPassed ==
    \A r \in Runs, n \in Of("tag") :
        Regular(r) /\ n < at[r] => stage[<<r, n>>] \in {"commit"} \cup Ended

Added ==
    \A r \in Runs : Settled(r) =>
        /\ \A n \in Of("tag") : n < at[r] => ids[r][n] \in Rows("tag")
        /\ \A n \in Of("rule") : n < at[r] => answer[<<r, n>>] = 201
        /\ \A n \in Of("rule") : phase[r] = "waiting" /\ n = at[r] => answer[<<r, n>>] # 409

AddInv == RepairInv /\ TagsPassed /\ Added

(* A regular run skips no tag. *)
LEMMA TagNotSkipped ==
    ASSUME RepairInv, NEW r \in Runs, Regular(r), at[r] \in Of("tag")
    PROVE  ~Skip(r)
<1>1. Script[at[r]].parent \in Of("category") /\ Script[at[r]].parent < at[r]
    BY ScriptAssumption
<1>2. ids[r][Script[at[r]].parent] \in Rows("category")
    BY <1>1 DEF RepairInv, Repaired
<1> QED BY <1>2, UnknownAssumption DEF Skip, HasParent, Rows

LEMMA TagsPassedStep == AddInv /\ [SeedNext]_<<vars, seedVars>> => TagsPassed'
<1> SUFFICES ASSUME AddInv, [SeedNext]_<<vars, seedVars>>, NEW r \in Runs, Regular(r)',
                    NEW n \in Of("tag"), n < at'[r]
             PROVE  stage'[<<r, n>>] \in {"commit"} \cup Ended
    BY DEF TagsPassed
<1>0. /\ SeedIInv /\ RepairInv /\ TypeOK /\ [Next]_vars /\ Answering /\ at[r] \in Nat /\ n \in Nat
      /\ n \in Positions /\ <<r, n>> \in Requests
    BY StepOfClient, RequestOfItem, Items
       DEF AddInv, RepairInv, SeedIInv, IInv, SeedTypes, Of, Positions
<1>r. Regular(r)
    BY <1>0, RegularBefore
<1>1. CASE n < at[r]
    BY <1>0, <1>r, <1>1, StepOfOne DEF AddInv, TagsPassed
<1>2. CASE ~(n < at[r])
    <2>1. n = at[r] /\ (Skip(r) \/ Created(r) \/ LookUp(r) \/ Failed(r)) /\ UNCHANGED vars
        BY <1>0, <1>2, StepOfRun
    <2>2. ~Skip(r)
        BY <1>0, <1>r, <2>1, TagNotSkipped
    <2>3. answer[<<r, n>>] \in {201, 409} \/ stage[<<r, n>>] = "failed"
        BY <2>1, <2>2 DEF Created, LookUp, Failed
    <2>4. stage[<<r, n>>] \in {"commit"} \cup Ended
        BY <1>0, <2>3 DEF Answering, Ended
    <2> QED BY <2>1, <2>4 DEF vars
<1> QED BY <1>1, <1>2

(* A run that is settled was settled. *)
LEMMA SettledBefore ==
    ASSUME AddInv, [SeedNext]_<<vars, seedVars>>, NEW r \in Runs, Settled(r)'
    PROVE  Settled(r)
<1>0. /\ SeedIInv /\ RepairInv /\ TypeOK /\ [Next]_vars /\ at[r] \in Nat
      /\ Regular(r)' /\ (at'[r] = at[r] \/ at'[r] = at[r] + 1)
    <2>1. SeedIInv /\ RepairInv /\ Regular(r)'
        BY DEF AddInv, RepairInv, Settled
    <2>2. TypeOK /\ [Next]_vars
        BY <2>1, StepOfClient DEF SeedIInv, IInv
    <2>3. at[r] \in Nat
        BY <2>1, Items DEF SeedIInv, SeedTypes
    <2> QED BY <2>1, <2>2, <2>3, StepOfRun
<1>1. Regular(r)
    BY <1>0, RegularBefore
<1>2. ASSUME NEW n \in Of("tag"), n < at[r] PROVE answer[<<r, n>>] = 409
    <2>1. n \in Positions /\ <<r, n>> \in Requests /\ n < at'[r]
        BY <1>0, <1>2, RequestOfItem DEF Of, Positions
    <2>2. answer'[<<r, n>>] = 409
        BY <2>1 DEF Settled
    <2>3. stage[<<r, n>>] \in {"commit"} \cup Ended
        BY <1>1, <1>2 DEF AddInv, TagsPassed
    <2>4. ~Conflict(<<r, n>>)
        BY <2>3 DEF Conflict, Ended
    <2> QED BY <1>0, <2>1, <2>2, <2>4, StepOfOne
<1> QED BY <1>1, <1>2 DEF Settled

(* A regular run that goes on from a tag that was not new has its row. *)
LEMMA TagRowFound ==
    ASSUME RepairInv, NEW r \in Runs, Regular(r), NEW n \in Of("tag"), n = at[r],
           answer[<<r, n>>] = 409, Skip(r) \/ Created(r) \/ LookUp(r) \/ Failed(r)
    PROVE  ids'[r][n] \in Rows("tag")
<1>1. LookUp(r)
    <2>1. ~Skip(r)
        BY TagNotSkipped
    <2> QED BY <2>1 DEF Created, Failed, Of
<1>2. Resolved(r, n)
    BY <1>1 DEF LookUp, RepairInv, Repaired
<1>3. SeedIInv /\ AllActive /\ Script[n].op = "tag"
    BY DEF RepairInv, Regular, Of
<1> QED BY <1>1, <1>2, <1>3, LookUpFinds DEF Resolved

(* While a settled run waits for a rule, nothing refuses the rule: it was  *)
(* sent with the id of a committed tag.                                    *)
LEMMA RuleNotRefused ==
    ASSUME AddInv, [SeedNext]_<<vars, seedVars>>, NEW r \in Runs, NEW n \in Of("rule"),
           Settled(r), phase'[r] = "waiting", n = at'[r]
    PROVE  answer'[<<r, n>>] # 409
<1>0. /\ SeedIInv /\ RepairInv /\ TypeOK /\ Answering /\ ids[r] \in [Positions -> Ids]
      /\ n \in Positions /\ <<r, n>> \in Requests
    BY RequestOfItem DEF AddInv, RepairInv, SeedIInv, IInv, SeedTypes, Of
<1>1. [Next]_vars
    BY <1>0, StepOfClient
<1>2. n = at[r] /\ ids'[r] = ids[r] /\ (phase[r] = "waiting" \/ Send(r))
    BY <1>0, StepOfRun
<1> SUFFICES ASSUME answer'[<<r, n>>] = 409 PROVE FALSE
    OBVIOUS
<1>3. ~Send(r)
    <2> SUFFICES ASSUME Send(r) PROVE FALSE
        OBVIOUS
    <2>1. stage[<<r, n>>] = "new" /\ answer' = answer
        BY <1>2 DEF Send, Receive
    <2> QED BY <1>0, <2>1 DEF Answering, Ended
<1>4. answer[<<r, n>>] # 409
    BY <1>2, <1>3 DEF AddInv, Added
<1>5. Conflict(<<r, n>>)
    BY <1>0, <1>1, <1>4, StepOfOne
<1>6. body[<<r, n>>] = BodyFor(n, ids[r], TRUE)
    <2>1. body[<<r, at[r]>>] = BodyFor(at[r], ids[r], TRUE)
        BY <1>0, <1>2, <1>3 DEF RepairInv, Awaited
    <2> QED BY <1>2, <2>1, Zenon
<1>7. body[<<r, n>>].op = "rule" /\ body[<<r, n>>].tag_id = ids[r][Script[n].parent]
    <2> DEFINE b == BodyFor(n, ids[r], TRUE)
    <2>1. b.op = Script[n].op /\ b.tag_id = ids[r][Script[n].parent]
        BY <1>0, SentBody
    <2>2. Script[n].op = "rule"
        BY DEF Of
    <2> QED BY <1>6, <2>1, <2>2
<1>8. ids[r][Script[n].parent] \in Rows("tag")
    <2>1. Script[n].parent \in Of("tag") /\ Script[n].parent < at[r]
        BY <1>2, ScriptAssumption
    <2> QED BY <2>1 DEF AddInv, Added
<1>9. ReferenceExists(<<r, n>>) /\ ~Taken(<<r, n>>)
    BY <1>7, <1>8 DEF ReferenceExists, Taken, SameKey, HasSlug
<1> QED BY <1>5, <1>9 DEF Conflict

(* A settled run goes on from a rule only with a 201. *)
LEMMA RuleAdded ==
    ASSUME AddInv, NEW r \in Runs, Settled(r), NEW n \in Of("rule"), n = at[r],
           Skip(r) \/ Created(r) \/ LookUp(r) \/ Failed(r)
    PROVE  answer[<<r, n>>] = 201
<1>1. n \in Positions /\ n \notin Of("category") /\ ~Lost(r)
    BY DEF Of, Settled, Regular
<1>2. ~Skip(r)
    <2>1. Script[n].parent \in Of("tag") /\ Script[n].parent < at[r]
        BY ScriptAssumption
    <2>2. ids[r][Script[n].parent] \in Rows("tag")
        BY <2>1 DEF AddInv, Added
    <2> QED BY <2>2, UnknownAssumption DEF Skip, HasParent, Rows
<1>3. ~LookUp(r)
    BY DEF LookUp
<1>4. ~Failed(r)
    <2>1. phase[r] = "waiting" => answer[<<r, n>>] # 409
        BY DEF AddInv, Added
    <2> QED BY <1>1, <2>1 DEF Failed, Lost
<1> QED BY <1>2, <1>3, <1>4 DEF Created

LEMMA AddedStep == AddInv /\ [SeedNext]_<<vars, seedVars>> => Added'
<1> SUFFICES ASSUME AddInv, [SeedNext]_<<vars, seedVars>>, NEW r \in Runs, Settled(r)'
             PROVE  /\ \A n \in Of("tag") : n < at'[r] => ids'[r][n] \in Rows("tag")'
                    /\ \A n \in Of("rule") : n < at'[r] => answer'[<<r, n>>] = 201
                    /\ \A n \in Of("rule") :
                            phase'[r] = "waiting" /\ n = at'[r] => answer'[<<r, n>>] # 409
    BY DEF Added
<1>0. /\ TypeOK /\ RepairInv /\ SeedIInv /\ Answering
      /\ at[r] \in Nat /\ \A n \in Positions : n \in Nat
    BY Items DEF AddInv, RepairInv, SeedIInv, IInv, SeedTypes, Positions
<1>1. [Next]_vars /\ Settled(r) /\ Regular(r)
    BY <1>0, StepOfClient, SettledBefore DEF Settled
<1>2. Rows("tag") \subseteq Rows("tag")'
    BY <1>0, <1>1, RowsStay DEF Creating
<1>3. ASSUME NEW n \in Of("tag"), n < at'[r] PROVE ids'[r][n] \in Rows("tag")'
    <2>1. CASE ids'[r][n] = ids[r][n] /\ n < at[r]
        BY <1>1, <1>2, <2>1 DEF AddInv, Added
    <2>2. CASE ~(ids'[r][n] = ids[r][n] /\ n < at[r])
        <3>1. /\ n = at[r] /\ (Skip(r) \/ Created(r) \/ LookUp(r) \/ Failed(r))
              /\ UNCHANGED vars
            BY <1>0, <1>3, <2>2, StepOfRun DEF Of
        <3>2. answer[<<r, n>>] = 409
            BY <1>3, <3>1 DEF Settled, vars
        <3>3. ids'[r][n] \in Rows("tag")
            BY <1>0, <1>1, <3>1, <3>2, TagRowFound
        <3> QED BY <1>2, <3>3
    <2> QED BY <2>1, <2>2
<1>4. ASSUME NEW n \in Of("rule"), n < at'[r] PROVE answer'[<<r, n>>] = 201
    <2>0. n \in Positions /\ <<r, n>> \in Requests
        BY RequestOfItem DEF Of
    <2>1. CASE n < at[r]
        <3>1. answer[<<r, n>>] = 201
            BY <1>1, <2>1 DEF AddInv, Added
        <3>2. Known \subseteq Known' /\ <<r, n>> \in Known
            BY <1>0, <1>1, <2>0, <3>1, KnownStays DEF Known
        <3> QED BY <2>0, <3>2, UnknownAssumption DEF Known
    <2>2. CASE ~(n < at[r])
        <3>1. /\ n = at[r] /\ (Skip(r) \/ Created(r) \/ LookUp(r) \/ Failed(r))
              /\ UNCHANGED vars
            BY <1>0, <1>4, <2>0, <2>2, StepOfRun
        <3> QED BY <1>1, <3>1, RuleAdded DEF vars
    <2> QED BY <2>1, <2>2
<1>5. ASSUME NEW n \in Of("rule"), phase'[r] = "waiting", n = at'[r]
      PROVE  answer'[<<r, n>>] # 409
    BY <1>1, <1>5, RuleNotRefused
<1> QED BY <1>3, <1>4, <1>5

(* For any script, whoever else runs it: a run that finds the taxonomy in  *)
(* place stores every rule of the script, which it never looks for.        *)
THEOREM RerunsAddRules == SeedSpec => []RerunAddsRules
<1>1. SeedInit => AddInv
    <2> SUFFICES ASSUME SeedInit PROVE AddInv
        OBVIOUS
    <2>1. phase \in [Runs -> {"idle"}] /\ at \in [Runs -> {1}]
        BY DEF SeedInit
    <2>2. \A r \in Runs : phase[r] = "idle" /\ at[r] = 1
        BY <2>1
    <2>3. \A n \in Of("tag") \cup Of("rule") : ~(n < 1)
        BY Items DEF Of, Positions
    <2> QED BY <2>2, <2>3, RepairInit DEF AddInv, TagsPassed, Added
<1>2. AddInv /\ [SeedNext]_<<vars, seedVars>> => AddInv'
    BY RepairStep, TagsPassedStep, AddedStep DEF AddInv
<1>3. AddInv => RerunAddsRules
    <2> SUFFICES ASSUME AddInv, NEW r \in Runs, phase[r] = "done", ~Lost(r),
                        \A n \in Of("category") \cup Of("tag") : answer[<<r, n>>] = 409,
                        AllActive,
                        NEW n \in Of("rule")
                 PROVE  stage[<<r, n>>] \in {"commit", "committed"}
        BY DEF RerunAddsRules, AllActive
    <2>1. Settled(r)
        BY DEF Settled, Regular
    <2>2. n < at[r] /\ <<r, n>> \in Requests /\ n \in Positions
        BY Items, RequestOfItem
           DEF AddInv, RepairInv, DoneAtEnd, SeedIInv, SeedTypes, Of, Positions
    <2>3. answer[<<r, n>>] = 201
        BY <2>1, <2>2 DEF AddInv, Added
    <2>4. stage[<<r, n>>] \in {"commit"} \cup Ended
        BY <2>2, <2>3 DEF AddInv, RepairInv, SeedIInv, IInv, Answering
    <2> QED BY <2>2, <2>3, <2>4 DEF Lost, Ended
<1> QED BY <1>1, <1>2, <1>3, PTL DEF SeedSpec
=============================================================================

-------------------------------- MODULE Seed --------------------------------
(***************************************************************************)
(* scripts/seed_taxonomy.py: runs of the script as clients of Taxonomy.  A *)
(* run sends one request at a time and waits for the answer; the commit of *)
(* a request comes after its answer, so the next request may overtake it.  *)
(*                                                                         *)
(* The script's data is a sequence of items: categories, then tags, then   *)
(* rules.  A tag is sent with the id that the run has for its category, a  *)
(* rule with the id it has for its tag.  The n-th request of run r is      *)
(* <<r, n>>.  Rows that were there before are requests of Past.            *)
(***************************************************************************)
EXTENDS Taxonomy, Naturals, Sequences

CONSTANTS
    Runs, Past,
    Script       \* the items; parent is the position of the category of a
                 \* tag, and of the tag of a rule

Item ==
    [op : {"category"}, slug : CategorySlugs]
    \cup [op : {"tag"}, slug : TagSlugs, parent : Nat]
    \cup [op : {"rule"}, parent : Nat]

Positions == 1..Len(Script)
Of(op) == {n \in Positions : Script[n].op = op}

(* The slugs of the data are distinct, and what is referred to comes first. *)
ASSUME ScriptAssumption ==
    /\ Past \notin Runs
    /\ Script \in Seq(Item)
    /\ Requests = (Runs \cup {Past}) \X Positions
    /\ \A n \in Of("tag") : Script[n].parent \in Of("category") /\ Script[n].parent < n
    /\ \A n \in Of("rule") : Script[n].parent \in Of("tag") /\ Script[n].parent < n
    /\ \A op \in {"category", "tag"} :
        \A m, n \in Of(op) : Script[m].slug = Script[n].slug => m = n

VARIABLES
    phase,    \* phase[r]: what the run is doing
    at,       \* at[r]: the item it is at
    ids       \* ids[r][n]: the id it has for an item, Unknown if none

seedVars == <<phase, at, ids>>

(* The request for an item, where id_of gives the ids of the items. *)
BodyFor(n, id_of, active) ==
    CASE Script[n].op = "category" ->
            [op |-> "category", slug |-> Script[n].slug, is_active |-> active]
      [] Script[n].op = "tag" ->
            [op |-> "tag", slug |-> Script[n].slug,
             category_id |-> id_of[Script[n].parent], is_active |-> active]
      [] Script[n].op = "rule" -> [op |-> "rule", tag_id |-> id_of[Script[n].parent]]

(* A table that somebody filled before: any of the script's items, with    *)
(* those they refer to, active or not.                                     *)
SeedInit ==
    /\ \E old \in SUBSET Positions, active \in [Positions -> BOOLEAN] :
        /\ \A n \in old \ Of("category") : Script[n].parent \in old
        /\ body = [q \in Requests |->
                    IF q[1] = Past /\ q[2] \in old
                    THEN BodyFor(q[2], [n \in Positions |-> <<Past, n>>], active[q[2]])
                    ELSE NoBody]
        /\ stage = [q \in Requests |-> IF q[1] = Past /\ q[2] \in old THEN "committed" ELSE "new"]
        /\ answer = [q \in Requests |-> IF q[1] = Past /\ q[2] \in old THEN 201 ELSE 0]
    /\ listed = [q \in Requests |-> NoList]
    /\ phase = [r \in Runs |-> "idle"]
    /\ at = [r \in Runs |-> 1]
    /\ ids = [r \in Runs |-> [n \in Positions |-> Unknown]]

MutGoOn(r) ==  \* a mutant: the loop sends the same item again
    /\ phase' = [phase EXCEPT ![r] = "sending"]
    /\ UNCHANGED at

GoOn(r) ==
    /\ at' = [at EXCEPT ![r] = @ + 1]
    /\ phase' = [phase EXCEPT ![r] = "sending"]

-----------------------------------------------------------------------------
(* The health check: the API answers.  A run that does not reach the API   *)
(* has sent nothing, and stays idle.                                       *)
Start(r) ==
    /\ phase[r] = "idle"
    /\ phase' = [phase EXCEPT ![r] = "sending"]
    /\ UNCHANGED <<vars, at, ids>>

HasParent(r) == at[r] \notin Of("category") => ids[r][Script[at[r]].parent] # Unknown

Send(r) ==
    /\ phase[r] = "sending"
    /\ at[r] \in Positions
    /\ HasParent(r)
    /\ Receive(<<r, at[r]>>, BodyFor(at[r], ids[r], TRUE))
    /\ phase' = [phase EXCEPT ![r] = "waiting"]
    /\ UNCHANGED <<at, ids>>

(* "No category found for slug", "tag not found". *)
Skip(r) ==
    /\ phase[r] = "sending"
    /\ at[r] \in Positions
    /\ ~HasParent(r)
    /\ GoOn(r)
    /\ UNCHANGED <<vars, ids>>

MutCreated(r) ==  \* a mutant: the status of the answer is not looked at
    /\ phase[r] = "waiting"
    /\ answer[<<r, at[r]>>] # 0
    /\ ids' = [ids EXCEPT ![r][at[r]] = <<r, at[r]>>]
    /\ GoOn(r)
    /\ UNCHANGED vars

Created(r) ==
    /\ phase[r] = "waiting"
    /\ answer[<<r, at[r]>>] = 201
    /\ ids' = [ids EXCEPT ![r][at[r]] = <<r, at[r]>>]
    /\ GoOn(r)
    /\ UNCHANGED vars

(* A mutant: the first of the list, whatever its slug. *)
MutFound(n) == Active(Script[n].op)
Found(n) == {q \in Active(Script[n].op) : body[q].slug = Script[n].slug}

(* "already exists": the script looks the slug up, in a GET of its own.    *)
LookUp(r) ==
    LET n == at[r]
    IN  /\ phase[r] = "waiting"
        /\ answer[<<r, n>>] = 409
        /\ n \notin Of("rule")
        /\ ids' = [ids EXCEPT ![r][n] =
                    IF Found(n) = {} THEN Unknown ELSE CHOOSE q \in Found(n) : TRUE]
        /\ GoOn(r)
        /\ UNCHANGED vars

(* Any other answer, a 500 of a request that was lost included. *)
Failed(r) ==
    /\ phase[r] = "waiting"
    /\ \/ answer[<<r, at[r]>>] = 409 /\ at[r] \in Of("rule")
       \/ answer[<<r, at[r]>>] = 0 /\ stage[<<r, at[r]>>] = "failed"
    /\ GoOn(r)
    /\ UNCHANGED <<vars, ids>>

Finish(r) ==
    /\ phase[r] = "sending"
    /\ at[r] \notin Positions
    /\ phase' = [phase EXCEPT ![r] = "done"]
    /\ UNCHANGED <<vars, at, ids>>

(* The API does not answer within 30 seconds, or sends no list; what the   *)
(* server has begun goes on.                                               *)
GiveUp(r) ==
    /\ phase[r] = "waiting"
    /\ phase' = [phase EXCEPT ![r] = "stopped"]
    /\ UNCHANGED <<vars, at, ids>>

-----------------------------------------------------------------------------
RunStep(r) == Send(r) \/ Skip(r) \/ Created(r) \/ LookUp(r) \/ Failed(r) \/ Finish(r)

SeedNext ==
    \/ \E r \in Runs : Start(r) \/ RunStep(r) \/ GiveUp(r)
    \/ ServerNext /\ UNCHANGED seedVars

SeedSpec == SeedInit /\ [][SeedNext]_<<vars, seedVars>>

(* Nothing stops a run that has begun but its answers, and those come. *)
SeedFairSpec ==
    /\ SeedSpec
    /\ \A r \in Runs :
        /\ WF_<<vars, seedVars>>(RunStep(r))
        /\ WF_<<vars, seedVars>>(UNCHANGED seedVars /\ \E n \in Positions : Step(<<r, n>>))

-----------------------------------------------------------------------------
SeedTypeOK ==
    /\ TypeOK
    /\ phase \in [Runs -> {"idle", "sending", "waiting", "done", "stopped"}]
    /\ at \in [Runs -> 1..(Len(Script) + 1)]
    /\ ids \in [Runs -> [Positions -> Ids]]
    /\ \A r \in Runs, n \in Positions : n >= at[r] => ids[r][n] = Unknown

(* However runs overlap, and whatever of its items was there before, a tag *)
(* is filed under the category that the script names, a rule under its tag.*)
FiledAsScripted ==
    \A q \in Requests : stage[q] = "committed" =>
        LET item == Script[q[2]]
        IN  /\ item.op = "tag" =>
                body[body[q].category_id].slug = Script[item.parent].slug
            /\ item.op = "rule" =>
                body[body[q].tag_id].slug = Script[item.parent].slug

Lost(r) == \E n \in Positions : stage[<<r, n>>] = "failed" /\ answer[<<r, n>>] # 409

(* A run that found every category there ends with an id for every tag:    *)
(* what an earlier run left out, a later one makes up for.  This needs     *)
(* what is there to be active, and none of the run's requests to be lost.  *)
RerunRepairs ==
    \A r \in Runs :
        /\ phase[r] = "done"
        /\ ~Lost(r)
        /\ \A n \in Of("category") : answer[<<r, n>>] = 409
        /\ \A q \in Rows("category") \cup Rows("tag") : body[q].is_active
        => \A n \in Of("tag") : ids[r][n] # Unknown

(* A run that finds every category and tag of the script has all its rules *)
(* stored: no id it looks up fails it, whatever else is going on.  So the  *)
(* rules an earlier run left out are added, and those it stored are there  *)
(* a second time.                                                          *)
RerunAddsRules ==
    \A r \in Runs :
        /\ phase[r] = "done"
        /\ ~Lost(r)
        /\ \A n \in Of("category") \cup Of("tag") : answer[<<r, n>>] = 409
        /\ \A q \in Rows("category") \cup Rows("tag") : body[q].is_active
        => \A n \in Of("rule") : stage[<<r, n>>] \in {"commit", "committed"}

(* A run is a client of the API like any other, on tables that somebody    *)
(* may have filled: the ids it sends are ids that a 201 has given away.    *)
ClientOfTaxonomy == [][Next]_vars

(* A run comes to its end, whoever holds the slugs it wants. *)
RunEnds == \A r \in Runs : phase[r] = "sending" ~> phase[r] \in {"done", "stopped"}

-----------------------------------------------------------------------------
(* What the docs say and the script does not do. *)

(* "creates full taxonomy" (seed_taxonomy.py): a run that is alone, on     *)
(* empty tables, and loses no request.                                     *)
CreatesFullTaxonomy ==
    \A r \in Runs :
        /\ phase[r] = "done"
        /\ ~Lost(r)
        /\ \A q \in Requests : q[1] # r => stage[q] = "new"
        => \A n \in Positions : stage[<<r, n>>] \in Holding \cup {"committed"}
=============================================================================

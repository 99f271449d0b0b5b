---------------------------- MODULE Connections -----------------------------
(***************************************************************************)
(* The database connections of the service (api/dependencies.py).  Every   *)
(* request creates an engine, whose pool opens a connection at the first   *)
(* statement and takes it back at the end of the session; no code disposes *)
(* of the engine, so the connection stays open until the garbage collector *)
(* comes to it.  A tagging request keeps its connection while it waits for *)
(* the model.  The server refuses a connection above its limit.            *)
(*                                                                         *)
(* q names a place for a request: when its engine is gone, another request *)
(* may take it.                                                            *)
(***************************************************************************)
EXTENDS Naturals, FiniteSets

CONSTANTS
    Requests,
    ServerLimit    \* max_connections of the server

ASSUME LimitAssumption ==
    /\ IsFiniteSet(Requests)
    /\ ServerLimit \in Nat \ {0}

VARIABLES
    op,       \* op[q]: "tag", or "edit" for the other endpoints
    stage,    \* stage[q]: how far q is
    answer    \* answer[q]: the results of a "tag", the outcome of an "edit"

vars == <<op, stage, answer>>

Connected == {"loading", "waiting", "saving", "idle"}
Open == {q \in Requests : stage[q] \in Connected}
Full == Cardinality(Open) >= ServerLimit

Init ==
    /\ op = [q \in Requests |-> "none"]
    /\ stage = [q \in Requests |-> "absent"]
    /\ answer = [q \in Requests |-> "none"]

GoTo(q, s) == stage' = [stage EXCEPT ![q] = s]

-----------------------------------------------------------------------------
Arrive(q, o) ==
    /\ stage[q] = "absent"
    /\ op' = [op EXCEPT ![q] = o]
    /\ answer' = [answer EXCEPT ![q] = "none"]
    /\ GoTo(q, "engine")

Connect(q) ==
    /\ stage[q] = "engine"
    /\ ~Full
    /\ GoTo(q, "loading")
    /\ UNCHANGED <<op, answer>>

MutRefused(q) ==  \* a mutant: wait for a connection to be closed
    /\ stage[q] = "engine"
    /\ Full
    /\ UNCHANGED vars

(* The first statement raises: tag_note answers with no results, the other *)
(* endpoints with a 500.                                                   *)
Refused(q) ==
    /\ stage[q] = "engine"
    /\ Full
    /\ answer' = [answer EXCEPT ![q] = IF op[q] = "tag" THEN "empty" ELSE "error"]
    /\ GoTo(q, "refused")
    /\ UNCHANGED op

MutCallModel(q) ==  \* a mutant: whatever the endpoint
    /\ stage[q] = "loading"
    /\ GoTo(q, "waiting")
    /\ UNCHANGED <<op, answer>>

CallModel(q) ==
    /\ stage[q] = "loading"
    /\ op[q] = "tag"
    /\ GoTo(q, "waiting")
    /\ UNCHANGED <<op, answer>>

ModelReplies(q) ==
    /\ stage[q] = "waiting"
    /\ GoTo(q, "saving")
    /\ UNCHANGED <<op, answer>>

(* Without the model, or an endpoint that has none. *)
Work(q) ==
    /\ stage[q] = "loading"
    /\ GoTo(q, "saving")
    /\ UNCHANGED <<op, answer>>

(* The session ends, with a commit or by an exception: its connection goes *)
(* back to the pool of an engine that no other request has.                *)
Close(q, a) ==
    /\ stage[q] = "saving"
    /\ a \in IF op[q] = "tag" THEN {"results", "empty"} ELSE {"done", "error"}
    /\ answer' = [answer EXCEPT ![q] = a]
    /\ GoTo(q, "idle")
    /\ UNCHANGED op


(* The garbage collector closes the sockets of an engine that nobody has. *)
Collect(q) ==
    /\ stage[q] \in {"idle", "refused"}
    /\ GoTo(q, "absent")
    /\ UNCHANGED <<op, answer>>

-----------------------------------------------------------------------------
Step(q) ==
    \/ Connect(q) \/ Refused(q) \/ CallModel(q) \/ Work(q)
    \/ \E a \in {"results", "empty", "done", "error"} : Close(q, a)

Next ==
    \E q \in Requests :
        \/ \E o \in {"tag", "edit"} : Arrive(q, o)
        \/ Step(q) \/ ModelReplies(q) \/ Collect(q)

Spec == Init /\ [][Next]_vars

(* The event loop runs what is ready, and the garbage collector runs.  The *)
(* provider may never answer.                                              *)
FairSpec ==
    Spec /\ \A q \in Requests : WF_vars(Step(q)) /\ WF_vars(Collect(q))

-----------------------------------------------------------------------------
TypeOK ==
    /\ op \in [Requests -> {"none", "tag", "edit"}]
    /\ stage \in [Requests -> Connected \cup {"absent", "engine", "refused"}]
    /\ answer \in [Requests -> {"none", "results", "empty", "done", "error"}]
    /\ Cardinality(Open) <= ServerLimit
    /\ \A q \in Requests : stage[q] = "waiting" => op[q] = "tag"

(* No request waits for a connection that another one holds: even with a   *)
(* provider that never answers, an edit ends.                              *)
EditsEnd ==
    \A q \in Requests :
        op[q] = "edit" /\ stage[q] = "engine" ~> answer[q] \in {"done", "error"}

=============================================================================

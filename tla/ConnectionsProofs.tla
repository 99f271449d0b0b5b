------------------------- MODULE ConnectionsProofs --------------------------
(***************************************************************************)
(* A theorem about Connections, for any number of requests and any limit.  *)
(***************************************************************************)
EXTENDS Connections, FiniteSetTheorems, TLAPS

(* The open connections are requests, so that they can be counted. *)
LEMMA OpenIsFinite == IsFiniteSet(Open) /\ Cardinality(Open) \in Nat
<1>1. Open \subseteq Requests
    BY DEF Open
<1> QED BY <1>1, LimitAssumption, FS_Subset, FS_CardinalityType

(* A step that opens no connection does not raise their number. *)
LEMMA FewerOpen ==
    ASSUME Open' \subseteq Open, Cardinality(Open) <= ServerLimit
    PROVE  Cardinality(Open') <= ServerLimit
<1>1. Cardinality(Open') <= Cardinality(Open) /\ IsFiniteSet(Open')
    BY OpenIsFinite, FS_Subset
<1>2. Cardinality(Open') \in Nat
    BY <1>1, FS_CardinalityType
<1> QED BY <1>1, <1>2, OpenIsFinite, LimitAssumption

(* A connection is one more, and there was room for it. *)
LEMMA OneMoreOpen ==
    ASSUME NEW q \in Requests, ~Full, Open' \subseteq Open \cup {q}
    PROVE  Cardinality(Open') <= ServerLimit
<1>1. IsFiniteSet(Open \cup {q}) /\ Cardinality(Open \cup {q}) <= Cardinality(Open) + 1
    <2>1. IsFiniteSet(Open) /\ Cardinality(Open) \in Nat
        BY OpenIsFinite
    <2>2. /\ IsFiniteSet(Open \cup {q})
          /\ Cardinality(Open \cup {q})
                = IF q \in Open THEN Cardinality(Open) ELSE Cardinality(Open) + 1
        BY <2>1, FS_AddElement
    <2> QED BY <2>1, <2>2
<1>2. IsFiniteSet(Open') /\ Cardinality(Open') <= Cardinality(Open \cup {q})
    BY <1>1, FS_Subset
<1>3. Cardinality(Open') \in Nat /\ Cardinality(Open \cup {q}) \in Nat
    BY <1>1, <1>2, FS_CardinalityType
<1> QED BY <1>1, <1>2, <1>3, OpenIsFinite, LimitAssumption DEF Full

(* Every step keeps the types, and only Connect opens a connection. *)
LEMMA TypeStep == TypeOK /\ [Next]_vars => TypeOK'
<1> SUFFICES ASSUME TypeOK, [Next]_vars PROVE TypeOK'
    OBVIOUS
<1> USE DEF TypeOK, GoTo
<1> DEFINE Typed ==
        /\ op' \in [Requests -> {"none", "tag", "edit"}]
        /\ stage' \in [Requests -> Connected \cup {"absent", "engine", "refused"}]
        /\ answer' \in [Requests -> {"none", "results", "empty", "done", "error"}]
        /\ \A q \in Requests : stage'[q] = "waiting" => op'[q] = "tag"
<1>1. ASSUME NEW q \in Requests, NEW o \in {"tag", "edit"}, Arrive(q, o)
      PROVE  Typed /\ Open' \subseteq Open
    BY <1>1 DEF Arrive, Connected, Open
<1>2. ASSUME NEW q \in Requests, Connect(q) PROVE Typed /\ ~Full /\ Open' \subseteq Open \cup {q}
    BY <1>2 DEF Connect, Connected, Open
<1>3. ASSUME NEW q \in Requests, Refused(q) PROVE Typed /\ Open' \subseteq Open
    BY <1>3 DEF Refused, Connected, Open
<1>4. ASSUME NEW q \in Requests, CallModel(q) \/ ModelReplies(q) \/ Work(q)
      PROVE  Typed /\ Open' \subseteq Open
    BY <1>4 DEF CallModel, ModelReplies, Work, Connected, Open
<1>5. ASSUME NEW q \in Requests, NEW a \in {"results", "empty", "done", "error"}, Close(q, a)
      PROVE  Typed /\ Open' \subseteq Open
    BY <1>5 DEF Close, Connected, Open
<1>6. ASSUME NEW q \in Requests, Collect(q) PROVE Typed /\ Open' \subseteq Open
    BY <1>6 DEF Collect, Connected, Open
<1>7. CASE UNCHANGED vars
    BY <1>7 DEF vars, Open
<1>8. Cardinality(Open') <= ServerLimit => (Typed => TypeOK')
    BY DEF Open
<1> QED BY <1>1, <1>2, <1>3, <1>4, <1>5, <1>6, <1>7, <1>8, FewerOpen, OneMoreOpen
        DEF Next, Step

(* Every variable keeps its type, the server never has more connections    *)
(* than it admits, and only a tagging request waits for the model          *)
(* (api/dependencies.py, orchestrator.py).                                 *)
THEOREM TypeCorrect == Spec => []TypeOK
<1>1. Init => TypeOK
    <2> SUFFICES ASSUME Init PROVE TypeOK
        OBVIOUS
    <2>1. Open = {}
        BY DEF Init, Open, Connected
    <2>2. Cardinality(Open) <= ServerLimit
        BY <2>1, FS_EmptySet, LimitAssumption
    <2> QED BY <2>2 DEF Init, TypeOK, Connected
<1> QED BY <1>1, TypeStep, PTL DEF Spec
=============================================================================

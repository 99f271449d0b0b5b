--------------------------- MODULE ServiceProofs ----------------------------
(***************************************************************************)
(* Theorems about Service, for any number of calls and any environments.   *)
(***************************************************************************)
EXTENDS Service, TLAPS

Own(c) == {c} \X {"trace", "generation"}

(* A flush has begun for all that its call has ended: the call ends        *)
(* nothing after it, so that its thread waits for no less than that.       *)
Drained ==
    \A c \in Calls :
        /\ stage[c] = "exporting" => queued \cap Own(c) \subseteq awaited[c]
        /\ c \in flushed => stage[c] \in {"answering", "answered", "lost"}

(* A call has no results before its rules have run.                        *)
Fresh == \A c \in Calls : stage[c] \in {"new", "begun"} => found[c] = {}

IInv == TypeOK /\ Drained /\ Fresh /\ FlushDrains

-----------------------------------------------------------------------------
(* Nothing is traced before the process has started. *)
LEMMA InitIInv == Init => IInv
  <1> SUFFICES ASSUME Init PROVE IInv
    OBVIOUS
  <1>1. TypeOK
    BY EnvironmentsAssumption DEF Init, TypeOK, Running, Observations
  <1>2. Drained /\ Fresh /\ FlushDrains
    BY DEF Init, Drained, Fresh, FlushDrains
  <1> QED  BY <1>1, <1>2 DEF IInv

(* Every step keeps the types, and which calls a process has. *)
LEMMA StepTypeOK == TypeOK /\ [Next]_vars => TypeOK'
  <1> SUFFICES ASSUME TypeOK, [Next]_vars PROVE TypeOK'
    OBVIOUS
  <1> USE DEF TypeOK, GoTo, traceVars, exportVars
  <1>1. CASE Start
    BY <1>1 DEF Start
  <1>2. CASE RefuseToStart
    BY <1>2 DEF RefuseToStart
  <1>3. ASSUME NEW e \in Environments, EditEnvironment(e) PROVE TypeOK'
    BY <1>3 DEF EditEnvironment, Running
  <1>4. CASE Crash
    BY <1>4 DEF Crash, Running
  <1>5. ASSUME NEW c \in Calls, Begin(c) PROVE TypeOK'
    BY <1>5 DEF Begin, Running
  <1>6. ASSUME NEW c \in Calls, LocalStep(c) PROVE TypeOK'
    <2>1. CASE Raise(c) \/ LeaveTrace(c) \/ Answer(c)
      BY <2>1 DEF Raise, LeaveTrace, Answer, Running
    <2>2. CASE SkipModel(c) \/ CallUntraced(c)
      BY <2>2 DEF SkipModel, CallUntraced, CallModel, FromRules, Running
    <2>3. ASSUME NEW linked \in BOOLEAN, CallTraced(c, linked) PROVE TypeOK'
      BY <2>3 DEF CallTraced, CallModel, FromRules, Running
    <2>4. CASE EndTrace(c)
      <3>1. queued' \subseteq Observations /\ queued \subseteq queued'
        BY <2>4 DEF EndTrace, Observations
      <3> QED  BY <2>4, <3>1 DEF EndTrace, Running
    <2> QED  BY <1>6, <2>1, <2>2, <2>3, <2>4 DEF LocalStep
  <1>7. ASSUME NEW c \in Calls, FlushStep(c) PROVE TypeOK'
    BY <1>7 DEF FlushStep, BeginFlush, EndFlush, AbandonFlush, Running
  <1>8. ASSUME NEW c \in Calls, NEW reply \in Replies, ModelReplies(c, reply) PROVE TypeOK'
    <2>1. queued' \subseteq Observations /\ queued \subseteq queued'
      BY <1>8 DEF ModelReplies, Observations
    <2>2. found' \in [Calls -> SUBSET {"rules", "llm"}]
      BY <1>8 DEF ModelReplies
    <2> QED  BY <1>8, <2>1, <2>2 DEF ModelReplies, Running
  <1>9. ASSUME NEW batch \in SUBSET queued, Export(batch) PROVE TypeOK'
    BY <1>9 DEF Export
  <1>10. CASE UNCHANGED vars
    BY <1>10 DEF vars
  <1> QED
    BY <1>1, <1>2, <1>3, <1>4, <1>5, <1>6, <1>7, <1>8, <1>9, <1>10 DEF Next, ProviderStep

(* Only a call itself ends observations, and only before its flush; what   *)
(* its flush waits for leaves the queue and awaited together.              *)
LEMMA StepDrained ==
    TypeOK /\ Drained /\ FlushDrains /\ [Next]_vars => Drained' /\ FlushDrains'
  <1> SUFFICES ASSUME TypeOK, Drained, FlushDrains, [Next]_vars
               PROVE  Drained' /\ FlushDrains'
    OBVIOUS
  <1> USE DEF TypeOK, Drained, FlushDrains, Own, GoTo, traceVars, exportVars
  <1>1. CASE Start \/ RefuseToStart
    BY <1>1 DEF Start, RefuseToStart
  <1>2. ASSUME NEW e \in Environments, EditEnvironment(e) PROVE Drained' /\ FlushDrains'
    BY <1>2 DEF EditEnvironment
  <1>3. CASE Crash
    BY <1>3 DEF Crash, Running
  <1>4. ASSUME NEW c \in Calls, Begin(c) PROVE Drained' /\ FlushDrains'
    BY <1>4 DEF Begin
  <1>5. ASSUME NEW c \in Calls, LocalStep(c) PROVE Drained' /\ FlushDrains'
    <2>1. CASE Raise(c) \/ LeaveTrace(c) \/ Answer(c)
      BY <2>1 DEF Raise, LeaveTrace, Answer
    <2>2. CASE SkipModel(c) \/ CallUntraced(c)
      BY <2>2 DEF SkipModel, CallUntraced, CallModel
    <2>3. ASSUME NEW linked \in BOOLEAN, CallTraced(c, linked) PROVE Drained' /\ FlushDrains'
      BY <2>3 DEF CallTraced, CallModel
    <2>4. CASE EndTrace(c)
      BY <2>4 DEF EndTrace
    <2> QED  BY <1>5, <2>1, <2>2, <2>3, <2>4 DEF LocalStep
  <1>6. ASSUME NEW c \in Calls, FlushStep(c) PROVE Drained' /\ FlushDrains'
    <2>1. CASE BeginFlush(c)
      BY <2>1 DEF BeginFlush
    <2>2. CASE EndFlush(c)
      BY <2>2 DEF EndFlush
    <2>3. CASE AbandonFlush(c)
      BY <2>3 DEF AbandonFlush
    <2> QED  BY <1>6, <2>1, <2>2, <2>3 DEF FlushStep
  <1>7. ASSUME NEW c \in Calls, NEW reply \in Replies, ModelReplies(c, reply)
        PROVE  Drained' /\ FlushDrains'
    <2>1. queued' \subseteq queued \cup {<<c, "generation">>}
      BY <1>7 DEF ModelReplies
    <2>2. \A d \in Calls \ {c} : queued' \cap Own(d) = queued \cap Own(d)
      BY <1>7 DEF ModelReplies
    <2>3. stage[c] = "calling" /\ c \notin flushed
      BY <1>7 DEF ModelReplies
    <2> QED  BY <1>7, <2>2, <2>3 DEF ModelReplies
  <1>8. ASSUME NEW batch \in SUBSET queued, Export(batch) PROVE Drained' /\ FlushDrains'
    BY <1>8 DEF Export
  <1>9. CASE UNCHANGED vars
    BY <1>9 DEF vars
  <1> QED  BY <1>1, <1>2, <1>3, <1>4, <1>5, <1>6, <1>7, <1>8, <1>9 DEF Next, ProviderStep

(* Nothing is found before the call has gone on from its beginning. *)
LEMMA StepFresh == TypeOK /\ Fresh /\ [Next]_vars => Fresh'
  <1> SUFFICES ASSUME TypeOK, Fresh, [Next]_vars PROVE Fresh'
    OBVIOUS
  <1> USE DEF TypeOK, Fresh, GoTo
  <1>1. CASE Start \/ RefuseToStart \/ (\E e \in Environments : EditEnvironment(e))
    BY <1>1 DEF Start, RefuseToStart, EditEnvironment
  <1>2. CASE Crash
    BY <1>2 DEF Crash, Running
  <1>3. ASSUME NEW c \in Calls, Begin(c) \/ LocalStep(c) PROVE Fresh'
    BY <1>3 DEF Begin, LocalStep, Raise, SkipModel, CallUntraced, CallTraced, CallModel,
                EndTrace, LeaveTrace, Answer
  <1>4. ASSUME NEW c \in Calls, FlushStep(c) PROVE Fresh'
    BY <1>4 DEF FlushStep, BeginFlush, EndFlush, AbandonFlush
  <1>5. ASSUME NEW c \in Calls, ProviderStep(c) PROVE Fresh'
    BY <1>5 DEF ProviderStep, ModelReplies
  <1>6. CASE \E batch \in SUBSET queued : Export(batch)
    BY <1>6 DEF Export
  <1>7. CASE UNCHANGED vars
    BY <1>7 DEF vars
  <1> QED  BY <1>1, <1>2, <1>3, <1>4, <1>5, <1>6, <1>7 DEF Next

(* IInv holds in every reachable state. *)
LEMMA Invariance == Spec => []IInv
  <1>1. IInv /\ [Next]_vars => IInv'
    BY StepTypeOK, StepDrained, StepFresh DEF IInv
  <1> QED  BY InitIInv, <1>1, PTL DEF Spec

-----------------------------------------------------------------------------
(* Every variable keeps its type, and a call runs only in a process that   *)
(* is up (config.py, api/app.py).                                          *)
THEOREM TypeCorrect == Spec => []TypeOK
  <1>1. IInv => TypeOK
    BY DEF IInv
  <1> QED  BY Invariance, <1>1, PTL

(* A flush that returns leaves nothing of its call behind, whatever other  *)
(* calls add to the queue or take from it (flush_langfuse).                *)
THEOREM FlushesDrain == Spec => []FlushDrains
  <1>1. IInv => FlushDrains
    BY DEF IInv
  <1> QED  BY Invariance, <1>1, PTL

-----------------------------------------------------------------------------
(* Refinement: the steps of tracing and the answer to a failed call aside, *)
(* each step of a call is one of UntracedCalls.                            *)
statuses == [c \in Calls |-> Status(stage[c])]

LEMMA InitRefines == Init => Untraced!Init
  BY EnvironmentsAssumption DEF Init, Untraced!Init, Untraced!Modes, Modes, Status

(* A step that moves one call on moves its status on, and no other. *)
LEMMA OneMoves ==
    ASSUME TypeOK, NEW c \in Calls, NEW s, GoTo(c, s)
    PROVE  /\ statuses' = [statuses EXCEPT ![c] = Status(s)]
           /\ statuses[c] = Status(stage[c])
           /\ env' = env
  BY DEF TypeOK, GoTo, statuses

LEMMA CallRefines ==
    ASSUME TypeOK, Fresh, NEW c \in Calls, Begin(c) \/ LocalStep(c) \/ ProviderStep(c)
    PROVE  Untraced!Next \/ UNCHANGED <<env.mode, statuses, found>>
  <1> USE DEF TypeOK
  <1>1. CASE Begin(c)
    <2>1. Untraced!Begin(c)
      BY <1>1, OneMoves DEF Begin, Untraced!Begin, Untraced!GoTo, statuses, Status
    <2> QED  BY <2>1 DEF Untraced!Next
  <1>2. CASE Raise(c)
    <2>1. Untraced!Fail(c)
      BY <1>2, OneMoves DEF Raise, Untraced!Fail, Untraced!GoTo, statuses, Status
    <2> QED  BY <2>1 DEF Untraced!Next
  <1>3. CASE SkipModel(c)
    <2>1. Untraced!Skip(c)
      BY <1>3, OneMoves DEF SkipModel, FromRules, Untraced!Skip, Untraced!GoTo,
                            Untraced!FromRules, statuses, Status
    <2> QED  BY <2>1 DEF Untraced!Next
  <1>4. CASE CallUntraced(c) \/ \E linked \in BOOLEAN : CallTraced(c, linked)
    <2>1. CallModel(c)
      BY <1>4 DEF CallUntraced, CallTraced
    <2>2. Untraced!Ask(c)
      BY <2>1, OneMoves DEF CallModel, HasChain, FromRules, Untraced!Ask, Untraced!GoTo,
                            Untraced!FromRules, statuses, Status
    <2> QED  BY <2>2 DEF Untraced!Next
  <1>5. CASE ProviderStep(c)
    <2>1. PICK reply \in Replies : ModelReplies(c, reply)
      BY <1>5 DEF ProviderStep
    <2>2. PICK more \in {{}, {"llm"}} : found' = [found EXCEPT ![c] = @ \cup more]
      <3>1. CASE reply = "usable"
        BY <2>1, <3>1 DEF ModelReplies
      <3>2. CASE reply # "usable"
        BY <2>1, <3>2 DEF ModelReplies
      <3> QED  BY <3>1, <3>2
    <2>3. statuses[c] = "asked" /\ statuses' = [statuses EXCEPT ![c] = "ran"] /\ env' = env
      BY <2>1, OneMoves DEF ModelReplies, Status
    <2>4. Untraced!Reply(c)
      BY <2>2, <2>3 DEF Untraced!Reply, Untraced!GoTo, statuses
    <2> QED  BY <2>4 DEF Untraced!Next
  <1>6. CASE EndTrace(c) \/ LeaveTrace(c)
    <2>1. statuses' = [statuses EXCEPT ![c] = "ran"] /\ statuses[c] = "ran"
      BY <1>6, OneMoves DEF EndTrace, LeaveTrace, Status
    <2>2. statuses' = statuses
      BY <2>1 DEF statuses
    <2> QED  BY <1>6, <2>2 DEF EndTrace, LeaveTrace, GoTo
  <1>7. CASE Answer(c)
    <2>1. Untraced!Deliver(c)
      BY <1>7, OneMoves DEF Answer, Untraced!Deliver, Untraced!GoTo, statuses, Status
    <2> QED  BY <2>1 DEF Untraced!Next
  <1> QED  BY <1>1, <1>2, <1>3, <1>4, <1>5, <1>6, <1>7 DEF LocalStep

(* A flush is not seen at all. *)
LEMMA FlushRefines ==
    ASSUME TypeOK, NEW c \in Calls, FlushStep(c)
    PROVE  UNCHANGED <<env.mode, statuses, found>>
  <1>1. PICK s \in {"exporting", "answering"} : GoTo(c, s)
    BY DEF FlushStep, BeginFlush, EndFlush, AbandonFlush
  <1>2. statuses' = [statuses EXCEPT ![c] = "ran"] /\ statuses[c] = "ran"
    BY <1>1, OneMoves DEF FlushStep, BeginFlush, EndFlush, AbandonFlush, Status
  <1>3. statuses' = statuses
    BY <1>2 DEF statuses
  <1> QED  BY <1>1, <1>3 DEF GoTo, FlushStep, BeginFlush, EndFlush, AbandonFlush

(* Between two processes no call is under way, and the mode may change. *)
LEMMA ProcessRefines ==
    ASSUME TypeOK, Start \/ RefuseToStart \/ Crash \/ \E e \in Environments : EditEnvironment(e)
    PROVE  Untraced!Next \/ UNCHANGED <<env.mode, statuses, found>>
  <1>1. CASE Start \/ RefuseToStart
    BY <1>1 DEF Start, RefuseToStart, statuses
  <1>2. CASE Crash
    <2>1. \A c \in Calls : stage[c] \in Running <=> statuses[c] \in Untraced!UnderWay
      BY DEF TypeOK, Running, statuses, Status, Untraced!UnderWay
    <2>2. Untraced!Crash
      BY <1>2, <2>1 DEF Crash, Untraced!Crash, statuses, Status
    <2> QED  BY <2>2 DEF Untraced!Next
  <1>3. ASSUME NEW e \in Environments, EditEnvironment(e) PROVE Untraced!Next
    <2>1. \A c \in Calls : statuses[c] \notin Untraced!UnderWay
      BY <1>3 DEF TypeOK, EditEnvironment, Running, statuses, Status, Untraced!UnderWay
    <2>2. env'.mode \in Untraced!Modes
      BY <1>3, EnvironmentsAssumption DEF EditEnvironment, Modes, Untraced!Modes
    <2>3. Untraced!Restart
      BY <1>3, <2>1, <2>2 DEF EditEnvironment, Untraced!Restart, statuses
    <2> QED  BY <2>3 DEF Untraced!Next
  <1> QED  BY <1>1, <1>2, <1>3

(* Whatever fails in tracing, a call is answered as without it             *)
(* (LLMChain.run, flush_langfuse, Orchestrator.tag_note).                  *)
THEOREM AnswersAsUntraced == Spec => TracingIsInvisible
  <1>1. IInv /\ [Next]_vars => [Untraced!Next]_<<env.mode, statuses, found>>
    <2> SUFFICES ASSUME IInv, [Next]_vars
                 PROVE  Untraced!Next \/ UNCHANGED <<env.mode, statuses, found>>
      OBVIOUS
    <2> USE DEF IInv
    <2>1. CASE Start \/ RefuseToStart \/ Crash \/ \E e \in Environments : EditEnvironment(e)
      BY <2>1, ProcessRefines
    <2>2. ASSUME NEW c \in Calls, Begin(c) \/ LocalStep(c) \/ ProviderStep(c)
          PROVE  Untraced!Next \/ UNCHANGED <<env.mode, statuses, found>>
      BY <2>2, CallRefines
    <2>3. ASSUME NEW c \in Calls, FlushStep(c)
          PROVE  UNCHANGED <<env.mode, statuses, found>>
      BY <2>3, FlushRefines
    <2>4. CASE \E batch \in SUBSET queued : Export(batch)
      BY <2>4 DEF Export, statuses
    <2>5. CASE UNCHANGED vars
      BY <2>5 DEF vars, statuses
    <2> QED  BY <2>1, <2>2, <2>3, <2>4, <2>5 DEF Next
  <1> QED  BY InitRefines, Invariance, <1>1, PTL DEF Spec, TracingIsInvisible, Untraced!Spec, statuses
=============================================================================

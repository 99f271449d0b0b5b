---------------------------- MODULE UntracedCalls ---------------------------
(***************************************************************************)
(* The calls of POST /tag as they would be if nobody had added tracing: a  *)
(* call runs the rules, asks the model where the mode wants it, and is     *)
(* answered with the results of both.  The next mode comes with the next   *)
(* process.                                                                *)
(***************************************************************************)
CONSTANTS Calls

VARIABLES
    mode,
    status,     \* status[c]: how far the call c is
    found       \* found[c]: the sources whose results c has

Modes == {"rules_only", "llm_only", "hybrid"}
UnderWay == {"begun", "asked", "ran", "failed"}

Init ==
    /\ mode \in Modes
    /\ status = [c \in Calls |-> "new"]
    /\ found = [c \in Calls |-> {}]

GoTo(c, s) == status' = [status EXCEPT ![c] = s] /\ UNCHANGED mode

Begin(c) == status[c] = "new" /\ GoTo(c, "begun") /\ UNCHANGED found

(* A read or the engine raises: nothing else does.                         *)
Fail(c) == status[c] = "begun" /\ GoTo(c, "failed") /\ UNCHANGED found

FromRules == IF mode = "llm_only" THEN {} ELSE {"rules"}

Skip(c) ==
    /\ status[c] = "begun"
    /\ GoTo(c, "ran")
    /\ found' = [found EXCEPT ![c] = FromRules]

Ask(c) ==
    /\ status[c] = "begun"
    /\ mode # "rules_only"
    /\ GoTo(c, "asked")
    /\ found' = [found EXCEPT ![c] = FromRules]

Reply(c) ==
    /\ status[c] = "asked"
    /\ GoTo(c, "ran")
    /\ \E more \in {{}, {"llm"}} : found' = [found EXCEPT ![c] = @ \cup more]

(* What a call has found when it ran is what it is answered with.          *)
Deliver(c) == status[c] \in {"ran", "failed"} /\ GoTo(c, "answered") /\ UNCHANGED found

Crash ==
    /\ status' = [c \in Calls |-> IF status[c] \in UnderWay THEN "lost" ELSE status[c]]
    /\ UNCHANGED <<mode, found>>

Restart ==
    /\ \A c \in Calls : status[c] \notin UnderWay
    /\ mode' \in Modes
    /\ UNCHANGED <<status, found>>

Next ==
    \/ \E c \in Calls : Begin(c) \/ Fail(c) \/ Skip(c) \/ Ask(c) \/ Reply(c) \/ Deliver(c)
    \/ Crash \/ Restart

Spec == Init /\ [][Next]_<<mode, status, found>>
=============================================================================

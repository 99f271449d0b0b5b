------------------------------ MODULE Service -------------------------------
(***************************************************************************)
(* One worker process of the service: its start from the environment       *)
(* (config.py, api/app.py), the chain that each call of POST /tag is given *)
(* (api/dependencies.py, infrastructure/llm/factory.py), and the way of    *)
(* its trace to Langfuse (infrastructure/observability.py, LLMChain.run,   *)
(* Orchestrator.tag_note).                                                 *)
(*                                                                         *)
(* A call opens a trace, has the model's generation recorded under it, and *)
(* tries to end it; what has ended is queued in the client, which all      *)
(* calls of the process share, until a batch of it goes out.  Every step   *)
(* of this may fail, and what fails is passed over.                        *)
(***************************************************************************)
CONSTANTS
    Calls,
    Environments    \* what may stand in the environment when the process starts

Providers == {"ollama", "openai", "azure_openai", "anthropic"}
Modes == {"rules_only", "llm_only", "hybrid"}
LangfuseKeys == {"langfuse_public_key", "langfuse_secret_key"}
Keys == {"database_url", "redis_url", "arq_redis_url", "ollama_base_url", "openai_api_key",
         "azure_openai_endpoint", "azure_openai_api_key", "azure_openai_deployment",
         "anthropic_api_key"} \cup LangfuseKeys

(* given: the settings without a default that have a non-empty value. *)
ASSUME EnvironmentsAssumption ==
    Environments \subseteq
        [provider : Providers \cup {"unset", "other"}, mode : Modes, given : SUBSET Keys]

VARIABLES
    env,        \* the environment
    process,    \* what has become of the process
    client,     \* what get_langfuse_client has cached
    stage,      \* stage[c]: how far the call c is
    found,      \* found[c]: the sources, rules and model, whose results c has
    trace,      \* trace[c]: the parent trace of c
    handler,    \* handler[c]: LangChain has been given a callback handler
    queued,     \* the observations that have ended and have not gone out
    awaited,    \* awaited[c]: what the flush that c waits for has still to send
    flushed     \* the calls whose flush returned

traceVars == <<trace, handler>>
exportVars == <<queued, awaited, flushed>>
vars == <<env, process, client, stage, found, traceVars, exportVars>>

Observations == Calls \X {"trace", "generation"}

-----------------------------------------------------------------------------
(* Settings *)

(* validate_provider_settings *)
Required(p) ==
    CASE p = "ollama" -> {"ollama_base_url"}
      [] p = "openai" -> {"openai_api_key"}
      [] p = "azure_openai" -> {"azure_openai_endpoint", "azure_openai_api_key"}
      [] p = "anthropic" -> {"anthropic_api_key"}

(* Settings(): the fields without a default, then the validator. *)
Valid(e) ==
    /\ {"database_url", "redis_url", "arq_redis_url"} \subseteq e.given
    /\ e.provider \in Providers
    /\ Required(e.provider) \subseteq e.given

(* The arguments of LLMFactory.create that have no default in Settings. *)
ChainArguments(p) ==
    CASE p = "ollama" -> {"ollama_base_url"}
      [] p = "openai" -> {"openai_api_key"}
      [] p = "azure_openai" ->
            {"azure_openai_endpoint", "azure_openai_api_key", "azure_openai_deployment"}
      [] p = "anthropic" -> {"anthropic_api_key"}

Init ==
    /\ env \in Environments
    /\ process = "starting"
    /\ client = "none"
    /\ stage = [c \in Calls |-> "new"]
    /\ found = [c \in Calls |-> {}]
    /\ trace = [c \in Calls |-> "none"]
    /\ handler = [c \in Calls |-> FALSE]
    /\ queued = {} /\ flushed = {}
    /\ awaited = [c \in Calls |-> {}]

-----------------------------------------------------------------------------
(* The process *)

(* create_app and lifespan.  A client that cannot be made is not tried     *)
(* again: None is cached like a client.                                    *)
Start ==
    /\ process = "starting"
    /\ Valid(env)
    /\ process' = "up"
    /\ client' \in IF LangfuseKeys \subseteq env.given THEN {"made", "none"} ELSE {"none"}
    /\ UNCHANGED <<env, stage, found, traceVars, exportVars>>

RefuseToStart ==
    /\ process = "starting"
    /\ ~Valid(env)
    /\ process' = "refused"
    /\ UNCHANGED <<env, client, stage, found, traceVars, exportVars>>

(* Settings are read once, at the start: an edit counts at the next start, *)
(* whenever it was made.                                                   *)
EditEnvironment(e) ==
    /\ env' = e
    /\ process # "up"
    /\ process' = "starting"
    /\ UNCHANGED <<client, stage, found, traceVars, exportVars>>

Running == {"begun", "calling", "ending", "flushing", "exporting", "answering", "failing"}

(* The process dies, with its calls and its queue. *)
Crash ==
    /\ process = "up"
    /\ process' = "down"
    /\ client' = "none"
    /\ stage' = [c \in Calls |-> IF stage[c] \in Running THEN "lost" ELSE stage[c]]
    /\ queued' = {}
    /\ awaited' = [c \in Calls |-> {}]
    /\ UNCHANGED <<env, found, traceVars, flushed>>

-----------------------------------------------------------------------------
(* A call *)

GoTo(c, s) == stage' = [stage EXCEPT ![c] = s] /\ UNCHANGED <<env, process, client>>

Begin(c) ==
    /\ process = "up"
    /\ stage[c] = "new"
    /\ GoTo(c, "begun")
    /\ UNCHANGED <<found, traceVars, exportVars>>

(* A read or the rules engine raises: tag_note catches it, flushes nothing *)
(* and answers with an empty list.                                         *)
Raise(c) ==
    /\ stage[c] = "begun"
    /\ GoTo(c, "failing")
    /\ UNCHANGED <<found, traceVars, exportVars>>

FromRules == IF env.mode = "llm_only" THEN {} ELSE {"rules"}

(* No chain is made in this mode, or there are no tags. *)
SkipModel(c) ==
    /\ stage[c] = "begun"
    /\ GoTo(c, "flushing")
    /\ found' = [found EXCEPT ![c] = FromRules]
    /\ UNCHANGED <<traceVars, exportVars>>

HasChain == env.mode # "rules_only"

CallModel(c) ==
    /\ stage[c] = "begun"
    /\ HasChain
    /\ GoTo(c, "calling")
    /\ found' = [found EXCEPT ![c] = FromRules]
    /\ UNCHANGED exportVars

CallUntraced(c) == CallModel(c) /\ UNCHANGED traceVars

MutCallTraced(c, linked) ==  \* a mutant: the trace is returned without a handler
    /\ CallModel(c)
    /\ client = "made"
    /\ trace' = [trace EXCEPT ![c] = "open"]
    /\ handler' = [handler EXCEPT ![c] = linked]

(* create_langfuse_callback_handler.  If the handler cannot be made, the   *)
(* trace that has been opened is forgotten; if the trace cannot, the call  *)
(* is that of CallUntraced.                                                *)
CallTraced(c, linked) ==
    /\ CallModel(c)
    /\ client = "made"
    /\ trace' = [trace EXCEPT ![c] = IF linked THEN "open" ELSE "forgotten"]
    /\ handler' = [handler EXCEPT ![c] = linked]

(* The model answers or fails, and it fails without its settings.  The     *)
(* handler ends the generation, unless it fails, which LangChain passes    *)
(* over.  An unusable reply is an early return of run().                   *)
ModelReplies(c, reply) ==
    /\ stage[c] = "calling"
    /\ ChainArguments(env.provider) \subseteq env.given \/ reply = "raised"
    /\ found' = [found EXCEPT ![c] = IF reply = "usable" THEN @ \cup {"llm"} ELSE @]
    /\ queued' \in {queued} \cup IF handler[c] THEN {queued \cup {<<c, "generation">>}} ELSE {}
    /\ GoTo(c, IF reply = "unusable" THEN "flushing" ELSE "ending")
    /\ UNCHANGED <<traceVars, awaited, flushed>>

(* trace.end, of a result and of an exception alike. *)
EndTrace(c) ==
    /\ stage[c] = "ending"
    /\ trace[c] = "open"
    /\ trace' = [trace EXCEPT ![c] = "ended"]
    /\ queued' = queued \cup {<<c, "trace">>}
    /\ GoTo(c, "flushing")
    /\ UNCHANGED <<found, handler, awaited, flushed>>

MutLeaveTrace(c) ==  \* a mutant: the end that raises is taken for a failure of the model
    /\ stage[c] = "ending"
    /\ GoTo(c, "flushing")
    /\ found' = [found EXCEPT ![c] = @ \ {"llm"}]
    /\ UNCHANGED <<traceVars, exportVars>>

(* There is no trace to end, or its end raises and is passed over: the     *)
(* trace stays open, and the results are returned all the same.            *)
LeaveTrace(c) ==
    /\ stage[c] = "ending"
    /\ GoTo(c, "flushing")
    /\ UNCHANGED <<found, traceVars, exportVars>>

MutBeginFlush(c) ==  \* a mutant: a client of its own is flushed, not the one that has the queue
    /\ stage[c] = "flushing"
    /\ client = "made"
    /\ GoTo(c, "exporting")
    /\ UNCHANGED <<found, traceVars, exportVars>>

(* A flush runs in a thread, for all that is queued when it begins, of     *)
(* whatever call; the other calls go on adding to the queue.               *)
BeginFlush(c) ==
    /\ stage[c] = "flushing"
    /\ client = "made"
    /\ GoTo(c, "exporting")
    /\ awaited' = [awaited EXCEPT ![c] = queued]
    /\ UNCHANGED <<found, traceVars, queued, flushed>>

(* It returns when all of that has gone out.                               *)
EndFlush(c) ==
    /\ stage[c] = "exporting"
    /\ awaited[c] = {}
    /\ GoTo(c, "answering")
    /\ flushed' = flushed \cup {c}
    /\ UNCHANGED <<found, traceVars, queued, awaited>>

MutAbandonFlush(c) == FALSE  \* a mutant: a flush is awaited until it succeeds

(* There is no client, or the flush raises, which is passed over. *)
AbandonFlush(c) ==
    /\ stage[c] \in {"flushing", "exporting"}
    /\ GoTo(c, "answering")
    /\ awaited' = [awaited EXCEPT ![c] = {}]
    /\ UNCHANGED <<found, traceVars, queued, flushed>>

(* The results are stored, and the answer is sent. *)
Answer(c) ==
    /\ stage[c] \in {"answering", "failing"}
    /\ GoTo(c, "answered")
    /\ UNCHANGED <<found, traceVars, exportVars>>

(* A batch goes out, of a flush or in the background.  Whether it arrives  *)
(* or is dropped by the exporter, nobody in the process learns.            *)
Export(batch) ==
    /\ queued' = queued \ batch
    /\ awaited' = [c \in Calls |-> awaited[c] \ batch]
    /\ UNCHANGED <<env, process, client, stage, found, traceVars, flushed>>

-----------------------------------------------------------------------------
Replies == {"usable", "unusable", "raised"}

LocalStep(c) ==
    \/ Raise(c) \/ SkipModel(c) \/ CallUntraced(c) \/ (\E linked \in BOOLEAN : CallTraced(c, linked))
    \/ EndTrace(c) \/ LeaveTrace(c) \/ Answer(c)
FlushStep(c) == BeginFlush(c) \/ EndFlush(c) \/ AbandonFlush(c)
ProviderStep(c) == \E reply \in Replies : ModelReplies(c, reply)

Next ==
    \/ Start \/ RefuseToStart \/ Crash \/ (\E e \in Environments : EditEnvironment(e))
    \/ \E c \in Calls : Begin(c) \/ LocalStep(c) \/ FlushStep(c) \/ ProviderStep(c)
    \/ \E batch \in SUBSET queued : Export(batch)

Spec == Init /\ [][Next]_vars

(* The event loop runs what is ready.  That the provider answers and that  *)
(* a flush comes to an end are assumptions on them: neither has a timeout  *)
(* in this code.                                                           *)
FairSpec ==
    Spec /\ \A c \in Calls :
        WF_vars(LocalStep(c)) /\ WF_vars(FlushStep(c)) /\ WF_vars(ProviderStep(c))

-----------------------------------------------------------------------------
TypeOK ==
    /\ env \in Environments
    /\ process \in {"starting", "refused", "up", "down"}
    /\ client \in {"none", "made"}
    /\ stage \in [Calls -> Running \cup {"new", "answered", "lost"}]
    /\ found \in [Calls -> SUBSET {"rules", "llm"}]
    /\ trace \in [Calls -> {"none", "open", "forgotten", "ended"}]
    /\ handler \in [Calls -> BOOLEAN]
    /\ queued \subseteq Observations
    /\ awaited \in [Calls -> SUBSET queued]
    /\ flushed \subseteq Calls
    /\ process # "up" => client = "none" /\ queued = {}
    /\ \A c \in Calls :
        /\ stage[c] \in Running => process = "up"
        /\ handler[c] <=> trace[c] \in {"open", "ended"}

(* When the flush of a call has returned, nothing of the call waits in the *)
(* queue: all of it that has ended has gone out, whoever sent it, and what *)
(* the other calls have added meanwhile has not kept it back.              *)
FlushDrains == \A c \in flushed : queued \cap ({c} \X {"trace", "generation"}) = {}

(* How far a call is, for somebody who does not see the tracing. *)
Status(s) ==
    IF s = "calling" THEN "asked"
    ELSE IF s \in {"ending", "flushing", "exporting", "answering"} THEN "ran"
    ELSE IF s = "failing" THEN "failed" ELSE s

Untraced == INSTANCE UntracedCalls WITH
    mode <- env.mode, status <- [c \in Calls |-> Status(stage[c])]

(* Tracing makes no difference to an answer: whichever of its steps fails, *)
(* for this call or another, a call that ran is answered with all that the *)
(* rules and the model have given it.                                      *)
TracingIsInvisible == Untraced!Spec

(* A call ends, with or without Langfuse, or dies with its process. *)
CallEnds == \A c \in Calls : stage[c] = "begun" ~> stage[c] \in {"answered", "lost"}
=============================================================================

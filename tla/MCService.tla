----------------------------- MODULE MCService ------------------------------
(***************************************************************************)
(* A small instance of Service: every provider and mode occurs, tracing is *)
(* on, half configured or off, and two environments refuse the start.      *)
(***************************************************************************)
EXTENDS Service

CONSTANTS c1, c2

Urls == {"database_url", "redis_url", "arq_redis_url"}
Environment(p, m, given) == [provider |-> p, mode |-> m, given |-> Urls \cup given]

MixedEnvironments == {
    Environment("openai", "hybrid", {"openai_api_key"} \cup LangfuseKeys),
    Environment("anthropic", "llm_only", {"anthropic_api_key", "langfuse_public_key"}),
    Environment("ollama", "rules_only", {"ollama_base_url"} \cup LangfuseKeys),
    Environment("azure_openai", "hybrid", {"azure_openai_endpoint", "azure_openai_api_key"}),
    Environment("anthropic", "hybrid", {"openai_api_key"} \cup LangfuseKeys),
    Environment("other", "hybrid", {"openai_api_key"})}
=============================================================================

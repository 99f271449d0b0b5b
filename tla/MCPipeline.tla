----------------------------- MODULE MCPipeline -----------------------------
(***************************************************************************)
(* A small instance of Pipeline: three tags, four condition values, rules  *)
(* of every condition type, disabled, of an inactive tag, with a malformed *)
(* pattern before and after a failing condition, two rules of one tag, and *)
(* replies with every defect the chain guards against.                     *)
(***************************************************************************)
EXTENDS Pipeline

MCTagIds == {"delay", "supplement", "total"}
MCTagLoads == {{}, {"delay"}, {"delay", "supplement"}}

Cond(type, op, values) == [condition_type |-> type, operator |-> op, values |-> values]
MCRule(name, tag_id, conditions) ==
    [name |-> name, tag_id |-> tag_id, is_enabled |-> TRUE, conditions |-> conditions]

Waiting  == MCRule("waiting", "delay", <<Cond("keyword_any", "and", <<"backorder", "parts">>),
                                       Cond("keyword_none", "and", <<"arrived">>)>>)
Delayed  == MCRule("delayed", "delay", <<Cond("phrase", "and", <<"parts">>)>>)
Damage   == MCRule("damage", "supplement", <<Cond("regex", "or", <<"damage.*">>),
                                           Cond("keyword_any", "or", <<"parts">>)>>)
Disabled == [Waiting EXCEPT !.name = "off", !.is_enabled = FALSE]
Broken   == MCRule("broken", "supplement", <<Cond("keyword_any", "and", <<"arrived">>),
                                           Cond("regex", "and", <<"damage.*", "(">>)>>)
Totaled  == MCRule("totaled", "total", <<Cond("keyword_any", "and", <<"parts">>)>>)
Inactive == MCRule("inactive", "total", <<Cond("regex", "and", <<"(">>)>>)

MCMalformed == {"("}
MCRuleLoads == {<<>>, <<Waiting>>, <<Damage, Waiting>>, <<Waiting, Disabled, Delayed>>,
                <<Delayed, Broken>>, <<Totaled, Inactive, Damage>>}
MCTexts == {{}, {"parts"}, {"parts", "arrived"}, {"parts", "damage.*"}, {"arrived", "("}}

MCItem(slug, confidence, reasoning) ==
    [slug |-> slug, confidence |-> confidence, reasoning |-> reasoning]
Items(list) == [kind |-> "items", items |-> list]
MCReplies ==
    {[kind |-> k, items |-> <<>>] : k \in {"raises", "non_string", "unparsable", "not_iterable"}}
    \cup {Items(<<MCItem("delay", c, "stated")>>) : c \in {-1, 1, 2, 3, 4, NaN, Unparsable}}
    \cup {Items(list) : list \in
            {<<>>,
             <<NonDict, MCItem("unicorn", 3, "stated"), MCItem("supplement", 2, "empty")>>,
             <<MCItem("supplement", 3, "invalid"), MCItem("delay", 3, "stated")>>,
             <<MCItem("delay", 2, "stated"), MCItem("supplement", 3, "stated"),
               MCItem("delay", 3, "empty")>>}}

Foreign(tag, confidence) ==
    [tag |-> tag, confidence |-> confidence, source |-> "llm", reasoning |-> "mock"]
MCForeignLists == {<<>>, <<Foreign("total", 3)>>,
                   <<Foreign("delay", 1), Foreign("supplement", NaN), Foreign("delay", 2)>>}
=============================================================================

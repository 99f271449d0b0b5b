----------------------------- MODULE RulesEngine -----------------------------
(***************************************************************************)
(* The fast path of the tagging pipeline: RulesEngine.evaluate             *)
(* (application/rules_engine.py).  A pure module of operators: given the   *)
(* loaded tags, the loaded rules and a note, which rules match, in which   *)
(* order, and when the evaluation raises instead of answering.             *)
(*                                                                         *)
(* A note is the set of condition values that occur in its text, in the    *)
(* sense the condition type gives the word: as a lower-cased substring for *)
(* the keyword and phrase types, as a match of re.search for a pattern.    *)
(***************************************************************************)
EXTENDS Naturals, Sequences, FiniteSets

CONSTANTS
    Malformed,  \* the values that re cannot compile: re.search raises on them
    MaxConf     \* the confidence 1.0, on the integer scale of the model

ASSUME MaxConfAssumption == MaxConf \in Nat

ConditionTypes == {"keyword_any", "keyword_none", "phrase", "regex"}
ConditionOperators == {"and", "or"}

(* What the domain models accept: no condition without a value, no rule    *)
(* without a condition.                                                    *)
Condition == [condition_type : ConditionTypes, operator : ConditionOperators,
              values : Seq(STRING) \ {<<>>}]
Rule(tag_ids) == [name : STRING, tag_id : tag_ids, is_enabled : BOOLEAN,
                  conditions : Seq(Condition) \ {<<>>}]

(***************************************************************************)
(* The lists whose members are the elements of M, each once, in an order   *)
(* in which every earlier one Precedes every later one.  A comprehension   *)
(* with a filter, and a sort, are both a list of this kind; it is unique   *)
(* when Precedes is a strict total order of M.                             *)
(***************************************************************************)
Listings(M, Precedes(_, _)) ==
    {p \in [1..Cardinality(M) -> M] :
        /\ \A m \in M : \E k \in DOMAIN p : p[k] = m
        /\ \A j, k \in DOMAIN p : j < k => Precedes(p[j], p[k])}

(***************************************************************************)
(* Python's any and all over a generator: elements are evaluated from the  *)
(* left, the first that is not neutral decides, an exception included; the *)
(* ones after it are never evaluated.                                      *)
(***************************************************************************)
FirstDecisive(neutral, outcomes) ==
    LET decisive == {i \in DOMAIN outcomes : outcomes[i] # neutral}
    IN  IF decisive = {}
        THEN neutral
        ELSE outcomes[CHOOSE i \in decisive : \A j \in decisive : i <= j]

AnyOf(outcomes) == FirstDecisive("fail", outcomes)
AllOf(outcomes) == FirstDecisive("pass", outcomes)

Found(value, text) == IF value \in text THEN "pass" ELSE "fail"

KeywordAny(values, text) ==
    AnyOf([i \in DOMAIN values |-> Found(values[i], text)])

KeywordNone(values, text) ==
    IF KeywordAny(values, text) = "pass" THEN "fail" ELSE "pass"

Phrase(values, text) ==
    AnyOf([i \in DOMAIN values |-> Found(values[i], text)])

Regex(values, text) ==
    AnyOf([i \in DOMAIN values |->
              IF values[i] \in Malformed THEN "raise" ELSE Found(values[i], text)])

EvaluateCondition(condition, text) ==
    CASE condition.condition_type = "keyword_any"  -> KeywordAny(condition.values, text)
      [] condition.condition_type = "keyword_none" -> KeywordNone(condition.values, text)
      [] condition.condition_type = "phrase"       -> Phrase(condition.values, text)
      [] condition.condition_type = "regex"        -> Regex(condition.values, text)

(* A mutant: one satisfied condition is enough. *)
MutEvaluateRule(rule, text) ==
    AnyOf([i \in DOMAIN rule.conditions |-> EvaluateCondition(rule.conditions[i], text)])

(* The condition's operator ("and" or "or") is stored, returned by the API *)
(* and never read here: the conditions of a rule are always conjoined.     *)
EvaluateRule(rule, text) ==
    AllOf([i \in DOMAIN rule.conditions |-> EvaluateCondition(rule.conditions[i], text)])

(* A rule is looked at only if it is enabled and its tag is loaded. *)
Considered(rule, tags) == rule.is_enabled /\ rule.tag_id \in tags

Matching(tags, rules, text) ==
    {i \in DOMAIN rules : /\ Considered(rules[i], tags)
                          /\ EvaluateRule(rules[i], text) = "pass"}

RuleResult(rule) ==
    [tag |-> rule.tag_id, confidence |-> MaxConf, source |-> "rules",
     reasoning |-> rule.name]

(* A mutant: the patterns of every rule are compiled up front. *)
MutEvaluationRaises(tags, rules, text) ==
    \E i \in DOMAIN rules : EvaluateRule(rules[i], text) = "raise"

(* evaluate() raises as soon as one considered rule does, and then no rule *)
(* has a result; otherwise it returns a result per matching rule, in the   *)
(* order of the rules.                                                     *)
EvaluationRaises(tags, rules, text) ==
    \E i \in DOMAIN rules : /\ Considered(rules[i], tags)
                            /\ EvaluateRule(rules[i], text) = "raise"

Evaluate(tags, rules, text) ==
    {[k \in DOMAIN p |-> RuleResult(rules[p[k]])] :
        p \in Listings(Matching(tags, rules, text), LAMBDA i, j : i < j)}
=============================================================================

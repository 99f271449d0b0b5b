--------------------------- MODULE PipelineProofs ---------------------------
(***************************************************************************)
(* Proofs about Pipeline, for every taxonomy, rule list, note, reply,      *)
(* threshold and scale of confidences.                                     *)
(***************************************************************************)
EXTENDS Pipeline, FiniteSetTheorems, SequenceTheorems, WellFoundedInduction, TLAPS

-----------------------------------------------------------------------------
(* The helpers of the rules engine *)

(* Every non-empty set of positions has a first one. *)
LEMMA FirstPosition ==
    ASSUME NEW M \in SUBSET Nat, M # {}
    PROVE  \E i \in M : \A j \in M : i <= j
<1>1. \E i \in M : \A j \in M : ~(<<j, i>> \in OpToRel(<, Nat))
    BY NatLessThanWellFounded, WFMin, M \subseteq Nat
<1>2. \A i, j \in Nat : ~(<<j, i>> \in OpToRel(<, Nat)) => i <= j
    BY DEF OpToRel
<1> QED BY <1>1, <1>2

(* Short-circuit evaluation: either every outcome is neutral, or the       *)
(* result is the outcome of some position that is not.                     *)
LEMMA ShortCircuit ==
    ASSUME NEW n \in Nat, NEW neutral, NEW outcomes, DOMAIN outcomes = 1..n
    PROVE  \/ /\ \A i \in 1..n : outcomes[i] = neutral
              /\ FirstDecisive(neutral, outcomes) = neutral
           \/ \E i \in 1..n : /\ outcomes[i] # neutral
                              /\ FirstDecisive(neutral, outcomes) = outcomes[i]
                              /\ \A j \in 1..n : j < i => outcomes[j] = neutral
<1> DEFINE decisive == {i \in DOMAIN outcomes : outcomes[i] # neutral}
<1>1. CASE decisive = {}
    BY <1>1 DEF FirstDecisive
<1>2. CASE decisive # {}
    <2>1. \E i \in decisive : \A j \in decisive : i <= j
        <3>1. decisive \in SUBSET Nat
            OBVIOUS
        <3> HIDE DEF decisive
        <3> QED BY <1>2, <3>1, FirstPosition
    <2> DEFINE first == CHOOSE i \in decisive : \A j \in decisive : i <= j
    <2>2. first \in decisive /\ \A j \in decisive : first <= j
        BY <2>1
    <2>3. FirstDecisive(neutral, outcomes) = outcomes[first]
        BY <1>2 DEF FirstDecisive
    <2> QED BY <2>2, <2>3
<1> QED BY <1>1, <1>2

(* The positions a list is filtered from are finitely many. *)
LEMMA Positions ==
    ASSUME NEW n \in Nat, NEW M \in SUBSET (1..n)
    PROVE  IsFiniteSet(M) /\ Cardinality(M) \in Nat
<1>1. IsFiniteSet(1..n)
    BY FS_Interval, n \in Int, 1 \in Int
<1>2. IsFiniteSet(M)
    BY <1>1, FS_Subset
<1> QED BY <1>2, FS_CardinalityType

(* A search for any of the values passes when one of them occurs. *)
LEMMA AnyFound ==
    ASSUME NEW values \in Seq(STRING)
    PROVE  /\ KeywordAny(values, text) \in {"pass", "fail"}
           /\ KeywordAny(values, text) = "pass" <=> \E i \in DOMAIN values : values[i] \in text
<1> DEFINE outcomes == [i \in DOMAIN values |-> Found(values[i], text)]
<1>1. Len(values) \in Nat /\ DOMAIN values = 1..Len(values)
    BY LenProperties
<1>d. DOMAIN outcomes = 1..Len(values)
    BY <1>1
<1>2. \/ /\ \A i \in 1..Len(values) : outcomes[i] = "fail"
         /\ FirstDecisive("fail", outcomes) = "fail"
      \/ \E i \in 1..Len(values) : /\ outcomes[i] # "fail"
                                   /\ FirstDecisive("fail", outcomes) = outcomes[i]
    <2> HIDE DEF outcomes
    <2> QED BY <1>1, <1>d, ShortCircuit
<1>3. \A i \in DOMAIN values : outcomes[i] = IF values[i] \in text THEN "pass" ELSE "fail"
    BY DEF Found
<1>4. KeywordAny(values, text) = FirstDecisive("fail", outcomes)
    BY DEF KeywordAny, AnyOf
<1> HIDE DEF outcomes
<1> QED BY <1>1, <1>2, <1>3, <1>4

(* A search for any of the patterns passes on a pattern that compiles and  *)
(* matches, fails only if there is none, and raises on a malformed one.    *)
LEMMA AnyMatch ==
    ASSUME NEW values \in Seq(STRING)
    PROVE  /\ Regex(values, text) \in {"pass", "fail", "raise"}
           /\ Regex(values, text) = "pass"
                => \E i \in DOMAIN values : values[i] \in text \ Malformed
           /\ Regex(values, text) = "fail"
                => ~ \E i \in DOMAIN values : values[i] \in text \ Malformed
           /\ Regex(values, text) = "raise"
                => \E i \in DOMAIN values : values[i] \in Malformed
<1> DEFINE outcomes == [i \in DOMAIN values |->
              IF values[i] \in Malformed THEN "raise" ELSE Found(values[i], text)]
<1>1. Len(values) \in Nat /\ DOMAIN values = 1..Len(values)
    BY LenProperties
<1>d. DOMAIN outcomes = 1..Len(values)
    BY <1>1
<1>2. \/ /\ \A i \in 1..Len(values) : outcomes[i] = "fail"
         /\ FirstDecisive("fail", outcomes) = "fail"
      \/ \E i \in 1..Len(values) : /\ outcomes[i] # "fail"
                                   /\ FirstDecisive("fail", outcomes) = outcomes[i]
    <2> HIDE DEF outcomes
    <2> QED BY <1>1, <1>d, ShortCircuit
<1>3. \A i \in DOMAIN values :
        outcomes[i] = IF values[i] \in Malformed THEN "raise"
                      ELSE IF values[i] \in text THEN "pass" ELSE "fail"
    BY DEF Found
<1>4. Regex(values, text) = FirstDecisive("fail", outcomes)
    BY DEF Regex, AnyOf
<1> HIDE DEF outcomes
<1> QED BY <1>1, <1>2, <1>3, <1>4

(* What the outcome of a condition says of the note. *)
LEMMA ConditionMeaning ==
    ASSUME NEW c \in Condition
    PROVE  /\ EvaluateCondition(c, text) \in {"pass", "fail", "raise"}
           /\ EvaluateCondition(c, text) = "pass" => Satisfied(c)
           /\ EvaluateCondition(c, text) = "fail" => ~Satisfied(c)
           /\ EvaluateCondition(c, text) = "raise"
                => /\ c.condition_type = "regex"
                   /\ \E v \in DOMAIN c.values : c.values[v] \in Malformed
<1>1. c.values \in Seq(STRING) /\ c.condition_type \in ConditionTypes
    BY DEF Condition
<1>2. CASE c.condition_type = "keyword_any"
    <2>1. EvaluateCondition(c, text) = KeywordAny(c.values, text)
        BY <1>2 DEF EvaluateCondition
    <2> QED BY <1>1, <1>2, <2>1, AnyFound DEF Satisfied
<1>3. CASE c.condition_type = "keyword_none"
    <2>1. EvaluateCondition(c, text) = KeywordNone(c.values, text)
        BY <1>3 DEF EvaluateCondition
    <2> QED BY <1>1, <1>3, <2>1, AnyFound DEF Satisfied, KeywordNone
<1>4. CASE c.condition_type = "phrase"
    <2>1. EvaluateCondition(c, text) = KeywordAny(c.values, text)
        BY <1>4 DEF EvaluateCondition, Phrase, KeywordAny
    <2> QED BY <1>1, <1>4, <2>1, AnyFound DEF Satisfied
<1>5. CASE c.condition_type = "regex"
    <2>1. EvaluateCondition(c, text) = Regex(c.values, text)
        BY <1>5 DEF EvaluateCondition
    <2> QED BY <1>1, <1>5, <2>1, AnyMatch DEF Satisfied
<1> QED BY <1>1, <1>2, <1>3, <1>4, <1>5 DEF ConditionTypes

(* What the outcome of a rule says of the note. *)
LEMMA RuleMeaning ==
    ASSUME NEW r \in Rule(TagIds)
    PROVE  /\ EvaluateRule(r, text) \in {"pass", "fail", "raise"}
           /\ EvaluateRule(r, text) = "pass"
                => \A j \in DOMAIN r.conditions : Satisfied(r.conditions[j])
           /\ EvaluateRule(r, text) = "fail"
                => ~ \A j \in DOMAIN r.conditions : Satisfied(r.conditions[j])
           /\ EvaluateRule(r, text) = "raise"
                => \E j \in DOMAIN r.conditions :
                    /\ r.conditions[j].condition_type = "regex"
                    /\ \E v \in DOMAIN r.conditions[j].values :
                            r.conditions[j].values[v] \in Malformed
<1> DEFINE outcomes == [i \in DOMAIN r.conditions |-> EvaluateCondition(r.conditions[i], text)]
<1>1. r.conditions \in Seq(Condition)
    BY DEF Rule
<1>2. /\ Len(r.conditions) \in Nat /\ DOMAIN r.conditions = 1..Len(r.conditions)
      /\ \A i \in DOMAIN r.conditions : r.conditions[i] \in Condition
    BY <1>1, LenProperties, ElementOfSeq
<1>d. DOMAIN outcomes = 1..Len(r.conditions)
    BY <1>2
<1>3. \/ /\ \A i \in 1..Len(r.conditions) : outcomes[i] = "pass"
         /\ FirstDecisive("pass", outcomes) = "pass"
      \/ \E i \in 1..Len(r.conditions) : /\ outcomes[i] # "pass"
                                         /\ FirstDecisive("pass", outcomes) = outcomes[i]
    <2> HIDE DEF outcomes
    <2> QED BY <1>2, <1>d, ShortCircuit
<1>4. EvaluateRule(r, text) = FirstDecisive("pass", outcomes)
    BY DEF EvaluateRule, AllOf
<1>5. \A i \in DOMAIN r.conditions : outcomes[i] = EvaluateCondition(r.conditions[i], text)
    OBVIOUS
<1> HIDE DEF outcomes
<1> QED BY <1>2, <1>3, <1>4, <1>5, ConditionMeaning

(* What evaluate() returns: for every matching rule one result, in the     *)
(* order of the rules.                                                     *)
LEMMA EvaluateReturns ==
    ASSUME tags \in SUBSET TagIds, rules \in Seq(Rule(TagIds)),
           NEW r \in Evaluate(tags, rules, text)
    PROVE  /\ r \in Seq(Result)
           /\ Len(r) = Cardinality(Matching(tags, rules, text))
           /\ \A k \in DOMAIN r :
                r[k].source = "rules" /\ r[k].confidence = MaxConf /\ r[k].tag \in tags
           /\ \E at \in [DOMAIN r -> DOMAIN rules] :
                /\ {at[k] : k \in DOMAIN at} = Matching(tags, rules, text)
                /\ \A j, k \in DOMAIN at : j < k => at[j] < at[k]
                /\ \A k \in DOMAIN at : r[k] = RuleResult(rules[at[k]])
<1> DEFINE M == Matching(tags, rules, text)
<1>1. /\ Len(rules) \in Nat /\ DOMAIN rules = 1..Len(rules)
      /\ \A i \in DOMAIN rules : rules[i] \in Rule(TagIds)
    BY LenProperties, ElementOfSeq
<1>2. M \in SUBSET (1..Len(rules)) /\ \A i \in M : rules[i].tag_id \in tags
    BY <1>1 DEF Matching, Considered
<1>3. Cardinality(M) \in Nat
    BY <1>1, <1>2, Positions
<1>4. PICK p \in [1..Cardinality(M) -> M] :
        /\ \A m \in M : \E k \in DOMAIN p : p[k] = m
        /\ \A j, k \in DOMAIN p : j < k => p[j] < p[k]
        /\ r = [k \in DOMAIN p |-> RuleResult(rules[p[k]])]
    BY DEF Evaluate, Listings
<1> HIDE DEF M
<1>5. DOMAIN r = 1..Cardinality(M) /\ DOMAIN p = 1..Cardinality(M)
    BY <1>4
<1>6. \A k \in DOMAIN r : r[k] = RuleResult(rules[p[k]])
    BY <1>4
<1>7. \A k \in DOMAIN r :
        /\ r[k] \in Result
        /\ r[k].source = "rules" /\ r[k].confidence = MaxConf /\ r[k].tag \in tags
    <2> TAKE k \in DOMAIN r
    <2>1. p[k] \in M /\ rules[p[k]] \in Rule(TagIds) /\ rules[p[k]].tag_id \in tags
        BY <1>1, <1>2, <1>4, <1>5
    <2>2. MaxConf \in Confidences
        BY MaxConfAssumption DEF Confidences
    <2>3. rules[p[k]].name \in STRING /\ rules[p[k]].tag_id \in TagIds
        BY <2>1 DEF Rule
    <2> QED BY <1>6, <2>1, <2>2, <2>3 DEF RuleResult, Result, Reasons
<1>8. r \in [1..Cardinality(M) -> Result]
    BY <1>4, <1>5, <1>7
<1>9. r \in Seq(Result) /\ Len(r) = Cardinality(M)
    BY <1>3, <1>8, <1>5
<1>10. p \in [DOMAIN r -> DOMAIN rules] /\ {p[k] : k \in DOMAIN p} = M
    BY <1>1, <1>2, <1>4, <1>5
<1> QED BY <1>4, <1>5, <1>6, <1>7, <1>9, <1>10 DEF M

(* What the chain returns: results of the LLM, of loaded tags, whose       *)
(* confidence the validator accepted.                                      *)
LEMMA ResultsReturned ==
    ASSUME tags \in SUBSET TagIds, NEW reply \in Replies,
           NEW r \in ResultsOf(reply, tags)
    PROVE  /\ r \in Seq(Result)
           /\ \A k \in DOMAIN r : /\ r[k].source = "llm" /\ r[k].tag \in tags
                                  /\ ValidConfidence(r[k].confidence)
<1> DEFINE items == reply.items
           M == {i \in DOMAIN items : Accepted(items[i], tags)}
<1>1. items \in Seq(Item \cup {NonDict})
    BY LLMAssumption DEF Reply
<1>2. /\ Len(items) \in Nat /\ DOMAIN items = 1..Len(items)
      /\ \A i \in DOMAIN items : items[i] \in Item \cup {NonDict}
    BY <1>1, LenProperties, ElementOfSeq
<1>3. Cardinality(M) \in Nat
    BY <1>2, Positions
<1>4. PICK p \in [1..Cardinality(M) -> M] : r = [k \in DOMAIN p |-> LLMResult(items[p[k]])]
    BY DEF ResultsOf, Listings
<1>5. \A i \in M :
        /\ LLMResult(items[i]) \in Result
        /\ LLMResult(items[i]).source = "llm" /\ LLMResult(items[i]).tag \in tags
        /\ ValidConfidence(LLMResult(items[i]).confidence)
    <2> TAKE i \in M
    <2>1. items[i] \in Item /\ items[i].confidence # Unparsable /\ items[i].slug \in tags
          /\ items[i].reasoning # "invalid"
          /\ ValidConfidence(items[i].confidence)
        BY <1>2 DEF Accepted
    <2>2. items[i].confidence \in Confidences /\ items[i].slug \in TagIds
        BY <2>1 DEF Item
    <2>3. Reasoning(items[i]) \in Reasons
        <3>1. items[i].reasoning \in {"stated", "empty", "invalid"}
            BY <2>1 DEF Item
        <3> HIDE DEF items
        <3>2. Reasoning(items[i]) \in {"stated", "default"}
            BY <3>1, <2>1 DEF Reasoning
        <3> QED BY <3>2 DEF Reasons
    <2> QED BY <2>1, <2>2, <2>3 DEF LLMResult, Result
<1> HIDE DEF M, items
<1>6. r \in [1..Cardinality(M) -> Result] /\ DOMAIN r = 1..Cardinality(M)
    BY <1>4, <1>5
<1>7. r \in Seq(Result)
    BY <1>3, <1>6
<1> QED BY <1>4, <1>5, <1>6, <1>7

-----------------------------------------------------------------------------
(* The merge *)

(* Every result of the merge is one of the rules', or one of the LLM's     *)
(* that the loop kept; and every kept one is in it.                        *)
LEMMA MergedContents ==
    ASSUME NEW R \in Seq(Result), NEW L \in Seq(Result), NEW m \in Merged(R, L)
    PROVE  /\ m \in Seq(Result)
           /\ \A k \in DOMAIN m :
                \/ \E i \in DOMAIN R : m[k] = R[i]
                \/ \E i \in DOMAIN L :
                    /\ m[k] = L[i] /\ L[i].tag \notin TagsOf(R)
                    /\ L[i].confidence = Threshold \/ Lt(Threshold, L[i].confidence)
           /\ \A i \in DOMAIN L :
                /\ L[i].tag \notin TagsOf(R)
                /\ L[i].confidence = Threshold \/ Lt(Threshold, L[i].confidence)
                => \E k \in DOMAIN m : m[k] = L[i]
<1> DEFINE all == R \o L
           K == Kept(R, all)
<1>1. /\ Len(R) \in Nat /\ DOMAIN R = 1..Len(R)
      /\ Len(L) \in Nat /\ DOMAIN L = 1..Len(L)
    BY LenProperties
<1>2. /\ all \in Seq(Result) /\ Len(all) = Len(R) + Len(L)
      /\ \A i \in 1..(Len(R) + Len(L)) :
            all[i] = IF i <= Len(R) THEN R[i] ELSE L[i - Len(R)]
    BY ConcatProperties
<1>3. DOMAIN all = 1..(Len(R) + Len(L)) /\ \A i \in DOMAIN all : all[i] \in Result
    BY <1>2, LenProperties, ElementOfSeq
<1> HIDE DEF all
<1>4. K \in SUBSET (1..(Len(R) + Len(L)))
    BY <1>3 DEF Kept
<1>5. Cardinality(K) \in Nat
    <2> HIDE DEF K
    <2> QED BY <1>1, <1>4, Positions, Len(R) + Len(L) \in Nat
<1>6. PICK p \in [1..Cardinality(K) -> K] :
        /\ \A i \in K : \E k \in DOMAIN p : p[k] = i
        /\ m = [k \in DOMAIN p |-> all[p[k]]]
    BY DEF Merged, Listings, all
<1>7. \A i \in K :
        \/ i \in DOMAIN R /\ all[i] = R[i]
        \/ /\ i - Len(R) \in DOMAIN L /\ all[i] = L[i - Len(R)]
           /\ all[i].tag \notin TagsOf(R)
           /\ all[i].confidence = Threshold \/ Lt(Threshold, all[i].confidence)
    BY <1>1, <1>2, <1>3 DEF Kept
<1>8. \A i \in DOMAIN L :
        /\ L[i].tag \notin TagsOf(R)
        /\ L[i].confidence = Threshold \/ Lt(Threshold, L[i].confidence)
        => i + Len(R) \in K /\ all[i + Len(R)] = L[i]
    BY <1>1, <1>2, <1>3 DEF Kept
<1> HIDE DEF K
<1>9. m \in [1..Cardinality(K) -> Result] /\ DOMAIN m = 1..Cardinality(K)
      /\ \A k \in DOMAIN m : p[k] \in K /\ m[k] = all[p[k]]
    BY <1>3, <1>4, <1>6
<1>10. m \in Seq(Result)
    BY <1>5, <1>9
<1>11. \A k \in DOMAIN m :
        \/ \E i \in DOMAIN R : m[k] = R[i]
        \/ \E i \in DOMAIN L :
            /\ m[k] = L[i] /\ L[i].tag \notin TagsOf(R)
            /\ L[i].confidence = Threshold \/ Lt(Threshold, L[i].confidence)
    <2> TAKE k \in DOMAIN m
    <2>1. p[k] \in K /\ m[k] = all[p[k]]
        BY <1>9
    <2> QED BY <2>1, <1>7
<1>12. \A i \in DOMAIN L :
        /\ L[i].tag \notin TagsOf(R)
        /\ L[i].confidence = Threshold \/ Lt(Threshold, L[i].confidence)
        => \E k \in DOMAIN m : m[k] = L[i]
    BY <1>6, <1>8, <1>9
<1> QED BY <1>10, <1>11, <1>12

(* The merge starts with the results of the rules: they have the highest   *)
(* confidence there is, and among equals the sort keeps the order of the   *)
(* list, where they come first.  The position q of the k-th rules result   *)
(* is k: what the first q positions list is exactly 1..k.                  *)
LEMMA MergedLeads ==
    ASSUME NEW R \in Seq(Result), NEW L \in Seq(Result), NEW m \in Merged(R, L),
           \A i \in DOMAIN R : R[i].confidence = MaxConf,
           \A i \in DOMAIN L : ValidConfidence(L[i].confidence)
    PROVE  Len(R) <= Len(m) /\ \A k \in DOMAIN R : m[k] = R[k]
<1> DEFINE all == R \o L
           n == Len(R)
           K == Kept(R, all)
           N == Cardinality(K)
<1>1. /\ n \in Nat /\ DOMAIN R = 1..n
      /\ Len(L) \in Nat /\ DOMAIN L = 1..Len(L)
    BY LenProperties
<1>2. /\ all \in Seq(Result) /\ Len(all) = n + Len(L)
      /\ \A i \in 1..(n + Len(L)) : all[i] = IF i <= n THEN R[i] ELSE L[i - n]
    BY ConcatProperties
<1>3. DOMAIN all = 1..(n + Len(L))
    BY <1>2, LenProperties
<1> HIDE DEF all
<1>4. K \in SUBSET (1..(n + Len(L))) /\ 1..n \subseteq K
    BY <1>1, <1>3 DEF Kept
<1>5. IsFiniteSet(K) /\ N \in Nat
    <2> HIDE DEF K
    <2> QED BY <1>1, <1>4, Positions, n + Len(L) \in Nat
<1>6. PICK p \in [1..N -> K] :
        /\ \A i \in K : \E k \in DOMAIN p : p[k] = i
        /\ \A j, k \in DOMAIN p : j < k => SortsBefore(all, p[j], p[k])
        /\ m = [k \in DOMAIN p |-> all[p[k]]]
    BY DEF Merged, Listings, all
<1>7. \A i \in K, k \in 1..n : SortsBefore(all, i, k) => i < k
    <2> TAKE i \in K, k \in 1..n
    <2> HAVE SortsBefore(all, i, k)
    <2>1. all[k].confidence = MaxConf
        BY <1>1, <1>2
    <2>2. CASE i <= n
        BY <2>1, <2>2, <1>1, <1>2, <1>4 DEF SortsBefore
    <2>3. CASE ~(i <= n)
        <3>1. all[i].confidence = Threshold \/ Lt(Threshold, all[i].confidence)
            BY <2>3 DEF Kept
        <3>2. all[i] = L[i - n] /\ i - n \in 1..Len(L)
            BY <2>3, <1>1, <1>2, <1>4
        <3>3. ValidConfidence(all[i].confidence)
            BY <3>2, <1>1
        <3>4. all[i].confidence \in Int /\ all[i].confidence <= MaxConf
            BY <3>1, <3>3, ThresholdAssumption, MaxConfAssumption DEF Lt, ValidConfidence
        <3>5. all[i].confidence = MaxConf
            BY <2>1, <3>4, MaxConfAssumption DEF SortsBefore, Lt
        <3> QED BY <2>1, <3>5 DEF SortsBefore
    <2> QED BY <2>2, <2>3
<1> HIDE DEF K
<1>8. \A j, k \in 1..N : p[j] = p[k] => j = k
    <2>1. p \in Surjection(1..N, K)
        BY <1>6 DEF Surjection
    <2>2. IsFiniteSet(1..N) /\ Cardinality(1..N) = Cardinality(K)
        BY <1>5, FS_Interval
    <2>3. p \in Injection(1..N, K)
        BY <2>1, <2>2, FS_SurjSameCardinalityImpliesInj
    <2> QED BY <2>3 DEF Injection, IsInjective
<1> HIDE DEF N
<1>9. \A k \in 1..n : k \in 1..N /\ p[k] = k
    <2> TAKE k \in 1..n
    <2>1. PICK q \in 1..N : p[q] = k
        BY <1>4, <1>6
    <2> DEFINE f == [j \in 1..q |-> p[j]]
    <2>2. \A j \in 1..q : j \in 1..N /\ f[j] = p[j]
        BY <1>5, <2>1
    <2>3. \A j \in 1..q : f[j] \in 1..k
        <3> TAKE j \in 1..q
        <3>1. p[j] \in K
            BY <1>6, <2>2
        <3>2. p[j] \in Nat /\ p[j] >= 1
            <4>1. p[j] \in 1..(n + Len(L))
                BY <3>1, <1>4
            <4>2. n + Len(L) \in Nat
                BY <1>1
            <4> QED BY <4>1, <4>2
        <3>3. CASE j = q
            BY <3>3, <2>1, <2>2
        <3>4. CASE j < q
            BY <3>1, <3>2, <3>4, <2>1, <2>2, <1>6, <1>7
        <3> QED BY <3>3, <3>4, <1>5, <2>1
    <2>4. \A i \in 1..k : \E j \in 1..q : f[j] = i
        <3> TAKE i \in 1..k
        <3>1. i \in 1..n /\ i \in K
            BY <1>1, <1>4
        <3>2. PICK j \in 1..N : p[j] = i
            BY <3>1, <1>6
        <3>3. ~(q < j)
            BY <3>1, <3>2, <2>1, <1>4, <1>6, <1>7
        <3> QED BY <3>2, <3>3, <2>1, <2>2, <1>5
    <2>5. f \in Surjection(1..q, 1..k) /\ f \in Injection(1..q, 1..k)
        BY <2>2, <2>3, <2>4, <1>8 DEF Surjection, Injection, IsInjective
    <2>6. /\ IsFiniteSet(1..q) /\ Cardinality(1..q) = q
          /\ IsFiniteSet(1..k) /\ Cardinality(1..k) = k
        BY <1>1, <1>5, <2>1, FS_Interval
    <2> HIDE DEF f
    <2>7. k <= q
        BY <2>5, <2>6, FS_Surjection
    <2>8. q <= k
        BY <2>5, <2>6, FS_Injection
    <2> QED BY <2>1, <2>7, <2>8, <1>1, <1>5
<1>10. DOMAIN m = 1..N /\ Len(m) = N
    BY <1>5, <1>6
<1>11. n <= N
    BY <1>1, <1>5, <1>9
<1>12. \A k \in 1..n : m[k] = R[k]
    BY <1>1, <1>2, <1>6, <1>9
<1> QED BY <1>1, <1>10, <1>11, <1>12

-----------------------------------------------------------------------------
(* The inductive invariant *)

(* Where the lists come from, and what the mode rules out; the final list  *)
(* is a merge of the other two, and only at the end.                       *)
IInv ==
    /\ TypeOK
    /\ \A k \in DOMAIN rules_results :
        /\ rules_results[k].source = "rules" /\ rules_results[k].confidence = MaxConf
        /\ rules_results[k].tag \in tags
    /\ \A k \in DOMAIN llm_results :
        /\ llm_results[k].source = "llm" /\ ValidConfidence(llm_results[k].confidence)
        /\ llm_chain # "foreign" => llm_results[k].tag \in tags
    /\ node # "end" => final_results = <<>>
    /\ node = "end" => final_results \in Merged(rules_results, llm_results)
    /\ node = "raised" => EvaluationRaises(tags, rules, text)
    /\ tagging_mode = "rules_only" =>
        node \notin {"run_llm", "await_llm"} /\ llm_results = <<>>
    /\ tagging_mode = "llm_only" =>
        node \notin {"run_rules", "raised"} /\ rules_results = <<>>
    /\ node \notin {"run_rules", "raised"} /\ tagging_mode # "llm_only" =>
        /\ ~EvaluationRaises(tags, rules, text)
        /\ rules_results \in Evaluate(tags, rules, text)
    /\ node \in {"run_rules", "run_llm", "await_llm", "raised"} => llm_results = <<>>

(* Before the first node nothing has been produced. *)
LEMMA InitIInv == Init => IInv
<1> SUFFICES ASSUME Init PROVE IInv
    OBVIOUS
<1>1. <<>> \in Seq(Result) /\ DOMAIN <<>> = {}
    OBVIOUS
<1>2. node \in {"run_rules", "run_llm"} /\ (node = "run_llm" <=> tagging_mode = "llm_only")
    BY DEF Init, ShouldRunRules, TaggingModes
<1>3. TypeOK
    BY <1>1, <1>2, LoadsAssumption DEF Init, TypeOK
<1> QED BY <1>1, <1>2, <1>3 DEF Init, IInv

(* Every node, and every outcome of the LLM, preserves the invariant. *)
LEMMA NextIInv == IInv /\ [Next]_vars => IInv'
<1> SUFFICES ASSUME IInv, [Next]_vars PROVE IInv'
    OBVIOUS
<1>t. tags \in SUBSET TagIds /\ rules \in Seq(Rule(TagIds))
    BY LoadsAssumption DEF IInv, TypeOK
<1>1. CASE RunRules
    <2>1. UNCHANGED <<inputs, llm_results, final_results, error>>
        BY <1>1 DEF RunRules
    <2>2. /\ rules_results' \in Seq(Result)
          /\ \A k \in DOMAIN rules_results' :
                /\ rules_results'[k].source = "rules" /\ rules_results'[k].confidence = MaxConf
                /\ rules_results'[k].tag \in tags
        BY <1>1, <1>t, EvaluateReturns DEF RunRules
    <2>3. /\ node = "run_rules" /\ node' \in {"run_llm", "merge"}
          /\ node' = "run_llm" <=> tagging_mode # "rules_only"
        BY <1>1 DEF RunRules, ShouldRunLLM
    <2>4. TypeOK'
        BY <2>1, <2>2, <2>3 DEF IInv, TypeOK, inputs
    <2>5. /\ ~EvaluationRaises(tags, rules, text)
          /\ rules_results' \in Evaluate(tags, rules, text)
        BY <1>1 DEF RunRules
    <2> QED BY <2>1, <2>2, <2>3, <2>4, <2>5 DEF IInv, inputs
<1>2. CASE RulesRaise
    <2>1. TypeOK'
        BY <1>2 DEF RulesRaise, IInv, TypeOK, inputs
    <2> QED BY <1>2, <2>1 DEF RulesRaise, IInv, inputs
<1>3. CASE SkipLLM
    <2>1. TypeOK'
        BY <1>3 DEF SkipLLM, IInv, TypeOK, inputs
    <2> QED BY <1>3, <2>1 DEF SkipLLM, IInv, inputs
<1>4. CASE CallLLM
    <2>1. TypeOK'
        BY <1>4 DEF CallLLM, IInv, TypeOK, inputs
    <2> QED BY <1>4, <2>1 DEF CallLLM, IInv, inputs
<1>5. CASE LLMReplies
    <2>1. /\ node = "await_llm" /\ node' = "merge"
          /\ UNCHANGED <<inputs, rules_results, final_results, error>>
        BY <1>5 DEF LLMReplies
    <2>2. /\ llm_results' \in Seq(Result)
          /\ \A k \in DOMAIN llm_results' :
                /\ llm_results'[k].source = "llm" /\ llm_results'[k].tag \in tags
                /\ ValidConfidence(llm_results'[k].confidence)
        BY <1>5, <1>t, ResultsReturned DEF LLMReplies
    <2>3. TypeOK'
        BY <2>1, <2>2 DEF IInv, TypeOK, inputs
    <2> QED BY <2>1, <2>2, <2>3 DEF IInv, inputs
<1>6. CASE ForeignChain
    <2>1. /\ node = "run_llm" /\ node' = "merge" /\ llm_chain = "foreign"
          /\ UNCHANGED <<inputs, rules_results, final_results>>
        BY <1>6 DEF ForeignChain
    <2>2. /\ llm_results' \in Seq(Result) /\ error' \in BOOLEAN
          /\ \A k \in DOMAIN llm_results' :
                llm_results'[k].source = "llm" /\ ValidConfidence(llm_results'[k].confidence)
        BY <1>6, LLMAssumption DEF ForeignChain, IInv, TypeOK
    <2>3. TypeOK'
        BY <2>1, <2>2 DEF IInv, TypeOK, inputs
    <2> QED BY <2>1, <2>2, <2>3 DEF IInv, inputs
<1>7. CASE Merge
    <2>1. /\ node = "merge" /\ node' = "end"
          /\ final_results' \in Merged(rules_results, llm_results)
          /\ UNCHANGED <<inputs, rules_results, llm_results, error>>
        BY <1>7 DEF Merge
    <2>2. final_results' \in Seq(Result)
        BY <2>1, MergedContents DEF IInv, TypeOK
    <2>3. TypeOK'
        BY <2>1, <2>2 DEF IInv, TypeOK, inputs
    <2> QED BY <2>1, <2>3 DEF IInv, inputs
<1>8. CASE UNCHANGED vars
    <2>1. TypeOK'
        BY <1>8 DEF IInv, TypeOK, vars, inputs
    <2> QED BY <1>8, <2>1 DEF IInv, vars, inputs
<1> QED BY <1>1, <1>2, <1>3, <1>4, <1>5, <1>6, <1>7, <1>8 DEF Next, LocalStep

(* The inductive invariant holds of every run of the pipeline. *)
THEOREM Inductive == Spec => []IInv
BY InitIInv, NextIInv, PTL DEF Spec

-----------------------------------------------------------------------------
(* The properties *)

(* Every result, of either source and in the answer, is a result: it names *)
(* a tag of the taxonomy and has a source; every other variable is typed.  *)
THEOREM TypeCorrect == Spec => []TypeOK
<1>1. IInv => TypeOK
    BY DEF IInv
<1> QED BY <1>1, Inductive, PTL

(* Short-circuit evaluation changes nothing a reader would expect: where   *)
(* the engine has run, its results are the applicable rules'.              *)
LEMMA ExactFromInv == IInv => RulesExact
<1> SUFFICES ASSUME IInv, node \notin {"run_rules", "raised"}, tagging_mode # "llm_only"
             PROVE  /\ Len(rules_results) = Cardinality(Applicable)
                    /\ \E at \in [DOMAIN rules_results -> DOMAIN rules] :
                        /\ {at[k] : k \in DOMAIN at} = Applicable
                        /\ \A j, k \in DOMAIN at : j < k => at[j] < at[k]
                        /\ \A k \in DOMAIN at :
                            /\ rules_results[k].tag = rules[at[k]].tag_id
                            /\ rules_results[k].reasoning = rules[at[k]].name
    BY DEF RulesExact
<1>1. /\ tags \in SUBSET TagIds /\ rules \in Seq(Rule(TagIds))
      /\ rules_results \in Evaluate(tags, rules, text)
      /\ ~EvaluationRaises(tags, rules, text)
    BY LoadsAssumption DEF IInv, TypeOK
<1>2. \A i \in DOMAIN rules : rules[i] \in Rule(TagIds)
    BY <1>1, LenProperties, ElementOfSeq
<1>3. Matching(tags, rules, text) = Applicable
    <2>1. \A i \in DOMAIN rules :
            Considered(rules[i], tags) <=> rules[i].is_enabled /\ rules[i].tag_id \in tags
        BY DEF Considered
    <2>2. \A i \in DOMAIN rules : Considered(rules[i], tags) =>
            (EvaluateRule(rules[i], text) = "pass" <=>
                \A j \in DOMAIN rules[i].conditions : Satisfied(rules[i].conditions[j]))
        BY <1>1, <1>2, RuleMeaning DEF EvaluationRaises
    <2> QED BY <2>1, <2>2 DEF Matching, Applicable
<1>4. PICK at \in [DOMAIN rules_results -> DOMAIN rules] :
        /\ {at[k] : k \in DOMAIN at} = Applicable
        /\ \A j, k \in DOMAIN at : j < k => at[j] < at[k]
        /\ \A k \in DOMAIN at : rules_results[k] = RuleResult(rules[at[k]])
    BY <1>1, <1>3, EvaluateReturns
<1>5. \A k \in DOMAIN at : /\ rules_results[k].tag = rules[at[k]].tag_id
                         /\ rules_results[k].reasoning = rules[at[k]].name
    BY <1>4 DEF RuleResult
<1> QED BY <1>1, <1>3, <1>4, <1>5, EvaluateReturns

(* The engine answers with exactly the applicable rules, in their order.   *)
THEOREM EngineExact == Spec => []RulesExact
BY ExactFromInv, Inductive, PTL

(* The answer starts with the results of the rules, whatever the LLM does. *)
THEOREM RulesSurvive == Spec => []RulesLead
<1>1. IInv => RulesLead
    BY MergedLeads DEF IInv, TypeOK, RulesLead
<1> QED BY <1>1, Inductive, PTL

(* Two sources never report the same tag. *)
THEOREM RulesWin == Spec => []NoSourceConflict
<1>1. IInv => NoSourceConflict
    <2> SUFFICES ASSUME IInv, node = "end",
                        NEW i \in DOMAIN final_results, NEW j \in DOMAIN final_results,
                        final_results[i].tag = final_results[j].tag
                 PROVE  final_results[i].source = final_results[j].source
        BY DEF NoSourceConflict
    <2>1. \A k \in DOMAIN final_results :
            \/ /\ final_results[k].source = "rules"
               /\ final_results[k].tag \in TagsOf(rules_results)
            \/ /\ final_results[k].source = "llm"
               /\ final_results[k].tag \notin TagsOf(rules_results)
        <3> TAKE k \in DOMAIN final_results
        <3>1. \/ \E r \in DOMAIN rules_results : final_results[k] = rules_results[r]
              \/ \E l \in DOMAIN llm_results :
                    /\ final_results[k] = llm_results[l]
                    /\ llm_results[l].tag \notin TagsOf(rules_results)
            <4>1. /\ rules_results \in Seq(Result) /\ llm_results \in Seq(Result)
                  /\ final_results \in Merged(rules_results, llm_results)
                BY DEF IInv, TypeOK
            <4> QED BY <4>1, MergedContents
        <3>2. \A r \in DOMAIN rules_results : rules_results[r].tag \in TagsOf(rules_results)
            BY DEF TagsOf
        <3> QED BY <3>1, <3>2 DEF IInv
    <2> QED BY <2>1
<1> QED BY <1>1, Inductive, PTL

(* No confidence of the LLM outside the band, and no NaN, gets out. *)
THEOREM Band == Spec => []LLMInBand
<1>1. IInv => LLMInBand
    <2> SUFFICES ASSUME IInv, node = "end", NEW k \in DOMAIN final_results,
                        final_results[k].source = "llm"
                 PROVE  /\ final_results[k].confidence \in Int
                        /\ Threshold <= final_results[k].confidence
                        /\ final_results[k].confidence <= MaxConf
        BY DEF LLMInBand
    <2>1. PICK i \in DOMAIN llm_results :
            /\ final_results[k] = llm_results[i]
            /\ llm_results[i].confidence = Threshold \/ Lt(Threshold, llm_results[i].confidence)
        BY MergedContents DEF IInv, TypeOK
    <2>2. ValidConfidence(llm_results[i].confidence)
        BY DEF IInv
    <2> QED BY <2>1, <2>2, ThresholdAssumption, MaxConfAssumption DEF ValidConfidence, Lt
<1> QED BY <1>1, Inductive, PTL

(* The merge drops an LLM result only for one of its stated reasons. *)
THEOREM Completeness == Spec => []LLMComplete
<1>1. IInv => LLMComplete
    <2> SUFFICES ASSUME IInv, node = "end", NEW i \in DOMAIN llm_results,
                        llm_results[i].tag \notin TagsOf(rules_results),
                        llm_results[i].confidence # NaN,
                        ~Lt(llm_results[i].confidence, Threshold)
                 PROVE  \E k \in DOMAIN final_results : final_results[k] = llm_results[i]
        BY DEF LLMComplete
    <2>1. llm_results[i].confidence \in Int
        <3>1. llm_results[i] \in Result
            BY LenProperties, ElementOfSeq DEF IInv, TypeOK
        <3> QED BY <3>1 DEF Result, Confidences
    <2>2. llm_results[i].confidence = Threshold \/ Lt(Threshold, llm_results[i].confidence)
        BY <2>1, ThresholdAssumption DEF Lt
    <2> QED BY <2>2, MergedContents DEF IInv, TypeOK
<1> QED BY <1>1, Inductive, PTL

(* The service's own chain puts no tag into the answer that was not loaded. *)
THEOREM NoForeignTag == Spec => []LoadedTagsOnly
<1>1. IInv => LoadedTagsOnly
    <2> SUFFICES ASSUME IInv, llm_chain # "foreign", NEW k \in DOMAIN final_results
                 PROVE  final_results[k].tag \in tags
        BY DEF LoadedTagsOnly, TagsOf
    <2>1. node = "end"
        BY DEF IInv
    <2>2. /\ rules_results \in Seq(Result) /\ llm_results \in Seq(Result)
          /\ final_results \in Merged(rules_results, llm_results)
        BY <2>1 DEF IInv, TypeOK
    <2>3. \/ \E i \in DOMAIN rules_results : final_results[k] = rules_results[i]
          \/ \E i \in DOMAIN llm_results : final_results[k] = llm_results[i]
        BY <2>2, MergedContents
    <2> QED BY <2>3 DEF IInv
<1> QED BY <1>1, Inductive, PTL

(* Only a malformed pattern of a considered rule makes a run raise. *)
THEOREM OnlyPatternsRaise == Spec => []RaisesOnlyOnPattern
<1>1. IInv => RaisesOnlyOnPattern
    <2> SUFFICES ASSUME IInv, node = "raised"
                 PROVE  RaisesOnlyOnPattern
        BY DEF RaisesOnlyOnPattern
    <2>1. PICK i \in DOMAIN rules :
            Considered(rules[i], tags) /\ EvaluateRule(rules[i], text) = "raise"
        BY DEF IInv, EvaluationRaises
    <2>2. rules[i] \in Rule(TagIds)
        BY LoadsAssumption, LenProperties, ElementOfSeq DEF IInv, TypeOK
    <2>3. \E j \in DOMAIN rules[i].conditions :
            /\ rules[i].conditions[j].condition_type = "regex"
            /\ \E v \in DOMAIN rules[i].conditions[j].values :
                    rules[i].conditions[j].values[v] \in Malformed
        BY <2>1, <2>2, RuleMeaning
    <2> QED BY <2>1, <2>3 DEF RaisesOnlyOnPattern
<1> QED BY <1>1, Inductive, PTL

(* The mode decides which sources an answer has. *)
THEOREM ModeDecides == Spec => []ModeRespected
<1>1. IInv => ModeRespected
    BY DEF IInv, ModeRespected
<1> QED BY <1>1, Inductive, PTL

-----------------------------------------------------------------------------
(* OrderDecided: a comprehension and a sort have one result each. *)

(* A strict total order of M, as a set of pairs. *)
Orders(R, M) ==
    /\ \A a \in M : <<a, a>> \notin R
    /\ \A a, b \in M : a # b => <<a, b>> \in R \/ <<b, a>> \in R
    /\ \A a, b, c \in M : <<a, b>> \in R /\ <<b, c>> \in R => <<a, c>> \in R

Lists(p, M, R) ==
    /\ p \in [1..Cardinality(M) -> M]
    /\ \A m \in M : \E k \in DOMAIN p : p[k] = m
    /\ \A j, k \in DOMAIN p : j < k => <<p[j], p[k]>> \in R

Before(m, M, R) == {a \in M : <<a, m>> \in R}

(* The number of those before it tells the members of M apart. *)
LEMMA BeforeInjective ==
    ASSUME NEW M, IsFiniteSet(M), NEW R, Orders(R, M), NEW a \in M, NEW b \in M
    PROVE  /\ Cardinality(Before(a, M, R)) \in 0..(Cardinality(M) - 1)
           /\ <<a, b>> \in R => Cardinality(Before(a, M, R)) < Cardinality(Before(b, M, R))
           /\ a # b => Cardinality(Before(a, M, R)) # Cardinality(Before(b, M, R))
<1>1. ASSUME NEW x \in M, NEW y \in M, <<x, y>> \in R
      PROVE  Cardinality(Before(x, M, R)) < Cardinality(Before(y, M, R))
    <2>1. Before(x, M, R) \in SUBSET Before(y, M, R) /\ x \in Before(y, M, R) /\ x \notin Before(x, M, R)
        BY <1>1 DEF Orders, Before
    <2>2. IsFiniteSet(Before(y, M, R)) /\ Before(x, M, R) # Before(y, M, R)
        BY <2>1, FS_Subset DEF Before
    <2>3. /\ Cardinality(Before(x, M, R)) <= Cardinality(Before(y, M, R))
          /\ Cardinality(Before(x, M, R)) # Cardinality(Before(y, M, R))
        BY <2>1, <2>2, FS_Subset
    <2>4. Cardinality(Before(x, M, R)) \in Nat /\ Cardinality(Before(y, M, R)) \in Nat
        BY <2>1, <2>2, FS_Subset, FS_CardinalityType
    <2> QED BY <2>3, <2>4
<1>2. /\ Cardinality(Before(a, M, R)) \in Nat /\ Cardinality(M) \in Nat
      /\ Cardinality(Before(a, M, R)) <= Cardinality(M)
      /\ Cardinality(Before(a, M, R)) # Cardinality(M)
    <2>1. Before(a, M, R) \in SUBSET M /\ Before(a, M, R) # M
        BY DEF Before, Orders
    <2> QED BY <2>1, FS_Subset, FS_CardinalityType
<1>3. Cardinality(Before(b, M, R)) \in Nat
    <2>1. Before(b, M, R) \in SUBSET M
        BY DEF Before
    <2> QED BY <2>1, FS_Subset, FS_CardinalityType
<1>4. ASSUME a # b PROVE Cardinality(Before(a, M, R)) # Cardinality(Before(b, M, R))
    <2>1. <<a, b>> \in R \/ <<b, a>> \in R
        BY <1>4 DEF Orders
    <2>2. \/ Cardinality(Before(a, M, R)) < Cardinality(Before(b, M, R))
          \/ Cardinality(Before(b, M, R)) < Cardinality(Before(a, M, R))
        BY <1>1, <2>1
    <2> QED BY <1>2, <1>3, <2>2
<1> QED BY <1>1, <1>2, <1>4

(* There is a list of M in the order R: it has a member where the number   *)
(* of those before it says.                                                *)
LEMMA ListExists ==
    ASSUME NEW M, IsFiniteSet(M), NEW R, Orders(R, M)
    PROVE  \E p : Lists(p, M, R)
<1> DEFINE N == Cardinality(M)
           rank == [m \in M |-> Cardinality(Before(m, M, R)) + 1]
<1>1. N \in Nat
    BY FS_CardinalityType
<1>2. rank \in [M -> 1..N]
    <2>1. \A m \in M : rank[m] \in 1..N
        <3> SUFFICES ASSUME NEW m \in M PROVE rank[m] \in 1..N
            OBVIOUS
        <3>1. Cardinality(Before(m, M, R)) \in 0..(N - 1)
            BY BeforeInjective
        <3>2. rank[m] = Cardinality(Before(m, M, R)) + 1
            OBVIOUS
        <3> HIDE DEF N, rank
        <3> QED BY <1>1, <3>1, <3>2
    <2> QED BY <2>1
<1>3. rank \in Injection(M, 1..N)
    <2>1. \A a, b \in M : a # b => rank[a] # rank[b]
        <3> SUFFICES ASSUME NEW a \in M, NEW b \in M, a # b PROVE rank[a] # rank[b]
            OBVIOUS
        <3>1. Cardinality(Before(a, M, R)) # Cardinality(Before(b, M, R))
            BY BeforeInjective
        <3>2. Cardinality(Before(a, M, R)) \in 0..(N - 1) /\ Cardinality(Before(b, M, R)) \in 0..(N - 1)
            BY BeforeInjective
        <3>3. /\ rank[a] = Cardinality(Before(a, M, R)) + 1
              /\ rank[b] = Cardinality(Before(b, M, R)) + 1
            OBVIOUS
        <3> HIDE DEF N, rank
        <3> QED BY <1>1, <3>1, <3>2, <3>3
    <2> HIDE DEF rank
    <2> QED BY <1>2, <2>1 DEF Injection, IsInjective
<1>4. IsFiniteSet(1..N) /\ Cardinality(1..N) = N
    BY <1>1, FS_Interval
<1>5. rank \in Surjection(M, 1..N)
    <2> HIDE DEF rank
    <2> QED BY <1>3, <1>4, FS_Injection
<1> DEFINE p == [k \in 1..N |-> CHOOSE m \in M : rank[m] = k]
<1>6. \A k \in 1..N : p[k] \in M /\ rank[p[k]] = k
    <2>1. \A k \in 1..N : \E m \in M : rank[m] = k
        <3> HIDE DEF rank
        <3> QED BY <1>5 DEF Surjection
    <2> HIDE DEF rank
    <2> QED BY <2>1
<1>7. p \in [1..N -> M]
    BY <1>6
<1>8. \A m \in M : \E k \in 1..N : p[k] = m
    <2> HIDE DEF rank, p
    <2> QED BY <1>2, <1>3, <1>6 DEF Injection, IsInjective
<1>9. ASSUME NEW j \in 1..N, NEW k \in 1..N, j < k
      PROVE  <<p[j], p[k]>> \in R
    <2>1. \A a, b \in M : <<a, b>> \in R => rank[a] < rank[b]
        <3> SUFFICES ASSUME NEW a \in M, NEW b \in M, <<a, b>> \in R PROVE rank[a] < rank[b]
            OBVIOUS
        <3>1. Cardinality(Before(a, M, R)) \in Int /\ Cardinality(Before(b, M, R)) \in Int
            <4>1. Cardinality(Before(a, M, R)) \in 0..(N - 1) /\ Cardinality(Before(b, M, R)) \in 0..(N - 1)
                BY BeforeInjective
            <4> HIDE DEF N
            <4> QED BY <1>1, <4>1
        <3>2. Cardinality(Before(a, M, R)) < Cardinality(Before(b, M, R))
            BY BeforeInjective
        <3> QED BY <3>1, <3>2
    <2> HIDE DEF rank, p
    <2>2. p[j] # p[k]
        BY <1>6, <1>9
    <2>3. ~(<<p[k], p[j]>> \in R)
        BY <1>1, <1>6, <1>9, <2>1
    <2> QED BY <1>6, <2>2, <2>3 DEF Orders
<1> HIDE DEF p
<1>10. DOMAIN p = 1..N
    BY <1>7
<1> QED BY <1>7, <1>8, <1>9, <1>10 DEF Lists

(* Every list of M in the order R has its members where it says, so that   *)
(* there is one only.                                                      *)
LEMMA ListUnique ==
    ASSUME NEW M, IsFiniteSet(M), NEW R, Orders(R, M),
           NEW p, Lists(p, M, R), NEW q, Lists(q, M, R)
    PROVE  p = q
<1> DEFINE N == Cardinality(M)
<1>1. N \in Nat
    BY FS_CardinalityType
<1>2. ASSUME NEW f, Lists(f, M, R), NEW k \in 1..N
      PROVE  f[k] \in M /\ Cardinality(Before(f[k], M, R)) = k - 1
    <2>1. f \in [1..N -> M]
        BY <1>2 DEF Lists
    <2>2. /\ \A m \in M : \E j \in 1..N : f[j] = m
          /\ \A i, j \in 1..N : i < j => <<f[i], f[j]>> \in R
        BY <1>2, <2>1 DEF Lists
    <2> HIDE DEF N
    <2> DEFINE g == [j \in 1..(k - 1) |-> f[j]]
    <2>3. \A j \in 1..(k - 1) : j \in 1..N /\ g[j] = f[j]
        BY <1>1
    <2>4. Before(f[k], M, R) = {f[j] : j \in 1..(k - 1)}
        <3>1. \A j \in 1..(k - 1) : f[j] \in Before(f[k], M, R)
            BY <1>1, <2>1, <2>2, <2>3 DEF Before
        <3>2. ASSUME NEW a \in Before(f[k], M, R) PROVE \E j \in 1..(k - 1) : f[j] = a
            <4>1. PICK j \in 1..N : f[j] = a
                BY <2>2, <3>2 DEF Before
            <4>2. <<f[j], f[k]>> \in R
                BY <3>2, <4>1 DEF Before
            <4>3. j # k
                BY <2>1, <4>2 DEF Orders
            <4>4. ~(k < j)
                BY <2>1, <2>2, <4>2 DEF Orders
            <4> QED BY <1>1, <4>1, <4>3, <4>4
        <3> QED BY <3>1, <3>2
    <2>5. g \in Surjection(1..(k - 1), Before(f[k], M, R))
        BY <2>3, <2>4 DEF Surjection
    <2>6. g \in Injection(1..(k - 1), Before(f[k], M, R))
        <3>1. ASSUME NEW i \in 1..(k - 1), NEW j \in 1..(k - 1), g[i] = g[j] PROVE i = j
            <4>1. f[i] = f[j] /\ f[i] \in M
                BY <2>1, <2>3, <3>1
            <4>2. ~(i < j) /\ ~(j < i)
                BY <2>2, <2>3, <4>1 DEF Orders
            <4> QED BY <1>1, <4>2
        <3> QED BY <2>5, <3>1 DEF Surjection, Injection, IsInjective
    <2>7. IsFiniteSet(1..(k - 1)) /\ Cardinality(1..(k - 1)) = k - 1
        BY <1>1, FS_Interval
    <2> HIDE DEF g
    <2>8. Cardinality(Before(f[k], M, R)) = Cardinality(1..(k - 1))
        BY <2>5, <2>6, <2>7, FS_Surjection
    <2> QED BY <2>1, <2>7, <2>8
<1>3. p \in [1..N -> M] /\ q \in [1..N -> M]
    BY DEF Lists
<1>4. ASSUME NEW k \in 1..N PROVE p[k] = q[k]
    <2>1. p[k] \in M /\ Cardinality(Before(p[k], M, R)) = k - 1
        BY <1>2
    <2>2. q[k] \in M /\ Cardinality(Before(q[k], M, R)) = k - 1
        BY <1>2
    <2> QED BY <2>1, <2>2, BeforeInjective
<1>5. p = [k \in 1..N |-> p[k]] /\ q = [k \in 1..N |-> q[k]]
    BY <1>3
<1>6. [k \in 1..N |-> p[k]] = [k \in 1..N |-> q[k]]
    BY <1>4
<1> QED BY <1>5, <1>6

(* The order of positions in a list is one. *)
LEMMA PositionsOrdered ==
    ASSUME NEW n \in Nat, NEW M \in SUBSET (1..n)
    PROVE  /\ IsFiniteSet(M)
           /\ Orders({x \in M \X M : x[1] < x[2]}, M)
           /\ \A p : Lists(p, M, {x \in M \X M : x[1] < x[2]}) <=>
                        p \in Listings(M, LAMBDA i, j : i < j)
<1> DEFINE R == {x \in M \X M : x[1] < x[2]}
<1>1. \A a, b \in M : <<a, b>> \in R <=> a < b
    OBVIOUS
<1>2. \A a \in M : a \in Int
    OBVIOUS
<1> HIDE DEF R
<1>3. Orders(R, M)
    BY <1>1, <1>2 DEF Orders
<1>4. ASSUME NEW p PROVE Lists(p, M, R) <=> p \in Listings(M, LAMBDA i, j : i < j)
    <2>1. ASSUME p \in [1..Cardinality(M) -> M], NEW j \in DOMAIN p, NEW k \in DOMAIN p
          PROVE  <<p[j], p[k]>> \in R <=> p[j] < p[k]
        <3>1. p[j] \in M /\ p[k] \in M
            BY <2>1
        <3> QED BY <1>1, <3>1
    <2> QED BY <2>1 DEF Lists, Listings
<1>5. IsFiniteSet(M)
    BY Positions
<1> QED BY <1>3, <1>4, <1>5 DEF R

(* The engine has one answer to a note. *)
LEMMA EvaluateDetermined ==
    ASSUME rules \in Seq(Rule(TagIds))
    PROVE  \E r : Evaluate(tags, rules, text) = {r}
<1> DEFINE M == Matching(tags, rules, text)
           R == {x \in M \X M : x[1] < x[2]}
<1>1. Len(rules) \in Nat /\ M \in SUBSET (1..Len(rules))
    BY LenProperties DEF Matching
<1> HIDE DEF M
<1>2. /\ IsFiniteSet(M) /\ Orders(R, M)
      /\ \A p : Lists(p, M, R) <=> p \in Listings(M, LAMBDA i, j : i < j)
    BY <1>1, PositionsOrdered
<1> HIDE DEF R
<1>3. PICK p : Listings(M, LAMBDA i, j : i < j) = {p}
    <2>1. PICK p : Lists(p, M, R)
        BY <1>2, ListExists
    <2>2. \A q : Lists(q, M, R) => q = p
        BY <1>2, <2>1, ListUnique
    <2> QED BY <1>2, <2>1, <2>2
<1>4. \A q : q \in Listings(M, LAMBDA i, j : i < j) <=> q = p
    BY <1>3
<1>5. Evaluate(tags, rules, text) = {[k \in DOMAIN p |-> RuleResult(rules[p[k]])]}
    BY <1>4 DEF Evaluate, Listings, M
<1> QED BY <1>5

(* What is kept of two lists is sorted in one way: only confidences that   *)
(* are numbers are kept, and the sort orders these, and equal ones by      *)
(* where they are.                                                         *)
LEMMA MergeDetermined ==
    ASSUME NEW R \in Seq(Result), NEW L \in Seq(Result),
           \A i \in DOMAIN R : R[i].confidence = MaxConf
    PROVE  \E m : Merged(R, L) = {m}
<1> DEFINE all == R \o L
           K == Kept(R, all)
           order == {x \in K \X K : SortsBefore(all, x[1], x[2])}
<1>1. /\ Len(R) \in Nat /\ DOMAIN R = 1..Len(R)
      /\ Len(L) \in Nat /\ DOMAIN L = 1..Len(L)
    BY LenProperties
<1>2. /\ all \in Seq(Result) /\ Len(all) = Len(R) + Len(L)
      /\ \A i \in 1..(Len(R) + Len(L)) :
            all[i] = IF i <= Len(R) THEN R[i] ELSE L[i - Len(R)]
    BY ConcatProperties
<1>3. DOMAIN all = 1..(Len(R) + Len(L))
    BY <1>2, LenProperties
<1> HIDE DEF all
<1>4. K \in SUBSET (1..(Len(R) + Len(L)))
    BY <1>3 DEF Kept
<1>5. \A i \in K : all[i].confidence \in Int /\ i \in Int
    <2> SUFFICES ASSUME NEW i \in K PROVE all[i].confidence \in Int /\ i \in Int
        OBVIOUS
    <2>1. i \in Int
        BY <1>1, <1>4
    <2>2. CASE i <= Len(R)
        <3>1. all[i] = R[i] /\ i \in DOMAIN R
            BY <1>1, <1>2, <1>4, <2>2
        <3> QED BY <2>1, <3>1, MaxConfAssumption
    <2>3. CASE ~(i <= Len(R))
        BY <2>1, <2>3, ThresholdAssumption DEF Kept, Lt
    <2> QED BY <2>2, <2>3
<1>6. IsFiniteSet(K)
    <2> HIDE DEF K
    <2> QED BY <1>1, <1>4, Positions, Len(R) + Len(L) \in Nat
<1> HIDE DEF K
<1>7. \A a, b \in K : <<a, b>> \in order <=>
            \/ all[b].confidence < all[a].confidence
            \/ all[a].confidence = all[b].confidence /\ a < b
    BY <1>5 DEF SortsBefore, Lt
<1>8. \A p : Lists(p, K, order) <=> p \in Listings(K, LAMBDA i, j : SortsBefore(all, i, j))
    <2> SUFFICES ASSUME NEW p
                 PROVE  Lists(p, K, order) <=>
                            p \in Listings(K, LAMBDA i, j : SortsBefore(all, i, j))
        OBVIOUS
    <2>1. ASSUME p \in [1..Cardinality(K) -> K], NEW j \in DOMAIN p, NEW k \in DOMAIN p
          PROVE  <<p[j], p[k]>> \in order <=> SortsBefore(all, p[j], p[k])
        <3>1. p[j] \in K /\ p[k] \in K
            BY <2>1
        <3> QED BY <3>1
    <2> HIDE DEF order
    <2> QED BY <2>1 DEF Lists, Listings
<1> HIDE DEF order
<1>9. Orders(order, K)
    BY <1>5, <1>7 DEF Orders
<1>10. PICK p : Listings(K, LAMBDA i, j : SortsBefore(all, i, j)) = {p}
    <2>1. PICK p : Lists(p, K, order)
        BY <1>6, <1>9, ListExists
    <2>2. \A q : Lists(q, K, order) => q = p
        BY <1>6, <1>9, <2>1, ListUnique
    <2> QED BY <1>8, <2>1, <2>2
<1> DEFINE listings == Listings(K, LAMBDA i, j : SortsBefore(all, i, j))
<1>11. Merged(R, L) = {[k \in DOMAIN q |-> all[q[k]]] : q \in listings}
    BY DEF Merged, K, all
<1>12. listings = {p}
    BY <1>10
<1> HIDE DEF listings
<1>13. Merged(R, L) = {[k \in DOMAIN p |-> all[p[k]]]}
    BY <1>11, <1>12
<1> QED BY <1>13

(* No two runs of the engine on a note differ. *)
THEOREM EngineIsDecided == Spec => [](\E answer : Evaluate(tags, rules, text) = {answer})
<1>1. IInv => \E answer : Evaluate(tags, rules, text) = {answer}
    BY LoadsAssumption, EvaluateDetermined DEF IInv, TypeOK
<1> QED BY <1>1, Inductive, PTL

(* The order of every answer is decided before list.sort begins: nothing   *)
(* is left to sort that is not a number.                                   *)
THEOREM AnswerIsDecided == Spec => []OrderDecided
<1>1. IInv => OrderDecided
    <2> SUFFICES ASSUME IInv PROVE OrderDecided
        OBVIOUS
    <2>1. PICK m : Merged(rules_results, llm_results) = {m}
        BY MergeDetermined DEF IInv, TypeOK
    <2> QED BY <2>1 DEF OrderDecided
<1> QED BY <1>1, Inductive, PTL

-----------------------------------------------------------------------------
(* The pipeline implements NoteTagging. *)

(* The results of the engine are those of the rules that apply. *)
LEMMA RuledResults ==
    ASSUME IInv, node \notin {"run_rules", "raised"}
    PROVE  {Origin(rules_results[i]) : i \in DOMAIN rules_results} =
                IF tagging_mode = "llm_only" THEN {} ELSE ApplicableRules
<1>1. CASE tagging_mode = "llm_only"
    BY <1>1 DEF IInv
<1>2. CASE tagging_mode # "llm_only"
    <2>1. PICK at \in [DOMAIN rules_results -> DOMAIN rules] :
            /\ {at[k] : k \in DOMAIN at} = Applicable
            /\ \A k \in DOMAIN at : /\ rules_results[k].tag = rules[at[k]].tag_id
                                    /\ rules_results[k].reasoning = rules[at[k]].name
        BY <1>2, ExactFromInv DEF RulesExact
    <2>2. \A k \in DOMAIN rules_results :
            Origin(rules_results[k]) = [tag |-> rules[at[k]].tag_id, origin |-> rules[at[k]].name]
        BY <2>1 DEF Origin, IInv
    <2>3. DOMAIN at = DOMAIN rules_results
        BY <2>1
    <2>4. \A k \in DOMAIN rules_results : Origin(rules_results[k]) \in ApplicableRules
        BY <2>1, <2>2, <2>3 DEF ApplicableRules
    <2>5. ASSUME NEW i \in Applicable
          PROVE  \E k \in DOMAIN rules_results :
                    Origin(rules_results[k]) = [tag |-> rules[i].tag_id, origin |-> rules[i].name]
        BY <2>1, <2>2, <2>3
    <2> QED BY <1>2, <2>4, <2>5 DEF ApplicableRules
<1> QED BY <1>1, <1>2

(* What the merge makes of the two lists is an answer to the note.         *)
LEMMA MergeAnswers ==
    ASSUME IInv, node = "merge", NEW m \in Merged(rules_results, llm_results)
    PROVE  {Origin(m[i]) : i \in DOMAIN m} \in
                Answers(tagging_mode, ApplicableRules, Findable)
<1> DEFINE ruled == {Origin(rules_results[i]) : i \in DOMAIN rules_results}
           chosen == {i \in DOMAIN m : m[i].source = "llm"}
           found == {m[i].tag : i \in chosen}
<1>1. rules_results \in Seq(Result) /\ llm_results \in Seq(Result)
    BY DEF IInv, TypeOK
<1>2. /\ Len(rules_results) <= Len(m) /\ m \in Seq(Result)
      /\ \A k \in DOMAIN rules_results : m[k] = rules_results[k]
    BY <1>1, MergedLeads, MergedContents DEF IInv
<1>3. \A k \in DOMAIN rules_results : k \in DOMAIN m
    BY <1>1, <1>2, LenProperties
<1>4. \A k \in DOMAIN m :
        \/ m[k].source = "rules" /\ \E i \in DOMAIN rules_results : m[k] = rules_results[i]
        \/ /\ m[k].source = "llm" /\ tagging_mode # "rules_only"
           /\ m[k].tag \in Findable /\ m[k].tag \notin TagsOf(rules_results)
    <2> TAKE k \in DOMAIN m
    <2>1. CASE \E i \in DOMAIN rules_results : m[k] = rules_results[i]
        BY <2>1 DEF IInv
    <2>2. CASE \E i \in DOMAIN llm_results :
                m[k] = llm_results[i] /\ llm_results[i].tag \notin TagsOf(rules_results)
        <3>1. PICK i \in DOMAIN llm_results :
                m[k] = llm_results[i] /\ llm_results[i].tag \notin TagsOf(rules_results)
            BY <2>2
        <3>2. llm_results[i].tag \in TagIds
            <4>1. llm_results[i] \in Result
                BY <1>1, <3>1, LenProperties, ElementOfSeq
            <4> QED BY <4>1 DEF Result
        <3>3. tagging_mode # "rules_only"
            BY <3>1 DEF IInv
        <3> QED BY <3>1, <3>2, <3>3 DEF IInv, Findable
    <2> QED BY <1>1, <2>1, <2>2, MergedContents
<1>5. TagsOf(rules_results) = {x.tag : x \in ruled}
    <2>1. \A k \in DOMAIN rules_results : Origin(rules_results[k]).tag = rules_results[k].tag
        BY DEF Origin
    <2>2. \A k \in DOMAIN rules_results : \E x \in ruled : rules_results[k].tag = x.tag
        BY <2>1
    <2>3. \A x \in ruled : \E k \in DOMAIN rules_results : x.tag = rules_results[k].tag
        BY <2>1
    <2> HIDE DEF ruled
    <2> QED BY <2>2, <2>3 DEF TagsOf
<1>6. ruled = IF tagging_mode = "llm_only" THEN {} ELSE ApplicableRules
    BY RuledResults
<1>7. found \in SUBSET (Findable \ {x.tag : x \in ruled}) /\ (tagging_mode = "rules_only" => found = {})
    BY <1>4, <1>5 DEF IInv
<1>8. {Origin(m[i]) : i \in DOMAIN m} = ruled \cup [tag : found, origin : {"llm"}]
    <2>1. ASSUME NEW k \in DOMAIN m PROVE Origin(m[k]) \in ruled \cup [tag : found, origin : {"llm"}]
        <3>1. CASE m[k].source = "rules"
            BY <1>4, <3>1
        <3>2. CASE m[k].source = "llm"
            BY <3>2 DEF Origin
        <3> QED BY <1>4, <3>1, <3>2
    <2>2. ASSUME NEW x \in ruled PROVE \E k \in DOMAIN m : Origin(m[k]) = x
        BY <1>2, <1>3
    <2>3. ASSUME NEW x \in [tag : found, origin : {"llm"}] PROVE \E k \in DOMAIN m : Origin(m[k]) = x
        <3>1. PICK k \in chosen : m[k].tag = x.tag
            OBVIOUS
        <3>2. x = [tag |-> x.tag, origin |-> "llm"]
            OBVIOUS
        <3> QED BY <3>1, <3>2 DEF Origin
    <2> HIDE DEF ruled, found
    <2> QED BY <2>1, <2>2, <2>3
<1> HIDE DEF ruled, found
<1> QED BY <1>6, <1>7, <1>8 DEF Answers

(* The orchestrator can take a run of the pipeline for one atomic answer:  *)
(* every result of an applicable rule, and of the loaded tags no rule      *)
(* covers any the LLM chose; and only a pattern keeps a run from it.       *)
THEOREM RunsAsPromised == Spec => ImplementsNoteTagging
<1> DEFINE seen == <<Note!given, RunStatus, Answer>>
<1>1. Init => Note!Init
    BY DEF Init, Note!Init, ShouldRunRules, TaggingModes, RunStatus, Answer
<1>2. ASSUME IInv, [Next]_vars PROVE [Note!Next]_seen
    <2>1. UNCHANGED <<tagging_mode, ApplicableRules, Findable>>
        <3>1. UNCHANGED inputs
            BY <1>2 DEF Next, LocalStep, RunRules, RulesRaise, SkipLLM, CallLLM, LLMReplies,
                ForeignChain, Merge, vars
        <3> QED BY <3>1 DEF inputs, ApplicableRules, Applicable, Satisfied, Findable
    <2>2. UNCHANGED Note!given
        BY <2>1 DEF Note!given
    <2>3. CASE Merge
        <3>1. PICK m \in Merged(rules_results, llm_results) : final_results' = m
            BY <2>3 DEF Merge
        <3>2. Answer' \in Note!Answers(tagging_mode, ApplicableRules, Findable)
            BY <1>2, <2>3, <3>1, MergeAnswers DEF Merge, Answer, Answers, Note!Answers
        <3>3. RunStatus = "running" /\ RunStatus' = "answered"
            BY <2>3 DEF Merge, RunStatus
        <3> QED BY <2>2, <3>2, <3>3 DEF Note!Next, Note!Finish
    <2>4. CASE RulesRaise
        <3>1. tagging_mode # "llm_only"
            BY <1>2, <2>4 DEF RulesRaise, IInv
        <3>2. RunStatus = "running" /\ RunStatus' = "raised" /\ UNCHANGED Answer
            BY <2>4 DEF RulesRaise, RunStatus, Answer
        <3> QED BY <2>2, <3>1, <3>2 DEF Note!Next, Note!Raise
    <2>5. CASE RunRules \/ SkipLLM \/ CallLLM \/ LLMReplies \/ ForeignChain \/ UNCHANGED vars
        <3>1. UNCHANGED <<RunStatus, Answer>>
            BY <2>5 DEF RunRules, SkipLLM, CallLLM, LLMReplies, ForeignChain, vars, RunStatus,
                Answer, ShouldRunLLM
        <3> QED BY <2>2, <3>1
    <2> QED BY <1>2, <2>3, <2>4, <2>5 DEF Next, LocalStep
<1> QED BY <1>1, <1>2, Inductive, PTL DEF Spec, ImplementsNoteTagging, Note!Spec
=============================================================================

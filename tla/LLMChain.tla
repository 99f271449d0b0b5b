------------------------------ MODULE LLMChain ------------------------------
(***************************************************************************)
(* The slow path's wrapper around the language model: LLMChain.run and its *)
(* helpers (infrastructure/llm/chain.py), and the confidence validator of  *)
(* TagResult (domain/tag_result.py).  A pure module of operators: which    *)
(* items of a reply become results.  What run() does for tracing makes no  *)
(* difference to them and is in Service.                                   *)
(*                                                                         *)
(* A confidence is an integer or NaN: float() accepts the JSON literal NaN *)
(* and the string "nan", and every comparison with NaN is false.  A tag is *)
(* named by its slug, which is unique, so a slug is a tag or nothing.      *)
(***************************************************************************)
EXTENDS RulesEngine, Integers

CONSTANTS
    NaN,         \* the float that compares false with every other
    Unparsable,  \* a confidence on which float() raises
    NonDict,     \* an item of the reply that is not a JSON object
    Threshold    \* llm_confidence_threshold, on the integer scale

ASSUME ThresholdAssumption == Threshold \in Int
ASSUME NaNAssumption == NaN \notin Int

Confidences == Int \cup {NaN}

(* Python's a < b on floats. *)
Lt(a, b) == a \in Int /\ b \in Int /\ a < b

(* A reply of the model: an exception of ainvoke, a content that is not a  *)
(* string, a string that is not JSON (or is the JSON null), a JSON value   *)
(* that cannot be iterated over, or a list of items.                       *)
ReplyKinds == {"raises", "non_string", "unparsable", "not_iterable", "items"}
Item == [slug : STRING, confidence : Confidences \cup {Unparsable},
         reasoning : {"stated", "empty", "invalid"}]
Reply == [kind : ReplyKinds, items : Seq(Item \cup {NonDict})]

(* TagResult's validator rejects what is below 0.0 or above 1.0. *)
ValidConfidence(c) == ~Lt(c, 0) /\ ~Lt(MaxConf, c)

(* An empty reasoning gets a default text; a blank or non-string one makes *)
(* the constructor of TagResult raise, and the item is dropped.            *)
Reasoning(item) == IF item.reasoning = "empty" THEN "default" ELSE item.reasoning

(* A mutant: the slug is not looked up in the taxonomy. *)
MutAccepted(item, tags) ==
    /\ item # NonDict
    /\ item.confidence # Unparsable
    /\ ~Lt(item.confidence, Threshold)
    /\ ValidConfidence(item.confidence)
    /\ item.reasoning # "invalid"

Accepted(item, tags) ==
    /\ item # NonDict
    /\ item.confidence # Unparsable
    /\ item.slug \in tags
    /\ ~Lt(item.confidence, Threshold)
    /\ ValidConfidence(item.confidence)
    /\ item.reasoning # "invalid"

LLMResult(item) ==
    [tag |-> item.slug, confidence |-> item.confidence, source |-> "llm",
     reasoning |-> Reasoning(item)]

(* What run() returns for a reply: the accepted items in their order; the  *)
(* replies that carry no items give the empty list.                        *)
ResultsOf(reply, tags) ==
    {[k \in DOMAIN p |-> LLMResult(reply.items[p[k]])] :
        p \in Listings({i \in DOMAIN reply.items : Accepted(reply.items[i], tags)},
                       LAMBDA i, j : i < j)}
=============================================================================

---------------------------- MODULE MCRuleStore -----------------------------
(***************************************************************************)
(* Small instances of RuleStore: two editors of a rule of two conditions,  *)
(* every pair of requests.                                                 *)
(***************************************************************************)
EXTENDS RuleStore, TLC

CONSTANTS e1, e2

TwoEditors == (e1 :> {3} @@ e2 :> {4})
=============================================================================

------------------------ MODULE MCTaggingDuringEdits ------------------------
(***************************************************************************)
(* A small instance of TaggingDuringEdits: one request while two editors   *)
(* of a rule of one condition are at work, every pair of edits.            *)
(***************************************************************************)
EXTENDS TaggingDuringEdits, TLC

CONSTANTS e1, e2, q1

OneConditionEach == (e1 :> {2} @@ e2 :> {3})
=============================================================================

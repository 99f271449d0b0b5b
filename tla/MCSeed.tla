------------------------------- MODULE MCSeed -------------------------------
(***************************************************************************)
(* Small instances of Seed: two categories and a tag of the second, for    *)
(* two runs of the script over what was there before; a category, a tag    *)
(* and a rule for one run on empty tables.                                 *)
(***************************************************************************)
EXTENDS Seed

CONSTANTS r1, r2

TwoCategories ==
    <<[op |-> "category", slug |-> "parts"],
      [op |-> "category", slug |-> "rental"],
      [op |-> "tag", slug |-> "delay", parent |-> 2]>>

OneOfEach ==
    <<[op |-> "category", slug |-> "parts"],
      [op |-> "tag", slug |-> "delay", parent |-> 1],
      [op |-> "rule", parent |-> 2]>>

ThreeRequests == (Runs \cup {Past}) \X (1..3)
=============================================================================

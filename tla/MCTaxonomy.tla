----------------------------- MODULE MCTaxonomy -----------------------------
(***************************************************************************)
(* A small instance of Taxonomy: one category slug and one tag slug, every *)
(* mix of four requests.                                                   *)
(***************************************************************************)
EXTENDS Taxonomy, TLC

CONSTANTS q1, q2, q3, q4

Interchangeable == Permutations(Requests)
=============================================================================

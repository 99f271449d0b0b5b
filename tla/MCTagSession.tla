---------------------------- MODULE MCTagSession ----------------------------
(***************************************************************************)
(* A small instance of TagSession: one request while the rules of two      *)
(* tags are edited.                                                        *)
(***************************************************************************)
EXTENDS TagSession, TLC

CONSTANTS t1, t2, r1, r2, q1, c1, c2

TwoTagOf == (r1 :> t1 @@ r2 :> t2)
=============================================================================

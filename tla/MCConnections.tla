--------------------------- MODULE MCConnections ----------------------------
(***************************************************************************)
(* A small instance of Connections: more requests than the server admits.  *)
(***************************************************************************)
EXTENDS Connections

CONSTANTS q1, q2, q3
=============================================================================

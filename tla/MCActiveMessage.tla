--------------------------- MODULE MCActiveMessage ---------------------------
(* Model values for ActiveMessage. *)
EXTENDS ActiveMessage
CONSTANTS c1, m1, m2
==============================================================================

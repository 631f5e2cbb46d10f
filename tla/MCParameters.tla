--------------------------- MODULE MCParameters ---------------------------
(* A profile and the gain, two valid values and one unknown.               *)
EXTENDS Parameters
===========================================================================

--------------------------- MODULE MCNodeFactory --------------------------
(* Two cameras, as the model values of the configurations.                 *)
EXTENDS NodeFactory
===========================================================================

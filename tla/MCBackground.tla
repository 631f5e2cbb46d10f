--------------------------- MODULE MCBackground ---------------------------
(* Two goals, as model values, whose calibrations may overlap.             *)
EXTENDS Background
===========================================================================

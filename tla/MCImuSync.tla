---------------------------- MODULE MCImuSync -----------------------------
(* All constants are numbers and None.                                     *)
EXTENDS ImuSync
===========================================================================

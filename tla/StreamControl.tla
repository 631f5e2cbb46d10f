--------------------------- MODULE StreamControl ---------------------------
(***************************************************************************)
(* What updateSensors() promises about the streams of a device, without    *)
(* its threads: the parameters change at any time; the streams of a sensor *)
(* are only ever stopped together, and only ever started together, all of  *)
(* them stopped before, with the settings wanted at that moment.  A stream *)
(* never passes from one setting to another while it runs.                 *)
(***************************************************************************)
EXTENDS Naturals

CONSTANTS NumSensors, Stream, StreamsOf, Config, Off

VARIABLES want, active

Sensor == 1..NumSensors
Setting == Config \cup {Off}

Init ==
  /\ want \in [Stream -> Setting]
  /\ active = [s \in Stream |-> Off]

Change ==
  /\ want' \in [Stream -> Setting]
  /\ UNCHANGED active

Stop(i) ==
  /\ active' = [s \in Stream |-> IF s \in StreamsOf[i] THEN Off ELSE active[s]]
  /\ UNCHANGED want

Start(i) ==
  /\ \A s \in StreamsOf[i] : active[s] = Off
  /\ active' = [s \in Stream |-> IF s \in StreamsOf[i] THEN want[s] ELSE active[s]]
  /\ UNCHANGED want

Next ==
  \/ Change
  \/ \E i \in Sensor : Stop(i) \/ Start(i)

Spec == Init /\ [][Next]_<<want, active>>
===========================================================================

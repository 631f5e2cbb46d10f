---------------------------- MODULE Parameters ----------------------------
(***************************************************************************)
(* The class Parameters: what the parameter server shows of a parameter,   *)
(* and what the node uses of it.  Requests run the parameter's function    *)
(* inside rclcpp's on-set callback, which may not set a parameter itself:  *)
(* it queues an update for the thread of monitor_update_functions().  That *)
(* thread marks the parameter's name in self_set_parameters, so that the   *)
(* callback of its own set_parameter() leaves the function out.            *)
(*                                                                         *)
(* A parameter of Checked (a profile, a format, a rate, a quality of       *)
(* service) is set back to the value in use if its new value is unknown.   *)
(* Gain shows an option of the device, and is refreshed whenever another   *)
(* sequence id selects other options (the exposure is treated alike).      *)
(***************************************************************************)
EXTENDS Naturals, Sequences, SequencesExt

CONSTANTS
  Checked,      \* the parameters that are set back if their value is unknown
  Gain,         \* the parameter of the gain
  Valid,        \* the values the functions accept
  Unknown,      \* the values of the right type that they do not
  Mistyped,     \* a value of another type
  SequenceId,   \* the sequences of options of the device
  MaxRequests   \* bound: the requests made

Param == Checked \cup {Gain}
Value == Valid \cup Unknown \cup {Mistyped}

ASSUME ParamAssumption == IsFiniteSet(Checked) /\ Gain \notin Checked
ASSUME ValueAssumption ==
  Valid # {} /\ Valid \cap Unknown = {} /\ Mistyped \notin Valid \cup Unknown
ASSUME RequestAssumption == MaxRequests \in Nat

VARIABLES
  shown,        \* the parameter server
  used,         \* the value of each checked parameter the node uses
  gain, seq,    \* the device: the gain of each sequence, and the one selected
  update_functions,     \* the queue of deferred updates
  self_set_parameters,  \* the names marked
  updater,      \* where the update thread is
  value,        \* the value it is about to set
  is_running,
  overtaken,    \* history: the parameters last set while an update of theirs
                \* was pending, or by a request that failed as a whole
  requests

device == <<gain, seq>>
thread == <<updater, value>>
vars == <<shown, used, device, update_functions, self_set_parameters, thread,
          is_running, overtaken, requests>>

Used(p) == IF p = Gain THEN gain[seq] ELSE used[p]

Pending(p) == \E k \in DOMAIN update_functions : update_functions[k].param = p

\* The value is taken from the device when the update runs.
Refresh == [param |-> Gain, value |-> Mistyped]
Revert(p) == [param |-> p, value |-> used[p]]

---------------------------------------------------------------------------
Init ==
  /\ used \in [Checked -> Valid]
  /\ gain \in [SequenceId -> Valid] /\ seq \in SequenceId
  /\ shown = [p \in Param |-> Used(p)]
  /\ update_functions = <<>> /\ self_set_parameters = {}
  /\ updater = "wait" /\ value = Mistyped
  /\ is_running = TRUE
  /\ overtaken = {} /\ requests = 0

---------------------------------------------------------------------------
(* A request, b[p] for each p of its domain: the on-set callback and, if   *)
(* it is successful, the change of the parameter server.  rclcpp runs both *)
(* under one mutex.                                                        *)

\* A marked name loses its mark and its function is not called.
Called(b) == DOMAIN b \ self_set_parameters
\* get_value<T> throws, in the function of the parameter, which is caught: the
\* result is not successful, the other functions are called nevertheless.
Failed(b) == \E p \in Called(b) : b[p] = Mistyped
\* Variant: an unknown value is used.
AcceptedAny(b) == {p \in Called(b) : b[p] # Mistyped}
Accepted(b) == {p \in Called(b) : b[p] \in Valid}
\* Variant: an unknown value is reported, not set back.
RevertsNot(b) == <<>>
\* The names of unknown values are queued with the value in use.
Reverts(b) == SetToSeq({Revert(p) : p \in {q \in Called(b) : b[q] \in Unknown}})

SetParameters(b) ==
  /\ is_running /\ requests < MaxRequests
  /\ used' = [p \in Checked |-> IF p \in Accepted(b) THEN b[p] ELSE used[p]]
  /\ gain' = IF Gain \in Accepted(b) THEN [gain EXCEPT ![seq] = b[Gain]] ELSE gain
  /\ update_functions' = update_functions \o Reverts(b)
  /\ self_set_parameters' = self_set_parameters \ DOMAIN b
  /\ shown' = IF Failed(b) THEN shown
              ELSE [p \in Param |-> IF p \in DOMAIN b THEN b[p] ELSE shown[p]]
  /\ overtaken' = {p \in Param : IF p \in DOMAIN b THEN Failed(b) \/ Pending(p)
                                                    ELSE p \in overtaken}
  /\ requests' = requests + 1
  /\ UNCHANGED <<seq, thread, is_running>>

\* The sequence id is set: the device selects other options, and the parameter
\* that shows them is to be refreshed.
SetSequenceId(i) ==
  /\ is_running /\ requests < MaxRequests
  /\ seq' = i
  /\ update_functions' = Append(update_functions, Refresh)
  /\ overtaken' = overtaken \ {Gain}
  /\ requests' = requests + 1
  /\ UNCHANGED <<shown, used, gain, self_set_parameters, thread, is_running>>

---------------------------------------------------------------------------
(* The update thread.                                                      *)

\* wait_for returns: notified, or after a second.
Wakes ==
  /\ updater = "wait" /\ (update_functions # <<>> \/ ~is_running)
  /\ updater' = "run"
  /\ UNCHANGED <<shown, used, device, update_functions, self_set_parameters,
                 value, is_running, overtaken, requests>>

\* The function at the front begins: a refresh reads the option now.
TakeUpdate ==
  /\ updater = "run" /\ update_functions # <<>>
  /\ value' = IF Head(update_functions) = Refresh THEN gain[seq]
              ELSE Head(update_functions).value
  /\ updater' = "taken"
  /\ UNCHANGED <<shown, used, device, update_functions, self_set_parameters,
                 is_running, overtaken, requests>>

\* setRosParamValue marks the name,
Mark ==
  /\ updater = "taken"
  /\ self_set_parameters' = self_set_parameters \cup {Head(update_functions).param}
  /\ updater' = "marked"
  /\ UNCHANGED <<shown, used, device, update_functions, value, is_running,
                 overtaken, requests>>

\* Variant: the callback does not take the mark away.
SelfSetMarkStays ==
  /\ updater = "marked"
  /\ LET p == Head(update_functions).param
         called == p \notin self_set_parameters
     IN  /\ shown' = [shown EXCEPT ![p] = value]
         /\ used' = IF called /\ p \in Checked THEN [used EXCEPT ![p] = value]
                    ELSE used
         /\ gain' = IF called /\ p = Gain THEN [gain EXCEPT ![seq] = value]
                    ELSE gain
  /\ update_functions' = Tail(update_functions)
  /\ updater' = "run"
  /\ UNCHANGED <<seq, self_set_parameters, value, is_running, overtaken, requests>>

\* and sets the parameter: the callback takes the mark away and calls no
\* function, unless a request took it first.
SelfSet ==
  /\ updater = "marked"
  /\ LET p == Head(update_functions).param
         called == p \notin self_set_parameters
     IN  /\ self_set_parameters' = self_set_parameters \ {p}
         /\ shown' = [shown EXCEPT ![p] = value]
         /\ used' = IF called /\ p \in Checked THEN [used EXCEPT ![p] = value]
                    ELSE used
         /\ gain' = IF called /\ p = Gain THEN [gain EXCEPT ![seq] = value]
                    ELSE gain
  /\ update_functions' = Tail(update_functions)
  /\ updater' = "run"
  /\ UNCHANGED <<seq, value, is_running, overtaken, requests>>

\* A request that took the mark also changed the type of the parameter: the
\* value is read as that type, the function throws, and pop_back() finds an
\* empty list.  What happens then is undefined: the process may end.
SelfSetUndefined ==
  /\ updater = "marked"
  /\ LET p == Head(update_functions).param
     IN  p \notin self_set_parameters /\ shown[p] = Mistyped
  /\ updater' = "crashed"
  /\ UNCHANGED <<shown, used, device, update_functions, self_set_parameters,
                 value, is_running, overtaken, requests>>

\* Nothing is left to do: wait again, or end if the destructor asked for it.
Rests ==
  /\ updater = "run" /\ update_functions = <<>>
  /\ updater' = IF is_running THEN "wait" ELSE "done"
  /\ UNCHANGED <<shown, used, device, update_functions, self_set_parameters,
                 value, is_running, overtaken, requests>>

\* ~Parameters, which then joins the thread: no notification is sent.
Destroy ==
  /\ is_running /\ is_running' = FALSE
  /\ UNCHANGED <<shown, used, device, update_functions, self_set_parameters,
                 thread, overtaken, requests>>

---------------------------------------------------------------------------
\* The range of an option is checked by rclcpp, which refuses the request.
Allowed(b) == Gain \in DOMAIN b => b[Gain] \notin Unknown

Request ==
  /\ updater # "crashed"
  /\ \/ \E S \in SUBSET Param : \E b \in [S -> Value] :
          S # {} /\ Allowed(b) /\ SetParameters(b)
     \/ \E i \in SequenceId : SetSequenceId(i)
     \/ Destroy

Update == Wakes \/ TakeUpdate \/ Mark \/ SelfSet \/ SelfSetUndefined \/ Rests

Next == Request \/ Update

\* The update thread runs whenever it can: its waits end within a second.
Spec == Init /\ [][Next]_vars /\ WF_vars(Update)

---------------------------------------------------------------------------
(* Properties.                                                             *)

TypeOK ==
  /\ shown \in [Param -> Value] /\ used \in [Checked -> Valid]
  /\ gain \in [SequenceId -> Valid] /\ seq \in SequenceId
  /\ \A k \in DOMAIN update_functions :
       update_functions[k] \in [param : Checked, value : Valid] \cup {Refresh}
  /\ self_set_parameters \subseteq Param
  /\ updater \in {"wait", "run", "taken", "marked", "crashed", "done"}
  /\ value \in Valid \cup {Mistyped}
  /\ is_running \in BOOLEAN /\ overtaken \subseteq Param
  /\ requests \in 0..MaxRequests

AtRest == updater = "wait" /\ update_functions = <<>> /\ is_running

\* At rest the server shows what the node uses, however requests and updates of
\* the node's own interleave: no mark is left behind to swallow a request, no
\* refresh shows a stale option.  (Not if the parameter was last set while an
\* update of it was pending, which overwrites a valid value too, or by a request
\* that failed as a whole after some of its functions had been called.)
ShownUnlessOvertaken ==
  AtRest => \A p \in Param \ overtaken : shown[p] = Used(p)

\* An unknown value is set back, unless the node ends.
Reverted ==
  \A p \in Checked :
    shown[p] \in Unknown ~>
      (shown[p] \notin Unknown \/ ~is_running \/ updater = "crashed")
===========================================================================

---------------------------- MODULE Background ----------------------------
(***************************************************************************)
(* The threads a node has beside the monitor and the sensors' callbacks:   *)
(* the thread that broadcasts dynamic transforms, and one thread for each  *)
(* goal of the action triggered_calibration.  The executor starts them,    *)
(* and waits for the first one in the callback of tf_publish_rate; the     *)
(* factory's thread destroys the node, and waits for the first one too.    *)
(* Nothing waits for the calibration threads, which are detached.          *)
(*                                                                         *)
(* Where the code leaves what happens undefined (a thread joined twice, a  *)
(* member used after the destructor), or std::terminate is called, the     *)
(* process may crash.  librealsense ends a calibration after two minutes   *)
(* at the latest; its progress grows up to Full, which is 100.             *)
(***************************************************************************)
EXTENDS Integers, FiniteSets

CONSTANTS
  Goal,          \* the goals clients send
  Full,          \* the progress of a complete calibration
  MaxChanges     \* bound: the times tf_publish_rate is set

ASSUME BoundAssumption == Full \in Nat \ {0} /\ MaxChanges \in Nat

VARIABLES
  _publish_tf, _tf_publish_rate,
  _tf_t,           \* "none", "joinable", or "joined" by the destructor
  tf,              \* where the thread of the transforms is
  executor,        \* "free", or "join" in startDynamicTf
  owner,           \* where the destructor is
  ok,              \* rclcpp::ok
  goal,            \* the state of each goal, as rclcpp_action keeps it
  calibration,     \* where the thread of each goal is
  progress,        \* what librealsense last reported to each
  _progress,       \* what was last published for each
  cancelled,       \* the goals whose calibration was aborted
  crashed,
  changes

transforms == <<_publish_tf, _tf_publish_rate, _tf_t, tf>>
calibrations == <<goal, calibration, progress, _progress, cancelled>>
vars == <<transforms, executor, owner, ok, calibrations, crashed, changes>>

Terminal == {"succeeded", "canceled", "aborted"}
_is_running == owner = "alive"

Init ==
  /\ _publish_tf \in BOOLEAN /\ _tf_publish_rate = 0
  /\ _tf_t = "none" /\ tf = "none"
  /\ executor = "free" /\ owner = "alive" /\ ok = TRUE
  /\ goal = [g \in Goal |-> "unknown"]
  /\ calibration = [g \in Goal |-> "none"]
  /\ progress = [g \in Goal |-> 0] /\ _progress = [g \in Goal |-> 0]
  /\ cancelled = {}
  /\ crashed = FALSE /\ changes = 0

---------------------------------------------------------------------------
(* The dynamic transforms.                                                 *)

\* The executor runs callbacks until the process shuts down, those of the
\* node until its parameters and its action server are gone.
Free == executor = "free" /\ ok /\ owner # "gone" /\ ~crashed

\* Variant: with the rate 0 the thread is left to end by itself.
SetRateLeaves(rate) ==
  /\ Free /\ changes < MaxChanges /\ changes' = changes + 1
  /\ _tf_publish_rate' = rate
  /\ IF _publish_tf /\ rate > 0 /\ _tf_t = "none"
     THEN _tf_t' = "joinable" /\ tf' = "loop" ELSE UNCHANGED <<_tf_t, tf>>
  /\ UNCHANGED <<_publish_tf, executor, owner, ok, calibrations, crashed>>

\* tf_publish_rate is set, to 0 or to a rate; a negative one is like 0.
SetRate(rate) ==
  /\ Free /\ changes < MaxChanges /\ changes' = changes + 1
  /\ _tf_publish_rate' = rate
  /\ IF _publish_tf /\ rate > 0 /\ _tf_t = "none"
     THEN _tf_t' = "joinable" /\ tf' = "loop" ELSE UNCHANGED <<_tf_t, tf>>
  /\ executor' = IF _publish_tf /\ rate = 0 /\ _tf_t = "joinable" THEN "join"
                 ELSE "free"
  /\ UNCHANGED <<_publish_tf, owner, ok, calibrations, crashed>>

\* The end of startDynamicTf: the thread is joined and reset.
StopDynamicTf ==
  /\ executor = "join" /\ tf = "ended" /\ owner = "alive" /\ ~crashed
  /\ executor' = "free" /\ _tf_t' = "none" /\ tf' = "none"
  /\ UNCHANGED <<_publish_tf, _tf_publish_rate, owner, ok, calibrations,
                 crashed, changes>>

\* Variant: the rate is not looked at again.
LoopingWhileRunning == ok /\ _is_running

\* publishDynamicTransforms: the condition of the loop, wait_for - which ends
\* after a period, when it is notified, or at once if the loop is to end - and
\* the broadcast that follows in any case.
Looping == ok /\ _is_running /\ _tf_publish_rate > 0

TfLoop ==
  /\ tf = "loop" /\ ~crashed
  /\ tf' = IF Looping THEN "wait" ELSE "ended"
  /\ UNCHANGED <<_publish_tf, _tf_publish_rate, _tf_t, executor, owner, ok,
                 calibrations, crashed, changes>>

TfWakes ==
  /\ tf = "wait" /\ ~crashed /\ tf' = "send"
  /\ UNCHANGED <<_publish_tf, _tf_publish_rate, _tf_t, executor, owner, ok,
                 calibrations, crashed, changes>>

TfSends ==
  /\ tf = "send" /\ ~crashed /\ tf' = "loop"
  /\ UNCHANGED <<_publish_tf, _tf_publish_rate, _tf_t, executor, owner, ok,
                 calibrations, crashed, changes>>

---------------------------------------------------------------------------
(* The destructor, and the end of the process.                             *)

\* ~BaseRealSenseNode.
Destroy ==
  /\ owner = "alive" /\ ~crashed
  /\ owner' = IF _tf_t = "joinable" THEN "join" ELSE "joined"
  /\ UNCHANGED <<transforms, executor, ok, calibrations, crashed, changes>>

\* Variant: the thread is not waited for.
OwnerDetaches ==
  /\ owner = "join" /\ ~crashed
  /\ owner' = "joined" /\ _tf_t' = "joined"
  /\ UNCHANGED <<_publish_tf, _tf_publish_rate, tf, executor, ok, calibrations,
                 crashed, changes>>

OwnerJoins ==
  /\ owner = "join" /\ tf = "ended" /\ ~crashed
  /\ owner' = "joined" /\ _tf_t' = "joined"
  /\ UNCHANGED <<_publish_tf, _tf_publish_rate, tf, executor, ok, calibrations,
                 crashed, changes>>

\* The executor and the destructor join one thread: undefined.  The executor's
\* join may throw, which the parameters' callback catches.
JoinedTwice ==
  /\ executor = "join" /\ owner # "alive" /\ ~crashed
  /\ \/ crashed' = TRUE /\ UNCHANGED executor
     \/ executor' = "free" /\ UNCHANGED crashed
  /\ UNCHANGED <<transforms, owner, ok, calibrations, changes>>

\* The members are destroyed.  A thread that the executor started when the
\* destructor had found none to join is joinable: std::terminate.
Gone ==
  /\ owner = "joined" /\ executor = "free" /\ ~crashed
  /\ owner' = "gone"
  /\ crashed' = (_tf_t = "joinable")
  /\ UNCHANGED <<transforms, executor, ok, calibrations, changes>>

Shutdown ==
  /\ ok /\ ok' = FALSE
  /\ UNCHANGED <<transforms, executor, owner, calibrations, crashed, changes>>

---------------------------------------------------------------------------
(* The calibrations.                                                       *)

\* Every goal is accepted and executed, also while others are.
HandleAccepted(g) ==
  /\ Free /\ goal[g] = "unknown"
  /\ goal' = [goal EXCEPT ![g] = "executing"]
  /\ calibration' = [calibration EXCEPT ![g] = "run"]
  /\ UNCHANGED <<transforms, executor, owner, ok, progress, _progress, cancelled,
                 crashed, changes>>

\* Every request to cancel is accepted.
HandleCancel(g) ==
  /\ Free /\ goal[g] = "executing"
  /\ goal' = [goal EXCEPT ![g] = "canceling"]
  /\ UNCHANGED <<transforms, executor, owner, ok, calibration, progress,
                 _progress, cancelled, crashed, changes>>

\* The thread of g uses the node, which may not be there any more.
Step(g, from) == calibration[g] = from /\ ~crashed

\* progress_callback: the first one of a goal that is canceling aborts the
\* calibration, the others of it do nothing; else p is to be published.
progress_callback(g, p) ==
  /\ Step(g, "run") /\ progress[g] < p
  /\ progress' = [progress EXCEPT ![g] = p]
  /\ calibration' = [calibration EXCEPT ![g] =
       CASE goal[g] # "canceling" -> "publish"
         [] goal[g] = "canceling" /\ g \notin cancelled -> "abort"
         [] OTHER -> "run"]
  /\ UNCHANGED <<transforms, executor, owner, ok, goal, _progress, cancelled,
                 crashed, changes>>

publish_feedback(g) ==
  /\ Step(g, "publish")
  /\ _progress' = [_progress EXCEPT ![g] = progress[g]]
  /\ calibration' = [calibration EXCEPT ![g] = "run"]
  /\ UNCHANGED <<transforms, executor, owner, ok, goal, progress, cancelled,
                 crashed, changes>>

\* "calib abort" returns, or throws out of the calibration.
AbortCalibration(g) ==
  /\ Step(g, "abort")
  /\ \/ /\ cancelled' = cancelled \cup {g}
        /\ calibration' = [calibration EXCEPT ![g] = "run"]
     \/ /\ calibration' = [calibration EXCEPT ![g] = "failed"]
        /\ UNCHANGED cancelled
  /\ UNCHANGED <<transforms, executor, owner, ok, goal, progress, _progress,
                 crashed, changes>>

\* run_on_chip_calibration returns, complete or not, or throws.
CalibrationEnds(g) ==
  /\ Step(g, "run")
  /\ \E end \in {"returned", "failed"} :
       calibration' = [calibration EXCEPT ![g] = end]
  /\ UNCHANGED <<transforms, executor, owner, ok, goal, progress, _progress,
                 cancelled, crashed, changes>>

\* Variant: a calibration that did not complete is always reported canceled.
ResultCanceled(g) ==
  /\ Step(g, "returned")
  /\ \/ /\ ok /\ _progress[g] = Full
        /\ goal' = [goal EXCEPT ![g] = "succeeded"]
        /\ calibration' = [calibration EXCEPT ![g] = "done"]
     \/ /\ ~(ok /\ _progress[g] = Full)
        /\ goal' = [goal EXCEPT ![g] = "canceled"]
        /\ calibration' = [calibration EXCEPT ![g] = "done"]
  /\ UNCHANGED <<transforms, executor, owner, ok, progress, _progress,
                 cancelled, crashed, changes>>

\* Succeeds if complete, also when canceling.  Else it is canceled: rclcpp_action
\* refuses that unless it is canceling, and the exception is caught.
Result(g) ==
  /\ Step(g, "returned")
  /\ \/ /\ ok /\ _progress[g] = Full
        /\ goal' = [goal EXCEPT ![g] = "succeeded"]
        /\ calibration' = [calibration EXCEPT ![g] = "done"]
     \/ /\ ~(ok /\ _progress[g] = Full)
        /\ goal[g] = "canceling"
        /\ goal' = [goal EXCEPT ![g] = "canceled"]
        /\ calibration' = [calibration EXCEPT ![g] = "done"]
     \/ /\ ~(ok /\ _progress[g] = Full)
        /\ goal[g] = "executing"
        /\ calibration' = [calibration EXCEPT ![g] = "failed"]
        /\ UNCHANGED goal
  /\ UNCHANGED <<transforms, executor, owner, ok, progress, _progress,
                 cancelled, crashed, changes>>

\* Variant: the exception ends the thread.
AbortForgotten(g) ==
  /\ Step(g, "failed")
  /\ calibration' = [calibration EXCEPT ![g] = "done"]
  /\ UNCHANGED <<transforms, executor, owner, ok, goal, progress, _progress,
                 cancelled, crashed, changes>>

\* The exception is caught: the goal is aborted.
Abort(g) ==
  /\ Step(g, "failed")
  /\ goal' = [goal EXCEPT ![g] = "aborted"]
  /\ calibration' = [calibration EXCEPT ![g] = "done"]
  /\ UNCHANGED <<transforms, executor, owner, ok, progress, _progress, cancelled,
                 crashed, changes>>

\* A thread uses the node after its destructor.
UseAfterDestroy(g) ==
  /\ owner = "gone" /\ calibration[g] \notin {"none", "done"} /\ ~crashed
  /\ crashed' = TRUE
  /\ UNCHANGED <<transforms, executor, owner, ok, calibrations, changes>>

Thread(g) ==
  \/ \E p \in 1..Full : progress_callback(g, p)
  \/ publish_feedback(g) \/ AbortCalibration(g) \/ CalibrationEnds(g)
  \/ Result(g) \/ Abort(g)

TfThread == TfLoop \/ TfWakes \/ TfSends

Next ==
  \/ \E rate \in 0..1 : SetRate(rate)
  \/ StopDynamicTf \/ JoinedTwice \/ TfThread
  \/ Destroy \/ OwnerJoins \/ Gone \/ Shutdown
  \/ \E g \in Goal : \/ HandleAccepted(g) \/ HandleCancel(g) \/ Thread(g)
                     \/ UseAfterDestroy(g)

\* Every thread that can go on does; so do a calibration, which librealsense ends
\* after a timeout, and wait_for, which ends after a period.
Fairness ==
  /\ WF_vars(TfThread) /\ WF_vars(StopDynamicTf) /\ WF_vars(JoinedTwice)
  /\ WF_vars(OwnerJoins) /\ WF_vars(Gone)
  /\ \A g \in Goal : WF_vars(Thread(g))

Spec == Init /\ [][Next]_vars /\ Fairness

---------------------------------------------------------------------------
(* Properties.                                                             *)

TypeOK ==
  /\ _publish_tf \in BOOLEAN /\ _tf_publish_rate \in Nat
  /\ _tf_t \in {"none", "joinable", "joined"}
  /\ tf \in {"none", "loop", "wait", "send", "ended"}
  /\ executor \in {"free", "join"}
  /\ owner \in {"alive", "join", "joined", "gone"}
  /\ goal \in [Goal -> {"unknown", "executing", "canceling"} \cup Terminal]
  /\ calibration \in [Goal -> {"none", "run", "publish", "abort", "returned",
                               "failed", "done"}]
  /\ progress \in [Goal -> 0..Full] /\ _progress \in [Goal -> 0..Full]
  /\ \A g \in Goal : _progress[g] <= progress[g]
  /\ cancelled \subseteq Goal
  /\ \A g \in Goal : goal[g] \in Terminal <=> calibration[g] = "done"
  /\ ok \in BOOLEAN /\ crashed \in BOOLEAN /\ changes \in 0..MaxChanges

\* README.md:464-465: the transforms are broadcast, by one thread, while the
\* rate is positive and publish_tf is set, and are not otherwise, once the
\* callback of the rate is done.
DynamicTfAtRest ==
  executor = "free" /\ owner = "alive" /\ ok =>
    /\ tf \in {"loop", "wait", "send"} <=> _publish_tf /\ _tf_publish_rate > 0
    /\ _tf_t = IF tf = "none" THEN "none" ELSE "joinable"

\* base_realsense_node.cpp:145, "Kill dynamic transform thread": when the
\* destructor goes on to the next threads no transform is sent any more, and a
\* thread that the executor starts meanwhile comes to its end first.
SilentAfterJoin ==
  owner \in {"joined", "gone"} => tf \notin {"wait", "send"}

\* A goal whose calibration was aborted for its client never succeeds, and one
\* that nobody asked to cancel is never reported canceled.
CancelHonoured ==
  [][\A g \in Goal : goal'[g] # goal[g] =>
       /\ goal'[g] = "succeeded" => g \notin cancelled
       /\ goal'[g] = "canceled" => goal[g] = "canceling"]_vars

\* Nothing waits for ever, unless the process ends first.  The executor is not
\* held by a rate of 0 (startDynamicTf joins the thread without notifying it),
\* nor the factory by the destructor, which does not take the mutex to notify
\* it; and every goal that was accepted is answered, whatever happens to its
\* calibration.
WaitsEnd ==
  /\ executor = "join" ~> executor = "free" \/ crashed
  /\ owner # "alive" ~> owner = "gone" \/ crashed
  /\ \A g \in Goal : goal[g] # "unknown" ~> goal[g] \in Terminal \/ crashed
===========================================================================

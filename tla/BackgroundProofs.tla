------------------------- MODULE BackgroundProofs -------------------------
(***************************************************************************)
(* Theorems about Background for any goals, any progress that is complete  *)
(* and any number of changes of the rate.                                  *)
(***************************************************************************)
EXTENDS Background, TLAPS

\* The thread of the transforms, in each place of the executor and the destructor.
ThreadInv ==
  /\ owner = "alive" =>
       /\ _tf_t = IF tf = "none" THEN "none" ELSE "joinable"
       /\ executor = "join" => _tf_t = "joinable" /\ _tf_publish_rate = 0
  /\ owner = "alive" /\ ok /\ executor = "free" =>
       IF _publish_tf /\ _tf_publish_rate > 0 THEN tf \in {"loop", "wait", "send"}
       ELSE tf = "none"
  /\ SilentAfterJoin

\* A calibration that was aborted has published less than was reported.
CancelInv == \A g \in Goal :
  /\ calibration[g] = "abort" =>
       goal[g] = "canceling" /\ _progress[g] < progress[g]
  /\ g \in cancelled =>
       /\ goal[g] \in {"canceling"} \cup Terminal
       /\ calibration[g] # "publish" /\ _progress[g] < Full

Inv == TypeOK /\ ThreadInv /\ CancelInv

---------------------------------------------------------------------------
\* The node begins with the invariant.
LEMMA InitInv == Init => Inv
<1> SUFFICES ASSUME Init PROVE Inv
  OBVIOUS
<1>1. TypeOK
  <2>1. /\ goal = [g \in Goal |-> "unknown"]
        /\ calibration = [g \in Goal |-> "none"]
        /\ progress = [g \in Goal |-> 0] /\ _progress = [g \in Goal |-> 0]
        /\ 0 \in 0..Full /\ changes \in 0..MaxChanges
    BY BoundAssumption DEF Init
  <2>2. /\ _publish_tf \in BOOLEAN /\ ok \in BOOLEAN /\ crashed \in BOOLEAN
    BY Zenon DEF Init
  <2>3. QED BY <2>1, <2>2 DEF Init, TypeOK, Terminal
<1>2. ThreadInv
  BY DEF Init, ThreadInv, SilentAfterJoin
<1>3. CancelInv
  BY DEF Init, CancelInv
<1>4. QED BY <1>1, <1>2, <1>3 DEF Inv

\* The steps that concern the transforms.
TransformStep ==
  \/ \E rate \in 0..1 : SetRate(rate)
  \/ StopDynamicTf \/ JoinedTwice \/ TfThread
  \/ Destroy \/ OwnerJoins \/ Gone \/ Shutdown

\* The steps that concern the calibration of a goal.
GoalStep(g) == HandleAccepted(g) \/ HandleCancel(g) \/ Thread(g) \/ UseAfterDestroy(g)

\* They keep the types,
LEMMA TransformType == TypeOK /\ TransformStep => TypeOK'
<1> SUFFICES ASSUME TypeOK, TransformStep PROVE TypeOK'
  OBVIOUS
<1> USE DEF transforms, calibrations
<1>1. ASSUME NEW rate \in 0..1, SetRate(rate) PROVE TypeOK'
  BY <1>1, BoundAssumption DEF SetRate, TypeOK
<1>2. ASSUME StopDynamicTf \/ JoinedTwice \/ Gone \/ Shutdown PROVE TypeOK'
  BY <1>2 DEF StopDynamicTf, JoinedTwice, Gone, Shutdown, TypeOK
<1>3. ASSUME TfThread PROVE TypeOK'
  BY <1>3 DEF TfThread, TfLoop, TfWakes, TfSends, TypeOK
<1>4. ASSUME Destroy \/ OwnerJoins PROVE TypeOK'
  BY <1>4 DEF Destroy, OwnerJoins, TypeOK
<1>5. QED BY <1>1, <1>2, <1>3, <1>4 DEF TransformStep

LEMMA GoalType == ASSUME TypeOK, NEW g \in Goal, GoalStep(g) PROVE TypeOK'
<1> USE DEF transforms, calibrations
<1>1. CASE HandleAccepted(g) \/ HandleCancel(g)
  BY <1>1 DEF HandleAccepted, HandleCancel, TypeOK, Terminal
<1>2. ASSUME NEW p \in 1..Full, progress_callback(g, p) PROVE TypeOK'
  BY <1>2, BoundAssumption DEF progress_callback, Step, TypeOK, Terminal
<1>3. CASE publish_feedback(g)
  BY <1>3, BoundAssumption DEF publish_feedback, Step, TypeOK, Terminal
<1>4. CASE AbortCalibration(g) \/ CalibrationEnds(g)
  BY <1>4 DEF AbortCalibration, CalibrationEnds, Step, TypeOK, Terminal
<1>5. CASE Result(g)
  BY <1>5 DEF Result, Step, TypeOK, Terminal
<1>6. CASE Abort(g)
  BY <1>6 DEF Abort, Step, TypeOK, Terminal
<1>7. CASE UseAfterDestroy(g)
  BY <1>7 DEF UseAfterDestroy, TypeOK
<1>8. QED BY <1>1, <1>2, <1>3, <1>4, <1>5, <1>6, <1>7 DEF GoalStep, Thread

\* and the invariants of the thread,
LEMMA TransformThread == TypeOK /\ ThreadInv /\ TransformStep => ThreadInv'
<1> SUFFICES ASSUME TypeOK, ThreadInv, TransformStep PROVE ThreadInv'
  OBVIOUS
<1> USE DEF transforms, calibrations, ThreadInv, SilentAfterJoin
<1>1. ASSUME NEW rate \in 0..1, SetRate(rate) PROVE ThreadInv'
  BY <1>1 DEF SetRate, TypeOK, Free
<1>2. ASSUME StopDynamicTf PROVE ThreadInv'
  BY <1>2 DEF StopDynamicTf, TypeOK
<1>3. ASSUME TfThread PROVE ThreadInv'
  <2>1. CASE TfLoop
    BY <2>1 DEF TfLoop, Looping, _is_running, TypeOK
  <2>2. CASE TfWakes
    BY <2>2 DEF TfWakes, TypeOK
  <2>3. CASE TfSends
    BY <2>3 DEF TfSends, TypeOK
  <2>4. QED BY <1>3, <2>1, <2>2, <2>3 DEF TfThread
<1>4. ASSUME Destroy \/ OwnerJoins PROVE ThreadInv'
  <2>1. CASE Destroy
    BY <2>1 DEF Destroy, TypeOK
  <2>2. CASE OwnerJoins
    BY <2>2 DEF OwnerJoins, TypeOK
  <2>3. QED BY <1>4, <2>1, <2>2
<1>5. ASSUME JoinedTwice \/ Gone \/ Shutdown PROVE ThreadInv'
  <2>1. CASE JoinedTwice
    BY <2>1 DEF JoinedTwice, TypeOK
  <2>2. CASE Gone
    BY <2>2 DEF Gone, TypeOK
  <2>3. CASE Shutdown
    BY <2>3 DEF Shutdown, TypeOK
  <2>4. QED BY <1>5, <2>1, <2>2, <2>3
<1>6. QED BY <1>1, <1>2, <1>3, <1>4, <1>5 DEF TransformStep

\* and of the cancellation.
LEMMA GoalCancel ==
  ASSUME TypeOK, CancelInv, NEW g \in Goal, GoalStep(g)
  PROVE  CancelInv'
<1> USE DEF transforms, calibrations
<1> DEFINE Holds(h) ==
      /\ calibration[h] = "abort" =>
           goal[h] = "canceling" /\ _progress[h] < progress[h]
      /\ h \in cancelled =>
           /\ goal[h] \in {"canceling"} \cup Terminal
           /\ calibration[h] # "publish" /\ _progress[h] < Full
<1>1. ASSUME NEW h \in Goal \ {g} PROVE Holds(h)'
  <2>1. /\ goal'[h] = goal[h] /\ calibration'[h] = calibration[h]
        /\ progress'[h] = progress[h] /\ _progress'[h] = _progress[h]
        /\ h \in cancelled' => h \in cancelled
    BY DEF GoalStep, Thread, HandleAccepted, HandleCancel, progress_callback,
       publish_feedback, AbortCalibration, CalibrationEnds, Result, Abort,
       UseAfterDestroy, TypeOK
  <2>2. QED BY <2>1 DEF CancelInv
<1>2. Holds(g)'
  <2>1. Holds(g)
    BY DEF CancelInv
  <2>2. CASE HandleAccepted(g) \/ HandleCancel(g)
    BY <2>1, <2>2 DEF HandleAccepted, HandleCancel, TypeOK, Terminal
  <2>3. ASSUME NEW p \in 1..Full, progress_callback(g, p) PROVE Holds(g)'
    BY <2>1, <2>3, BoundAssumption DEF progress_callback, Step, TypeOK, Terminal
  <2>4. CASE publish_feedback(g)
    BY <2>1, <2>4 DEF publish_feedback, Step, TypeOK
  <2>5. CASE AbortCalibration(g)
    BY <2>1, <2>5, BoundAssumption DEF AbortCalibration, Step, TypeOK
  <2>6. CASE CalibrationEnds(g) \/ UseAfterDestroy(g)
    BY <2>1, <2>6 DEF CalibrationEnds, UseAfterDestroy, Step, TypeOK
  <2>7. CASE Result(g) \/ Abort(g)
    BY <2>1, <2>7 DEF Result, Abort, Step, TypeOK, Terminal
  <2>8. QED
    BY <2>2, <2>3, <2>4, <2>5, <2>6, <2>7 DEF GoalStep, Thread
<1>3. QED BY <1>1, <1>2 DEF CancelInv

\* Every step keeps the invariant.
LEMMA NextInv == Inv /\ [Next]_vars => Inv'
<1> SUFFICES ASSUME Inv, [Next]_vars PROVE Inv'
  OBVIOUS
<1> USE DEF transforms, calibrations
<1>1. CASE TransformStep
  <2>1. UNCHANGED calibrations
    BY <1>1 DEF TransformStep, SetRate, StopDynamicTf, JoinedTwice, TfThread, TfLoop,
       TfWakes, TfSends, Destroy, OwnerJoins, Gone, Shutdown
  <2>2. CancelInv'
    BY <2>1 DEF Inv, CancelInv
  <2>3. QED BY <1>1, <2>2, TransformType, TransformThread DEF Inv
<1>2. ASSUME NEW g \in Goal, GoalStep(g) PROVE Inv'
  <2>1. UNCHANGED <<transforms, executor, owner, ok>>
    BY <1>2 DEF GoalStep, Thread, HandleAccepted, HandleCancel, progress_callback,
       publish_feedback, AbortCalibration, CalibrationEnds, Result, Abort,
       UseAfterDestroy
  <2>2. ThreadInv'
    BY <2>1 DEF Inv, ThreadInv, SilentAfterJoin
  <2>3. QED BY <1>2, <2>2, GoalType, GoalCancel DEF Inv
<1>3. CASE UNCHANGED vars
  BY <1>3 DEF vars, Inv, TypeOK, ThreadInv, SilentAfterJoin, CancelInv
<1>4. QED BY <1>1, <1>2, <1>3 DEF Next, TransformStep, GoalStep

LEMMA Invariance == Spec => []Inv
  BY InitInv, NextInv, PTL DEF Spec

---------------------------------------------------------------------------
\* Every variable keeps its type, and the state of a goal fits its thread: it is
\* answered exactly when its thread is done.
THEOREM TypeCorrect == Spec => []TypeOK
<1>1. Inv => TypeOK
  BY DEF Inv
<1>2. QED BY <1>1, Invariance, PTL

\* When the callback of the rate is done, exactly one thread broadcasts while the
\* rate is positive, and none otherwise.
THEOREM TransformsFollowRate == Spec => []DynamicTfAtRest
<1>1. Inv => DynamicTfAtRest
  BY DEF Inv, ThreadInv, DynamicTfAtRest
<1>2. QED BY <1>1, Invariance, PTL

\* No transform is sent after the destructor has joined its thread, even by a
\* thread the executor starts meanwhile.
THEOREM DestructorSilences == Spec => []SilentAfterJoin
<1>1. Inv => SilentAfterJoin
  BY DEF Inv, ThreadInv
<1>2. QED BY <1>1, Invariance, PTL

\* No goal whose calibration was aborted for its client succeeds, and none is
\* reported canceled that nobody asked to cancel: the progress published of an
\* aborted calibration never is the complete one.
THEOREM CancelsAreHonoured == Spec => CancelHonoured
<1> DEFINE Honoured(g) ==
      goal'[g] # goal[g] =>
        /\ goal'[g] = "succeeded" => g \notin cancelled
        /\ goal'[g] = "canceled" => goal[g] = "canceling"
<1>1. ASSUME Inv, NEW h \in Goal, GoalStep(h), NEW g \in Goal PROVE Honoured(g)
  BY <1>1 DEF Inv, CancelInv, TypeOK, GoalStep, Thread, HandleAccepted, HandleCancel,
     progress_callback, publish_feedback, AbortCalibration, CalibrationEnds, Result,
     Abort, UseAfterDestroy, Step, calibrations, Terminal
<1>2. ASSUME TransformStep PROVE UNCHANGED goal
  BY <1>2 DEF TransformStep, SetRate, StopDynamicTf, JoinedTwice, TfThread, TfLoop,
     TfWakes, TfSends, Destroy, OwnerJoins, Gone, Shutdown, transforms, calibrations
<1>3. Inv /\ [Next]_vars => [\A g \in Goal : Honoured(g)]_vars
  BY <1>1, <1>2 DEF Next, TransformStep, GoalStep
<1>4. QED BY <1>3, Invariance, PTL DEF Spec, CancelHonoured
===========================================================================

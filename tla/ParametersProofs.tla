------------------------- MODULE ParametersProofs -------------------------
(***************************************************************************)
(* Theorems about Parameters for any parameters, any values and any number *)
(* of requests.                                                            *)
(***************************************************************************)
EXTENDS Parameters, FiniteSetTheorems, TLAPS

Entry == [param : Checked, value : Valid] \cup {Refresh}

\* There is a function at the front while the thread carries it out.
Busy == updater \in {"taken", "marked"}
AtFront == Head(update_functions)

Types ==
  /\ TypeOK
  /\ update_functions \in Seq(Entry)
  /\ Busy => update_functions # <<>> /\ value \in Valid

\* The only mark is that of the function at the front.
MarkInv == \A p \in self_set_parameters : updater = "marked" /\ AtFront.param = p

\* The thread holds the value of a revert.
ValueInv == Busy /\ AtFront # Refresh => value = AtFront.value

\* A parameter that was not overtaken is shown as it is used, or will be set to
\* that by every revert of it that is pending; the mark of a revert is there.
CheckedInv ==
  \A p \in Checked \ overtaken :
    /\ ~Pending(p) => shown[p] = used[p]
    /\ \A k \in DOMAIN update_functions :
         update_functions[k].param = p => update_functions[k].value = used[p]
    /\ updater = "marked" /\ AtFront.param = p => p \in self_set_parameters

\* A refresh after the one at the front.
Later == \E k \in DOMAIN update_functions : k # 1 /\ update_functions[k].param = Gain

\* The gain is shown as the device has it, or the last refresh that is pending
\* has yet to read it, or has read it and it is still the same.
GainInv ==
  Gain \notin overtaken =>
    /\ ~Pending(Gain) => shown[Gain] = gain[seq]
    /\ Busy /\ AtFront = Refresh /\ ~Later => value = gain[seq]

Inv == Types /\ MarkInv /\ ValueInv /\ CheckedInv /\ GainInv

---------------------------------------------------------------------------
\* A sequence made of a finite set has its elements.
LEMMA SetToSeqOf ==
  ASSUME NEW T, IsFiniteSet(T)
  PROVE  /\ SetToSeq(T) \in Seq(T)
         /\ \A t \in T : \E k \in DOMAIN SetToSeq(T) : SetToSeq(T)[k] = t
<1> DEFINE n == Cardinality(T)
           s == SetToSeq(T)
<1>1. n \in Nat /\ ExistsBijection(1..n, T)
  BY FS_CardinalityType
<1>2. \E f \in [1..n -> T] : IsInjective(f)
  BY <1>1 DEF ExistsBijection, Bijection, Injection, IsInjective
<1>3. s \in [1..n -> T] /\ IsInjective(s)
  BY <1>2 DEF SetToSeq
<1> HIDE DEF s
<1>4. s \in Seq(T)
  BY <1>1, <1>3
<1>5. IsFiniteSet(1..n) /\ Cardinality(1..n) = n
  BY <1>1, FS_Interval
<1>6. s \in Injection(1..n, T)
  BY <1>3 DEF Injection
<1>7. s \in Surjection(1..n, T)
  BY <1>5, <1>6, FS_Injection
<1>8. \A t \in T : \E k \in DOMAIN s : s[k] = t
  BY <1>3, <1>7 DEF Surjection
<1>9. QED BY <1>4, <1>8 DEF s

\* The updates a request queues: one for each unknown value, with the value used.
LEMMA RevertsOf ==
  ASSUME Types, NEW S \in SUBSET Param, NEW b \in [S -> Value], Allowed(b)
  PROVE  /\ Reverts(b) \in Seq(Entry)
         /\ \A k \in DOMAIN Reverts(b) :
              \E p \in Called(b) \cap Checked :
                b[p] \in Unknown /\ Reverts(b)[k] = Revert(p)
         /\ \A p \in Called(b) :
              b[p] \in Unknown => \E k \in DOMAIN Reverts(b) : Reverts(b)[k] = Revert(p)
<1> DEFINE X == {p \in Called(b) : b[p] \in Unknown}
           T == {Revert(p) : p \in X}
<1>1. X \subseteq Checked
  BY DEF Allowed, Called, Param
<1>2. IsFiniteSet(X)
  BY <1>1, ParamAssumption, FS_Subset
<1> DEFINE f == [p \in X |-> Revert(p)]
<1>3. f \in Surjection(X, T)
  BY DEF Surjection
<1>4. IsFiniteSet(T)
  BY <1>2, <1>3, FS_Surjection
<1>5. T \subseteq Entry
  BY <1>1 DEF Entry, Revert, Types, TypeOK
<1>6. Reverts(b) = SetToSeq(T)
  BY DEF Reverts
<1>7. /\ SetToSeq(T) \in Seq(T)
      /\ \A t \in T : \E k \in DOMAIN SetToSeq(T) : SetToSeq(T)[k] = t
  BY <1>4, SetToSeqOf
<1> HIDE DEF T
<1>8. Reverts(b) \in Seq(T) /\ Reverts(b) \in Seq(Entry)
  BY <1>5, <1>6, <1>7
<1>9. \A k \in DOMAIN Reverts(b) : Reverts(b)[k] \in T
  BY <1>8
<1>10. QED BY <1>1, <1>6, <1>7, <1>8, <1>9 DEF T

\* What more updates at the end of the queue mean.
LEMMA Queued ==
  ASSUME Types, NEW r \in Seq(Entry), update_functions' = update_functions \o r,
         updater' = updater
  PROVE  /\ update_functions' \in Seq(Entry)
         /\ Busy => update_functions' # <<>> /\ AtFront' = AtFront
         /\ \A p : Pending(p)' <=> Pending(p) \/ \E k \in DOMAIN r : r[k].param = p
         /\ \A k \in DOMAIN update_functions' :
              \/ k \in DOMAIN update_functions
                   /\ update_functions'[k] = update_functions[k]
              \/ \E j \in DOMAIN r : update_functions'[k] = r[j]
         /\ Later => Later'
<1>1. /\ update_functions \in Seq(Entry) /\ Len(update_functions) \in Nat
      /\ Len(r) \in Nat /\ update_functions' \in Seq(Entry)
      /\ Len(update_functions') = Len(update_functions) + Len(r)
  BY DEF Types
<1>2. \A k \in 1..Len(update_functions') :
        update_functions'[k] = IF k <= Len(update_functions) THEN update_functions[k]
                               ELSE r[k - Len(update_functions)]
  BY <1>1
<1>3. /\ DOMAIN update_functions' = 1..Len(update_functions')
      /\ DOMAIN update_functions = 1..Len(update_functions) /\ DOMAIN r = 1..Len(r)
  BY <1>1
<1>4. \A k \in DOMAIN update_functions : /\ k \in DOMAIN update_functions'
                                        /\ update_functions'[k] = update_functions[k]
  BY <1>1, <1>2, <1>3
<1>5. \A j \in DOMAIN r : /\ Len(update_functions) + j \in DOMAIN update_functions'
                         /\ update_functions'[Len(update_functions) + j] = r[j]
  BY <1>1, <1>2, <1>3
<1>6. \A k \in DOMAIN update_functions' :
        \/ k \in DOMAIN update_functions /\ update_functions'[k] = update_functions[k]
        \/ \E j \in DOMAIN r : update_functions'[k] = r[j]
  BY <1>1, <1>2, <1>3
<1>7. Busy => update_functions' # <<>> /\ AtFront' = AtFront
  <2>1. SUFFICES ASSUME update_functions # <<>>
                 PROVE  update_functions' # <<>> /\ AtFront' = AtFront
    BY DEF Types
  <2>2. 1 \in DOMAIN update_functions
    BY <1>1, <2>1
  <2>3. QED BY <1>1, <1>4, <2>1, <2>2 DEF AtFront
<1>8. ASSUME NEW p
      PROVE  Pending(p)' <=> Pending(p) \/ \E k \in DOMAIN r : r[k].param = p
  <2>1. ASSUME NEW k \in DOMAIN update_functions', update_functions'[k].param = p
        PROVE  Pending(p) \/ \E j \in DOMAIN r : r[j].param = p
    BY <1>6, <2>1 DEF Pending
  <2>2. ASSUME NEW k \in DOMAIN update_functions, update_functions[k].param = p
        PROVE  Pending(p)'
    BY <1>4, <2>2 DEF Pending
  <2>3. ASSUME NEW j \in DOMAIN r, r[j].param = p
        PROVE  Pending(p)'
    BY <1>5, <2>3 DEF Pending
  <2>4. QED BY <2>1, <2>2, <2>3 DEF Pending
<1>9. Later => Later'
  BY <1>4 DEF Later
<1>10. QED BY <1>1, <1>6, <1>7, <1>8, <1>9

\* What the queue is without its front.
LEMMA Dequeued ==
  ASSUME Types, update_functions # <<>>, update_functions' = Tail(update_functions)
  PROVE  /\ update_functions' \in Seq(Entry)
         /\ AtFront \in Entry
         /\ \A p : Pending(p) => AtFront.param = p \/ Pending(p)'
         /\ \A p : Pending(p)' => Pending(p)
         /\ \A k \in DOMAIN update_functions' :
              \E j \in DOMAIN update_functions :
                update_functions'[k] = update_functions[j]
         /\ Later => Pending(Gain)'
<1>1. /\ update_functions \in Seq(Entry) /\ Len(update_functions) \in Nat
      /\ update_functions' \in Seq(Entry) /\ Len(update_functions) > 0
      /\ Len(update_functions') = Len(update_functions) - 1
      /\ DOMAIN update_functions' = 1..(Len(update_functions) - 1)
      /\ DOMAIN update_functions = 1..Len(update_functions)
      /\ AtFront = update_functions[1]
  BY DEF Types, AtFront
<1>2. \A k \in DOMAIN update_functions' : /\ k + 1 \in DOMAIN update_functions
                                         /\ update_functions'[k] = update_functions[k+1]
  BY <1>1
<1>3. \A k \in DOMAIN update_functions :
        k # 1 => /\ k - 1 \in DOMAIN update_functions'
                 /\ update_functions'[k-1] = update_functions[k]
  BY <1>1
<1>4. AtFront \in Entry
  BY <1>1
<1>5. ASSUME NEW p, Pending(p) PROVE AtFront.param = p \/ Pending(p)'
  <2>1. PICK k \in DOMAIN update_functions : update_functions[k].param = p
    BY <1>5 DEF Pending
  <2>2. CASE k = 1
    BY <1>1, <2>1, <2>2
  <2>3. CASE k # 1
    BY <1>3, <2>1, <2>3 DEF Pending
  <2>4. QED BY <2>2, <2>3
<1>6. ASSUME NEW p, Pending(p)' PROVE Pending(p)
  BY <1>2, <1>6 DEF Pending
<1>7. Later => Pending(Gain)'
  BY <1>3 DEF Later, Pending
<1>8. QED BY <1>1, <1>2, <1>4, <1>5, <1>6, <1>7

---------------------------------------------------------------------------
\* The server starts with what the node uses.
LEMMA InitInv == Init => Inv
<1> SUFFICES ASSUME Init PROVE Inv
  OBVIOUS
<1>1. shown \in [Param -> Value]
  BY DEF Init, Used, Param, Value
<1>2. update_functions = <<>> /\ update_functions \in Seq(Entry)
  BY DEF Init
<1>3. Types
  BY <1>1, <1>2, RequestAssumption DEF Init, Types, TypeOK, Busy
<1>4. QED
  BY <1>2, <1>3, ParamAssumption
     DEF Init, Inv, MarkInv, ValueInv, CheckedInv, GainInv, Pending, Busy, Used, Param

\* A request: a function that is called leaves the parameter shown as it is used,
\* or queues a revert to that.
LEMMA RequestInv ==
  ASSUME Inv, NEW S \in SUBSET Param, NEW b \in [S -> Value], Allowed(b),
         SetParameters(b)
  PROVE  Inv'
<1> USE DEF device, thread
<1>1. /\ Types /\ TypeOK /\ MarkInv /\ ValueInv /\ CheckedInv /\ GainInv
      /\ DOMAIN b = S
  BY DEF Inv, Types
<1> DEFINE r == Reverts(b)
<1>2. /\ r \in Seq(Entry)
      /\ \A k \in DOMAIN r : \E p \in Called(b) \cap Checked :
           b[p] \in Unknown /\ r[k] = Revert(p)
      /\ \A p \in Called(b) : b[p] \in Unknown => \E k \in DOMAIN r : r[k] = Revert(p)
  BY <1>1, RevertsOf
<1> HIDE DEF r
<1>3. /\ update_functions' = update_functions \o r
      /\ UNCHANGED <<updater, value, seq, is_running>>
      /\ used' = [p \in Checked |-> IF p \in Accepted(b) THEN b[p] ELSE used[p]]
      /\ gain' = IF Gain \in Accepted(b) THEN [gain EXCEPT ![seq] = b[Gain]] ELSE gain
      /\ self_set_parameters' = self_set_parameters \ S
      /\ shown' = IF Failed(b) THEN shown
                  ELSE [p \in Param |-> IF p \in DOMAIN b THEN b[p] ELSE shown[p]]
      /\ \A p \in Param : p \in overtaken' <=>
           IF p \in S THEN Failed(b) \/ Pending(p) ELSE p \in overtaken
      /\ overtaken' \subseteq Param
      /\ requests' = requests + 1 /\ requests < MaxRequests
  BY <1>1 DEF SetParameters, r
<1>4. /\ update_functions' \in Seq(Entry)
      /\ Busy => update_functions' # <<>> /\ AtFront' = AtFront
      /\ \A p : Pending(p)' <=> Pending(p) \/ \E k \in DOMAIN r : r[k].param = p
      /\ \A k \in DOMAIN update_functions' :
           \/ k \in DOMAIN update_functions
                /\ update_functions'[k] = update_functions[k]
           \/ \E j \in DOMAIN r : update_functions'[k] = r[j]
      /\ Later => Later'
  BY <1>1, <1>2, <1>3, Queued
<1>5. Busy' <=> Busy
  BY <1>3 DEF Busy
<1>6. Types'
  <2>1. /\ shown' \in [Param -> Value] /\ used' \in [Checked -> Valid]
        /\ gain' \in [SequenceId -> Valid]
    BY <1>1, <1>3 DEF TypeOK, Accepted, Called
  <2>2. requests' \in 0..MaxRequests
    BY <1>1, <1>3, RequestAssumption DEF TypeOK
  <2>3. QED BY <1>1, <1>3, <1>4, <1>5, <2>1, <2>2 DEF Types, TypeOK, Entry
<1>7. MarkInv' /\ ValueInv'
  BY <1>1, <1>3, <1>4, <1>5 DEF MarkInv, ValueInv, Busy
\* A parameter that is not pending is not marked, so its function is called.
<1>8. ASSUME NEW p \in S, p \notin overtaken'
      PROVE  ~Failed(b) /\ ~Pending(p) /\ p \in Called(b) /\ ~(Busy /\ AtFront.param = p)
  <2>1. ~Failed(b) /\ ~Pending(p)
    BY <1>3, <1>8
  <2>2. ~(Busy /\ AtFront.param = p)
    BY <1>1, <2>1 DEF Types, Pending, AtFront
  <2>3. p \notin self_set_parameters
    BY <1>1, <2>2 DEF MarkInv, Busy
  <2>4. QED BY <1>1, <2>1, <2>2, <2>3 DEF Called
<1>9. CheckedInv'
  <2>1. SUFFICES ASSUME NEW p \in Checked, p \notin overtaken'
                 PROVE  /\ ~Pending(p)' => shown'[p] = used'[p]
                        /\ \A k \in DOMAIN update_functions' :
                             update_functions'[k].param = p =>
                               update_functions'[k].value = used'[p]
                        /\ updater' = "marked" /\ AtFront'.param = p =>
                             p \in self_set_parameters'
    BY DEF CheckedInv
  <2>2. p \in Param /\ \A q \in Checked : Revert(q) = [param |-> q, value |-> used[q]]
    BY DEF Param, Revert
  <2>3. CASE p \in S
    <3>1. ~Failed(b) /\ ~Pending(p) /\ p \in Called(b) /\ ~(Busy /\ AtFront.param = p)
      BY <1>8, <2>1, <2>3
    <3>2. b[p] \in Valid \/ b[p] \in Unknown
      BY <2>3, <3>1 DEF Failed, Value
    <3>3. \A k \in DOMAIN update_functions' : update_functions'[k].param = p =>
             update_functions'[k].value = used[p] /\ b[p] \in Unknown
      BY <1>2, <1>4, <2>2, <3>1 DEF Pending
    <3>4. CASE b[p] \in Valid
      <4>1. used'[p] = b[p] /\ shown'[p] = b[p]
        BY <1>1, <1>3, <2>2, <2>3, <3>1, <3>4 DEF Accepted
      <4>2. b[p] \notin Unknown
        BY <3>4, ValueAssumption
      <4>3. QED BY <1>3, <1>4, <3>1, <3>3, <4>1, <4>2 DEF Busy
    <3>5. CASE b[p] \in Unknown
      <4>1. used'[p] = used[p]
        BY <1>3, <3>5, ValueAssumption DEF Accepted
      <4>2. \E k \in DOMAIN r : r[k].param = p
        BY <1>2, <2>2, <3>1, <3>5
      <4>3. QED BY <1>3, <1>4, <3>1, <3>3, <4>1, <4>2 DEF Busy
    <3>6. QED BY <3>2, <3>4, <3>5
  <2>4. CASE p \notin S
    <3>1. p \notin overtaken /\ p \notin Called(b) /\ p \notin Accepted(b)
      BY <1>1, <1>3, <2>1, <2>2, <2>4 DEF Called, Accepted
    <3>2. used'[p] = used[p] /\ shown'[p] = shown[p]
      BY <1>1, <1>3, <2>2, <2>4, <3>1
    <3>3. \A j \in DOMAIN r : r[j].param # p
      BY <1>2, <2>2, <3>1
    <3>4. QED BY <1>1, <1>3, <1>4, <2>4, <3>1, <3>2, <3>3 DEF CheckedInv, Busy
  <2>5. QED BY <2>3, <2>4
<1>10. GainInv'
  <2>1. SUFFICES ASSUME Gain \notin overtaken'
                 PROVE  /\ ~Pending(Gain)' => shown'[Gain] = gain'[seq']
                        /\ Busy' /\ AtFront' = Refresh /\ ~Later' => value' = gain'[seq']
    BY DEF GainInv
  <2>2. Gain \in Param /\ \A j \in DOMAIN r : r[j].param # Gain
    BY <1>2, ParamAssumption DEF Param, Revert
  <2>3. CASE Gain \in S
    <3>1. ~Failed(b) /\ ~Pending(Gain) /\ Gain \in Called(b)
            /\ ~(Busy /\ AtFront.param = Gain)
      BY <1>8, <2>1, <2>3
    <3>2. b[Gain] \in Valid
      BY <1>1, <2>3, <3>1 DEF Failed, Value, Allowed
    <3>3. shown'[Gain] = b[Gain] /\ gain'[seq'] = b[Gain]
      BY <1>1, <1>3, <2>2, <2>3, <3>1, <3>2 DEF Accepted, TypeOK
    <3>4. QED BY <1>4, <1>5, <3>1, <3>3 DEF Refresh
  <2>4. CASE Gain \notin S
    <3>1. Gain \notin overtaken /\ Gain \notin Accepted(b)
      BY <1>1, <1>3, <2>1, <2>2, <2>4 DEF Called, Accepted
    <3>2. gain' = gain /\ shown'[Gain] = shown[Gain]
      BY <1>1, <1>3, <2>2, <2>4, <3>1
    <3>3. QED BY <1>1, <1>3, <1>4, <1>5, <2>2, <3>1, <3>2 DEF GainInv
  <2>5. QED BY <2>3, <2>4
<1>11. QED BY <1>6, <1>7, <1>9, <1>10 DEF Inv

\* Another sequence: a refresh comes last.
LEMMA SequenceInv ==
  ASSUME Inv, NEW i \in SequenceId, SetSequenceId(i)
  PROVE  Inv'
<1> USE DEF device, thread
<1>1. Types /\ TypeOK /\ MarkInv /\ ValueInv /\ CheckedInv /\ GainInv
  BY DEF Inv, Types
<1> DEFINE r == <<Refresh>>
<1>2. /\ r \in Seq(Entry) /\ DOMAIN r = {1} /\ r[1] = Refresh
      /\ Refresh.param = Gain /\ Refresh \in Entry
  BY DEF Entry, Refresh
<1>3. /\ update_functions' = update_functions \o r
      /\ UNCHANGED <<shown, used, gain, self_set_parameters, updater, value, is_running>>
      /\ seq' = i /\ overtaken' = overtaken \ {Gain}
      /\ requests' = requests + 1 /\ requests < MaxRequests
  <2>1. Append(update_functions, Refresh) = update_functions \o r
    BY <1>1, <1>2 DEF Types
  <2>2. QED BY <2>1 DEF SetSequenceId
<1> HIDE DEF r
<1>4. /\ update_functions' \in Seq(Entry)
      /\ Busy => update_functions' # <<>> /\ AtFront' = AtFront
      /\ \A p : Pending(p)' <=> Pending(p) \/ \E k \in DOMAIN r : r[k].param = p
      /\ \A k \in DOMAIN update_functions' :
           \/ k \in DOMAIN update_functions
                /\ update_functions'[k] = update_functions[k]
           \/ \E j \in DOMAIN r : update_functions'[k] = r[j]
  BY <1>1, <1>2, <1>3, Queued
<1>5. Busy' <=> Busy
  BY <1>3 DEF Busy
<1>6. Types'
  <2>1. requests' \in 0..MaxRequests
    BY <1>1, <1>3, RequestAssumption DEF TypeOK
  <2>2. QED BY <1>1, <1>3, <1>4, <1>5, <2>1 DEF Types, TypeOK, Entry
<1>7. MarkInv' /\ ValueInv'
  BY <1>1, <1>3, <1>4, <1>5 DEF MarkInv, ValueInv, Busy
<1>8. CheckedInv'
  BY <1>1, <1>2, <1>3, <1>4, <1>5, ParamAssumption DEF CheckedInv, Busy
<1>9. GainInv'
  <2>1. Pending(Gain)'
    BY <1>2, <1>4
  <2>2. Busy => Later'
    <3>1. ASSUME Busy PROVE Later'
      <4>1. /\ Len(update_functions) \in Nat /\ Len(update_functions) > 0
            /\ update_functions' = Append(update_functions, Refresh)
        BY <1>1, <3>1 DEF Types, SetSequenceId
      <4>2. /\ Len(update_functions) + 1 \in DOMAIN update_functions'
            /\ update_functions'[Len(update_functions) + 1] = Refresh
        BY <1>1, <4>1 DEF Types
      <4>3. QED BY <1>2, <4>1, <4>2 DEF Later
    <3>2. QED BY <3>1
  <2>3. QED BY <1>5, <2>1, <2>2 DEF GainInv
<1>10. QED BY <1>6, <1>7, <1>8, <1>9 DEF Inv

---------------------------------------------------------------------------
\* The update thread: what it sets is what is used, or is overtaken.
LEMMA SelfSetInv ==
  ASSUME Inv, SelfSet
  PROVE  Inv'
<1> USE DEF device, thread
<1>1. /\ Types /\ TypeOK /\ MarkInv /\ ValueInv /\ CheckedInv /\ GainInv
      /\ updater = "marked" /\ Busy /\ update_functions # <<>>
  BY DEF Inv, Types, SelfSet, Busy
<1> DEFINE q == AtFront.param
<1>2. /\ update_functions' = Tail(update_functions)
      /\ updater' = "run" /\ UNCHANGED <<seq, value, is_running, overtaken, requests>>
      /\ self_set_parameters' = self_set_parameters \ {q}
      /\ shown' = [shown EXCEPT ![q] = value]
      /\ used' = IF q \notin self_set_parameters /\ q \in Checked
                 THEN [used EXCEPT ![q] = value] ELSE used
      /\ gain' = IF q \notin self_set_parameters /\ q = Gain
                 THEN [gain EXCEPT ![seq] = value] ELSE gain
  BY DEF SelfSet, AtFront
<1>3. /\ update_functions' \in Seq(Entry) /\ AtFront \in Entry
      /\ \A p : Pending(p) => q = p \/ Pending(p)'
      /\ \A p : Pending(p)' => Pending(p)
      /\ \A k \in DOMAIN update_functions' :
           \E j \in DOMAIN update_functions : update_functions'[k] = update_functions[j]
      /\ Later => Pending(Gain)'
  BY <1>1, <1>2, Dequeued
<1>4. /\ AtFront # Refresh => q \in Checked /\ value = AtFront.value /\ value \in Valid
      /\ AtFront = Refresh => q = Gain
      /\ q \in Param /\ ~Busy'
  BY <1>1, <1>2, <1>3 DEF Entry, Refresh, Param, ValueInv, Busy
<1>5. value \in Valid
  BY <1>1 DEF Types
<1> HIDE DEF q
<1>6. Types'
  <2>1. shown' \in [Param -> Value] /\ used' \in [Checked -> Valid]
          /\ gain' \in [SequenceId -> Valid]
    BY <1>1, <1>2, <1>4, <1>5 DEF TypeOK, Value
  <2>2. QED BY <1>1, <1>2, <1>3, <1>4, <2>1 DEF Types, TypeOK, Entry
<1>7. MarkInv' /\ ValueInv'
  BY <1>1, <1>2, <1>4 DEF MarkInv, ValueInv, q
<1>8. CheckedInv'
  <2>1. SUFFICES ASSUME NEW p \in Checked, p \notin overtaken
                 PROVE  /\ ~Pending(p)' => shown'[p] = used'[p]
                        /\ \A k \in DOMAIN update_functions' :
                             update_functions'[k].param = p =>
                               update_functions'[k].value = used'[p]
    BY <1>2 DEF CheckedInv
  <2>2. p \in Param
    BY DEF Param
  <2>3. /\ ~Pending(p) => shown[p] = used[p]
        /\ \A k \in DOMAIN update_functions :
             update_functions[k].param = p => update_functions[k].value = used[p]
        /\ q = p => p \in self_set_parameters
    BY <1>1, <2>1 DEF CheckedInv, q
  <2>4. used'[p] = used[p]
    BY <1>1, <1>2, <2>3 DEF TypeOK
  <2>5. \A k \in DOMAIN update_functions' :
          update_functions'[k].param = p => update_functions'[k].value = used'[p]
    BY <1>3, <2>3, <2>4
  <2>6. CASE q = p
    <3>1. AtFront # Refresh
      BY <1>4, <2>6, ParamAssumption
    <3>2. 1 \in DOMAIN update_functions /\ AtFront = update_functions[1]
      BY <1>1 DEF Types, AtFront
    <3>3. value = used[p]
      BY <1>4, <2>3, <2>6, <3>1, <3>2 DEF q
    <3>4. shown'[p] = value
      BY <1>1, <1>2, <2>2, <2>6 DEF TypeOK
    <3>5. QED BY <2>4, <2>5, <3>3, <3>4
  <2>7. CASE q # p
    <3>1. shown'[p] = shown[p]
      BY <1>1, <1>2, <2>2, <2>7 DEF TypeOK
    <3>2. QED BY <1>3, <2>3, <2>4, <2>5, <2>7, <3>1
  <2>8. QED BY <2>6, <2>7
<1>9. GainInv'
  <2>1. SUFFICES ASSUME Gain \notin overtaken, ~Pending(Gain)'
                 PROVE  shown'[Gain] = gain'[seq]
    BY <1>2, <1>4 DEF GainInv
  <2>2. Gain \in Param
    BY DEF Param
  <2>3. CASE q = Gain
    <3>1. AtFront = Refresh
      BY <1>4, <2>3, ParamAssumption
    <3>2. value = gain[seq]
      BY <1>1, <1>3, <2>1, <3>1 DEF GainInv
    <3>3. shown'[Gain] = value /\ gain'[seq] = value
      BY <1>1, <1>2, <2>2, <2>3, <3>2 DEF TypeOK
    <3>4. QED BY <3>3
  <2>4. CASE q # Gain
    <3>1. shown'[Gain] = shown[Gain] /\ gain' = gain
      BY <1>1, <1>2, <2>2, <2>4 DEF TypeOK
    <3>2. QED BY <1>1, <1>3, <2>1, <2>4, <3>1 DEF GainInv
  <2>5. QED BY <2>3, <2>4
<1>10. QED BY <1>6, <1>7, <1>8, <1>9 DEF Inv

\* The other steps of the thread, and the destructor.
LEMMA ThreadInv ==
  ASSUME Inv, Wakes \/ TakeUpdate \/ Mark \/ SelfSetUndefined \/ Rests \/ Destroy
  PROVE  Inv'
<1> USE DEF device, thread
<1>1. /\ Types /\ TypeOK /\ MarkInv /\ ValueInv /\ CheckedInv /\ GainInv
      /\ UNCHANGED <<shown, used, gain, seq, update_functions, overtaken, requests>>
      /\ \A p : Pending(p)' <=> Pending(p)
      /\ Later' <=> Later
      /\ AtFront' = AtFront
  BY DEF Inv, Types, Wakes, TakeUpdate, Mark, SelfSetUndefined, Rests, Destroy, Pending,
     Later, AtFront
<1>2. update_functions # <<>> =>
        /\ AtFront \in Entry
        /\ AtFront.param \in Param
        /\ AtFront # Refresh => AtFront.value \in Valid
  BY <1>1 DEF Types, AtFront, Entry, Refresh, Param
<1>3. CASE Wakes \/ SelfSetUndefined \/ Rests
  <2>1. /\ ~Busy' /\ UNCHANGED <<self_set_parameters, value, is_running>>
        /\ updater' \in {"run", "crashed", "wait", "done"} /\ updater' # "marked"
        /\ self_set_parameters = {}
    BY <1>1, <1>3 DEF Wakes, SelfSetUndefined, Rests, Busy, MarkInv, AtFront
  <2>2. QED
    BY <1>1, <2>1 DEF Inv, Types, TypeOK, MarkInv, ValueInv, CheckedInv, GainInv
<1>4. CASE Destroy
  BY <1>1, <1>4
     DEF Destroy, Inv, Types, TypeOK, MarkInv, ValueInv, CheckedInv, GainInv, Busy
<1>5. CASE TakeUpdate
  <2>1. /\ updater' = "taken" /\ UNCHANGED <<self_set_parameters, is_running>>
        /\ update_functions # <<>> /\ self_set_parameters = {}
        /\ value' = IF AtFront = Refresh THEN gain[seq] ELSE AtFront.value
    BY <1>1, <1>5 DEF TakeUpdate, MarkInv, AtFront
  <2>2. value' \in Valid
    BY <1>1, <1>2, <2>1 DEF TypeOK
  <2>3. QED
    BY <1>1, <2>1, <2>2
       DEF Inv, Types, TypeOK, MarkInv, ValueInv, CheckedInv, GainInv, Busy
<1>6. CASE Mark
  <2>1. /\ updater = "taken" /\ updater' = "marked" /\ UNCHANGED <<value, is_running>>
        /\ self_set_parameters = {} /\ self_set_parameters' = {AtFront.param}
        /\ update_functions # <<>> /\ Busy /\ Busy'
    BY <1>1, <1>6 DEF Mark, MarkInv, AtFront, Types, Busy
  <2>2. Types'
    BY <1>1, <1>2, <2>1 DEF Types, TypeOK
  <2>3. QED BY <1>1, <2>1, <2>2 DEF Inv, MarkInv, ValueInv, CheckedInv, GainInv
<1>7. QED BY <1>3, <1>4, <1>5, <1>6

LEMMA NextInv == Inv /\ [Next]_vars => Inv'
<1>1. Inv /\ UNCHANGED vars => Inv'
  BY DEF vars, device, thread, Inv, Types, TypeOK, MarkInv, ValueInv, CheckedInv,
     GainInv, Pending, Busy, Later, AtFront
<1>2. QED
  BY <1>1, RequestInv, SequenceInv, SelfSetInv, ThreadInv DEF Next, Request, Update

LEMMA Invariance == Spec => []Inv
  BY InitInv, NextInv, PTL DEF Spec

---------------------------------------------------------------------------
\* Every variable keeps its type.
THEOREM TypeCorrect == Spec => []TypeOK
<1>1. Inv => TypeOK
  BY DEF Inv, Types
<1>2. QED BY <1>1, Invariance, PTL

\* At rest the server shows what the node uses, unless the parameter was last set
\* while an update of it was pending, or by a request that failed.
THEOREM ServerShowsUsed == Spec => []ShownUnlessOvertaken
<1>1. ASSUME Inv, AtRest, NEW p \in Param \ overtaken
      PROVE  shown[p] = Used(p)
  <2>1. ~Pending(p)
    BY <1>1 DEF AtRest, Pending
  <2>2. QED BY <1>1, <2>1 DEF Inv, CheckedInv, GainInv, Used, Param
<1>2. Inv => ShownUnlessOvertaken
  BY <1>1 DEF ShownUnlessOvertaken
<1>3. QED BY <1>2, Invariance, PTL
===========================================================================

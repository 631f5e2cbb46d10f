-------------------------- MODULE ProfilesProofs --------------------------
(***************************************************************************)
(* Theorems about Profiles for every list of profiles a sensor may have    *)
(* and any number of parameters set.                                       *)
(***************************************************************************)
EXTENDS Profiles, TLAPS, FiniteSetTheorems, WellFoundedInduction

---------------------------------------------------------------------------
(* Least and greatest numbers, and what the searches of a list find.       *)

\* A set of natural numbers has a least one.
LEMMA Least ==
  ASSUME NEW T \in SUBSET Nat, T # {}
  PROVE  \E n \in T : \A m \in T : n <= m
<1>1. PICK n \in T : \A m \in T : ~ (<<m, n>> \in OpToRel(<, Nat))
  BY NatLessThanWellFounded, WFMin
<1>2. ASSUME NEW m \in T PROVE n <= m
  <2>1. <<m, n>> \notin OpToRel(<, Nat)
    BY <1>1
  <2>2. m \in Nat /\ n \in Nat
    OBVIOUS
  <2>3. ~ (m < n)
    BY <2>1, <2>2 DEF OpToRel
  <2>4. QED BY <2>2, <2>3
<1>3. QED BY <1>2

\* A bounded one has a greatest one.
LEMMA Greatest ==
  ASSUME NEW T \in SUBSET Nat, T # {}, NEW n \in Nat, \A m \in T : m <= n
  PROVE  \E k \in T : \A m \in T : k >= m
<1> DEFINE D == {d \in Nat : n - d \in T}
<1>1. \A m \in T : n - m \in D
  <2>1. ASSUME NEW m \in T PROVE n - m \in Nat /\ n - (n - m) = m
    OBVIOUS
  <2>2. QED BY <2>1
<1>2. PICK d \in D : \A e \in D : d <= e
  BY <1>1, Least
<1>3. n - d \in T /\ n - d \in Nat /\ d \in Nat
  OBVIOUS
<1>4. ASSUME NEW m \in T PROVE n - d >= m
  <2>1. d <= n - m /\ m \in Nat
    BY <1>1, <1>2
  <2>2. QED BY <2>1, <1>3
<1>5. QED BY <1>3, <1>4

\* The first default of a stream is a default of the stream, if there is one.
LEMMA FirstDefaultFound ==
  ASSUME NEW list \in Seq(Profile), NEW sip
  PROVE  LET k == FirstDefault(list, sip)
         IN  /\ k # 0 => /\ k \in 1..Len(list) /\ list[k].sip = sip
                         /\ list[k].is_default
             /\ k = 0 => \A i \in 1..Len(list) :
                           ~(list[i].sip = sip /\ list[i].is_default)
<1> DEFINE I == {i \in 1..Len(list) : list[i].sip = sip /\ list[i].is_default}
<1>1. FirstDefault(list, sip) = IF I # {} THEN Min(I) ELSE 0
  BY Zenon DEF FirstDefault, SelectInSeq
<1>2. I \in SUBSET Nat
  OBVIOUS
<1>3. I # {} => Min(I) \in I
  <2> HIDE DEF I
  <2>1. QED BY <1>2, Least DEF Min
<1>4. QED BY <1>1, <1>3

\* begin() of a map that is not empty is a stream it has.
LEMMA FirstOfFound ==
  ASSUME NEW sips, sips \subseteq Range(Sips), sips # {}
  PROVE  FirstOf(sips) \in 1..Len(Sips) /\ Sips[FirstOf(sips)] \in sips
<1> DEFINE I == {i \in 1..Len(Sips) : Sips[i] \in sips}
<1>1. FirstOf(sips) = IF I # {} THEN Min(I) ELSE 0
  BY Zenon DEF FirstOf, SelectInSeq
<1>2. DOMAIN Sips = 1..Len(Sips) /\ Len(Sips) \in Nat
  BY DEF Sips
<1>3. I \in SUBSET Nat /\ I # {}
  BY <1>2 DEF Range
<1>4. Min(I) \in I
  <2> HIDE DEF I
  <2>1. QED BY <1>3, Least DEF Min
<1>5. QED BY <1>1, <1>3, <1>4

\* The last profile of a type is one of the type, if there is one.
LEMMA LastOfTypeFound ==
  ASSUME NEW list \in Seq(Profile), NEW type, OfType(list, type) # {}
  PROVE  /\ LastOfType(list, type) \in 1..Len(list)
         /\ Type(list[LastOfType(list, type)].sip) = type
<1> DEFINE I == {i \in 1..Len(list) : Type(list[i].sip) = type}
<1>1. LastOfType(list, type) = IF I # {} THEN Max(I) ELSE 0
  BY Zenon DEF LastOfType, SelectLastInSeq
<1>2. I \in SUBSET Nat /\ I # {} /\ (\A i \in I : i <= Len(list)) /\ Len(list) \in Nat
  BY DEF OfType, Range
<1>3. Max(I) \in I
  <2> HIDE DEF I
  <2>1. QED BY <1>2, Greatest DEF Max
<1>4. QED BY <1>1, <1>2, <1>3

---------------------------------------------------------------------------
(* The settings a list begins with are those of its own profiles.          *)

\* The streams are finitely many.
LEMMA SipsFacts ==
  /\ Range(Sips) = {"depth", "color", "infra0", "infra1", "infra2", "fisheye",
                    "gyro", "accel"}
  /\ IsFiniteSet(Range(Sips))
<1> DEFINE n == 8
<1>1. Sips \in Surjection(1..n, Range(Sips)) /\ n \in Int
  BY DEF Sips, Range, Surjection
<1>2. IsFiniteSet(Range(Sips))
  <2> HIDE DEF n
  <2>1. IsFiniteSet(1..n)
    BY <1>1, FS_Interval
  <2>2. QED BY <1>1, <2>1, FS_Surjection, Zenon
<1>3. DOMAIN Sips = {1, 2, 3, 4, 5, 6, 7, 8}
  BY DEF Sips
<1>4. /\ Sips[1] = "depth" /\ Sips[2] = "color" /\ Sips[3] = "infra0"
      /\ Sips[4] = "infra1" /\ Sips[5] = "infra2" /\ Sips[6] = "fisheye"
      /\ Sips[7] = "gyro" /\ Sips[8] = "accel"
  BY DEF Sips
<1>5. \A x : x \in Range(Sips) <=> \E i \in {1, 2, 3, 4, 5, 6, 7, 8} : x = Sips[i]
  BY <1>3 DEF Range
<1>6. \A x : x \in Range(Sips) <=>
        x \in {"depth", "color", "infra0", "infra1", "infra2", "fisheye",
                "gyro", "accel"}
  BY <1>4, <1>5
<1>7. QED BY <1>2, <1>6, Zenon

\* What is assumed of a list, of its profiles and of its streams.
LEMMA ListFacts ==
  ASSUME NEW list \in Lists
  PROVE  /\ list \in Seq(Profile) /\ Len(list) \in Nat /\ Len(list) > 0
         /\ DOMAIN list = 1..Len(list)
         /\ Range(list) \subseteq Profile
         /\ \A i \in 1..Len(list) : list[i] \in Range(list)
         /\ \A p \in Range(list) : \E i \in 1..Len(list) : p = list[i]
         /\ Streams(list) \subseteq Range(Sips)
         /\ \A p \in Range(list) :
              p.sip \in Streams(list) /\ Type(p.sip) \in Types(list)
<1>1. list \in Seq(Profile) /\ list # <<>>
  BY ListAssumption
<1>2. Len(list) \in Nat /\ Len(list) > 0 /\ DOMAIN list = 1..Len(list)
  BY <1>1
<1>3. \A i \in 1..Len(list) : list[i] \in Range(list)
  BY <1>2 DEF Range
<1>4. \A p \in Range(list) : \E i \in 1..Len(list) : p = list[i]
  BY <1>2 DEF Range
<1>5. Range(list) \subseteq Profile
  BY <1>1, <1>4
<1>6. Streams(list) \subseteq Range(Sips)
  BY <1>5 DEF Streams, Profile
<1>7. \A p \in Range(list) : p.sip \in Streams(list) /\ Type(p.sip) \in Types(list)
  BY DEF Streams, Types
<1>8. QED BY <1>1, <1>2, <1>3, <1>4, <1>5, <1>6, <1>7

Rates(list) == {p.fps : p \in Range(list)}
Count(list, f) == Cardinality(Sharing(list, f))

\* Rate f is shared by the most streams, and is the lowest of such rates.
Best(list, f) ==
  \A g \in Rates(list) :
    \/ Count(list, f) > Count(list, g)
    \/ Count(list, f) = Count(list, g) /\ f <= g

LEMMA CountFacts ==
  ASSUME NEW list \in Lists, NEW f
  PROVE  /\ IsFiniteSet(Sharing(list, f))
         /\ Count(list, f) \in Nat
         /\ Count(list, f) <= Cardinality(Range(Sips))
         /\ Cardinality(Range(Sips)) \in Nat
<1>1. Sharing(list, f) \subseteq Streams(list)
  BY DEF Sharing, Streams
<1>2. Sharing(list, f) \subseteq Range(Sips)
  BY <1>1, ListFacts
<1>3. QED BY <1>2, SipsFacts, FS_Subset, FS_CardinalityType DEF Count

LEMMA BestRate ==
  ASSUME NEW list \in Lists
  PROVE  \E f \in Rates(list) : Best(list, f)
<1> DEFINE N == {Count(list, f) : f \in Rates(list)}
<1>1. Rates(list) \subseteq Nat /\ Rates(list) # {}
  <2>1. list[1] \in Range(list)
    BY ListFacts
  <2>2. Range(list) \subseteq Profile
    BY ListFacts
  <2>3. QED BY <2>1, <2>2 DEF Rates, Profile
<1>2. N \in SUBSET Nat /\ N # {}
  BY <1>1, CountFacts
<1>3. PICK most \in N : \A n \in N : most >= n
  <2>1. \A n \in N : n <= Cardinality(Range(Sips))
    BY CountFacts
  <2>2. Cardinality(Range(Sips)) \in Nat
    BY CountFacts
  <2> HIDE DEF N
  <2>3. QED BY <1>2, <2>1, <2>2, Greatest
<1> DEFINE T == {f \in Rates(list) : Count(list, f) = most}
<1>4. T \in SUBSET Nat /\ T # {}
  BY <1>1
<1>5. PICK f \in T : \A g \in T : f <= g
  <2> HIDE DEF T
  <2>1. QED BY <1>4, Least
<1>6. ASSUME NEW g \in Rates(list)
      PROVE  \/ Count(list, f) > Count(list, g)
             \/ Count(list, f) = Count(list, g) /\ f <= g
  <2>1. Count(list, g) \in N /\ Count(list, f) = most
    OBVIOUS
  <2>2. most >= Count(list, g) /\ most \in Nat /\ Count(list, g) \in Nat
    BY <1>2, <1>3, <2>1
  <2>3. Count(list, g) = most => f <= g
    BY <1>5
  <2> HIDE DEF N, T
  <2>4. QED BY <2>1, <2>2, <2>3
<1>7. QED BY <1>5, <1>6 DEF Best

\* The fallback of the motion streams is one profile of the best rate for each
\* stream that has it.
LEMMA FallbackMotionIs ==
  ASSUME NEW list \in Lists
  PROVE  \E f \in Rates(list) :
           /\ Best(list, f)
           /\ DOMAIN FallbackMotion(list) = Sharing(list, f)
           /\ \A s \in Sharing(list, f) :
                /\ FallbackMotion(list)[s] \in ProfilesOf(list, s)
                /\ FallbackMotion(list)[s].fps = f
<1> DEFINE f == CHOOSE g \in Rates(list) : Best(list, g)
<1>1. f \in Rates(list) /\ Best(list, f)
  BY BestRate
<1>2. FallbackMotion(list) =
        [s \in Sharing(list, f) |-> CHOOSE p \in ProfilesOf(list, s) : p.fps = f]
  BY Zenon DEF FallbackMotion, Rates, Best, Count
<1> HIDE DEF f
<1>3. ASSUME NEW s \in Sharing(list, f)
      PROVE  \E p \in ProfilesOf(list, s) : p.fps = f
  BY DEF Sharing, ProfilesOf
<1>4. QED BY <1>1, <1>2, <1>3

\* The default profiles are of streams of the list, one at least, and each is
\* a profile of its stream.
LEMMA DefaultsFacts ==
  ASSUME NEW list \in Lists
  PROVE  LET D == getDefaultProfiles(list)
         IN  /\ DOMAIN D \subseteq Streams(list) /\ DOMAIN D # {}
             /\ \A s \in DOMAIN D : D[s] \in ProfilesOf(list, s)
<1> DEFINE D == getDefaultProfiles(list)
           sips == {s \in Streams(list) : FirstDefault(list, s) # 0}
<1>1. CASE sips # {}
  <2>1. D = [s \in sips |-> list[FirstDefault(list, s)]]
    BY <1>1 DEF getDefaultProfiles
  <2>2. ASSUME NEW s \in sips
        PROVE  list[FirstDefault(list, s)] \in ProfilesOf(list, s)
    BY FirstDefaultFound, ListFacts DEF ProfilesOf
  <2> HIDE DEF D
  <2>3. QED BY <1>1, <2>1, <2>2 DEF D
<1>2. CASE sips = {} /\ list[1].sip \in Motion
  <2>1. D = FallbackMotion(list)
    BY <1>2 DEF getDefaultProfiles, getFallbackProfiles
  <2>2. PICK f \in Rates(list) :
           /\ DOMAIN D = Sharing(list, f)
           /\ \A s \in Sharing(list, f) : D[s] \in ProfilesOf(list, s)
    BY <2>1, FallbackMotionIs
  <2>3. Sharing(list, f) # {} /\ Sharing(list, f) \subseteq Streams(list)
    BY DEF Rates, Sharing, Streams
  <2>4. QED BY <2>2, <2>3
<1>3. CASE sips = {} /\ list[1].sip \notin Motion
  <2>1. D = [s \in {list[1].sip} |-> list[1]]
    BY <1>3 DEF getDefaultProfiles, getFallbackProfiles, FallbackVideo
  <2>2. list[1] \in Range(list) /\ list[1].sip \in Streams(list)
    BY ListFacts
  <2>3. QED BY <2>1, <2>2 DEF ProfilesOf
<1>4. QED BY <1>1, <1>2, <1>3

\* Without defaults of the device, those of the motion streams have the best rate.
LEMMA MotionDefaults ==
  ASSUME NEW list \in Lists, Streams(list) \subseteq Motion,
         \A p \in Range(list) : ~p.is_default
  PROVE  LET D == getDefaultProfiles(list)
         IN  \E f \in Rates(list) :
               /\ Best(list, f)
               /\ DOMAIN D = Sharing(list, f)
               /\ \A s \in Sharing(list, f) : D[s].fps = f
<1>1. \A s \in Streams(list) : FirstDefault(list, s) = 0
  BY FirstDefaultFound, ListFacts
<1>2. list[1].sip \in Motion
  BY ListFacts
<1>3. getDefaultProfiles(list) = FallbackMotion(list)
  BY <1>1, <1>2 DEF getDefaultProfiles, getFallbackProfiles
<1>4. QED BY <1>3, FallbackMotionIs

LEMMA BeginFacts ==
  ASSUME NEW list \in Lists
  PROVE  Begin(getDefaultProfiles(list)) \in Profile
<1> DEFINE D == getDefaultProfiles(list)
<1>1. DOMAIN D \subseteq Range(Sips) /\ DOMAIN D # {}
  BY DefaultsFacts, ListFacts
<1>2. Sips[FirstOf(DOMAIN D)] \in DOMAIN D
  BY <1>1, FirstOfFound
<1>3. \A s \in DOMAIN D : D[s] \in Profile
  BY DefaultsFacts, ListFacts DEF ProfilesOf
<1> HIDE DEF D
<1>4. Begin(D) \in Profile
  BY <1>2, <1>3 DEF Begin
<1>5. QED BY <1>4 DEF D

\* Whatever profile is given, a profile of the type has the mode that is chosen.
LEMMA ValidatedFacts ==
  ASSUME NEW list \in Lists, NEW type \in Types(list), NEW given \in Profile
  PROVE  LET v == validateAndGetSuitableProfile(list, type, given)
         IN  v \in Profile /\ \E p \in OfType(list, type) : Mode(p) = Mode(v)
<1>1. CASE \E p \in OfType(list, type) : Mode(p) = Mode(given)
  BY <1>1 DEF validateAndGetSuitableProfile
<1>2. CASE ~ \E p \in OfType(list, type) : Mode(p) = Mode(given)
  <2>1. OfType(list, type) # {}
    BY DEF OfType, Types, Streams
  <2>2. /\ LastOfType(list, type) \in 1..Len(list)
        /\ Type(list[LastOfType(list, type)].sip) = type
    BY <2>1, LastOfTypeFound, ListFacts
  <2>3. list[LastOfType(list, type)] \in OfType(list, type)
    BY <2>2, ListFacts DEF OfType
  <2>4. validateAndGetSuitableProfile(list, type, given) = list[LastOfType(list, type)]
    BY <1>2 DEF validateAndGetSuitableProfile
  <2>5. QED BY <2>3, <2>4, ListFacts DEF OfType
<1>3. QED BY <1>1, <1>2

\* The default profile of each type of video stream.
LEMMA DefaultProfileFacts ==
  ASSUME NEW list \in Lists, NEW type \in Types(list) \ Motion
  PROVE  LET D == getDefaultProfiles(list)
         IN  /\ DefaultProfile(list, type) \in Profile
             /\ type \in {"color", "depth"} /\ type \in DOMAIN D =>
                  DefaultProfile(list, type) = D[type]
             /\ type = "infra" /\ "infra1" \in DOMAIN D =>
                  DefaultProfile(list, type) = D["infra1"]
             /\ type \in {"color", "depth", "infra"} \/
                  \E p \in OfType(list, type) : Mode(p) = Mode(DefaultProfile(list, type))
<1> DEFINE D == getDefaultProfiles(list)
<1>1. Begin(D) \in Profile
  BY BeginFacts
<1>2. \A s \in DOMAIN D : D[s] \in Profile
  BY DefaultsFacts, ListFacts DEF ProfilesOf
<1>3. ASSUME NEW given \in Profile
      PROVE  /\ validateAndGetSuitableProfile(list, type, given) \in Profile
             /\ \E p \in OfType(list, type) :
                  Mode(p) = Mode(validateAndGetSuitableProfile(list, type, given))
  BY ValidatedFacts
<1> HIDE DEF D
<1>4. DefaultProfile(list, type) =
        CASE type \in {"color", "depth"} ->
               IF type \in DOMAIN D THEN D[type] ELSE Begin(D)
          [] type = "infra" /\ "infra1" \in DOMAIN D -> D["infra1"]
          [] type = "infra" /\ "infra1" \notin DOMAIN D ->
               IF "depth" \in DOMAIN D
               THEN validateAndGetSuitableProfile(list, type, D["depth"])
               ELSE Begin(D)
          [] OTHER -> validateAndGetSuitableProfile(list, type, Begin(D))
  BY DEF DefaultProfile, D
<1>5. QED
  <2>1. CASE type \in {"color", "depth"}
    BY <1>1, <1>2, <1>4, <2>1 DEF D
  <2>2. CASE type = "infra" /\ "infra1" \in DOMAIN D
    BY <1>2, <1>4, <2>2 DEF D
  <2>3. CASE type = "infra" /\ "infra1" \notin DOMAIN D
    <3>1. DefaultProfile(list, type) \in
            {Begin(D), validateAndGetSuitableProfile(list, type, D["depth"])}
      BY <1>4, <2>3
    <3>2. "depth" \in DOMAIN D \/ DefaultProfile(list, type) = Begin(D)
      BY <1>4, <2>3
    <3>3. DefaultProfile(list, type) \in Profile
      BY <1>1, <1>2, <1>3, <3>1, <3>2
    <3>4. QED BY <2>3, <3>3 DEF D
  <2>4. CASE type \notin {"color", "depth", "infra"}
    <3>1. DefaultProfile(list, type) = validateAndGetSuitableProfile(list, type, Begin(D))
      BY <1>4, <2>4
    <3>2. QED BY <1>1, <1>3, <2>4, <3>1
  <2>5. QED BY <2>1, <2>2, <2>3, <2>4

LEMMA DefaultFPSFacts ==
  ASSUME NEW list \in Lists, NEW s \in Streams(list)
  PROVE  DefaultFPS(list, s) \in Nat
<1> DEFINE D == getDefaultProfiles(list)
           rates == {p.fps : p \in ProfilesOf(list, s)}
<1>1. CASE s \in DOMAIN D
  <2>1. D[s] \in Profile
    BY <1>1, DefaultsFacts, ListFacts DEF ProfilesOf
  <2>2. D[s].fps \in Nat
    BY <2>1 DEF Profile
  <2>3. QED BY <1>1, <2>2 DEF DefaultFPS
<1>2. CASE s \notin DOMAIN D
  <2>1. rates \in SUBSET Nat /\ rates # {}
    <3>1. PICK p \in Range(list) : p.sip = s
      BY DEF Streams
    <3>2. p.fps \in rates
      BY <3>1 DEF ProfilesOf
    <3>3. \A q \in ProfilesOf(list, s) : q.fps \in Nat
      BY ListFacts DEF ProfilesOf, Profile
    <3>4. QED BY <3>2, <3>3
  <2>2. \E f \in rates : \A g \in rates : f <= g
    <3> HIDE DEF rates
    <3>1. QED BY <2>1, Least
  <2>3. \E f \in rates : \A p \in ProfilesOf(list, s) : f <= p.fps
    BY <2>2
  <2>4. LowestFPS(list, s) \in rates
    BY <2>3 DEF LowestFPS
  <2>5. QED BY <1>2, <2>1, <2>4 DEF DefaultFPS
<1>3. QED BY <1>1, <1>2

\* Every type of the list begins with a mode.
LEMMA ModesTyped ==
  ASSUME NEW list \in Lists
  PROVE  registerProfileParameters(list) \in [Types(list) -> [size : Nat, fps : Nat]]
<1>1. ASSUME NEW type \in Types(list), type \in Motion
      PROVE  [size |-> 0, fps |-> DefaultFPS(list, type)] \in [size : Nat, fps : Nat]
  <2>1. type \in Streams(list)
    BY <1>1 DEF Types, Type, Motion
  <2>2. QED BY <2>1, DefaultFPSFacts
<1>2. ASSUME NEW type \in Types(list), type \notin Motion
      PROVE  Mode(DefaultProfile(list, type)) \in [size : Nat, fps : Nat]
  <2>1. DefaultProfile(list, type) \in Profile
    BY <1>2, DefaultProfileFacts
  <2>2. QED BY <2>1 DEF Profile, Mode
<1>3. QED BY <1>1, <1>2 DEF registerProfileParameters

\* The formats a list begins with.
DefaultFormats(list) == [s \in Streams(list) \ Motion |-> DefaultFormat(list, s)]

\* The settings a list begins with are those of one of its profiles, for each
\* stream with a default, but for infra2 as DefaultsOpen says.
LEMMA DefaultKnown ==
  ASSUME NEW list \in Lists,
         NEW s \in DOMAIN getDefaultProfiles(list), s # "infra0",
         s = "infra2" =>
           Mode(getDefaultProfiles(list)[s]) = registerProfileParameters(list)["infra"]
  PROVE  \E p \in ProfilesOf(list, s) :
           isSameProfileValues(p, registerProfileParameters(list)[Type(s)],
                               FormatOf(DefaultFormats(list), s))
<1> DEFINE D == getDefaultProfiles(list)
           chosen == registerProfileParameters(list)[Type(s)]
           format == FormatOf(DefaultFormats(list), s)
<1>1. s \in Streams(list) /\ D[s] \in ProfilesOf(list, s)
  BY DefaultsFacts
<1>2. D[s] \in Profile /\ D[s] \in Range(list) /\ D[s].sip = s
  BY <1>1, ListFacts DEF ProfilesOf
<1>3. Type(s) \in Types(list)
  BY <1>1 DEF Types
<1>4. s \in Range(Sips)
  BY <1>1, ListFacts
<1>5. CASE s \in Motion
  <2>1. Type(s) = s
    BY <1>5 DEF Type, Motion
  <2>2. chosen = [size |-> 0, fps |-> DefaultFPS(list, s)]
    BY <1>3, <1>5, <2>1 DEF registerProfileParameters
  <2>3. DefaultFPS(list, s) = D[s].fps
    BY DEF DefaultFPS
  <2>4. D[s].size = 0
    BY <1>2, <1>5, ListAssumption
  <2>5. isSameProfileValues(D[s], chosen, format)
    BY <1>2, <1>5, <2>2, <2>3, <2>4 DEF isSameProfileValues, Mode
  <2>6. QED BY <1>1, <2>5
<1>6. CASE s \notin Motion
  <2>1. Type(s) \notin Motion
    BY <1>6 DEF Type, Motion
  <2>2. chosen = Mode(DefaultProfile(list, Type(s)))
    BY <1>3, <2>1 DEF registerProfileParameters
  <2>3. format = DefaultFormat(list, s)
    BY <1>1, <1>6 DEF FormatOf, DefaultFormats
  <2>4. CASE Mode(D[s]) = chosen
    <3>1. format = D[s].format
      BY <2>3, <2>4 DEF DefaultFormat
    <3>2. isSameProfileValues(D[s], chosen, format)
      BY <2>4, <3>1 DEF isSameProfileValues
    <3>3. QED BY <1>1, <3>2
  <2>5. CASE Mode(D[s]) # chosen
    <3>1. s \notin {"color", "depth"}
      <4>1. SUFFICES ASSUME s \in {"color", "depth"} PROVE FALSE
        OBVIOUS
      <4>2. Type(s) = s
        BY <4>1 DEF Type
      <4>3. DefaultProfile(list, s) = D[s]
        BY <1>3, <2>1, <4>1, <4>2, DefaultProfileFacts
      <4>4. QED BY <2>2, <2>5, <4>2, <4>3
    <3>2. s # "infra1"
      <4>1. SUFFICES ASSUME s = "infra1" PROVE FALSE
        OBVIOUS
      <4>2. Type(s) = "infra"
        BY <4>1 DEF Type
      <4>3. DefaultProfile(list, "infra") = D[s]
        BY <1>3, <2>1, <4>1, <4>2, DefaultProfileFacts
      <4>4. QED BY <2>2, <2>5, <4>2, <4>3
    <3>3. s # "infra2"
      BY <2>5 DEF Type
    <3>4. s = "fisheye"
      BY <1>4, <1>6, <3>1, <3>2, <3>3, SipsFacts DEF Motion
    <3>5. Type(s) = "fisheye"
      BY <3>4 DEF Type
    <3>6. PICK p \in OfType(list, "fisheye") :
            Mode(p) = Mode(DefaultProfile(list, "fisheye"))
      BY <1>3, <2>1, <3>5, DefaultProfileFacts
    <3>7. p \in ProfilesOf(list, s) /\ Mode(p) = chosen
      BY <2>2, <3>4, <3>5, <3>6 DEF OfType, ProfilesOf, Type
    <3>8. format = "ANY"
      BY <2>3, <2>5, <3>4 DEF DefaultFormat, registerVideoSensorProfileFormat
    <3>9. QED BY <3>7, <3>8 DEF isSameProfileValues
  <2>6. QED BY <2>4, <2>5
<1>7. QED BY <1>5, <1>6

---------------------------------------------------------------------------
(* The inductive invariant.                                                *)

Flagged == callback # None /\ callback.write = "flag"

Types0 == TypeOK /\ _all_profiles \in Lists
            /\ wanted_profiles \in Seq(Range(_all_profiles))

\* No stream has two profiles of the set.
OneEach(S) == \A p, q \in S : p.sip = q.sip => p = q

\* The profiles of stream s in the set are as the settings say.
Chosen(S, s) ==
  LET running == {p \in S : p.sip = s}
      known == \E p \in ProfilesOf(_all_profiles, s) : Scanned(p)
  IN  IF _enabled_profiles[s] /\ known
      THEN \E p \in running : running = {p} /\ Scanned(p)
      ELSE running = {}

\* Until something is overlapped, the update works with the settings it began
\* with, and no callback has half of a mode yet to write.
Steady == pc = "scan" /\ ~overlapped =>
  /\ scanned = [mode |-> mode, formats |-> _formats]
  /\ callback = None \/ Flagged

\* What is found so far is right for the profiles that were compared, unless a
\* stream was enabled or disabled and the flag is yet to be raised.
Found == pc = "scan" /\ ~overlapped /\ ~Flagged =>
  /\ \A p \in Range(wanted_profiles) : _enabled_profiles[p.sip] /\ Scanned(p)
  /\ \A i \in 1..at - 1 :
       LET p == _all_profiles[i]
       IN  _enabled_profiles[p.sip] /\ Scanned(p) =>
             \E q \in Range(wanted_profiles) : q.sip = p.sip

Rested == pc = "rest" /\ ~is_profile_changed /\ ~overlapped /\ ~Flagged =>
  \A s \in Streams(_all_profiles) : Chosen(active, s)

\* Before a parameter is set, the settings are those the list begins with.
Begun == changes = 0 =>
  /\ _enabled_profiles = registerSensorUpdateParam(_all_profiles)
  /\ mode = registerProfileParameters(_all_profiles)
  /\ _formats = DefaultFormats(_all_profiles)
  /\ callback = None /\ ~overlapped
  /\ scanned = [mode |-> mode, formats |-> _formats]

Inv == /\ Types0 /\ OneEach(active) /\ OneEach(Range(wanted_profiles))
       /\ Steady /\ Found /\ Rested /\ Begun

LEMMA InitInv == Init => Inv
<1> SUFFICES ASSUME Init PROVE Inv
  OBVIOUS
<1> DEFINE list == _all_profiles
<1>1. list \in Lists
  BY DEF Init
<1>2. _enabled_profiles \in [Streams(list) -> BOOLEAN]
  BY DEF Init, registerSensorUpdateParam
<1>3. mode \in [Types(list) -> [size : Nat, fps : Nat]]
  BY <1>1, ModesTyped DEF Init
<1>4. Range(wanted_profiles) = {} /\ wanted_profiles \in Seq(Range(list))
  BY DEF Init, Range
<1>5. at \in 1..Len(list) + 1
  BY <1>1, ListFacts DEF Init
<1>6. Types0
  <2>1. DOMAIN _formats = Streams(list) \ Motion
    BY DEF Init
  <2>2. changes \in 0..MaxChanges
    BY BoundAssumption DEF Init
  <2>3. is_profile_changed \in BOOLEAN /\ overlapped \in BOOLEAN
    BY DEF Init
  <2>4. callback \in {None} \cup Pending /\ pc \in {"rest", "scan"} /\ active = {}
    BY DEF Init
  <2>5. QED BY <1>1, <1>2, <1>3, <1>4, <1>5, <2>1, <2>2, <2>3, <2>4 DEF Types0, TypeOK
<1>7. Begun
  BY DEF Init, Begun, DefaultFormats
<1>8. QED BY <1>4, <1>6, <1>7 DEF Init, Inv, OneEach, Steady, Found, Rested

LEMMA ModeWritten ==
  ASSUME NEW T, NEW f \in [T -> [size : Nat, fps : Nat]], NEW t, NEW n \in Nat
  PROVE  /\ [f EXCEPT ![t].size = n] \in [T -> [size : Nat, fps : Nat]]
         /\ [f EXCEPT ![t].fps = n] \in [T -> [size : Nat, fps : Nat]]
<1>1. ASSUME NEW r \in [size : Nat, fps : Nat]
      PROVE  /\ [r EXCEPT !.size = n] \in [size : Nat, fps : Nat]
             /\ [r EXCEPT !.fps = n] \in [size : Nat, fps : Nat]
  OBVIOUS
<1>2. QED BY <1>1

\* A callback writes a mode or a format: if an update runs it is overlapped.
LEMMA SettingInv ==
  ASSUME Inv,
         \/ \E p \in Range(_all_profiles) :
              \/ \E type \in Types(_all_profiles) : SetProfile(type, Mode(p))
              \/ SetFormat(p.sip, p.format) \/ SetFPS(p.sip, p.fps)
         \/ WriteFPS
  PROVE  Inv'
<1> DEFINE list == _all_profiles
<1>1. /\ overlapped' = (overlapped \/ pc = "scan")
      /\ UNCHANGED <<_all_profiles, _enabled_profiles, is_profile_changed, monitor>>
      /\ changes' \in 0..MaxChanges /\ changes' # 0
  <2>1. changes \in 0..MaxChanges /\ MaxChanges \in Nat
    BY BoundAssumption DEF Inv, Types0, TypeOK
  <2>2. CASE WriteFPS
    BY <2>1, <2>2 DEF WriteFPS, Inv, Begun
  <2>3. ASSUME NEW type, NEW m, SetProfile(type, m)
        PROVE  <1>1
    BY <2>1, <2>3 DEF SetProfile, BeginCallback
  <2>4. ASSUME NEW sip, NEW f, SetFormat(sip, f) \/ SetFPS(sip, f)
        PROVE  <1>1
    BY <2>1, <2>4 DEF SetFormat, SetFPS, BeginCallback
  <2>5. QED BY <2>2, <2>3, <2>4
<1>2. /\ callback' \in {None} \cup Pending
      /\ mode' \in [Types(list) -> [size : Nat, fps : Nat]]
      /\ DOMAIN _formats' = Streams(list) \ Motion
      /\ ~Flagged
  <2>1. /\ mode \in [Types(list) -> [size : Nat, fps : Nat]]
        /\ DOMAIN _formats = Streams(list) \ Motion
        /\ callback \in {None} \cup Pending /\ list \in Lists
    BY DEF Inv, Types0, TypeOK
  <2>2. ASSUME NEW p \in Range(list), NEW type \in Types(list), SetProfile(type, Mode(p))
        PROVE  <1>2
    <3>1. p.size \in Nat /\ p.fps \in Nat
      BY <2>1, ListFacts DEF Profile
    <3>2. mode' = [mode EXCEPT ![type].size = p.size] /\ _formats' = _formats
      BY <2>2 DEF SetProfile, Mode
    <3>3. callback' = [write |-> "fps", type |-> type, fps |-> p.fps]
      BY <2>2 DEF SetProfile, Mode
    <3>4. type \in {Type(s) : s \in Range(Sips)}
      BY <2>1, ListFacts DEF Types
    <3>5. callback' \in Pending /\ callback'.write = "fps"
      BY <3>1, <3>3, <3>4 DEF Pending
    <3>6. callback = None
      BY <2>2 DEF SetProfile, BeginCallback
    <3>7. QED BY <2>1, <3>1, <3>2, <3>5, <3>6, ModeWritten DEF Flagged
  <2>3. ASSUME NEW p \in Range(list), SetFormat(p.sip, p.format)
        PROVE  <1>2
    BY <2>1, <2>3 DEF SetFormat, BeginCallback, Flagged
  <2>4. ASSUME NEW p \in Range(list), SetFPS(p.sip, p.fps)
        PROVE  <1>2
    <3>1. p.fps \in Nat
      BY <2>1, ListFacts DEF Profile
    <3>2. QED BY <2>1, <2>4, <3>1, ModeWritten DEF SetFPS, BeginCallback, Flagged
  <2>5. CASE WriteFPS
    <3>1. callback.fps \in Nat
      BY <2>1, <2>5 DEF WriteFPS, Pending
    <3>2. QED BY <2>1, <2>5, <3>1, ModeWritten DEF WriteFPS, Flagged
  <2>6. QED BY <2>2, <2>3, <2>4, <2>5
<1>3. Types0'
  BY <1>1, <1>2 DEF Inv, Types0, TypeOK, monitor
<1>4. OneEach(active)' /\ OneEach(Range(wanted_profiles))'
  BY <1>1 DEF Inv, OneEach, monitor
<1>5. Steady' /\ Found' /\ Begun'
  BY <1>1 DEF Steady, Found, Begun, monitor
<1>6. Rested'
  <2>1. ASSUME (pc = "rest" /\ ~is_profile_changed /\ ~overlapped /\ ~Flagged)'
        PROVE  \A s \in Streams(_all_profiles) : Chosen(active, s)
    BY <1>1, <1>2, <2>1 DEF Inv, Types0, TypeOK, Rested, monitor
  <2>2. QED BY <1>1, <2>1 DEF Rested, Chosen, Scanned, monitor
<1>7. QED BY <1>3, <1>4, <1>5, <1>6 DEF Inv

\* A stream is enabled or disabled: the flag is yet to be raised.
LEMMA EnableInv ==
  ASSUME Inv, NEW sip \in Streams(_all_profiles), NEW b \in BOOLEAN, Enable(sip, b)
  PROVE  Inv'
<1>1. callback' = [write |-> "flag"] /\ callback' \in Pending /\ callback'.write = "flag"
  BY DEF Enable, Pending
<1>2. Flagged'
  BY <1>1, NoneAssumption DEF Flagged
<1>3. changes' \in 0..MaxChanges /\ changes' # 0
  BY BoundAssumption DEF Enable, BeginCallback, Inv, Types0, TypeOK
<1>4. _enabled_profiles' \in [Streams(_all_profiles) -> BOOLEAN]
  BY DEF Enable, Inv, Types0, TypeOK
<1>5. UNCHANGED <<_all_profiles, mode, _formats, is_profile_changed, pc, at,
                  wanted_profiles, active, scanned, overlapped>>
  BY DEF Enable, monitor
<1>6. Types0'
  BY <1>1, <1>3, <1>4, <1>5 DEF Inv, Types0, TypeOK
<1>7. Steady'
  BY <1>2, <1>5 DEF Inv, Steady
<1>8. QED BY <1>2, <1>3, <1>5, <1>6, <1>7 DEF Inv, OneEach, Found, Rested, Begun

\* The flag is raised while the monitor waits: an update will follow.
LEMMA FlagInv ==
  ASSUME Inv, update_sensor_func
  PROVE  Inv'
<1>1. changes # 0
  BY DEF update_sensor_func, Inv, Begun
<1>2. /\ UNCHANGED <<_all_profiles, settings, monitor, overlapped, changes>>
      /\ callback' = None /\ is_profile_changed' = TRUE /\ pc = "rest"
  BY DEF update_sensor_func
<1>3. is_profile_changed' \in BOOLEAN
  BY <1>2
<1>4. Types0'
  BY <1>2, <1>3 DEF Inv, Types0, TypeOK, settings, monitor
<1>5. QED BY <1>1, <1>2, <1>4
          DEF Inv, OneEach, Steady, Found, Rested, Begun, settings, monitor

\* An update begins: nothing is found yet.
LEMMA BeginInv ==
  ASSUME Inv, BeginUpdate
  PROVE  Inv'
<1>1. /\ UNCHANGED <<_all_profiles, settings, callback, is_profile_changed, active,
                     changes>>
      /\ pc' = "scan" /\ at' = 1 /\ wanted_profiles' = <<>>
      /\ scanned' = [mode |-> mode, formats |-> _formats]
      /\ overlapped' <=> callback # None /\ callback.write = "fps"
  BY DEF BeginUpdate
<1>2. Range(wanted_profiles') = {} /\ wanted_profiles' \in Seq(Range(_all_profiles))
  BY <1>1 DEF Range
<1>3. at' \in 1..Len(_all_profiles) + 1
  BY <1>1, ListFacts DEF Inv, Types0
<1>4. overlapped' \in BOOLEAN
  BY DEF BeginUpdate
<1>5. Types0'
  BY <1>1, <1>2, <1>3, <1>4 DEF Inv, Types0, TypeOK, settings
<1>6. Steady'
  <2>1. callback = None \/ callback.write \in {"fps", "flag"}
    BY DEF Inv, Types0, TypeOK, Pending
  <2>2. QED BY <1>1, <2>1 DEF Steady, Flagged, settings
<1>7. Found' /\ Rested'
  BY <1>1, <1>2 DEF Found, Rested
<1>8. Begun'
  BY <1>1 DEF Inv, Begun, settings
<1>9. QED BY <1>1, <1>2, <1>5, <1>6, <1>7, <1>8 DEF Inv, OneEach

LEMMA RangeAppend ==
  ASSUME NEW S, NEW w \in Seq(S), NEW x \in S
  PROVE  /\ Append(w, x) \in Seq(S) /\ Range(w) \subseteq S
         /\ Range(Append(w, x)) = Range(w) \cup {x}
<1> DEFINE v == Append(w, x)
<1>1. /\ v \in Seq(S) /\ DOMAIN w = 1..Len(w) /\ Len(w) \in Nat
      /\ DOMAIN v = 1..Len(w) + 1 /\ v[Len(w) + 1] = x
      /\ \A i \in 1..Len(w) : v[i] = w[i] /\ w[i] \in S
  OBVIOUS
<1> HIDE DEF v
<1>2. Range(w) \subseteq S
  BY <1>1 DEF Range
<1>3. ASSUME NEW y PROVE y \in Range(v) <=> y \in Range(w) \/ y = x
  <2>1. y \in Range(v) => y \in Range(w) \/ y = x
    BY <1>1 DEF Range
  <2>2. y = x => y \in Range(v)
    BY <1>1 DEF Range
  <2>3. y \in Range(w) => y \in Range(v)
    <3>1. SUFFICES ASSUME NEW i \in 1..Len(w), y = w[i] PROVE y \in Range(v)
      BY <1>1 DEF Range
    <3>2. i \in DOMAIN v /\ v[i] = y
      BY <1>1, <3>1
    <3>3. QED BY <3>2 DEF Range
  <2>4. QED BY <2>1, <2>2, <2>3
<1>4. QED BY <1>1, <1>2, <1>3 DEF v

\* A profile is compared.
LEMMA AddInv ==
  ASSUME Inv, addWantedProfiles
  PROVE  Inv'
<1> DEFINE p == _all_profiles[at]
           old == Range(wanted_profiles)
           found == \E k \in DOMAIN wanted_profiles : wanted_profiles[k].sip = p.sip
           wanted == _enabled_profiles[p.sip] /\ ~found /\ isWantedProfile(p)
<1>1. /\ UNCHANGED <<_all_profiles, settings, callback, is_profile_changed, pc,
                     active, scanned, overlapped, changes>>
      /\ pc = "scan" /\ at' = at + 1 /\ at <= Len(_all_profiles)
      /\ wanted_profiles' = IF wanted THEN Append(wanted_profiles, p)
                            ELSE wanted_profiles
  BY DEF addWantedProfiles
<1>2. /\ wanted_profiles \in Seq(Range(_all_profiles))
      /\ at \in 1..Len(_all_profiles) /\ p \in Range(_all_profiles)
      /\ at' \in 1..Len(_all_profiles) + 1
  BY <1>1, ListFacts DEF Inv, Types0, TypeOK
<1>3. found <=> \E q \in old : q.sip = p.sip
  BY DEF Range
<1>4. /\ wanted_profiles' \in Seq(Range(_all_profiles))
      /\ Range(wanted_profiles') = IF wanted THEN old \cup {p} ELSE old
      /\ Range(wanted_profiles') \subseteq Range(_all_profiles)
  <2> DEFINE S == Range(_all_profiles)
  <2> HIDE DEF p, S, wanted
  <2>1. QED BY <1>1, <1>2, RangeAppend DEF S
<1> HIDE DEF found
<1>5. Types0'
  BY <1>1, <1>2, <1>4 DEF Inv, Types0, TypeOK, settings
<1>6. OneEach(Range(wanted_profiles))' /\ OneEach(active)'
  BY <1>1, <1>3, <1>4 DEF Inv, OneEach
<1>7. Steady' /\ Rested' /\ Begun'
  BY <1>1 DEF Inv, Steady, Rested, Begun, Flagged, settings
<1>8. Found'
  <2>1. SUFFICES ASSUME ~overlapped, ~Flagged
                 PROVE  Found'
    BY <1>1 DEF Found, Flagged
  <2>2. \A q : isWantedProfile(q) <=> Scanned(q)
    BY <1>1, <2>1 DEF Inv, Steady, isWantedProfile, Scanned
  <2>3. \A q \in Range(wanted_profiles') : _enabled_profiles[q.sip] /\ Scanned(q)
    BY <1>1, <1>4, <2>1, <2>2 DEF Inv, Found
  <2>4. ASSUME NEW i \in 1..at, _enabled_profiles[_all_profiles[i].sip],
               Scanned(_all_profiles[i])
        PROVE  \E q \in Range(wanted_profiles') : q.sip = _all_profiles[i].sip
    <3>1. CASE i = at
      BY <1>3, <1>4, <2>2, <2>4, <3>1
    <3>2. CASE i \in 1..at - 1
      BY <1>1, <1>4, <2>1, <2>4, <3>2 DEF Inv, Found
    <3>3. QED BY <1>2, <3>1, <3>2
  <2>5. at' - 1 = at
    BY <1>1, <1>2
  <2>6. \A q : Scanned(q)' <=> Scanned(q)
    BY <1>1 DEF Scanned
  <2>7. QED BY <1>1, <2>3, <2>4, <2>5, <2>6 DEF Found, settings
<1>9. QED BY <1>5, <1>6, <1>7, <1>8 DEF Inv

\* Profiles that differ in the default tag only are the same to the settings.
LEMMA EqualProfiles ==
  ASSUME NEW p \in Profile, NEW q \in Profile, profiles_equal(p, q)
  PROVE  p.sip = q.sip /\ (Scanned(p) <=> Scanned(q))
<1> DEFINE P == [p EXCEPT !.is_default = TRUE]
           Q == [q EXCEPT !.is_default = TRUE]
<1>1. P = Q
  BY DEF profiles_equal
<1>2. /\ P.sip = p.sip /\ P.size = p.size /\ P.fps = p.fps /\ P.format = p.format
      /\ Q.sip = q.sip /\ Q.size = q.size /\ Q.fps = q.fps /\ Q.format = q.format
  BY DEF Profile
<1> HIDE DEF P, Q
<1>3. p.sip = q.sip /\ p.size = q.size /\ p.fps = q.fps /\ p.format = q.format
  BY <1>1, <1>2
<1>4. Mode(p) = Mode(q)
  BY <1>3 DEF Mode
<1>5. QED BY <1>3, <1>4 DEF Scanned, isSameProfileValues

\* A set that equals one with the right profiles has the right profiles.
LEMMA ChosenEqual ==
  ASSUME NEW S \in SUBSET Profile, NEW T \in SUBSET Profile, OneEach(S),
         compare_profiles_lists(S, T), NEW s, Chosen(T, s)
  PROVE  Chosen(S, s)
<1> DEFINE known == \E p \in ProfilesOf(_all_profiles, s) : Scanned(p)
           wanted == _enabled_profiles[s] /\ known
<1>1. \A p \in S : \E q \in T : p.sip = q.sip /\ (Scanned(p) <=> Scanned(q))
  BY EqualProfiles DEF compare_profiles_lists, is_profiles_in_profiles
<1>2. \A q \in T : \E p \in S : p.sip = q.sip /\ (Scanned(p) <=> Scanned(q))
  BY EqualProfiles DEF compare_profiles_lists, is_profiles_in_profiles
<1>3. CASE wanted
  <2>1. PICK q \in T : q.sip = s /\ Scanned(q)
    BY <1>3 DEF Chosen
  <2>2. PICK p \in S : p.sip = s /\ Scanned(p)
    BY <1>2, <2>1
  <2>3. {r \in S : r.sip = s} = {p}
    BY <2>2 DEF OneEach
  <2>4. QED BY <1>3, <2>2, <2>3 DEF Chosen
<1>4. CASE ~wanted
  <2>1. \A q \in T : q.sip # s
    BY <1>4 DEF Chosen
  <2>2. \A p \in S : p.sip # s
    BY <1>1, <2>1
  <2>3. QED BY <1>4, <2>2 DEF Chosen
<1>5. QED BY <1>3, <1>4

\* The profiles that are found at the end of the list are the right ones.
LEMMA FoundAll ==
  ASSUME Inv, pc = "scan", at > Len(_all_profiles), ~overlapped, ~Flagged,
         NEW s \in Streams(_all_profiles)
  PROVE  Chosen(Range(wanted_profiles), s)
<1> DEFINE W == Range(wanted_profiles)
           known == \E p \in ProfilesOf(_all_profiles, s) : Scanned(p)
           wanted == _enabled_profiles[s] /\ known
<1>1. /\ \A p \in W : _enabled_profiles[p.sip] /\ Scanned(p)
      /\ \A i \in 1..at - 1 :
           _enabled_profiles[_all_profiles[i].sip] /\ Scanned(_all_profiles[i]) =>
             \E q \in W : q.sip = _all_profiles[i].sip
      /\ OneEach(W) /\ W \subseteq Range(_all_profiles)
  BY DEF Inv, Found, Types0, TypeOK
<1>2. \A p \in Range(_all_profiles) : \E i \in 1..at - 1 : p = _all_profiles[i]
  BY ListFacts DEF Inv, Types0, TypeOK
<1>3. CASE wanted
  <2>1. PICK q \in W : q.sip = s
    BY <1>1, <1>2, <1>3 DEF ProfilesOf
  <2>2. {r \in W : r.sip = s} = {q}
    BY <1>1, <2>1 DEF OneEach
  <2>3. QED BY <1>1, <1>3, <2>1, <2>2 DEF Chosen
<1>4. CASE ~wanted
  <2>1. \A q \in W : q.sip # s
    BY <1>1, <1>4 DEF ProfilesOf
  <2>2. QED BY <1>4, <2>1 DEF Chosen
<1>5. QED BY <1>3, <1>4

\* The update ends: what runs is what was found.
LEMMA EndInv ==
  ASSUME Inv, EndUpdate
  PROVE  Inv'
<1> DEFINE W == Range(wanted_profiles)
           same == compare_profiles_lists(active, W)
<1>1. /\ UNCHANGED <<_all_profiles, settings, callback, scanned, overlapped, changes>>
      /\ pc = "scan" /\ at > Len(_all_profiles) /\ pc' = "rest" /\ at' = 1
      /\ wanted_profiles' = <<>> /\ active' = IF same THEN active ELSE W
  BY DEF EndUpdate
<1>2. W \subseteq Range(_all_profiles) /\ active \subseteq Range(_all_profiles)
  BY DEF Inv, Types0, TypeOK
<1>3. /\ active' \subseteq Range(_all_profiles) /\ OneEach(active')
      /\ Range(wanted_profiles)' = {} /\ wanted_profiles' \in Seq(Range(_all_profiles))
  <2>1. OneEach(active) /\ OneEach(W)
    BY DEF Inv
  <2>2. Range(wanted_profiles)' = {} /\ wanted_profiles' \in Seq(Range(_all_profiles))
    BY <1>1 DEF Range
  <2> HIDE DEF W, same
  <2>3. active' \in {active, W}
    BY <1>1
  <2>4. QED BY <1>2, <2>1, <2>2, <2>3
<1>4. at' \in 1..Len(_all_profiles) + 1
  BY <1>1, ListFacts DEF Inv, Types0
<1>5. is_profile_changed' \in BOOLEAN
  BY DEF EndUpdate
<1>6. Types0'
  BY <1>1, <1>3, <1>4, <1>5 DEF Inv, Types0, TypeOK, settings
<1>7. Rested'
  <2>1. SUFFICES ASSUME ~overlapped, ~Flagged, NEW s \in Streams(_all_profiles)
                 PROVE  Chosen(active', s)
    BY <1>1 DEF Rested, Flagged, Chosen, Scanned, settings
  <2>2. Chosen(W, s)
    BY <1>1, <2>1, FoundAll
  <2>3. W \in SUBSET Profile /\ active \in SUBSET Profile /\ OneEach(active)
    BY <1>2, ListFacts DEF Inv, Types0
  <2>4. same => Chosen(active, s)
    BY <2>2, <2>3, ChosenEqual
  <2> HIDE DEF same, W
  <2>5. QED BY <1>1, <2>2, <2>4
<1>8. Steady' /\ Found' /\ Begun'
  BY <1>1 DEF Inv, Steady, Found, Begun, settings
<1>9. QED BY <1>3, <1>6, <1>7, <1>8 DEF Inv, OneEach

LEMMA NextInv == Inv /\ [Next]_vars => Inv'
<1>1. SUFFICES ASSUME Inv, [Next]_vars PROVE Inv'
  OBVIOUS
<1>2. ASSUME NEW m \in {Mode(p) : p \in Range(_all_profiles)},
             NEW type \in Types(_all_profiles), SetProfile(type, m)
      PROVE  Inv'
  BY <1>1, <1>2, SettingInv
<1>3. ASSUME NEW p \in Range(_all_profiles),
             SetFormat(p.sip, p.format) \/ SetFPS(p.sip, p.fps)
      PROVE  Inv'
  BY <1>1, <1>3, SettingInv
<1>4. ASSUME NEW sip \in Streams(_all_profiles), NEW b \in BOOLEAN, Enable(sip, b)
      PROVE  Inv'
  BY <1>1, <1>4, EnableInv
<1>5. CASE WriteFPS
  BY <1>1, <1>5, SettingInv
<1>6. CASE update_sensor_func
  BY <1>1, <1>6, FlagInv
<1>7. CASE BeginUpdate
  BY <1>1, <1>7, BeginInv
<1>8. CASE addWantedProfiles
  BY <1>1, <1>8, AddInv
<1>9. CASE EndUpdate
  BY <1>1, <1>9, EndInv
<1>10. CASE UNCHANGED vars
  BY <1>1, <1>10
     DEF vars, settings, monitor, Inv, Types0, TypeOK, OneEach, Steady, Found,
         Rested, Begun, Flagged, Scanned, Chosen
<1>11. QED BY <1>1, <1>2, <1>3, <1>4, <1>5, <1>6, <1>7, <1>8, <1>9, <1>10 DEF Next

LEMMA Invariant == Spec => []Inv
BY InitInv, NextInv, PTL DEF Spec

---------------------------------------------------------------------------
(* The theorems.                                                           *)

\* Every variable keeps its type, whatever the list of profiles.
THEOREM TypeCorrect == Spec => []TypeOK
<1>1. Inv => TypeOK
  BY DEF Inv, Types0
<1>2. QED BY <1>1, Invariant, PTL

LEMMA InvActive == Inv => ActiveBySettings
<1>1. SUFFICES ASSUME Inv, Quiet, ~overlapped, NEW s \in Streams(_all_profiles)
               PROVE  Chosen(active, s)
  BY DEF ActiveBySettings, Chosen
<1>2. QED BY <1>1 DEF Inv, Rested, Quiet, Flagged

\* At rest, the streams run as the settings say (ActiveBySettings, README.md:442),
\* for every list and however many parameters are set, in any order with the
\* steps of the update.
THEOREM StreamsFollowSettings == Spec => []ActiveBySettings
BY InvActive, Invariant, PTL

\* Before a parameter is set, what runs is what the default profiles say.
LEMMA BegunFacts ==
  ASSUME Inv, Quiet, changes = 0
  PROVE  /\ _all_profiles \in Lists
         /\ active \subseteq Range(_all_profiles) /\ OneEach(active)
         /\ mode = registerProfileParameters(_all_profiles)
         /\ \A s \in Streams(_all_profiles) :
              /\ Chosen(active, s)
              /\ _enabled_profiles[s] <=>
                   s # "infra0" /\ s \in DOMAIN getDefaultProfiles(_all_profiles)
         /\ \A p : Scanned(p) <=>
              isSameProfileValues(p, registerProfileParameters(_all_profiles)[Type(p.sip)],
                                  FormatOf(DefaultFormats(_all_profiles), p.sip))
<1>1. /\ _enabled_profiles = registerSensorUpdateParam(_all_profiles)
      /\ mode = registerProfileParameters(_all_profiles)
      /\ scanned.mode = mode /\ scanned.formats = _formats
      /\ _formats = DefaultFormats(_all_profiles) /\ ~overlapped
  BY DEF Inv, Begun
<1>2. \A s \in Streams(_all_profiles) : Chosen(active, s)
  BY <1>1 DEF Inv, Rested, Quiet, Flagged
<1>3. \A s \in Streams(_all_profiles) : _enabled_profiles[s] <=>
        s # "infra0" /\ s \in DOMAIN getDefaultProfiles(_all_profiles)
  BY <1>1 DEF registerSensorUpdateParam
<1>4. QED BY <1>1, <1>2, <1>3 DEF Inv, Types0, TypeOK, Scanned

LEMMA InvOpen == Inv => DefaultsOpen
<1> DEFINE list == _all_profiles
           D == getDefaultProfiles(list)
<1>1. SUFFICES ASSUME Inv, Quiet, changes = 0, NEW s \in Streams(list),
                      _enabled_profiles[s], \A p \in active : p.sip # s
               PROVE  s = "infra2" /\ Mode(D[s]) # mode["infra"]
  BY DEF DefaultsOpen
<1>2. list \in Lists /\ s \in DOMAIN D /\ s # "infra0" /\ Chosen(active, s)
  BY <1>1, BegunFacts
<1>3. ~ \E p \in ProfilesOf(list, s) : Scanned(p)
  BY <1>1, <1>2 DEF Chosen
<1>4. SUFFICES ASSUME s = "infra2" => Mode(D[s]) = mode["infra"]
               PROVE  FALSE
  OBVIOUS
<1>5. PICK p \in ProfilesOf(list, s) :
        isSameProfileValues(p, registerProfileParameters(list)[Type(s)],
                            FormatOf(DefaultFormats(list), s))
  BY <1>1, <1>2, <1>4, BegunFacts, DefaultKnown
<1>6. p.sip = s
  BY DEF ProfilesOf
<1>7. QED BY <1>1, <1>3, <1>5, <1>6, BegunFacts

\* With the settings the node begins with, every stream it enables runs after
\* the first update (DefaultsOpen, README.md:446), whatever the list of the
\* device: no default profile is lost for its mode or its format, but for infra2's
\* when it has another mode than the infrared streams share.
THEOREM DefaultsAreOpened == Spec => []DefaultsOpen
BY InvOpen, Invariant, PTL

\* Without defaults, exactly the motion streams that have the best rate run.
LEMMA MotionActive ==
  ASSUME Inv, Quiet, changes = 0, Streams(_all_profiles) \subseteq Motion,
         \A p \in Range(_all_profiles) : ~p.is_default
  PROVE  \E f \in Rates(_all_profiles) :
           /\ Best(_all_profiles, f)
           /\ \A p \in active : p.fps = f /\ p.sip \in Sharing(_all_profiles, f)
           /\ \A s \in Sharing(_all_profiles, f) : \E p \in active : p.sip = s
<1> DEFINE list == _all_profiles
           D == getDefaultProfiles(list)
<1>1. PICK f \in Rates(list) :
        /\ Best(list, f) /\ DOMAIN D = Sharing(list, f)
        /\ \A s \in Sharing(list, f) : D[s].fps = f
  BY BegunFacts, MotionDefaults
<1>2. ASSUME NEW s \in Streams(list)
      PROVE  _enabled_profiles[s] <=> s \in Sharing(list, f)
  BY <1>1, BegunFacts DEF Motion
<1>3. ASSUME NEW p \in active
      PROVE  p.fps = f /\ p.sip \in Sharing(list, f)
  <2> DEFINE s == p.sip
  <2>1. p \in Range(list) /\ s \in Streams(list) /\ Chosen(active, s)
    BY BegunFacts DEF Streams
  <2>2. s \in Sharing(list, f) /\ Scanned(p)
    BY <1>2, <2>1 DEF Chosen
  <2>3. s \in Motion /\ Type(s) = s
    BY <2>1 DEF Type, Motion
  <2>4. Mode(p) = registerProfileParameters(list)[s]
    BY <2>2, <2>3, BegunFacts DEF isSameProfileValues
  <2>5. s \in Types(list)
    BY <2>1, <2>3 DEF Types
  <2>6. registerProfileParameters(list)[s].fps = D[s].fps
    BY <1>1, <2>2, <2>3, <2>5 DEF registerProfileParameters, DefaultFPS
  <2>7. QED BY <1>1, <2>2, <2>4, <2>6 DEF Mode
<1>4. ASSUME NEW s \in Sharing(list, f)
      PROVE  \E p \in active : p.sip = s
  <2>1. s \in Streams(list) /\ s \in DOMAIN D /\ s \in Motion
    BY <1>1 DEF Sharing, Streams
  <2>2. PICK p \in ProfilesOf(list, s) :
          isSameProfileValues(p, registerProfileParameters(list)[Type(s)],
                              FormatOf(DefaultFormats(list), s))
    BY <2>1, BegunFacts, DefaultKnown DEF Motion
  <2>3. Scanned(p)
    BY <2>2, BegunFacts DEF ProfilesOf
  <2>4. _enabled_profiles[s] /\ Chosen(active, s)
    BY <1>2, <2>1, BegunFacts
  <2>5. QED BY <2>3, <2>4 DEF Chosen
<1>5. QED BY <1>1, <1>3, <1>4

LEMMA InvOneRate == Inv => OneRate
<1> DEFINE list == _all_profiles
           shared(f) == Cardinality(Sharing(list, f))
<1>1. SUFFICES ASSUME Inv, Quiet, changes = 0, Streams(list) \subseteq Motion,
                      \A p \in Range(list) : ~p.is_default
               PROVE  /\ \A p, q \in active : p.fps = q.fps
                      /\ \A p \in active, q \in Range(list) :
                           /\ shared(q.fps) <= shared(p.fps)
                           /\ q.fps < p.fps => shared(q.fps) < shared(p.fps)
                      /\ \A q \in Range(list) : shared(q.fps) <= Cardinality(active)
  BY DEF OneRate
<1>2. PICK f \in Rates(list) :
        /\ Best(list, f)
        /\ \A p \in active : p.fps = f /\ p.sip \in Sharing(list, f)
        /\ \A s \in Sharing(list, f) : \E p \in active : p.sip = s
  BY <1>1, MotionActive
<1>3. list \in Lists /\ OneEach(active) /\ f \in Nat
  BY <1>1, BegunFacts, ListFacts DEF Rates, Profile
<1>4. ASSUME NEW q \in Range(list)
      PROVE  /\ shared(q.fps) <= shared(f)
             /\ q.fps < f => shared(q.fps) < shared(f)
  <2>1. q.fps \in Rates(list) /\ q.fps \in Nat
    BY <1>3, ListFacts DEF Rates, Profile
  <2>2. shared(q.fps) \in Nat /\ shared(f) \in Nat
    BY <1>3, CountFacts DEF Count
  <2>3. shared(f) > shared(q.fps) \/ (shared(f) = shared(q.fps) /\ f <= q.fps)
    BY <1>2, <2>1 DEF Best, Count
  <2>4. QED BY <1>3, <2>1, <2>2, <2>3
<1>5. Cardinality(active) = shared(f)
  <2> DEFINE S == Sharing(list, f)
             h == [s \in S |-> CHOOSE p \in active : p.sip = s]
  <2>1. \A s \in S : h[s] \in active /\ h[s].sip = s
    BY <1>2
  <2>2. \A p \in active : p.sip \in S /\ h[p.sip] = p
    BY <1>2, <1>3, <2>1 DEF OneEach
  <2>3. h \in [S -> active]
    BY <2>1
  <2> HIDE DEF h
  <2>4. h \in Surjection(S, active) /\ h \in Injection(S, active)
    BY <2>1, <2>2, <2>3 DEF Surjection, Injection, IsInjective
  <2>5. IsFiniteSet(S)
    BY <1>3, CountFacts
  <2>6. QED BY <2>4, <2>5, FS_Surjection, Zenon
<1>6. QED BY <1>2, <1>4, <1>5

\* Without defaults of the device, the motion streams start with one rate, the
\* lowest of those that most streams share, and every stream that has it runs
\* (OneRate, profile_manager.cpp:602), whatever rates the sensor has.
THEOREM MotionHasOneRate == Spec => []OneRate
BY InvOneRate, Invariant, PTL
===========================================================================

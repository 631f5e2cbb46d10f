----------------------------- MODULE Profiles -----------------------------
(***************************************************************************)
(* The profiles a sensor is opened with: the settings its profile managers *)
(* choose from the list of the device, the parameters that change them,    *)
(* and the update that looks up a profile for each enabled stream.         *)
(*                                                                         *)
(* The executor's callbacks and the monitor thread share the settings      *)
(* without a lock: a callback writes the resolution and then the rate,     *)
(* while the monitor compares one profile after the other with them.  Only *)
(* the flag that asks for an update is under _profile_changes_mutex, which *)
(* the monitor holds throughout.                                           *)
(*                                                                         *)
(* A sensor has video or motion profiles.  A launch argument is handled    *)
(* by the same callbacks, before the first update.                         *)
(***************************************************************************)
EXTENDS Integers, Sequences, FiniteSets, SequencesExt

CONSTANTS
  None,
  Lists,         \* the lists of profiles the sensor may have
  MaxChanges     \* bound: the parameters set

ASSUME BoundAssumption == MaxChanges \in Nat

\* The streams (a type and an index each), in the order of a std::map.
Sips == <<"depth", "color", "infra0", "infra1", "infra2", "fisheye",
          "gyro", "accel">>
Motion == {"gyro", "accel"}
Type(sip) == IF sip \in {"infra0", "infra1", "infra2"} THEN "infra" ELSE sip

\* A profile: its stream, its resolution, rate and format, and whether
\* librealsense calls it a default.  A motion profile has the resolution 0.
Profile == [sip : Range(Sips), size : Nat, fps : Nat, format : STRING,
            is_default : BOOLEAN]

ASSUME ListAssumption == \A list \in Lists :
  /\ list # <<>> /\ list \in Seq(Profile)
  /\ \A p, q \in Range(list) : p.sip \in Motion <=> q.sip \in Motion
  /\ \A p \in Range(list) : p.sip \in Motion => p.size = 0

\* What a callback has yet to write: the rate of a type, or the flag.
Pending ==
  [write : {"flag"}]
    \cup [write : {"fps"}, type : {Type(s) : s \in Range(Sips)}, fps : Nat]

ASSUME NoneAssumption == None \notin Pending

VARIABLES
  _all_profiles,
  _enabled_profiles,
  mode,            \* _width and _height, and _fps, of each type of stream
                   \* (a motion stream is a type of its own)
  _formats,        \* for the video streams
  callback,        \* what the callback that runs has yet to write
  is_profile_changed,
  pc, at,          \* where the monitor is, and in which profile
  wanted_profiles, \* those found so far
  active,          \* the profiles the sensor streams with
  scanned,         \* history: mode and _formats when the last update began
  overlapped,      \* history: one of them changed while it ran
  changes

settings == <<_enabled_profiles, mode, _formats>>
monitor  == <<pc, at, wanted_profiles, active, scanned>>
vars == <<_all_profiles, settings, callback, is_profile_changed, monitor,
          overlapped, changes>>

Mode(p) == [size |-> p.size, fps |-> p.fps]
ProfilesOf(list, sip) == {p \in Range(list) : p.sip = sip}
OfType(list, type) == {p \in Range(list) : Type(p.sip) = type}
Streams(list) == {p.sip : p \in Range(list)}
Types(list) == {Type(s) : s \in Streams(list)}

---------------------------------------------------------------------------
(* The settings the profile managers begin with.                           *)

\* The video streams' fallback is the first profile; the motion streams' are
\* the profiles of one rate, the lowest of those that most streams have.
FallbackVideo(list) == [s \in {list[1].sip} |-> list[1]]

Sharing(list, fps) == {p.sip : p \in {q \in Range(list) : q.fps = fps}}

FallbackMotion(list) ==
  LET rates == {p.fps : p \in Range(list)}
      fps == CHOOSE f \in rates : \A g \in rates :
               LET n == Cardinality(Sharing(list, f))
                   m == Cardinality(Sharing(list, g))
               IN  n > m \/ (n = m /\ f <= g)
  IN  [s \in Sharing(list, fps) |-> 
         CHOOSE p \in ProfilesOf(list, s) : p.fps = fps]

getFallbackProfiles(list) ==
  IF list[1].sip \in Motion THEN FallbackMotion(list) ELSE FallbackVideo(list)

FirstDefault(list, sip) ==
  SelectInSeq(list, LAMBDA p : p.sip = sip /\ p.is_default)

\* The first default of each stream.
getDefaultProfiles(list) ==
  LET sips == {s \in Streams(list) : FirstDefault(list, s) # 0}
  IN  IF sips = {} THEN getFallbackProfiles(list)
      ELSE [s \in sips |-> list[FirstDefault(list, s)]]

\* begin() of a map of streams.
FirstOf(sips) == SelectInSeq(Sips, LAMBDA s : s \in sips)
Begin(map) == map[Sips[FirstOf(DOMAIN map)]]

LastOfType(list, type) == SelectLastInSeq(list, LAMBDA p : Type(p.sip) = type)

\* Variant: the given profile is taken as it is.
GivenProfile(list, type, given) == given

\* The given profile if one of the type has its mode, else the last of the type.
validateAndGetSuitableProfile(list, type, given) ==
  IF \E p \in OfType(list, type) : Mode(p) = Mode(given) THEN given
  ELSE list[LastOfType(list, type)]

DefaultProfile(list, type) ==
  LET defaults == getDefaultProfiles(list)
  IN  CASE type \in {"color", "depth"} ->
             IF type \in DOMAIN defaults THEN defaults[type] ELSE Begin(defaults)
        [] type = "infra" /\ "infra1" \in DOMAIN defaults -> defaults["infra1"]
        [] type = "infra" /\ "infra1" \notin DOMAIN defaults ->
             IF "depth" \in DOMAIN defaults
             THEN validateAndGetSuitableProfile(list, type, defaults["depth"])
             ELSE Begin(defaults)
        [] OTHER -> validateAndGetSuitableProfile(list, type, Begin(defaults))

LowestFPS(list, sip) ==
  CHOOSE f \in {p.fps : p \in ProfilesOf(list, sip)} :
    \A p \in ProfilesOf(list, sip) : f <= p.fps

\* Motion: the rate of the stream's default, or its own lowest.
DefaultFPS(list, sip) ==
  LET defaults == getDefaultProfiles(list)
  IN  IF sip \in DOMAIN defaults THEN defaults[sip].fps
      ELSE LowestFPS(list, sip)

registerProfileParameters(list) ==
  [type \in Types(list) |->
     IF type \in Motion THEN [size |-> 0, fps |-> DefaultFPS(list, type)]
     ELSE Mode(DefaultProfile(list, type))]

registerVideoSensorProfileFormat(sip) ==
  CASE sip = "depth" -> "Z16"
    [] sip \in {"infra1", "infra2"} -> "Y8"
    [] sip \in {"infra0", "color"} -> "RGB8"
    [] OTHER -> "ANY"

\* The format of the default replaces it, if the default has the mode chosen.
DefaultFormat(list, sip) ==
  LET defaults == getDefaultProfiles(list)
      chosen == registerProfileParameters(list)[Type(sip)]
  IN  IF sip \in DOMAIN defaults /\ Mode(defaults[sip]) = chosen
      THEN defaults[sip].format ELSE registerVideoSensorProfileFormat(sip)

\* Variant: a stream without a default profile has no parameter.
registerDefaultsOnly(list) ==
  [s \in DOMAIN getDefaultProfiles(list) |-> s # "infra0"]

\* A stream is enabled if it has a default profile, infra0 is not.
registerSensorUpdateParam(list) ==
  [s \in Streams(list) |-> s # "infra0" /\ s \in DOMAIN getDefaultProfiles(list)]

Init ==
  /\ _all_profiles \in Lists
  /\ _enabled_profiles = registerSensorUpdateParam(_all_profiles)
  /\ mode = registerProfileParameters(_all_profiles)
  /\ _formats = [s \in Streams(_all_profiles) \ Motion |->
       DefaultFormat(_all_profiles, s)]
  /\ callback = None /\ is_profile_changed = TRUE
  /\ pc = "rest" /\ at = 1 /\ wanted_profiles = <<>> /\ active = {}
  /\ scanned = [mode |-> mode, formats |-> _formats]
  /\ overlapped = FALSE /\ changes = 0

---------------------------------------------------------------------------
(* The parameters' callbacks, one at a time in the executor.               *)

BeginCallback == callback = None /\ changes < MaxChanges /\ changes' = changes + 1

\* The sensor has a profile of this mode, whatever its stream.
ModeKnown(m) == \E p \in Range(_all_profiles) : Mode(p) = m

\* <stream type>_profile: a mode the sensor has is written, the rate last.  An
\* unknown one, or one that is not positive, changes nothing.
SetProfile(type, m) ==
  /\ BeginCallback
  /\ type \in Types(_all_profiles) \ Motion /\ ModeKnown(m)
  /\ mode' = [mode EXCEPT ![type].size = m.size]
  /\ callback' = [write |-> "fps", type |-> type, fps |-> m.fps]
  /\ overlapped' = (overlapped \/ pc = "scan")
  /\ UNCHANGED <<_all_profiles, _enabled_profiles, _formats, is_profile_changed,
                 monitor>>

WriteFPS ==
  /\ callback # None /\ callback.write = "fps"
  /\ mode' = [mode EXCEPT ![callback.type].fps = callback.fps]
  /\ callback' = None
  /\ overlapped' = (overlapped \/ pc = "scan")
  /\ UNCHANGED <<_all_profiles, _enabled_profiles, _formats, is_profile_changed,
                 monitor, changes>>

\* <stream>_format: one the stream has.
SetFormat(sip, f) ==
  /\ BeginCallback
  /\ \E p \in ProfilesOf(_all_profiles, sip) : p.format = f
  /\ sip \notin Motion
  /\ _formats' = [_formats EXCEPT ![sip] = f]
  /\ overlapped' = (overlapped \/ pc = "scan")
  /\ UNCHANGED <<_all_profiles, _enabled_profiles, mode, callback,
                 is_profile_changed, monitor>>

\* <motion stream>_fps: one the stream has.
SetFPS(sip, fps) ==
  /\ BeginCallback
  /\ sip \in Motion
  /\ \E p \in ProfilesOf(_all_profiles, sip) : p.fps = fps
  /\ mode' = [mode EXCEPT ![sip].fps = fps]
  /\ overlapped' = (overlapped \/ pc = "scan")
  /\ UNCHANGED <<_all_profiles, _enabled_profiles, _formats, callback,
                 is_profile_changed, monitor>>

\* enable_<stream>: written at once, the flag is raised when the monitor waits.
Enable(sip, b) ==
  /\ BeginCallback
  /\ sip \in Streams(_all_profiles)
  /\ _enabled_profiles' = [_enabled_profiles EXCEPT ![sip] = b]
  /\ callback' = [write |-> "flag"]
  /\ UNCHANGED <<_all_profiles, mode, _formats, is_profile_changed, monitor,
                 overlapped>>

update_sensor_func ==
  /\ callback # None /\ callback.write = "flag" /\ pc = "rest"
  /\ callback' = None /\ is_profile_changed' = TRUE
  /\ UNCHANGED <<_all_profiles, settings, monitor, overlapped, changes>>

---------------------------------------------------------------------------
(* The update of the sensor by the monitor.                                *)

BeginUpdate ==
  /\ pc = "rest" /\ is_profile_changed
  /\ pc' = "scan" /\ at' = 1 /\ wanted_profiles' = <<>>
  /\ scanned' = [mode |-> mode, formats |-> _formats]
  /\ overlapped' = (callback # None /\ callback.write = "fps")
  /\ UNCHANGED <<_all_profiles, settings, callback, is_profile_changed, active,
                 changes>>

\* Profile p has mode m and format f.
isSameProfileValues(p, m, f) ==
  Mode(p) = m /\ (p.sip \in Motion \/ f = "ANY" \/ p.format = f)

FormatOf(formats, sip) == IF sip \in Motion THEN "ANY" ELSE formats[sip]

isWantedProfile(p) ==
  isSameProfileValues(p, mode[Type(p.sip)], FormatOf(_formats, p.sip))

\* Variant: each profile that matches is wanted.
addEachWantedProfile ==
  /\ pc = "scan" /\ at <= Len(_all_profiles)
  /\ LET p == _all_profiles[at]
     IN  wanted_profiles' = IF _enabled_profiles[p.sip] /\ isWantedProfile(p)
                            THEN Append(wanted_profiles, p) ELSE wanted_profiles
  /\ at' = at + 1
  /\ UNCHANGED <<_all_profiles, settings, callback, is_profile_changed, pc,
                 active, scanned, overlapped, changes>>

\* A turn of the loop: the first profile that matches is wanted.
addWantedProfiles ==
  /\ pc = "scan" /\ at <= Len(_all_profiles)
  /\ LET p == _all_profiles[at]
         found == \E k \in DOMAIN wanted_profiles : wanted_profiles[k].sip = p.sip
         wanted == _enabled_profiles[p.sip] /\ ~found /\ isWantedProfile(p)
     IN  wanted_profiles' = IF wanted THEN Append(wanted_profiles, p)
                            ELSE wanted_profiles
  /\ at' = at + 1
  /\ UNCHANGED <<_all_profiles, settings, callback, is_profile_changed, pc,
                 active, scanned, overlapped, changes>>

\* All but the default tag is compared.
profiles_equal(p, q) ==
  [p EXCEPT !.is_default = TRUE] = [q EXCEPT !.is_default = TRUE]

is_profiles_in_profiles(S, T) == \A p \in S : \E q \in T : profiles_equal(p, q)

compare_profiles_lists(S, T) ==
  is_profiles_in_profiles(S, T) /\ is_profiles_in_profiles(T, S)

\* The lists are compared, and the sensor is restarted if they differ.
EndUpdate ==
  /\ pc = "scan" /\ at > Len(_all_profiles)
  /\ pc' = "rest" /\ at' = 1 /\ wanted_profiles' = <<>>
  /\ is_profile_changed' = FALSE
  /\ active' = IF compare_profiles_lists(active, Range(wanted_profiles))
               THEN active ELSE Range(wanted_profiles)
  /\ UNCHANGED <<_all_profiles, settings, callback, scanned, overlapped, changes>>

Next ==
  \/ \E m \in {Mode(p) : p \in Range(_all_profiles)} :
       \E type \in Types(_all_profiles) : SetProfile(type, m)
  \/ \E p \in Range(_all_profiles) :
       SetFormat(p.sip, p.format) \/ SetFPS(p.sip, p.fps)
  \/ \E sip \in Streams(_all_profiles), b \in BOOLEAN : Enable(sip, b)
  \/ WriteFPS \/ update_sensor_func
  \/ BeginUpdate \/ addWantedProfiles \/ EndUpdate

Spec == Init /\ [][Next]_vars

---------------------------------------------------------------------------
(* Properties.                                                             *)

TypeOK ==
  /\ _enabled_profiles \in [Streams(_all_profiles) -> BOOLEAN]
  /\ mode \in [Types(_all_profiles) -> [size : Nat, fps : Nat]]
  /\ DOMAIN _formats = Streams(_all_profiles) \ Motion
  /\ callback \in {None} \cup Pending
  /\ pc \in {"rest", "scan"} /\ at \in 1..Len(_all_profiles) + 1
  /\ active \subseteq Range(_all_profiles)
  /\ Range(wanted_profiles) \subseteq Range(_all_profiles)
  /\ is_profile_changed \in BOOLEAN /\ overlapped \in BOOLEAN
  /\ changes \in 0..MaxChanges

Quiet == pc = "rest" /\ ~is_profile_changed /\ callback = None

\* Profile p is that of the settings when the last update began.
Scanned(p) == isSameProfileValues(p, scanned.mode[Type(p.sip)],
                                  FormatOf(scanned.formats, p.sip))

\* README.md:442: once the monitor rests, each enabled stream for which the
\* sensor has a profile of the settings runs, with one such profile, and no
\* other stream does - however the streams were enabled and disabled in the
\* meantime.  The settings are those when the update began, unless one was
\* changed while it ran: an update may then have found a resolution without
\* its rate, and nothing repeats it.
ActiveBySettings ==
  Quiet /\ ~overlapped =>
    \A s \in Streams(_all_profiles) :
      LET running == {p \in active : p.sip = s}
          known == \E p \in ProfilesOf(_all_profiles, s) : Scanned(p)
      IN  IF _enabled_profiles[s] /\ known
          THEN \E p \in running : running = {p} /\ Scanned(p)
          ELSE running = {}

\* README.md:446, "Default is true for images": with the settings the node begins
\* with, every stream it enables runs after the first update, whatever the list
\* of the device.  (But infra2, when its default has another mode than the one
\* it shares with infra1 or takes from depth.)
DefaultsOpen ==
  Quiet /\ changes = 0 =>
    \A s \in Streams(_all_profiles) :
      _enabled_profiles[s] /\ (\A p \in active : p.sip # s) =>
        /\ s = "infra2"
        /\ Mode(getDefaultProfiles(_all_profiles)[s]) # mode["infra"]

\* profile_manager.cpp:602: "One rate for all the streams - some sensors cannot
\* stream theirs at different ones."  Without defaults of the device the motion
\* streams start with one rate, which no other rate is shared by more streams
\* than, and no lower one by as many; a stream without it does not start.
OneRate ==
  LET shared(f) == Cardinality(Sharing(_all_profiles, f))
      motion == Streams(_all_profiles) \subseteq Motion
      defaults == \E p \in Range(_all_profiles) : p.is_default
  IN  Quiet /\ changes = 0 /\ motion /\ ~defaults =>
        /\ \A p, q \in active : p.fps = q.fps
        /\ \A p \in active, q \in Range(_all_profiles) :
             /\ shared(q.fps) <= shared(p.fps)
             /\ q.fps < p.fps => shared(q.fps) < shared(p.fps)
        /\ \A q \in Range(_all_profiles) : shared(q.fps) <= Cardinality(active)
===========================================================================

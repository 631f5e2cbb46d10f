---------------------------- MODULE MCProfiles ----------------------------
(* Lists of one or two profiles of four video streams, of three profiles   *)
(* of three of them in one format, and of up to four profiles of the two   *)
(* motion streams, in any order and with any of them a default.            *)
EXTENDS Profiles

FormatsOf(sip) == CASE sip = "depth" -> {"Z16"}
                    [] sip = "infra1" -> {"Y8", "Y16"}
                    [] sip = "infra2" -> {"Y8"}
                    [] OTHER -> {"RAW8"}

VideoProfiles ==
  UNION {[sip : {s}, size : {m}, fps : {m}, format : FormatsOf(s),
          is_default : BOOLEAN] :
           s \in {"depth", "infra1", "infra2", "fisheye"}, m \in 1..2}

MotionProfiles ==
  [sip : Motion, size : {0}, fps : 1..2, format : {"F32"}, is_default : BOOLEAN]

ProfileLists ==
  UNION {[1..n -> VideoProfiles] : n \in 1..2}
    \cup [1..3 -> {p \in VideoProfiles : p.format \in {"Z16", "Y8"}}]
    \cup UNION {[1..n -> MotionProfiles] : n \in 1..3}
    \cup [1..4 -> {p \in MotionProfiles : ~p.is_default}]
===========================================================================

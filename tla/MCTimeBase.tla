---------------------------- MODULE MCTimeBase ----------------------------
(* A video and a motion stream.                                            *)
EXTENDS TimeBase

CONSTANTS video, motion
Streams == {video, motion}
MotionStreams == {motion}
===========================================================================

-------------------------- MODULE MCVideoReceiver --------------------------
(* A stream of a few frames, with and without parity, over a wrap of the   *)
(* sequence numbers.                                                       *)
EXTENDS VideoReceiver

\* A single keyframe at the start, or another one in the middle.
StartOrMiddle == {{0}, {0, 1}}
=============================================================================

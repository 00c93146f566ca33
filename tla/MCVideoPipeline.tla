-------------------------- MODULE MCVideoPipeline --------------------------
(* Queues of one and two frames, and a few disturbances.                   *)
EXTENDS VideoPipeline
=============================================================================

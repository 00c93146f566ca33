--------------------------- MODULE MCStreamEngine ---------------------------
(* Small instances of StreamEngine: two sessions, or one and a shutdown.   *)
EXTENDS StreamEngine
=============================================================================

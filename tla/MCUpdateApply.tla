---------------------------- MODULE MCUpdateApply ----------------------------
(* Small instances of UpdateApply for TLC.                                  *)
EXTENDS UpdateApply
=============================================================================

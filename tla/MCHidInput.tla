----------------------------- MODULE MCHidInput -----------------------------
(* A small instance of HidInput: two slots, lanes that a second press     *)
(* overflows, and a budget that serves one full lane and part of another.  *)
EXTENDS HidInput
=============================================================================

------------------------ MODULE MCSessionAllocation ------------------------
(* Small instances of SessionAllocation: one or two calls and accounts.   *)
EXTENDS SessionAllocation, TLC

CONSTANTS c1, c2, u1, u2

TwoCalls == {c1, c2}
OneUser == {u1}
TwoUsers == {u1, u2}

\* Calls and accounts are interchangeable in the safety runs.
Interchangeable == Permutations(Calls) \cup Permutations(Users)

=============================================================================

----------------------------- MODULE MCRequests -----------------------------
(* An instance of Requests with four calls, two of them background calls.   *)
EXTENDS Requests

CONSTANTS r1, r2, b1, b2

FourCalls == {r1, r2, b1, b2}
TwoBackground == {b1, b2}

=============================================================================

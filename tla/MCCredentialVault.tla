-------------------------- MODULE MCCredentialVault --------------------------
(* Two accounts, saved by earlier versions or not; the accounts are alike. *)
EXTENDS CredentialVault, TLC

CONSTANTS u1, u2

TwoUsers == {u1, u2}
AccountSymmetry == Permutations(TwoUsers)

=============================================================================

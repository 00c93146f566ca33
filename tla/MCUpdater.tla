------------------------------ MODULE MCUpdater ------------------------------
(* Instances of Updater with one or two transactions.                       *)
EXTENDS Updater

CONSTANTS t1, t2

TwoTxns == {t1, t2}
OneTxn == {t1}

=============================================================================

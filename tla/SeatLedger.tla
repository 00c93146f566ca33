----------------------------- MODULE SeatLedger -----------------------------
(***************************************************************************)
(* What the core promises about paid cloud seats, without calls, locks,    *)
(* accounts or messages.  A seat is asked for only when the core answers   *)
(* for none, and the core stops answering for a seat only when the seat    *)
(* does not run any more; a core that is restarted answers for at most one *)
(* of the seats it answered for.                                           *)
(***************************************************************************)
EXTENDS Naturals, FiniteSets

CONSTANT Seats

VARIABLES
    server,  \* what became of each seat: "none", "live" or "gone"
    held,    \* the seats the core answers for
    restarts \* how often the core was restarted

LedgerInit ==
    /\ server = [s \in Seats |-> "none"]
    /\ held = {}
    /\ restarts = 0

\* A seat is asked for, and granted.
Grant(s) ==
    /\ held = {}
    /\ server[s] = "none"
    /\ server' = [server EXCEPT ![s] = "live"]
    /\ UNCHANGED <<held, restarts>>

\* The core learns which seat it was granted.
Take(s) ==
    /\ held = {}
    /\ server[s] # "none"
    /\ held' = {s}
    /\ UNCHANGED <<server, restarts>>

\* The core finds a running seat and answers for it.
Find(s) ==
    /\ server[s] = "live"
    /\ held' = held \cup {s}
    /\ UNCHANGED <<server, restarts>>

\* A seat ends, of itself or because the core asked for it.
End(s) ==
    /\ server[s] = "live"
    /\ server' = [server EXCEPT ![s] = "gone"]
    /\ UNCHANGED <<held, restarts>>

\* The core is done with a seat that does not run, or ends it with this step.
Drop(s) ==
    /\ s \in held
    /\ server' \in {server, [server EXCEPT ![s] = "gone"]}
    /\ server'[s] = "gone"
    /\ held' = held \ {s}
    /\ UNCHANGED restarts

Restart ==
    /\ restarts' = restarts + 1
    /\ held' \in {{}} \cup {{s} : s \in held}
    /\ UNCHANGED server

LedgerNext ==
    \/ \E s \in Seats : Grant(s) \/ Take(s) \/ Find(s) \/ End(s) \/ Drop(s)
    \/ Restart

LedgerSpec == LedgerInit /\ [][LedgerNext]_<<server, held, restarts>>

=============================================================================

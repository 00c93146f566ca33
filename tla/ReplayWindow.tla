---------------------------- MODULE ReplayWindow ----------------------------
(***************************************************************************)
(* The replay protection of the SRTP receiver (ReplayWindow in nvst.rs):   *)
(* a datagram carries only the low part of its packet index, the receiver  *)
(* guesses the rest from the highest index it has authenticated, and it    *)
(* accepts every index once, as long as it is not too old.                 *)
(*                                                                         *)
(* The window is a pair of the highest index (-1 while nothing was         *)
(* authenticated) and the set of indices whose bit is set.                 *)
(***************************************************************************)
EXTENDS Integers

CONSTANTS
    SequenceModulus,   \* 2^16: sequence numbers in a datagram
    ReplayPackets      \* SRTP_REPLAY_WINDOW_PACKETS

ASSUME ReplayAssumption ==
    /\ SequenceModulus \in Nat \ {0} /\ SequenceModulus % 2 = 0
    /\ ReplayPackets \in Nat \ {0}
    /\ ReplayPackets <= SequenceModulus \div 2

Half == SequenceModulus \div 2
EmptyWindow == [highest |-> -1, seen |-> {}]

\* The index guess_packet_index makes of a sequence number, -1 if it refuses.
GuessedRoc(highest, sequence) ==
    LET roc == highest \div SequenceModulus
        delta == sequence - (highest % SequenceModulus)
    IN  IF delta < -Half THEN roc + 1 ELSE IF delta > Half THEN roc - 1 ELSE roc

GuessPacketIndex(highest, sequence) ==
    IF highest = -1 THEN sequence
    ELSE LET roc == GuessedRoc(highest, sequence)
         IN  IF roc < 0 THEN -1 ELSE roc * SequenceModulus + sequence

\* check: neither seen nor older than the window.
Fresh(window, index) ==
    \/ index > window.highest
    \/ window.highest - index < ReplayPackets /\ index \notin window.seen

\* commit: the bits of the indices that fall out of the window are lost.
Commit(window, index) ==
    LET highest == IF index > window.highest THEN index ELSE window.highest
    IN  [highest |-> highest,
         seen |-> {i \in window.seen \cup {index} : highest - i < ReplayPackets}]

=============================================================================

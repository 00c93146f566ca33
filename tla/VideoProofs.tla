----------------------------- MODULE VideoProofs -----------------------------
(***************************************************************************)
(* Proofs about the video that arrives.  ReplayWindow, which decides about *)
(* each packet: for every modulus and every window size, the guess of      *)
(* guess_packet_index recovers the index of a packet that is within half   *)
(* the range of the newest one, and an index that was accepted is refused  *)
(* for good.  VideoReceiver, which reorders, repairs and assembles them:   *)
(* for every layout of the stream and every limit, with or without parity, *)
(* whole frames leave in order, a gap between them is noticed, and only    *)
(* missing packets are asked for (ReceiverInv).                            *)
(* VideoPipeline, which takes the assembled frames: for                    *)
(* channels and queues of any capacity and any number of losses,           *)
(* overflows, errors and pauses, the decoder is never fed a delta whose    *)
(* reference was lost (ChainInv), and a queue that waits for a keyframe    *)
(* has one under way (ServedInv).                                          *)
(***************************************************************************)
EXTENDS VideoReceiver, VideoPipeline, FiniteSetTheorems, TLAPS

\* Division with remainder.
LEMMA Division ==
    ASSUME NEW a \in Int, NEW m \in Int, m > 0
    PROVE  /\ a \div m \in Int
           /\ a % m \in 0..(m - 1)
           /\ a = m * (a \div m) + (a % m)
<1> DEFINE d == a \div m
           r == a % m
<1>1. r = a - m * d
    BY SMTT(60)
<1>2. d \in Int /\ r \in Int /\ r \in 0..(m - 1)
    BY SMT
<1> HIDE DEF d, r
<1>3. a = m * d + r
    BY <1>1, <1>2, SMT
<1> QED BY <1>2, <1>3 DEF d, r

\* The modulus is even.
LEMMA HalfOfModulus ==
    SequenceModulus \in Nat /\ Half \in Nat /\ SequenceModulus = 2 * Half /\ Half > 0
BY ReplayAssumption, Z3 DEF Half

\* Indices less than the range apart are in the same rollover or in
\* neighbouring ones.
LEMMA NeighbouringRollovers ==
    ASSUME NEW m \in Int, m > 0, NEW r \in Int, NEW q \in Int,
           NEW a \in 0..(m - 1), NEW b \in 0..(m - 1),
           m * r + a - (m * q + b) < m, m * q + b - (m * r + a) < m
    PROVE  r \in {q - 1, q, q + 1}
<1>1. m * r - m * q = m * (r - q)
    BY Z3
<1>2. CASE r - q >= 2
    <2>1. m * (r - q) >= 2 * m
        BY <1>2, Z3
    <2> QED BY <1>1, <2>1, Z3
<1>3. CASE r - q <= -2
    <2>1. m * (r - q) <= -2 * m
        BY <1>3, Z3
    <2> QED BY <1>1, <2>1, Z3
<1> QED BY <1>2, <1>3, Z3

\* guess_packet_index recovers the index of every packet whose distance to the
\* newest authenticated one is less than half the sequence range, on either side
\* of a rollover, from its sequence number alone.
THEOREM GuessIsExact ==
    ASSUME NEW highest \in Nat, NEW index \in Nat,
           index - highest < Half, highest - index < Half
    PROVE  GuessPacketIndex(highest, index % SequenceModulus) = index
<1> DEFINE m == SequenceModulus
           q == highest \div m
           b == highest % m
           r == index \div m
           a == index % m
<1>1. m \in Int /\ m > 0 /\ m = 2 * Half /\ Half \in Int
    BY HalfOfModulus, Z3
<1>2. /\ q \in Int /\ b \in 0..(m - 1) /\ highest = m * q + b
      /\ r \in Int /\ a \in 0..(m - 1) /\ index = m * r + a
    BY <1>1, Division
<1>3. GuessPacketIndex(highest, a) =
          LET roc == IF a - b < -Half THEN q + 1
                     ELSE IF a - b > Half THEN q - 1 ELSE q
          IN  IF roc < 0 THEN -1 ELSE roc * m + a
    BY Z3 DEF GuessPacketIndex, GuessedRoc
<1> HIDE DEF m, q, b, r, a
<1>4. r \in {q - 1, q, q + 1}
    BY <1>1, <1>2, NeighbouringRollovers, Z3
<1>5. r >= 0
  <2>1. CASE r <= -1
    <3>1. m * r <= -m
        BY <1>1, <1>2, <2>1, Z3
    <3> QED BY <1>1, <1>2, <3>1, Z3
  <2> QED BY <1>2, <2>1, Z3
<1>6. m * (q - 1) = m * q - m /\ m * (q + 1) = m * q + m /\ m * r = r * m
    BY <1>1, <1>2, Z3
<1>7. CASE r = q
  <2>1. ~(a - b < -Half) /\ ~(a - b > Half)
    BY <1>1, <1>2, <1>7, Z3
  <2> QED BY <1>1, <1>2, <1>3, <1>5, <1>6, <1>7, <2>1, Z3 DEF a, m
<1>8. CASE r = q + 1
  <2>1. a - b < -Half
    BY <1>1, <1>2, <1>6, <1>8, Z3
  <2> QED BY <1>1, <1>2, <1>3, <1>5, <1>6, <1>8, <2>1, Z3 DEF a, m
<1>9. CASE r = q - 1
  <2>1. a - b > Half /\ ~(a - b < -Half)
    BY <1>1, <1>2, <1>6, <1>9, Z3
  <2> QED BY <1>1, <1>2, <1>3, <1>5, <1>6, <1>9, <2>1, Z3 DEF a, m
<1> QED BY <1>4, <1>7, <1>8, <1>9

\* What check refuses it refuses for good: no later commit of another packet
\* clears the way for an index that was seen or is too old.
THEOREM RefusedForGood ==
    ASSUME NEW window \in [highest : Int, seen : SUBSET Int],
           NEW i \in Nat, NEW j \in Nat, ~Fresh(window, i)
    PROVE  ~Fresh(Commit(window, j), i)
BY ReplayAssumption DEF Fresh, Commit

\* A packet whose index was committed is refused from then on: the receiver
\* takes no packet twice.
THEOREM CommittedIsRefused ==
    ASSUME NEW window \in [highest : Int, seen : SUBSET Int],
           NEW i \in Nat
    PROVE  ~Fresh(Commit(window, i), i)
BY ReplayAssumption DEF Fresh, Commit

-----------------------------------------------------------------------------
\* What the head and the tail of a sequence of frames keep of it.
LEMMA HeadAndTail ==
    ASSUME NEW q \in Seq(FrameSet), q # <<>>,
           \A k \in 1..Len(q) : Marked(q[k])
    PROVE  /\ Head(q) \in FrameSet /\ Marked(Head(q))
           /\ Tail(q) \in Seq(FrameSet) /\ Len(Tail(q)) = Len(q) - 1
           /\ \A k \in 1..Len(Tail(q)) : Marked(Tail(q)[k])
<1>1. Head(q) = q[1] /\ Len(q) \in Nat /\ Len(q) > 0
    OBVIOUS
<1>2. /\ Tail(q) \in Seq(FrameSet) /\ Len(Tail(q)) = Len(q) - 1
      /\ \A k \in 1..Len(Tail(q)) : Tail(q)[k] = q[k + 1]
    OBVIOUS
<1>3. Head(q) \in FrameSet /\ Marked(Head(q))
    BY <1>1
<1>4. ASSUME NEW k \in 1..Len(Tail(q)) PROVE Marked(Tail(q)[k])
  <2>1. k + 1 \in 1..Len(q)
    BY <1>1, <1>2
  <2> QED BY <1>2, <2>1
<1> QED BY <1>2, <1>3, <1>4

\* Appending a marked frame to marked frames.
LEMMA AppendMarked ==
    ASSUME NEW q \in Seq(FrameSet), NEW f \in FrameSet, Marked(f),
           \A k \in 1..Len(q) : Marked(q[k])
    PROVE  /\ Append(q, f) \in Seq(FrameSet) /\ Len(Append(q, f)) = Len(q) + 1
           /\ \A k \in 1..Len(Append(q, f)) : Marked(Append(q, f)[k])
<1>1. /\ Append(q, f) \in Seq(FrameSet) /\ Len(Append(q, f)) = Len(q) + 1
      /\ \A k \in 1..Len(q) : Append(q, f)[k] = q[k]
      /\ Append(q, f)[Len(q) + 1] = f
      /\ Len(q) \in Nat
    OBVIOUS
<1>2. ASSUME NEW k \in 1..Len(Append(q, f)) PROVE Marked(Append(q, f)[k])
  <2>1. k \in 1..Len(q) \/ k = Len(q) + 1
    BY <1>1
  <2> QED BY <1>1, <2>1
<1> QED BY <1>1, <1>2

\* A queue that VideoQueue::push may meet and leave.
QueueOK(q) ==
    /\ q \in [frames : Seq(FrameSet), waiting : BOOLEAN, pending : BOOLEAN,
              gap : Gaps]
    /\ Len(q.frames) <= QueueLimit
    /\ q.gap = "lost" => q.waiting
    /\ \A k \in 1..Len(q.frames) : Marked(q.frames[k])

LEMMA EmptyQueueOK == QueueOK(EmptyQueue) /\ Len(EmptyQueue.frames) = 0
<1>1. <<>> \in Seq(FrameSet) /\ Len(<<>>) = 0
    OBVIOUS
<1> QED BY <1>1, PipelineAssumption DEF QueueOK, EmptyQueue, Gaps

\* VideoQueue::push, whatever it decides, keeps the frames marked and within
\* the capacity.
LEMMA QueuePushOK ==
    ASSUME NEW q, QueueOK(q), NEW f \in FrameSet, Marked(f)
    PROVE  QueueOK(QueuePush(q, f).queue)
<1> DEFINE full == Len(q.frames) = QueueLimit
           breaks == ~q.waiting /\ (~f.contiguous \/ full)
           keeps == /\ breaks /\ f.contiguous /\ ~f.key
                    /\ \E k \in DOMAIN q.frames : q.frames[k].key
           rest == IF breaks THEN EmptyQueue ELSE q
           kept == [q EXCEPT !.waiting = TRUE, !.pending = TRUE, !.gap = "lost"]
<1>1. QueuePush(q, f) =
          IF keeps THEN [queue |-> kept, request |-> TRUE]
          ELSE IF rest.waiting /\ ~f.key THEN Refuse(rest) ELSE Admit(rest, f)
    BY DEF QueuePush
<1>2. QueueOK(kept)
    BY DEF QueueOK, Gaps
<1>3. QueueOK(rest)
    BY EmptyQueueOK
<1>4. rest.waiting => QueueOK(Refuse(rest).queue)
    BY <1>3 DEF QueueOK, Refuse, Gaps
<1>5. ~(rest.waiting /\ ~f.key) =>
          QueueOK(Admit(rest, f).queue)
  <2> DEFINE base == IF rest.waiting /\ rest.frames # <<>> THEN EmptyQueue ELSE rest
             g == [key |-> f.key,
                   gap |-> IF f.gap = "none" THEN base.gap ELSE f.gap,
                   contiguous |-> f.contiguous /\ ~rest.waiting]
  <2>1. QueueOK(base)
    BY <1>3, EmptyQueueOK
  <2>2. Len(base.frames) < QueueLimit
    <3>1. CASE rest.waiting
      <4>1. base.frames = <<>>
        BY <3>1 DEF EmptyQueue
      <4> QED BY <4>1, PipelineAssumption
    <3>2. CASE ~rest.waiting
      <4>1. rest = q /\ base = q /\ ~full
        BY <3>2 DEF EmptyQueue
      <4>2. Len(q.frames) \in Nat
        BY DEF QueueOK
      <4> QED BY <4>1, <4>2, PipelineAssumption DEF QueueOK
    <3> QED BY <3>1, <3>2
  <2>3. g \in FrameSet
    BY <2>1 DEF QueueOK, FrameSet, Gaps
  <2>4. Marked(g)
    <3>1. CASE rest.waiting
        BY <3>1 DEF Marked
    <3>2. CASE ~rest.waiting
        BY <3>2, <1>3 DEF Marked, QueueOK
    <3> QED BY <3>1, <3>2
  <2> DEFINE h == Append(base.frames, g)
  <2>5. /\ h \in Seq(FrameSet) /\ Len(h) = Len(base.frames) + 1
        /\ \A k \in 1..Len(h) : Marked(h[k])
    BY <2>1, <2>3, <2>4, AppendMarked DEF QueueOK
  <2>6. Len(h) <= QueueLimit
    BY <2>1, <2>2, <2>5, PipelineAssumption DEF QueueOK
  <2>7. Admit(rest, f) = [queue |-> [frames |-> h, waiting |-> FALSE,
                                     pending |-> FALSE, gap |-> "none"],
                          request |-> FALSE]
    BY DEF Admit
  <2> HIDE DEF h
  <2> DEFINE r == [frames |-> h, waiting |-> FALSE, pending |-> FALSE, gap |-> "none"]
  <2>8. /\ r \in [frames : Seq(FrameSet), waiting : BOOLEAN, pending : BOOLEAN,
                  gap : Gaps]
        /\ r.frames = h /\ r.gap # "lost"
    BY <2>5 DEF Gaps
  <2>9. QueueOK(r)
    BY <2>5, <2>6, <2>8 DEF QueueOK
  <2>10. Admit(rest, f).queue = r
    <3> HIDE DEF rest, r
    <3> QED BY <2>7 DEF r
  <2> HIDE DEF r
  <2> QED BY <2>9, <2>10
<1> HIDE DEF keeps, rest, kept
<1> QED BY <1>1, <1>2, <1>4, <1>5

\* The pipeline starts empty.
LEMMA ChainInit == Init => ChainInv
<1> SUFFICES ASSUME Init PROVE ChainInv
    OBVIOUS
<1>1. <<>> \in Seq(FrameSet) /\ Len(<<>>) = 0
      /\ <<>> \in Seq({"Pause", "Resume", "Recover"})
    OBVIOUS
<1>2. FramesTyped
    BY <1>1, PipelineAssumption DEF Init, FramesTyped, Idle, NoFrame, FrameSet, Gaps
<1>3. GapsAreMarked
    BY <1>1 DEF Init, GapsAreMarked, Idle
<1> QED BY <1>2, <1>3 DEF Init, ChainInv, DecoderChain, Idle


\* Every step of the five threads keeps the invariant.
LEMMA ChainStep == ChainInv /\ [Next]_vars => ChainInv'
<1> SUFFICES ASSUME ChainInv, [Next]_vars PROVE ChainInv'
    OBVIOUS
<1> USE PipelineAssumption
<1>1. ASSUME NEW key \in BOOLEAN, Assemble(key) PROVE ChainInv'
  <2> DEFINE f == [key |-> key, gap |-> receiver.gap,
                   contiguous |-> receiver.contiguous /\ ~receiver.undelivered]
  <2>0. /\ Append(channel, f) \in Seq(FrameSet)
        /\ Len(Append(channel, f)) = Len(channel) + 1
        /\ \A k \in 1..Len(Append(channel, f)) : Marked(Append(channel, f)[k])
    <3>1. f \in FrameSet /\ Marked(f)
        BY DEF ChainInv, FramesTyped, GapsAreMarked, FrameSet, Marked
    <3> QED BY <3>1, AppendMarked DEF ChainInv, FramesTyped, GapsAreMarked
  <2> HIDE DEF f
  <2>1. FramesTyped'
    <3>1. receiver' \in [state : {"Running", "Paused", "RecoveryRequired"},
                        contiguous : BOOLEAN, undelivered : BOOLEAN, gap : Gaps]
      <4>1. \E u \in BOOLEAN, x \in Gaps :
                receiver' = [receiver EXCEPT !.contiguous = TRUE,
                                             !.undelivered = u, !.gap = x]
        BY <1>1 DEF Assemble, Gaps
      <4> QED BY <4>1 DEF ChainInv, FramesTyped
    <3>2. channel' \in Seq(FrameSet) /\ Len(channel') <= ChannelLimit
      <4>1. Len(channel) \in Nat
        BY DEF ChainInv, FramesTyped
      <4>2. CASE Len(channel) < ChannelLimit
        <5>1. channel' = Append(channel, f) \/ channel' = channel
            BY <1>1 DEF Assemble, f
        <5>2. Len(channel) + 1 <= ChannelLimit
            BY <4>1, <4>2, PipelineAssumption
        <5>3. CASE channel' = Append(channel, f)
            BY <2>0, <5>2, <5>3
        <5>4. CASE channel' = channel
            BY <5>4 DEF ChainInv, FramesTyped
        <5> QED BY <5>1, <5>3, <5>4
      <4>3. CASE ~(Len(channel) < ChannelLimit)
        <5>1. channel' = channel
            BY <1>1, <4>3 DEF Assemble
        <5> QED BY <5>1 DEF ChainInv, FramesTyped
      <4> QED BY <4>2, <4>3
    <3> QED BY <1>1, <3>1, <3>2 DEF Assemble, ChainInv, FramesTyped
  <2>2. GapsAreMarked'
    <3>1. receiver'.gap = "lost" => ~receiver'.contiguous \/ receiver'.undelivered
        BY <1>1 DEF Assemble, ChainInv, FramesTyped
    <3>2. \A k \in 1..Len(channel') : Marked(channel'[k])
        BY <1>1, <2>0 DEF Assemble, ChainInv, GapsAreMarked, f
    <3> QED BY <1>1, <3>1, <3>2 DEF Assemble, ChainInv, GapsAreMarked
  <2>3. DecoderChain'
    BY <1>1, <2>0 DEF Assemble, Fault, ChainInv, FramesTyped, GapsAreMarked,
           DecoderChain
  <2> QED BY <2>1, <2>2, <2>3 DEF ChainInv
<1>2. CASE LoseFrame
  <2>1. FramesTyped'
    <3>1. receiver' \in [state : {"Running", "Paused", "RecoveryRequired"},
                        contiguous : BOOLEAN, undelivered : BOOLEAN, gap : Gaps]
        BY <1>2 DEF LoseFrame, Fault, ChainInv, FramesTyped, Gaps
    <3> QED BY <1>2, <3>1 DEF LoseFrame, ChainInv, FramesTyped
  <2>2. GapsAreMarked'
    BY <1>2 DEF LoseFrame, Fault, ChainInv, FramesTyped, GapsAreMarked
  <2>3. DecoderChain'
    BY <1>2 DEF LoseFrame, Fault, ChainInv, FramesTyped, GapsAreMarked,
           DecoderChain
  <2> QED BY <2>1, <2>2, <2>3 DEF ChainInv
<1>3. CASE PollTimeout
  <2>1. FramesTyped'
    <3>1. receiver' \in [state : {"Running", "Paused", "RecoveryRequired"},
                        contiguous : BOOLEAN, undelivered : BOOLEAN, gap : Gaps]
        BY <1>3 DEF PollTimeout, ResetTo, ChainInv, FramesTyped, Gaps
    <3> QED BY <1>3, <3>1 DEF PollTimeout, ChainInv, FramesTyped
  <2>2. GapsAreMarked'
    BY <1>3 DEF PollTimeout, ResetTo, ChainInv, FramesTyped, GapsAreMarked
  <2>3. DecoderChain'
    BY <1>3 DEF PollTimeout, Fault, ResetTo, ChainInv, FramesTyped,
           GapsAreMarked, DecoderChain
  <2> QED BY <2>1, <2>2, <2>3 DEF ChainInv
<1>4. CASE TakeCommand
  <2>1. FramesTyped'
    <3>1. receiver' \in [state : {"Running", "Paused", "RecoveryRequired"},
                        contiguous : BOOLEAN, undelivered : BOOLEAN, gap : Gaps]
      <4>1. UNCHANGED receiver \/ \E mode \in {"Running", "Paused"} : ResetTo(mode)
        BY <1>4 DEF TakeCommand
      <4> QED BY <4>1 DEF ResetTo, ChainInv, FramesTyped, Gaps
    <3> QED BY <1>4, <3>1 DEF TakeCommand, ChainInv, FramesTyped
  <2>2. GapsAreMarked'
    BY <1>4 DEF TakeCommand, ResetTo, ChainInv, FramesTyped, GapsAreMarked
  <2>3. DecoderChain'
    BY <1>4 DEF TakeCommand, Applies, ResetTo, ChainInv, FramesTyped,
           GapsAreMarked, DecoderChain
  <2> QED BY <2>1, <2>2, <2>3 DEF ChainInv
<1>5. ASSUME NEW e \in events, HandleEvent(e) PROVE ChainInv'
  <2>1. FramesTyped'
    BY <1>5 DEF HandleEvent, ChainInv, FramesTyped, Gaps
  <2>2. GapsAreMarked'
    BY <1>5 DEF HandleEvent, ChainInv, FramesTyped, GapsAreMarked
  <2>3. DecoderChain'
    BY <1>5 DEF HandleEvent, ChainInv, FramesTyped, GapsAreMarked,
           DecoderChain
  <2> QED BY <2>1, <2>2, <2>3 DEF ChainInv
<1>6. CASE HandleFeedback
  <2>1. FramesTyped'
    BY <1>6 DEF HandleFeedback, ChainInv, FramesTyped, Gaps
  <2>2. GapsAreMarked'
    BY <1>6 DEF HandleFeedback, ChainInv, FramesTyped, GapsAreMarked
  <2>3. DecoderChain'
    BY <1>6 DEF HandleFeedback, ChainInv, FramesTyped, GapsAreMarked,
           DecoderChain
  <2> QED BY <2>1, <2>2, <2>3 DEF ChainInv
<1>7. CASE ConsumerTake
  <2>0. /\ Head(channel) \in FrameSet /\ Marked(Head(channel))
        /\ Tail(channel) \in Seq(FrameSet)
        /\ Len(Tail(channel)) <= ChannelLimit
        /\ \A k \in 1..Len(Tail(channel)) : Marked(Tail(channel)[k])
    BY <1>7, HeadAndTail DEF ConsumerTake, ChainInv, FramesTyped, GapsAreMarked
  <2>1. FramesTyped'
    <3>1. CASE paused
      <4>1. queue'.frames = queue.frames /\ queue' \in
                [frames : Seq(FrameSet), waiting : BOOLEAN, pending : BOOLEAN,
                 gap : Gaps]
        BY <1>7, <3>1 DEF ConsumerTake, Skipped, ChainInv, FramesTyped, Gaps
      <4> QED BY <1>7, <2>0, <3>1, <4>1 DEF ConsumerTake, ChainInv, FramesTyped
    <3>2. CASE ~paused
      <4>1. consumer' \in [at : {"idle", "push"}, frame : FrameSet]
        BY <1>7, <2>0, <3>2 DEF ConsumerTake
      <4> QED BY <1>7, <2>0, <3>2, <4>1 DEF ConsumerTake, ChainInv, FramesTyped
    <3> QED BY <3>1, <3>2
  <2>2. GapsAreMarked'
    <3>1. CASE paused
      <4>1. queue'.frames = queue.frames /\ (queue'.gap = "lost" => queue'.waiting)
        BY <1>7, <3>1 DEF ConsumerTake, Skipped, ChainInv, FramesTyped, GapsAreMarked
      <4> QED BY <1>7, <2>0, <3>1, <4>1 DEF ConsumerTake, ChainInv, GapsAreMarked
    <3>2. CASE ~paused
        BY <1>7, <2>0, <3>2 DEF ConsumerTake, ChainInv, GapsAreMarked
    <3> QED BY <3>1, <3>2
  <2>3. DecoderChain'
    BY <1>7, <2>0 DEF ConsumerTake, Skipped, ChainInv, FramesTyped,
           GapsAreMarked, DecoderChain
  <2> QED BY <2>1, <2>2, <2>3 DEF ChainInv
<1>8. CASE ConsumerPush
  <2>0. QueueOK(queue')
    <3>1. QueueOK(queue) /\ consumer.frame \in FrameSet /\ Marked(consumer.frame)
        BY <1>8 DEF ConsumerPush, ChainInv, FramesTyped, GapsAreMarked, QueueOK
    <3> QED BY <1>8, <3>1, QueuePushOK DEF ConsumerPush, ChainInv, FramesTyped
  <2>1. FramesTyped'
    BY <1>8, <2>0 DEF ConsumerPush, Fault, Idle, NoFrame, QueueOK, ChainInv,
           FramesTyped, FrameSet, Gaps
  <2>2. GapsAreMarked'
    BY <1>8, <2>0 DEF ConsumerPush, Fault, Idle, NoFrame, QueueOK, ChainInv,
           FramesTyped, GapsAreMarked
  <2>3. DecoderChain'
    BY <1>8, <2>0 DEF ConsumerPush, Fault, Idle, NoFrame, ChainInv,
           FramesTyped, GapsAreMarked, DecoderChain
  <2> QED BY <2>1, <2>2, <2>3 DEF ChainInv
<1>9. CASE DecoderPop
  <2>0. /\ Head(queue.frames) \in FrameSet /\ Marked(Head(queue.frames))
        /\ Tail(queue.frames) \in Seq(FrameSet)
        /\ Len(Tail(queue.frames)) <= QueueLimit
        /\ \A k \in 1..Len(Tail(queue.frames)) : Marked(Tail(queue.frames)[k])
    BY <1>9, HeadAndTail DEF DecoderPop, ChainInv, FramesTyped, GapsAreMarked
  <2>1. FramesTyped'
    <3>1. /\ queue' \in [frames : Seq(FrameSet), waiting : BOOLEAN,
                         pending : BOOLEAN, gap : Gaps]
          /\ queue'.frames = Tail(queue.frames)
        BY <1>9, <2>0 DEF DecoderPop, ChainInv, FramesTyped
    <3>2. decoder' \in [at : {"idle", "gate", "decode"}, frame : FrameSet]
        BY <1>9, <2>0 DEF DecoderPop
    <3> QED BY <1>9, <2>0, <3>1, <3>2 DEF DecoderPop, ChainInv, FramesTyped
  <2>2. GapsAreMarked'
    BY <1>9, <2>0 DEF DecoderPop, ChainInv, FramesTyped, GapsAreMarked
  <2>3. DecoderChain'
    BY <1>9, <2>0 DEF DecoderPop, ChainInv, FramesTyped, GapsAreMarked,
           DecoderChain
  <2> QED BY <2>1, <2>2, <2>3 DEF ChainInv
<1>10. CASE DecoderGate
  <2>1. FramesTyped'
    <3>1. Idle \in [at : {"idle", "gate", "decode"}, frame : FrameSet]
        BY DEF Idle, NoFrame, FrameSet, Gaps
    <3>2. decoder' = Idle \/ decoder' = [decoder EXCEPT !.at = "decode"]
        BY <1>10 DEF DecoderGate
    <3>3. decoder' \in [at : {"idle", "gate", "decode"}, frame : FrameSet]
        BY <3>1, <3>2 DEF ChainInv, FramesTyped
    <3> QED BY <1>10, <3>3 DEF DecoderGate, ChainInv, FramesTyped
  <2>2. GapsAreMarked'
    <3>1. decoder'.at # "gate"
        BY <1>10 DEF DecoderGate, Idle, ChainInv, FramesTyped
    <3>2. whole' = "lost" => desynced'
        BY <1>10, Zenon DEF DecoderGate, ChainInv, GapsAreMarked
    <3> QED BY <1>10, <3>1, <3>2 DEF DecoderGate, ChainInv, GapsAreMarked
  <2>3. DecoderChain'
    BY <1>10 DEF DecoderGate, Idle, NoFrame, ChainInv, FramesTyped,
           GapsAreMarked, DecoderChain, Marked
  <2> QED BY <2>1, <2>2, <2>3 DEF ChainInv
<1>11. ASSUME NEW decoded \in BOOLEAN, DecoderAccepts(decoded) PROVE ChainInv'
  <2>1. FramesTyped'
    BY <1>11 DEF DecoderAccepts, Idle, NoFrame, ChainInv, FramesTyped,
           FrameSet, Gaps
  <2>2. GapsAreMarked'
    BY <1>11 DEF DecoderAccepts, Idle, NoFrame, ChainInv, FramesTyped,
           GapsAreMarked
  <2>3. DecoderChain'
    BY <1>11 DEF DecoderAccepts, Idle, NoFrame, ChainInv, FramesTyped,
           GapsAreMarked, DecoderChain
  <2> QED BY <2>1, <2>2, <2>3 DEF ChainInv
<1>12. CASE DecoderRefuses
  <2>1. FramesTyped'
    BY <1>12 DEF DecoderRefuses, Fault, Idle, NoFrame, ChainInv,
           FramesTyped, FrameSet, Gaps
  <2>2. GapsAreMarked'
    BY <1>12 DEF DecoderRefuses, Fault, Idle, NoFrame, ChainInv,
           FramesTyped, GapsAreMarked
  <2>3. DecoderChain'
    BY <1>12 DEF DecoderRefuses, Fault, Idle, NoFrame, ChainInv,
           FramesTyped, GapsAreMarked, DecoderChain
  <2> QED BY <2>1, <2>2, <2>3 DEF ChainInv
<1>13. CASE SetPaused
  <2>1. FramesTyped'
    BY <1>13 DEF SetPaused, ChainInv, FramesTyped, Gaps
  <2>2. GapsAreMarked'
    BY <1>13 DEF SetPaused, ChainInv, FramesTyped, GapsAreMarked
  <2>3. DecoderChain'
    BY <1>13 DEF SetPaused, ChainInv, FramesTyped, GapsAreMarked,
           DecoderChain
  <2> QED BY <2>1, <2>2, <2>3 DEF ChainInv
<1>14. CASE ClearQueue
  <2>0. QueueOK(queue')
    BY <1>14, EmptyQueueOK DEF ClearQueue
  <2>1. FramesTyped'
    BY <1>14, <2>0 DEF ClearQueue, QueueOK, ChainInv, FramesTyped, Gaps
  <2>2. GapsAreMarked'
    BY <1>14, <2>0 DEF ClearQueue, QueueOK, ChainInv, FramesTyped,
           GapsAreMarked
  <2>3. DecoderChain'
    BY <1>14, <2>0 DEF ClearQueue, ChainInv, FramesTyped, GapsAreMarked,
           DecoderChain
  <2> QED BY <2>1, <2>2, <2>3 DEF ChainInv
<1>15. CASE MarkDesynced
  <2>1. FramesTyped'
    BY <1>15 DEF MarkDesynced, ChainInv, FramesTyped, Gaps
  <2>2. GapsAreMarked'
    BY <1>15 DEF MarkDesynced, ChainInv, FramesTyped, GapsAreMarked
  <2>3. DecoderChain'
    BY <1>15 DEF MarkDesynced, ChainInv, FramesTyped, GapsAreMarked,
           DecoderChain
  <2> QED BY <2>1, <2>2, <2>3 DEF ChainInv
<1>16. CASE ForgetRequest
  <2>1. FramesTyped'
    BY <1>16 DEF ForgetRequest, ChainInv, FramesTyped, Gaps
  <2>2. GapsAreMarked'
    BY <1>16 DEF ForgetRequest, ChainInv, FramesTyped, GapsAreMarked
  <2>3. DecoderChain'
    BY <1>16 DEF ForgetRequest, ChainInv, FramesTyped, GapsAreMarked,
           DecoderChain
  <2> QED BY <2>1, <2>2, <2>3 DEF ChainInv
<1>17. CASE UNCHANGED vars
    BY <1>17 DEF vars, ChainInv, FramesTyped, GapsAreMarked, DecoderChain
<1> QED
    BY <1>1, <1>2, <1>3, <1>4, <1>5, <1>6, <1>7, <1>8, <1>9, <1>10, <1>11,
    <1>12, <1>13, <1>14, <1>15, <1>16, <1>17 DEF Next, Worker, Consumer,
    Decoder, Engine

\* The gaps stay marked all the way from the receiver to the decoder, and the
\* channel and the queue keep within their capacities.
THEOREM ChainIsInductive == Spec => []ChainInv
<1> QED BY ChainInit, ChainStep, PTL DEF Spec

\* No delta is decoded after its reference was lost, in forward_receive_event,
\* in VideoQueue::push or in the decoder, for any capacities and any number of
\* disturbances.
THEOREM LostReferenceIsNeverUsed == Spec => []DecoderChain
<1>1. ChainInv => DecoderChain BY DEF ChainInv
<1> QED BY ChainIsInductive, <1>1, PTL

\* A keyframe that waits in a sequence is its first frame or one of the rest,
\* and what is appended hides none.
LEMMA KeyframeKept ==
    ASSUME NEW q \in Seq(FrameSet)
    PROVE  /\ q # <<>> /\ KeyframeIn(q) => Head(q).key \/ KeyframeIn(Tail(q))
           /\ \A f \in FrameSet : KeyframeIn(q) \/ f.key => KeyframeIn(Append(q, f))
<1>1. ASSUME q # <<>>, KeyframeIn(q), ~Head(q).key PROVE KeyframeIn(Tail(q))
  <2>1. PICK k \in 1..Len(q) : q[k].key
    BY <1>1 DEF KeyframeIn
  <2>2. k # 1 /\ Len(q) \in Nat
    BY <1>1, <2>1
  <2>3. k - 1 \in 1..Len(Tail(q)) /\ Tail(q)[k - 1] = q[k]
    BY <1>1, <2>2
  <2>4. k - 1 \in DOMAIN Tail(q)
    BY <1>1, <2>3
  <2> QED BY <2>1, <2>3, <2>4 DEF KeyframeIn
<1>2. ASSUME NEW f \in FrameSet, KeyframeIn(q) \/ f.key PROVE KeyframeIn(Append(q, f))
  <2>1. /\ DOMAIN Append(q, f) = 1..(Len(q) + 1) /\ DOMAIN q = 1..Len(q) /\ Len(q) \in Nat
        /\ \A k \in 1..Len(q) : Append(q, f)[k] = q[k]
        /\ Append(q, f)[Len(q) + 1] = f
    OBVIOUS
  <2>2. CASE f.key
    BY <2>1, <2>2 DEF KeyframeIn
  <2>3. CASE KeyframeIn(q)
    <3>1. PICK k \in 1..Len(q) : q[k].key
        BY <2>1, <2>3 DEF KeyframeIn
    <3>2. k \in 1..(Len(q) + 1)
        BY <2>1
    <3> QED BY <2>1, <3>1, <3>2 DEF KeyframeIn
  <2> QED BY <1>2, <2>2, <2>3
<1> QED BY <1>1, <1>2

\* VideoQueue::push leaves a queue that waits and has asked only if it asks now,
\* or if it found one and was not given a keyframe.
LEMMA PushAsks ==
    ASSUME NEW q \in [frames : Seq(FrameSet), waiting : BOOLEAN, pending : BOOLEAN,
                      gap : Gaps],
           NEW f \in FrameSet,
           QueuePush(q, f).queue.waiting, QueuePush(q, f).queue.pending
    PROVE  \/ QueuePush(q, f).request = TRUE
           \/ q.waiting /\ q.pending /\ ~f.key
<1> DEFINE full == Len(q.frames) = QueueLimit
           breaks == ~q.waiting /\ (~f.contiguous \/ full)
           keeps == /\ breaks /\ f.contiguous /\ ~f.key
                    /\ \E k \in DOMAIN q.frames : q.frames[k].key
           rest == IF breaks THEN EmptyQueue ELSE q
           kept == [q EXCEPT !.waiting = TRUE, !.pending = TRUE, !.gap = "lost"]
<1>1. QueuePush(q, f) =
          IF keeps THEN [queue |-> kept, request |-> TRUE]
          ELSE IF rest.waiting /\ ~f.key THEN Refuse(rest) ELSE Admit(rest, f)
    BY DEF QueuePush
<1>2. ~Admit(rest, f).queue.waiting
    BY DEF Admit
<1>3. Refuse(rest).request = TRUE \/ rest.pending
    BY DEF Refuse
<1>4. rest.pending => rest = q
    BY DEF EmptyQueue
<1>5. [queue |-> kept, request |-> TRUE].request = TRUE
    OBVIOUS
<1> HIDE DEF keeps, rest, kept
<1>6. CASE keeps
    BY <1>1, <1>5, <1>6
<1>7. CASE ~keeps
  <2>1. rest.waiting /\ ~f.key /\ QueuePush(q, f) = Refuse(rest)
    BY <1>1, <1>2, <1>7
  <2> QED BY <1>3, <1>4, <2>1
<1> QED BY <1>6, <1>7

\* At first the queue has asked for nothing.
LEMMA ServedInit == Init => ServedInv
<1>1. ASSUME Init PROVE ~queue.pending /\ needed = FALSE /\ feedback = FALSE
    BY <1>1 DEF Init
<1> QED BY <1>1 DEF ServedInv

\* Every step keeps the request, or turns it into the keyframe, until the queue
\* has got one.
LEMMA ServedStep == ChainInv /\ ServedInv /\ [Next]_vars => ServedInv'
<1> SUFFICES ASSUME ChainInv, ServedInv, [Next]_vars PROVE ServedInv'
    OBVIOUS
<1>1. ASSUME NEW key \in BOOLEAN, Assemble(key) PROVE ServedInv'
  <2>1. needed' \in BOOLEAN /\ feedback' = feedback
    BY <1>1 DEF Assemble
  <2>2. KeyframeUnderWay => KeyframeUnderWay'
    <3> DEFINE f == [key |-> key, gap |-> receiver.gap,
                     contiguous |-> receiver.contiguous /\ ~receiver.undelivered]
    <3>1. f \in FrameSet /\ f.key = key /\ channel \in Seq(FrameSet)
        BY DEF ChainInv, FramesTyped, FrameSet
    <3>2. KeyframeIn(channel) \/ key => KeyframeIn(Append(channel, f))
        BY <3>1, KeyframeKept
    <3>3. \/ channel' = Append(channel, f) /\ events' = events
          \/ channel' = channel /\ events' = events \cup {"Backpressured"}
        BY <1>1 DEF Assemble
    <3> HIDE DEF f
    <3>4. needed' = (needed /\ ~key) /\ feedback' = feedback /\ consumer' = consumer
        BY <1>1 DEF Assemble
    <3> QED BY <3>2, <3>3, <3>4 DEF KeyframeUnderWay
  <2> QED BY <1>1, <2>1, <2>2 DEF Assemble, ServedInv
<1>2. CASE LoseFrame
    BY <1>2 DEF LoseFrame, ServedInv, KeyframeUnderWay
<1>3. CASE PollTimeout
    BY <1>3 DEF PollTimeout, ServedInv, KeyframeUnderWay
<1>4. CASE TakeCommand
    BY <1>4 DEF TakeCommand, ServedInv, KeyframeUnderWay
<1>5. ASSUME NEW e \in events, HandleEvent(e) PROVE ServedInv'
    BY <1>5 DEF HandleEvent, ServedInv, KeyframeUnderWay
<1>6. CASE HandleFeedback
    BY <1>6 DEF HandleFeedback, ServedInv, KeyframeUnderWay
<1>7. CASE ConsumerTake
  <2>1. CASE paused
    BY <1>7, <2>1 DEF ConsumerTake, ServedInv
  <2>2. CASE ~paused
    <3>1. /\ consumer.at = "idle" /\ channel # <<>> /\ channel' = Tail(channel)
          /\ consumer'.at = "push" /\ consumer'.frame = Head(channel)
        BY <1>7, <2>2 DEF ConsumerTake
    <3>2. KeyframeIn(channel) => Head(channel).key \/ KeyframeIn(Tail(channel))
        BY <3>1, KeyframeKept DEF ChainInv, FramesTyped
    <3>3. UNCHANGED <<needed, feedback, events, queue, paused, engine>>
        BY <1>7, <2>2 DEF ConsumerTake
    <3> QED BY <3>1, <3>2, <3>3 DEF ServedInv, KeyframeUnderWay
  <2> QED BY <2>1, <2>2
<1>8. CASE ConsumerPush
  <2> DEFINE result == QueuePush(queue, consumer.frame)
  <2>1. /\ consumer.at = "push" /\ consumer' = Idle /\ queue' = result.queue
        /\ feedback' = (feedback \/ result.request)
        /\ UNCHANGED <<needed, events, channel, paused, engine>>
    BY <1>8 DEF ConsumerPush
  <2>2. \/ ~(queue'.waiting /\ queue'.pending)
        \/ result.request = TRUE
        \/ queue.waiting /\ queue.pending /\ ~consumer.frame.key
    BY <2>1, PushAsks DEF ChainInv, FramesTyped
  <2> HIDE DEF result
  <2>3. feedback' \in BOOLEAN /\ (feedback \/ result.request = TRUE => feedback')
    BY <2>1 DEF ServedInv
  <2> QED BY <2>1, <2>2, <2>3 DEF ServedInv, KeyframeUnderWay, Idle
<1>9. CASE DecoderPop
    BY <1>9 DEF DecoderPop, ServedInv, KeyframeUnderWay, ChainInv, FramesTyped
<1>10. CASE DecoderGate
    BY <1>10 DEF DecoderGate, ServedInv, KeyframeUnderWay
<1>11. ASSUME NEW decoded \in BOOLEAN, DecoderAccepts(decoded) PROVE ServedInv'
    BY <1>11 DEF DecoderAccepts, ServedInv, KeyframeUnderWay
<1>12. CASE DecoderRefuses
    BY <1>12 DEF DecoderRefuses, ServedInv, KeyframeUnderWay
<1>13. CASE SetPaused
    BY <1>13 DEF SetPaused, ServedInv
<1>14. CASE ClearQueue
    BY <1>14 DEF ClearQueue, EmptyQueue, ServedInv
<1>15. CASE MarkDesynced
    BY <1>15 DEF MarkDesynced, ServedInv, KeyframeUnderWay
<1>16. CASE ForgetRequest
    BY <1>16 DEF ForgetRequest, ServedInv, KeyframeUnderWay
<1>17. CASE UNCHANGED vars
    BY <1>17 DEF vars, ServedInv, KeyframeUnderWay
<1> QED
    BY <1>1, <1>2, <1>3, <1>4, <1>5, <1>6, <1>7, <1>8, <1>9, <1>10, <1>11,
    <1>12, <1>13, <1>14, <1>15, <1>16, <1>17 DEF Next, Worker, Consumer,
    Decoder, Engine

\* WaitingQueueIsServed: a VideoQueue that has stopped asking still gets its
\* keyframe, because the request or its answer is under way, however the receiver,
\* the worker, the consumer and a pause interleave.
THEOREM WaitingQueuesAreServed == Spec => []WaitingQueueIsServed
<1>1. ServedInv => WaitingQueueIsServed
    BY DEF ServedInv, WaitingQueueIsServed
<1>2. Spec => []ServedInv
    BY ChainIsInductive, ServedInit, ServedStep, PTL DEF Spec
<1> QED BY <1>1, <1>2, PTL

-----------------------------------------------------------------------------
(***************************************************************************)
(* The video receiver.  The layout of the stream comes first, then the     *)
(* ranges of the NACKs, then one lemma for each part of ReceiverInv that   *)
(* says what the steps do to it.                                           *)
(***************************************************************************)

\* A block has the data packets of a frame, and the parity of a stream with FEC.
LEMMA BlockHasData ==
    /\ BlockSize \in Nat /\ Data \in Nat /\ Data >= 1 /\ BlockSize >= Data
    /\ (~fec => BlockSize = Data)
BY ReceiverAssumption DEF BlockSize

\* The blocks follow each other without a gap.
LEMMA Blocks ==
    /\ \A f \in Nat : /\ Base(f) \in Nat /\ Base(f) >= f
                      /\ Base(f + 1) = Base(f) + BlockSize
    /\ \A f, g \in Nat : f < g => Base(f) + BlockSize <= Base(g)
<1>0. BlockSize \in Nat /\ BlockSize >= 1
    BY BlockHasData
<1>1. ASSUME NEW f \in Nat
      PROVE  Base(f) \in Nat /\ Base(f) >= f /\ Base(f + 1) = Base(f) + BlockSize
  <2>1. f * BlockSize \in Nat /\ (f + 1) * BlockSize = f * BlockSize + BlockSize
    BY <1>0, Z3
  <2>2. f * BlockSize >= f
    BY <1>0, Z3
  <2> QED BY <2>1, <2>2 DEF Base
<1>2. ASSUME NEW f \in Nat, NEW g \in Nat, f < g
      PROVE  Base(f) + BlockSize <= Base(g)
  <2>1. g * BlockSize - f * BlockSize = (g - f) * BlockSize
    BY <1>0, Z3
  <2>2. (g - f) * BlockSize >= BlockSize
    BY <1>0, <1>2, Z3
  <2>3. f * BlockSize \in Int /\ g * BlockSize \in Int
    BY <1>0, Z3
  <2> QED BY <1>0, <2>1, <2>2, <2>3, Z3 DEF Base
<1> QED BY <1>1, <1>2

\* The frame and the shard of a packet are its place in the blocks.
LEMMA Places ==
    ASSUME NEW p \in Nat
    PROVE  /\ FrameOf(p) \in Nat /\ Shard(p) \in Nat /\ Shard(p) < BlockSize
           /\ p = Base(FrameOf(p)) + Shard(p)
<1>0. BlockSize \in Int /\ BlockSize > 0
    BY BlockHasData
<1> DEFINE d == p \div BlockSize
           r == p % BlockSize
<1>1. d \in Int /\ r \in 0..(BlockSize - 1) /\ p = BlockSize * d + r
    BY <1>0, Division
<1> HIDE DEF d, r
<1>2. d >= 0
  <2>1. CASE d <= -1
    <3>1. BlockSize * d <= -BlockSize
        BY <1>0, <1>1, <2>1, Z3
    <3> QED BY <1>0, <1>1, <3>1, Z3
  <2> QED BY <1>1, <2>1
<1>3. BlockSize * d = d * BlockSize
    BY <1>0, <1>1, Z3
<1> QED BY <1>0, <1>1, <1>2, <1>3 DEF d, r, FrameOf, Shard, Base

\* A packet at a place of a block belongs to that block.
LEMMA PlaceOf ==
    ASSUME NEW f \in Nat, NEW s \in Nat, s < BlockSize
    PROVE  FrameOf(Base(f) + s) = f /\ Shard(Base(f) + s) = s
<1> DEFINE p == Base(f) + s
           g == FrameOf(p)
           t == Shard(p)
<1>0. BlockSize \in Nat /\ Base(f) \in Nat /\ p \in Nat
    BY BlockHasData, Blocks
<1>1. /\ g \in Nat /\ t \in Nat /\ t < BlockSize /\ Base(g) \in Nat
      /\ Base(f) + s = Base(g) + t
    BY <1>0, Places, Blocks
<1> HIDE DEF g, t
<1>2. ~(f < g)
  <2>1. f < g => Base(f) + BlockSize <= Base(g)
    BY <1>1, Blocks
  <2> QED BY <1>0, <1>1, <2>1
<1>3. ~(g < f)
  <2>1. g < f => Base(g) + BlockSize <= Base(f)
    BY <1>1, Blocks
  <2> QED BY <1>0, <1>1, <2>1
<1>4. g = f
    BY <1>1, <1>2, <1>3
<1> QED BY <1>0, <1>1, <1>4 DEF g, t

-----------------------------------------------------------------------------
(* Sequences of ranges that spare a set of packets.                         *)
\* Two sequences of ranges, one after the other.
LEMMA ConcatSpares ==
    ASSUME NEW q \in Seq(Ranges), NEW r \in Seq(Ranges), NEW S,
           Spares(q, S), Spares(r, S)
    PROVE  q \o r \in Seq(Ranges) /\ Spares(q \o r, S)
<1>1. /\ q \o r \in Seq(Ranges) /\ Len(q \o r) = Len(q) + Len(r)
      /\ Len(q) \in Nat /\ Len(r) \in Nat
      /\ \A k \in 1..(Len(q) + Len(r)) :
            (q \o r)[k] = IF k <= Len(q) THEN q[k] ELSE r[k - Len(q)]
    OBVIOUS
<1>2. ASSUME NEW k \in 1..Len(q \o r), NEW x \in S
      PROVE  x < (q \o r)[k][1] \/ x > (q \o r)[k][2]
  <2>1. CASE k <= Len(q)
    BY <1>1, <2>1 DEF Spares
  <2>2. CASE k > Len(q)
    <3>1. k - Len(q) \in 1..Len(r) /\ (q \o r)[k] = r[k - Len(q)]
        BY <1>1, <2>2
    <3> QED BY <3>1 DEF Spares
  <2> QED BY <1>1, <2>1, <2>2
<1> QED BY <1>1, <1>2 DEF Spares

\* A part of a sequence of ranges.
LEMMA PartSpares ==
    ASSUME NEW q \in Seq(Ranges), NEW S, Spares(q, S),
           NEW i \in Nat \ {0}, NEW j \in Int, j <= Len(q)
    PROVE  SubSeq(q, i, j) \in Seq(Ranges) /\ Spares(SubSeq(q, i, j), S)
<1>1. /\ SubSeq(q, i, j) \in Seq(Ranges)
      /\ \A k \in 1..Len(SubSeq(q, i, j)) :
            i + k - 1 \in 1..Len(q) /\ SubSeq(q, i, j)[k] = q[i + k - 1]
    OBVIOUS
<1> QED BY <1>1 DEF Spares

\* The first range, and the ones after it.
LEMMA TailSpares ==
    ASSUME NEW q \in Seq(Ranges), q # <<>>, NEW S, Spares(q, S)
    PROVE  /\ Head(q) \in Ranges /\ Tail(q) \in Seq(Ranges) /\ Spares(Tail(q), S)
           /\ \A x \in S : x < Head(q)[1] \/ x > Head(q)[2]
<1>1. /\ Head(q) = q[1] /\ 1 \in 1..Len(q) /\ Head(q) \in Ranges
      /\ Tail(q) \in Seq(Ranges)
      /\ \A k \in 1..Len(Tail(q)) : k + 1 \in 1..Len(q) /\ Tail(q)[k] = q[k + 1]
    OBVIOUS
<1> QED BY <1>1 DEF Spares

\* A single range.
LEMMA OneSpares ==
    ASSUME NEW range \in Ranges, NEW S, \A x \in S : x < range[1] \/ x > range[2]
    PROVE  <<range>> \in Seq(Ranges) /\ Spares(<<range>>, S)
BY DEF Spares

\* No range at all.
LEMMA NoneSpares ==
    ASSUME NEW S
    PROVE  <<>> \in Seq(Ranges) /\ Spares(<<>>, S)
BY DEF Spares

\* A range more.
LEMMA AppendSpares ==
    ASSUME NEW q \in Seq(Ranges), NEW S, Spares(q, S), NEW range \in Ranges,
           \A x \in S : x < range[1] \/ x > range[2]
    PROVE  Append(q, range) \in Seq(Ranges) /\ Spares(Append(q, range), S)
<1>1. /\ Append(q, range) \in Seq(Ranges) /\ Len(q) \in Nat
      /\ Len(Append(q, range)) = Len(q) + 1
      /\ \A k \in 1..Len(q) : Append(q, range)[k] = q[k]
      /\ Append(q, range)[Len(q) + 1] = range
    OBVIOUS
<1>2. ASSUME NEW k \in 1..Len(Append(q, range)), NEW x \in S
      PROVE  x < Append(q, range)[k][1] \/ x > Append(q, range)[k][2]
  <2>1. k \in 1..Len(q) \/ k = Len(q) + 1
    BY <1>1
  <2> QED BY <1>1, <2>1 DEF Spares
<1> QED BY <1>1, <1>2 DEF Spares

\* resolve_nack leaves nothing of a range that has the packet in it.
LEMMA AroundSpares ==
    ASSUME NEW range \in Ranges, NEW p \in Int, NEW S \in SUBSET Int,
           \A x \in S : x < range[1] \/ x > range[2]
    PROVE  Around(range, p) \in Seq(Ranges) /\ Spares(Around(range, p), S \cup {p})
<1> DEFINE before == IF range[1] < p THEN << <<range[1], p - 1>> >> ELSE <<>>
           after == IF p < range[2] THEN << <<p + 1, range[2]>> >> ELSE <<>>
<1>0. range[1] \in Int /\ range[2] \in Int
    BY DEF Ranges
<1>1. CASE p < range[1] \/ p > range[2]
  <2>1. \A x \in S \cup {p} : x < range[1] \/ x > range[2]
    BY <1>1
  <2>2. Around(range, p) = <<range>>
    BY <1>1 DEF Around
  <2> QED BY <2>1, <2>2, OneSpares
<1>2. CASE ~(p < range[1] \/ p > range[2])
  <2>1. Around(range, p) = before \o after
    BY <1>2 DEF Around
  <2>2. before \in Seq(Ranges) /\ Spares(before, S \cup {p})
    <3>1. CASE range[1] < p
      <4>1. /\ <<range[1], p - 1>> \in Ranges
            /\ \A x \in S \cup {p} : \/ x < <<range[1], p - 1>>[1]
                                     \/ x > <<range[1], p - 1>>[2]
        BY <1>0, <1>2, <3>1 DEF Ranges
      <4>2. before = << <<range[1], p - 1>> >>
        BY <3>1
      <4> QED BY <4>1, <4>2, OneSpares
    <3> QED BY <3>1, NoneSpares
  <2>3. after \in Seq(Ranges) /\ Spares(after, S \cup {p})
    <3>1. CASE p < range[2]
      <4>1. /\ <<p + 1, range[2]>> \in Ranges
            /\ \A x \in S \cup {p} : \/ x < <<p + 1, range[2]>>[1]
                                     \/ x > <<p + 1, range[2]>>[2]
        BY <1>0, <1>2, <3>1 DEF Ranges
      <4>2. after = << <<p + 1, range[2]>> >>
        BY <3>1
      <4> QED BY <4>1, <4>2, OneSpares
    <3> QED BY <3>1, NoneSpares
  <2> HIDE DEF before, after
  <2> QED BY <2>1, <2>2, <2>3, ConcatSpares
<1> QED BY <1>1, <1>2

\* request_nack widens a range only by what it asks for: the two touch.
LEMMA RequestSpares ==
    ASSUME nacks \in Seq(Ranges), NEW low \in Int, NEW high \in Int,
           NEW S \in SUBSET Int, Spares(nacks, S),
           \A x \in S : x < low \/ x > high, RequestNack(low, high)
    PROVE  nacks' \in Seq(Ranges) /\ Spares(nacks', S)
<1>1. ASSUME NEW k \in DOMAIN nacks, IsLeast(k, Touching(low, high)),
             nacks' = [nacks EXCEPT ![k] = <<IF @[1] < low THEN @[1] ELSE low,
                                             IF @[2] > high THEN @[2] ELSE high>>]
      PROVE  nacks' \in Seq(Ranges) /\ Spares(nacks', S)
  <2> DEFINE a == nacks[k][1]
             b == nacks[k][2]
             wide == <<IF a < low THEN a ELSE low, IF b > high THEN b ELSE high>>
  <2>1. k \in 1..Len(nacks) /\ nacks[k] \in Ranges
    OBVIOUS
  <2>2. a \in Int /\ b \in Int /\ low <= b + 1 /\ high + 1 >= a
    BY <1>1, <2>1 DEF Touching, IsLeast, Ranges
  <2>3. \A x \in S : x < a \/ x > b
    BY <2>1 DEF Spares
  <2>4. nacks' = [nacks EXCEPT ![k] = wide]
    BY <1>1
  <2> HIDE DEF a, b
  <2>5. wide \in Ranges /\ \A x \in S : x < wide[1] \/ x > wide[2]
    BY <2>2, <2>3 DEF Ranges
  <2> HIDE DEF wide
  <2>6. /\ nacks' \in Seq(Ranges) /\ Len(nacks') = Len(nacks)
        /\ \A j \in 1..Len(nacks) : nacks'[j] = IF j = k THEN wide ELSE nacks[j]
    BY <2>1, <2>4, <2>5
  <2> QED BY <2>5, <2>6 DEF Spares
<1>2. ASSUME nacks' = Append(IF Len(nacks) = RangeLimit THEN Tail(nacks) ELSE nacks,
                             <<low, high>>)
      PROVE  nacks' \in Seq(Ranges) /\ Spares(nacks', S)
  <2> DEFINE kept == IF Len(nacks) = RangeLimit THEN Tail(nacks) ELSE nacks
  <2>1. kept \in Seq(Ranges) /\ Spares(kept, S)
    <3>1. CASE Len(nacks) = RangeLimit
      <4>1. nacks # <<>>
        BY <3>1, ReceiverAssumption
      <4> QED BY <3>1, <4>1, TailSpares
    <3> QED BY <3>1
  <2>2. /\ <<low, high>> \in Ranges
        /\ \A x \in S : x < <<low, high>>[1] \/ x > <<low, high>>[2]
    BY DEF Ranges
  <2> HIDE DEF kept
  <2>3. nacks' = Append(kept, <<low, high>>)
    BY <1>2 DEF kept
  <2> QED BY <2>1, <2>2, <2>3, AppendSpares
<1> QED BY <1>1, <1>2 DEF RequestNack

-----------------------------------------------------------------------------
(* The steps of the receiver, and which of them write what.                 *)
\* Which of the steps write the buffers, the picture, the ranges and the results.
LEMMA Writers ==
    ASSUME ReceiverNext
    PROVE  /\ UNCHANGED fec
           /\ \/ UNCHANGED <<next, held>>
              \/ Push \/ DrainPacket \/ (\E first \in held : SkipGap(first))
              \/ ResetMediaState
           /\ \/ UNCHANGED <<shards, failed, through>>
              \/ PushShard \/ ResetMediaState
              \/ \E f \in DOMAIN shards :
                    \/ SkipToBlock(f) \/ FinishBlock(f)
                    \/ \E low, high \in 0..(Data - 1) :
                          \/ RepairFails(f, low, high)
                          \/ \E newest \in DOMAIN shards :
                                SkipBlock(f, low, high, newest)
           /\ \/ UNCHANGED <<frame, parts, contiguous, last>>
              \/ ApplyRecovery \/ DropPacket \/ HoldPacket \/ CompleteFrame
              \/ ResetMediaState
           /\ \/ UNCHANGED <<received, packet, updated>>
              \/ (\E p \in Packets : Authenticate(p))
              \/ ResolveNack \/ Push \/ PushShard \/ ResetMediaState
           /\ \/ UNCHANGED nacks
              \/ ResolveNack \/ Push \/ PushShard
              \/ ApplyRecovery \/ ApplyNack \/ HoldPacket \/ CompleteFrame
              \/ (\E k \in DOMAIN nacks : ExpireNack(k) \/ TakeNack(k))
           /\ \/ asked' = <<>> \/ UNCHANGED asked
              \/ (\E first \in held : AwaitGap(first))
              \/ \E f \in DOMAIN shards :
                    \/ AwaitBlock(f)
                    \/ \E low, high \in 0..(Data - 1) :
                          \/ RepairFails(f, low, high)
                          \/ \E newest \in DOMAIN shards :
                                AwaitShards(f, low, high, newest)
           /\ emitted' = {} \/ CompleteFrame
           /\ \/ UNCHANGED <<contiguous, last, shown>>
              \/ ApplyRecovery \/ DropPacket \/ HoldPacket \/ CompleteFrame
              \/ ResetMediaState
           /\ \/ UNCHANGED <<next, through, ready, recovery, frame, parts,
                             contiguous, last, resets>>
              \/ Push \/ DrainPacket \/ (\E first \in held : SkipGap(first))
              \/ (\E f \in DOMAIN shards :
                    \/ SkipToBlock(f) \/ FinishBlock(f)
                    \/ \E low, high \in 0..(Data - 1) :
                          \E newest \in DOMAIN shards :
                             SkipBlock(f, low, high, newest))
              \/ ApplyRecovery \/ ApplyNack
              \/ DropPacket \/ HoldPacket \/ CompleteFrame \/ ResetMediaState
           /\ UNCHANGED resets \/ (resets' = resets + 1 /\ ResetMediaState)
<1> DEFINE Written ==
           /\ UNCHANGED fec
           /\ \/ UNCHANGED <<next, held>>
              \/ Push \/ DrainPacket \/ (\E first \in held : SkipGap(first))
              \/ ResetMediaState
           /\ \/ UNCHANGED <<shards, failed, through>>
              \/ PushShard \/ ResetMediaState
              \/ \E f \in DOMAIN shards :
                    \/ SkipToBlock(f) \/ FinishBlock(f)
                    \/ \E low, high \in 0..(Data - 1) :
                          \/ RepairFails(f, low, high)
                          \/ \E newest \in DOMAIN shards :
                                SkipBlock(f, low, high, newest)
           /\ \/ UNCHANGED <<frame, parts, contiguous, last>>
              \/ ApplyRecovery \/ DropPacket \/ HoldPacket \/ CompleteFrame
              \/ ResetMediaState
           /\ \/ UNCHANGED <<received, packet, updated>>
              \/ (\E p \in Packets : Authenticate(p))
              \/ ResolveNack \/ Push \/ PushShard \/ ResetMediaState
           /\ \/ UNCHANGED nacks
              \/ ResolveNack \/ Push \/ PushShard
              \/ ApplyRecovery \/ ApplyNack \/ HoldPacket \/ CompleteFrame
              \/ (\E k \in DOMAIN nacks : ExpireNack(k) \/ TakeNack(k))
           /\ \/ asked' = <<>> \/ UNCHANGED asked
              \/ (\E first \in held : AwaitGap(first))
              \/ \E f \in DOMAIN shards :
                    \/ AwaitBlock(f)
                    \/ \E low, high \in 0..(Data - 1) :
                          \/ RepairFails(f, low, high)
                          \/ \E newest \in DOMAIN shards :
                                AwaitShards(f, low, high, newest)
           /\ emitted' = {} \/ CompleteFrame
           /\ \/ UNCHANGED <<contiguous, last, shown>>
              \/ ApplyRecovery \/ DropPacket \/ HoldPacket \/ CompleteFrame
              \/ ResetMediaState
           /\ \/ UNCHANGED <<next, through, ready, recovery, frame, parts,
                             contiguous, last, resets>>
              \/ Push \/ DrainPacket \/ (\E first \in held : SkipGap(first))
              \/ (\E f \in DOMAIN shards :
                    \/ SkipToBlock(f) \/ FinishBlock(f)
                    \/ \E low, high \in 0..(Data - 1) :
                          \E newest \in DOMAIN shards :
                             SkipBlock(f, low, high, newest))
              \/ ApplyRecovery \/ ApplyNack
              \/ DropPacket \/ HoldPacket \/ CompleteFrame \/ ResetMediaState
           /\ UNCHANGED resets \/ (resets' = resets + 1 /\ ResetMediaState)
<1> USE DEF streamVars, plainVars, fecVars, bufferVars, pictureVars,
        feedbackVars, resultVars, taskVars, Resolved, Turn, HeadBlock, Applied,
        TakeReady, Accept, Feedback, Break, GiveUp
<1>1. ASSUME NEW p \in Packets, Authenticate(p)
      PROVE  Written
    BY <1>1 DEF Authenticate
<1>2. ASSUME ResolveNack PROVE Written
    BY <1>2 DEF ResolveNack
<1>3. ASSUME Push PROVE Written
    BY <1>3 DEF Push
<1>4. ASSUME DrainPacket PROVE Written
    BY <1>4 DEF DrainPacket
<1>5. ASSUME Drained PROVE Written
    BY <1>5 DEF Drained
<1>6. ASSUME NEW first \in held, AwaitGap(first)
      PROVE  Written
    BY <1>6 DEF AwaitGap
<1>7. ASSUME NEW first \in held, SkipGap(first)
      PROVE  Written
    BY <1>7 DEF SkipGap
<1>8. ASSUME PushShard PROVE Written
    BY <1>8 DEF PushShard
<1>9. ASSUME NoBlocks PROVE Written
    BY <1>9 DEF NoBlocks
<1>10. ASSUME NEW f \in DOMAIN shards, AwaitBlock(f)
      PROVE  Written
    BY <1>10 DEF AwaitBlock
<1>11. ASSUME NEW f \in DOMAIN shards, SkipToBlock(f)
      PROVE  Written
    BY <1>11 DEF SkipToBlock
<1>12. ASSUME NEW f \in DOMAIN shards, FinishBlock(f)
      PROVE  Written
    BY <1>12 DEF FinishBlock
<1>13. ASSUME NEW f \in DOMAIN shards, OnlyBlock(f)
      PROVE  Written
    BY <1>13 DEF OnlyBlock
<1>14. ASSUME NEW f \in DOMAIN shards, NEW low \in 0..(Data - 1),
             NEW high \in 0..(Data - 1), RepairFails(f, low, high)
      PROVE  Written
    BY <1>14 DEF RepairFails
<1>15. ASSUME NEW f \in DOMAIN shards, NEW low \in 0..(Data - 1),
             NEW high \in 0..(Data - 1), NEW newest \in DOMAIN shards,
             AwaitShards(f, low, high, newest)
      PROVE  Written
    BY <1>15 DEF AwaitShards
<1>16. ASSUME NEW f \in DOMAIN shards, NEW low \in 0..(Data - 1),
             NEW high \in 0..(Data - 1), NEW newest \in DOMAIN shards,
             SkipBlock(f, low, high, newest)
      PROVE  Written
    BY <1>16 DEF SkipBlock
<1>17. ASSUME ApplyRecovery PROVE Written
    BY <1>17 DEF ApplyRecovery
<1>18. ASSUME ApplyNack PROVE Written
    BY <1>18 DEF ApplyNack
<1>19. ASSUME DropPacket PROVE Written
    BY <1>19 DEF DropPacket
<1>20. ASSUME HoldPacket PROVE Written
    BY <1>20 DEF HoldPacket
<1>21. ASSUME CompleteFrame PROVE Written
    BY <1>21 DEF CompleteFrame
<1>22. ASSUME PollFrameProgress PROVE Written
    BY <1>22 DEF PollFrameProgress
<1>23. ASSUME NEW k \in DOMAIN nacks, ExpireNack(k)
      PROVE  Written
    BY <1>23 DEF ExpireNack
<1>24. ASSUME NEW k \in DOMAIN nacks, TakeNack(k)
      PROVE  Written
    BY <1>24 DEF TakeNack
<1>25. ASSUME RequestKeyframe PROVE Written
    BY <1>25 DEF RequestKeyframe
<1>26. ASSUME ResetMediaState, UNCHANGED resets \/ resets' = resets + 1
      PROVE  Written
    BY <1>26 DEF ResetMediaState
<1> HIDE DEF Written
<1>27. ASSUME Pause \/ Resume \/ Recover \/ Stop \/ PollReceiverTimeout
      PROVE  Written
    BY <1>26, <1>27 DEF Pause, Resume, Recover, Stop, PollReceiverTimeout
<1> QED BY <1>1, <1>2, <1>3, <1>4, <1>5, <1>6, <1>7, <1>8, <1>9, <1>10, <1>11,
        <1>12, <1>13, <1>14, <1>15, <1>16, <1>17, <1>18, <1>19, <1>20, <1>21,
        <1>22, <1>23, <1>24, <1>25, <1>26, <1>27 DEF ReceiverNext, Process, Buffer,
        FecBuffer, Written

\* A new receiver is typed.
LEMMA TypedInit == ReceiverInit => ReceiverTyped
<1> SUFFICES ASSUME ReceiverInit PROVE ReceiverTyped
    OBVIOUS
<1>1. BuffersTyped
    BY DEF ReceiverInit, BuffersTyped
<1>2. contiguous \in BOOLEAN /\ recovery \in BOOLEAN
    BY DEF ReceiverInit, NoResult
<1>3. PictureTyped
    BY <1>2 DEF ReceiverInit, PictureTyped
<1>4. RangesTyped
    BY DEF ReceiverInit, RangesTyped, NoResult
<1>5. TaskTyped
    BY <1>2 DEF ReceiverInit, TaskTyped, NoResult
<1> QED BY <1>1, <1>3, <1>4, <1>5 DEF ReceiverTyped

\* Every step keeps the picture typed.
LEMMA PictureTypedStep ==
    ASSUME ReceiverInv, ReceiverNext PROVE PictureTyped'
<1>0. PictureTyped /\ ready \in Seq(Nat)
    BY DEF ReceiverInv, ReceiverTyped, TaskTyped
<1>1. ASSUME ready # <<>>
      PROVE  /\ FrameOf(Head(ready)) \in Nat
             /\ Extended(Shard(Head(ready))) \in Seq(Nat)
  <2>1. Head(ready) \in Nat
    BY <1>0, <1>1
  <2>2. FrameOf(Head(ready)) \in Nat /\ Shard(Head(ready)) \in Nat
    BY <2>1, Places
  <2> QED BY <1>0, <2>2 DEF Extended, PictureTyped
<1>6. resets' \in Nat
    BY <1>0, Writers DEF PictureTyped
<1> USE DEF ApplyRecovery, DropPacket, InvalidatePicture, HoldPacket,
        CompleteFrame, Accept, TakeReady, ResetMediaState
<1>2. frame' \in Nat \cup {-1}
    BY <1>0, <1>1, Writers DEF PictureTyped
<1>3. parts' \in Seq(Nat)
  <2>1. CASE UNCHANGED <<frame, parts, contiguous, last>>
    BY <1>0, <2>1 DEF PictureTyped
  <2>2. ASSUME ApplyRecovery \/ DropPacket \/ CompleteFrame \/ ResetMediaState
        PROVE  parts' = <<>>
    BY <2>2
  <2>3. CASE HoldPacket
    BY <1>1, <2>3
  <2>4. <<>> \in Seq(Nat)
    OBVIOUS
  <2> HIDE DEF ApplyRecovery, DropPacket, HoldPacket, CompleteFrame,
        ResetMediaState
  <2> QED BY <2>1, <2>2, <2>3, <2>4, Writers
<1>4. last' \in Nat \cup {-1}
    BY <1>0, <1>1, Writers DEF PictureTyped
<1>5. contiguous' \in BOOLEAN
  <2>1. CASE UNCHANGED <<frame, parts, contiguous, last>>
    BY <1>0, <2>1 DEF PictureTyped
  <2>2. CASE ApplyRecovery \/ DropPacket \/ CompleteFrame \/ ResetMediaState
    BY <2>2
  <2>3. CASE HoldPacket
    BY <2>3
  <2> QED BY <2>1, <2>2, <2>3, Writers
<1>7. shown' \in Nat \cup {-1}
    BY <1>0, <1>1, Writers DEF PictureTyped
<1> QED BY <1>2, <1>3, <1>4, <1>5, <1>6, <1>7 DEF PictureTyped

\* The packets of a stream are numbered from zero.
LEMMA PacketsAreNatural == Packets \subseteq Nat
BY BlockHasData, ReceiverAssumption DEF Packets

\* Every step keeps the buffers typed.
LEMMA BuffersTypedStep ==
    ASSUME ReceiverInv, ReceiverNext PROVE BuffersTyped'
<1>0. BuffersTyped /\ TaskTyped
    BY DEF ReceiverInv, ReceiverTyped
<1>1. fec' \in BOOLEAN
    BY <1>0, Writers DEF BuffersTyped
<1>2. next' \in Nat \cup {-1}
  <2>1. CASE UNCHANGED <<next, held>> \/ ResetMediaState
    BY <1>0, <2>1 DEF BuffersTyped, ResetMediaState
  <2>2. CASE Push
    BY <1>0, <2>2 DEF BuffersTyped, TaskTyped, Push, Resolved, Expected
  <2>3. CASE DrainPacket
    BY <1>0, <2>3 DEF BuffersTyped, DrainPacket
  <2>4. ASSUME NEW first \in held, SkipGap(first) PROVE next' \in Nat
    BY <1>0, <2>4 DEF BuffersTyped, SkipGap
  <2> QED BY <2>1, <2>2, <2>3, <2>4, Writers
<1>3. held' \subseteq Nat
  <2>1. CASE UNCHANGED <<next, held>> \/ ResetMediaState
    BY <1>0, <2>1 DEF BuffersTyped, ResetMediaState
  <2>2. ASSUME Push PROVE held' = held \/ (held' = held \cup {packet} /\ packet \in Nat)
    BY <1>0, <2>2 DEF TaskTyped, Push, Resolved
  <2>3. CASE DrainPacket
    BY <1>0, <2>3 DEF BuffersTyped, DrainPacket
  <2>4. ASSUME NEW first \in held, SkipGap(first) PROVE held' = held
    BY <1>0, <2>4 DEF SkipGap
  <2> QED BY <1>0, <2>1, <2>2, <2>3, <2>4, Writers DEF BuffersTyped
<1>4. DOMAIN shards' \subseteq Nat /\ through' \in Nat \cup {-1}
  <2>0. BlockSize \in Nat /\ \A f \in Nat : Base(f) \in Nat
    BY BlockHasData, Blocks
  <2>1. CASE UNCHANGED <<shards, failed, through>> \/ ResetMediaState
    BY <1>0, <2>1 DEF BuffersTyped, ResetMediaState
  <2>2. CASE PushShard
    <3>1. FrameOf(packet) \in Nat
        BY <1>0, <2>2, Places DEF PushShard, Resolved, TaskTyped
    <3> QED BY <1>0, <2>2, <3>1 DEF BuffersTyped, PushShard
  <2>3. ASSUME NEW f \in DOMAIN shards, SkipToBlock(f) \/ FinishBlock(f)
        PROVE  DOMAIN shards' \subseteq Nat /\ through' \in Nat
    BY <1>0, <2>0, <2>3 DEF BuffersTyped, SkipToBlock, FinishBlock, RemoveBlock
  <2>4. ASSUME NEW f \in DOMAIN shards, NEW low, NEW high,
               RepairFails(f, low, high) \/ \E newest \in DOMAIN shards :
                    SkipBlock(f, low, high, newest)
        PROVE  DOMAIN shards' \subseteq Nat /\ through' \in Nat \cup {-1}
    BY <1>0, <2>0, <2>4 DEF BuffersTyped, RepairFails, SkipBlock, RemoveBlock
  <2> QED BY <2>1, <2>2, <2>3, <2>4, Writers
<1>5. received' \subseteq Nat
  <2>1. CASE UNCHANGED <<received, packet, updated>>
    BY <1>0, <2>1 DEF BuffersTyped
  <2>2. ASSUME NEW p \in Packets, Authenticate(p) PROVE received' = received
    BY <2>2 DEF Authenticate
  <2>3. CASE ResolveNack \/ ResetMediaState
    BY <1>0, <2>3 DEF BuffersTyped, ResolveNack, ResetMediaState
  <2>4. CASE Push \/ PushShard
    BY <1>0, <2>4 DEF BuffersTyped, TaskTyped, Push, PushShard, Resolved
  <2> QED BY <1>0, <2>1, <2>2, <2>3, <2>4, Writers DEF BuffersTyped
<1> QED BY <1>1, <1>2, <1>3, <1>4, <1>5 DEF BuffersTyped

\* Every step keeps process_datagram typed: results are pending only between the
\* push and the end of the assembly.
LEMMA TaskTypedStep ==
    ASSUME ReceiverInv, ReceiverNext PROVE TaskTyped'
<1> USE DEF streamVars, plainVars, fecVars, bufferVars, pictureVars,
        feedbackVars, resultVars, taskVars, Resolved, Turn, HeadBlock, Applied,
        TakeReady, Accept, Feedback, Break, GiveUp, NoResult
<1>0. TaskTyped /\ held \subseteq Nat /\ DOMAIN shards \subseteq Nat
    BY DEF ReceiverInv, ReceiverTyped, BuffersTyped
<1>1. ASSUME NEW p \in Packets, Authenticate(p)
      PROVE  TaskTyped'
    BY <1>0, <1>1, PacketsAreNatural DEF Authenticate, TaskTyped
<1>2. CASE ResolveNack
    BY <1>0, <1>2 DEF ResolveNack, TaskTyped
<1>3. CASE Push
  <2>1. recovery' \in BOOLEAN
    BY <1>0, <1>3 DEF Push, TaskTyped
  <2>2. /\ at' = "turn" \/ (at' = "idle" /\ recovery' = FALSE)
        /\ packet' = -1 /\ ready' = <<>> /\ asked' = <<>>
    BY <1>0, <1>3 DEF Push, TaskTyped
  <2> QED BY <1>0, <2>1, <2>2 DEF TaskTyped
<1>4. CASE DrainPacket
  <2>1. Append(ready, next) \in Seq(Nat)
    BY <1>0, <1>4 DEF DrainPacket, TaskTyped
  <2> QED BY <1>0, <1>4, <2>1 DEF DrainPacket, TaskTyped
<1>5. CASE Drained
    BY <1>0, <1>5 DEF Drained, TaskTyped
<1>6. ASSUME NEW first \in held, AwaitGap(first)
      PROVE  TaskTyped'
    BY <1>0, <1>6 DEF AwaitGap, TaskTyped
<1>7. ASSUME NEW first \in held, SkipGap(first)
      PROVE  TaskTyped'
    BY <1>0, <1>7 DEF SkipGap, TaskTyped
<1>8. CASE PushShard
    BY <1>0, <1>8 DEF PushShard, TaskTyped
<1>9. CASE NoBlocks
    BY <1>0, <1>9 DEF NoBlocks, TaskTyped
<1>10. ASSUME NEW f \in DOMAIN shards, AwaitBlock(f)
      PROVE  TaskTyped'
    BY <1>0, <1>10 DEF AwaitBlock, TaskTyped
<1>11. ASSUME NEW f \in DOMAIN shards, SkipToBlock(f)
      PROVE  TaskTyped'
    BY <1>0, <1>11 DEF SkipToBlock, TaskTyped
<1>12. ASSUME NEW f \in DOMAIN shards, FinishBlock(f)
      PROVE  TaskTyped'
  <2>1. Base(f) \in Nat /\ Data \in Nat
    BY <1>0, Blocks, BlockHasData
  <2>2. [i \in 1..Data |-> Base(f) + i - 1] \in Seq(Nat)
    BY <2>1
  <2>3. ready' \in Seq(Nat)
    BY <1>0, <1>12, <2>2 DEF FinishBlock, TaskTyped
  <2> QED BY <1>0, <1>12, <2>3 DEF FinishBlock, TaskTyped
<1>13. ASSUME NEW f \in DOMAIN shards, OnlyBlock(f)
      PROVE  TaskTyped'
    BY <1>0, <1>13 DEF OnlyBlock, TaskTyped
<1>14. ASSUME NEW f \in DOMAIN shards, NEW low \in 0..(Data - 1),
             NEW high \in 0..(Data - 1), RepairFails(f, low, high)
      PROVE  TaskTyped'
    BY <1>0, <1>14 DEF RepairFails, TaskTyped
<1>15. ASSUME NEW f \in DOMAIN shards, NEW low \in 0..(Data - 1),
             NEW high \in 0..(Data - 1), NEW newest \in DOMAIN shards,
             AwaitShards(f, low, high, newest)
      PROVE  TaskTyped'
    BY <1>0, <1>15 DEF AwaitShards, TaskTyped
<1>16. ASSUME NEW f \in DOMAIN shards, NEW low \in 0..(Data - 1),
             NEW high \in 0..(Data - 1), NEW newest \in DOMAIN shards,
             SkipBlock(f, low, high, newest)
      PROVE  TaskTyped'
    BY <1>0, <1>16 DEF SkipBlock, TaskTyped
<1>17. CASE ApplyRecovery
    BY <1>0, <1>17 DEF ApplyRecovery, TaskTyped
<1>18. CASE ApplyNack
    BY <1>0, <1>18 DEF ApplyNack, TaskTyped
<1>19. CASE DropPacket
    BY <1>0, <1>19 DEF DropPacket, TaskTyped
<1>20. CASE HoldPacket
    BY <1>0, <1>20 DEF HoldPacket, TaskTyped
<1>21. CASE CompleteFrame
    BY <1>0, <1>21 DEF CompleteFrame, TaskTyped
<1>22. CASE PollFrameProgress
    BY <1>0, <1>22 DEF PollFrameProgress, TaskTyped
<1>23. ASSUME NEW k \in DOMAIN nacks, ExpireNack(k)
      PROVE  TaskTyped'
    BY <1>0, <1>23 DEF ExpireNack, TaskTyped
<1>24. ASSUME NEW k \in DOMAIN nacks, TakeNack(k)
      PROVE  TaskTyped'
    BY <1>0, <1>24 DEF TakeNack, TaskTyped
<1>25. CASE RequestKeyframe
    BY <1>0, <1>25 DEF RequestKeyframe, TaskTyped
<1>26. CASE ResetMediaState
    BY <1>0, <1>26 DEF ResetMediaState, TaskTyped
<1> QED BY <1>1, <1>2, <1>3, <1>4, <1>5, <1>6, <1>7, <1>8, <1>9, <1>10, <1>11,
        <1>12, <1>13, <1>14, <1>15, <1>16, <1>17, <1>18, <1>19, <1>20, <1>21,
        <1>22, <1>23, <1>24, <1>25, <1>26 DEF ReceiverNext, Process, Buffer,
        FecBuffer,
        Pause, Resume, Recover, Stop, PollReceiverTimeout

\* A packet that was received is not in the ranges that the buffers ask for.
LEMMA AskedMissing ==
    ASSUME ReceiverInv, ReceiverNext
    PROVE  /\ asked' = <<>> \/ asked' \in Ranges
           /\ asked' # <<>> => \A x \in received' : x < asked'[1] \/ x > asked'[2]
<1> DEFINE Missing == /\ asked' = <<>> \/ asked' \in Ranges
                      /\ asked' # <<>> => \A x \in received' :
                                              x < asked'[1] \/ x > asked'[2]
<1>0. /\ BuffersTyped /\ TaskTyped /\ RangesTyped /\ RangesMissing
      /\ PacketsHeld /\ ShardsHeld
    BY DEF ReceiverInv, ReceiverTyped
<1>1. ASSUME NEW low \in Int, NEW high \in Int, asked' = <<low, high>>,
             received' = received, \A x \in received : x < low \/ x > high
      PROVE  Missing
    BY <1>1 DEF Ranges
<1>2. ASSUME NEW first \in held, AwaitGap(first) PROVE Missing
  <2>1. /\ ~fec /\ asked' = <<next, first - 1>> /\ received' = received
        /\ IsLeast(first, held)
    BY <1>2 DEF AwaitGap, Turn, Break
  <2>2. next \in Int /\ first \in Int /\ received \subseteq Int
    BY <1>0 DEF BuffersTyped
  <2>3. ASSUME NEW x \in received PROVE x < next \/ x > first - 1
    BY <1>0, <2>1, <2>2 DEF PacketsHeld, IsLeast
  <2> HIDE DEF Missing
  <2> QED BY <1>1, <2>1, <2>2, <2>3
<1>3. ASSUME NEW f \in DOMAIN shards, AwaitBlock(f) PROVE Missing
  <2>1. /\ fec /\ asked' = <<through, Base(f) - 1>> /\ received' = received
        /\ IsLeast(f, DOMAIN shards)
    BY <1>3 DEF AwaitBlock, HeadBlock, Turn, Break
  <2>2. through \in Int /\ f \in Nat /\ Base(f) \in Int /\ received \subseteq Nat
    BY <1>0, Blocks DEF BuffersTyped
  <2>3. ASSUME NEW x \in received, ~(x < through) PROVE x > Base(f) - 1
    <3>1. FrameOf(x) \in DOMAIN shards /\ FrameOf(x) \in Nat /\ f <= FrameOf(x)
        BY <1>0, <2>1, <2>2, <2>3, Places DEF ShardsHeld, IsLeast
    <3>2. /\ x = Base(FrameOf(x)) + Shard(x)
          /\ Shard(x) \in Nat /\ Base(FrameOf(x)) \in Nat
        BY <2>2, <3>1, Places, Blocks
    <3>3. Base(f) <= Base(FrameOf(x))
        BY <2>2, <3>1, <3>2, Blocks, BlockHasData
    <3> QED BY <2>2, <3>2, <3>3
  <2> HIDE DEF Missing
  <2> QED BY <1>1, <2>1, <2>2, <2>3
<1>4. ASSUME NEW f \in DOMAIN shards, NEW low \in 0..(Data - 1),
             NEW high \in 0..(Data - 1), FirstMissingRun(f, low, high), fec,
             asked' = <<Base(f) + low, Base(f) + high>>, received' = received
      PROVE  Missing
  <2>0. f \in Nat /\ received \subseteq Nat
    BY <1>0 DEF BuffersTyped
  <2>a. Base(f) \in Nat
    BY <2>0, Blocks
  <2>b. low \in Nat /\ high \in Nat /\ high < BlockSize
    BY BlockHasData
  <2>1. /\ f \in Nat /\ Base(f) \in Nat /\ low \in Nat /\ high \in Nat
        /\ high < BlockSize /\ received \subseteq Nat
    BY <2>0, <2>a, <2>b
  <2>2. ASSUME NEW x \in received, Base(f) + low <= x, x <= Base(f) + high
        PROVE  FALSE
    <3> DEFINE s == x - Base(f)
    <3>1. s \in Nat /\ low <= s /\ s <= high /\ s < BlockSize /\ x = Base(f) + s
        BY <2>1, <2>2, BlockHasData
    <3> HIDE DEF s
    <3>2. FrameOf(x) = f /\ Shard(x) = s
        BY <2>1, <3>1, PlaceOf
    <3>3. s \notin shards[f]
        BY <1>4, <2>1, <3>1 DEF FirstMissingRun, MissingData
    <3>4. through <= Base(f) /\ (x < through \/ Shard(x) \in shards[FrameOf(x)])
        BY <1>0, <1>4 DEF ShardsHeld
    <3>5. ~(x < through)
        BY <1>0, <2>1, <3>1, <3>4 DEF BuffersTyped
    <3> QED BY <3>2, <3>3, <3>4, <3>5
  <2>3. \A x \in received : x < Base(f) + low \/ x > Base(f) + high
    BY <2>1, <2>2
  <2>4. Base(f) + low \in Int /\ Base(f) + high \in Int
    BY <2>1
  <2> HIDE DEF Missing
  <2> QED BY <1>1, <1>4, <2>3, <2>4
<1>5. ASSUME NEW f \in DOMAIN shards, NEW low \in 0..(Data - 1),
             NEW high \in 0..(Data - 1),
             \/ RepairFails(f, low, high)
             \/ \E newest \in DOMAIN shards : AwaitShards(f, low, high, newest)
      PROVE  Missing
  <2>1. /\ FirstMissingRun(f, low, high) /\ fec /\ received' = received
        /\ asked' = <<Base(f) + low, Base(f) + high>>
    BY <1>5 DEF RepairFails, AwaitShards, HeadBlock, Turn, Break
  <2> QED BY <1>4, <2>1
<1>6. ASSUME UNCHANGED asked PROVE Missing
  <2>1. CASE UNCHANGED <<received, packet, updated>>
    BY <1>0, <1>6, <2>1 DEF RangesTyped, RangesMissing
  <2>2. ASSUME \/ (\E p \in Packets : Authenticate(p))
               \/ ResolveNack \/ Push \/ PushShard \/ ResetMediaState
        PROVE  asked = <<>>
    <3>1. at \in {"idle", "resolve"}
        BY <2>2 DEF Authenticate, ResolveNack, Push, PushShard, ResetMediaState,
            Resolved
    <3> QED BY <1>0, <3>1 DEF TaskTyped, NoResult
  <2> QED BY <1>6, <2>1, <2>2, Writers
<1> HIDE DEF Missing
<1>7. ASSUME asked' = <<>> PROVE Missing
    BY <1>7 DEF Missing
<1>8. Missing
    BY <1>2, <1>3, <1>5, <1>6, <1>7, Writers
<1> QED BY <1>8 DEF Missing

\* Every step keeps the ranges typed, and clear of the packets that were taken in:
\* resolve_nack removes the packet before it counts as received.
LEMMA RangesStep ==
    ASSUME ReceiverInv, ReceiverNext PROVE RangesTyped' /\ RangesMissing'
<1>0. /\ BuffersTyped /\ TaskTyped /\ RangesTyped /\ RangesMissing
      /\ nacks \in Seq(Ranges) /\ updated \in Seq(Ranges) /\ packet \in Int
      /\ received \in SUBSET Int /\ Spares(nacks, received)
      /\ Spares(updated, received \cup {packet})
    BY DEF ReceiverInv, ReceiverTyped, BuffersTyped, TaskTyped, RangesTyped,
        RangesMissing
<1> DEFINE Good == /\ nacks' \in Seq(Ranges) /\ updated' \in Seq(Ranges)
                   /\ Spares(nacks', received')
                   /\ Spares(updated', received' \cup {packet'})
<1>1. ASSUME nacks' \in Seq(Ranges), Spares(nacks', received),
             UNCHANGED <<received, packet, updated>>
      PROVE  Good
    BY <1>0, <1>1
<1>2. ASSUME NEW p \in Packets, Authenticate(p) PROVE Good
  <2>1. updated' = <<>> /\ nacks' = nacks /\ received' = received
    BY <1>2 DEF Authenticate, feedbackVars
  <2> QED BY <1>0, <2>1, NoneSpares
<1>3. ASSUME ResolveNack PROVE Good
  <2>1. /\ nacks # <<>> /\ nacks' = Tail(nacks) /\ received' = received
        /\ updated' = updated \o Around(Head(nacks), packet) /\ packet' = packet
    BY <1>3 DEF ResolveNack
  <2>2. /\ Head(nacks) \in Ranges
        /\ Tail(nacks) \in Seq(Ranges) /\ Spares(Tail(nacks), received)
        /\ \A x \in received : x < Head(nacks)[1] \/ x > Head(nacks)[2]
    BY <1>0, <2>1, TailSpares
  <2>3. /\ Around(Head(nacks), packet) \in Seq(Ranges)
        /\ Spares(Around(Head(nacks), packet), received \cup {packet})
    BY <1>0, <2>2, AroundSpares
  <2>4. /\ updated' \in Seq(Ranges)
        /\ Spares(updated', received \cup {packet})
    BY <1>0, <2>1, <2>3, ConcatSpares
  <2> QED BY <2>1, <2>2, <2>4
<1>4. ASSUME Push \/ PushShard PROVE Good
  <2>1. nacks' = updated /\ updated' = <<>> /\ received' = received \cup {packet}
    BY <1>4 DEF Push, PushShard, Resolved
  <2> QED BY <1>0, <2>1, NoneSpares
<1>5. ASSUME ResetMediaState PROVE Good
  <2>1. nacks' = nacks /\ updated' = updated /\ packet' = packet /\ received' = {}
    BY <1>5 DEF ResetMediaState, feedbackVars, taskVars
  <2> QED BY <1>0, <2>1 DEF Spares
<1>6. ASSUME UNCHANGED <<received, packet, updated>>
      PROVE  Good
  <2>1. ASSUME UNCHANGED nacks PROVE Good
    BY <1>0, <1>1, <1>6, <2>1
  <2>2. ASSUME ApplyRecovery PROVE nacks' = <<>>
    BY <2>2 DEF ApplyRecovery
  <2>3. ASSUME HoldPacket \/ CompleteFrame PROVE nacks' = nacks \/ nacks' = <<>>
    BY <2>3 DEF HoldPacket, CompleteFrame, Accept
  <2>4. ASSUME nacks' = <<>> PROVE Good
    BY <1>1, <1>6, <2>4, NoneSpares
  <2>5. ASSUME ApplyNack PROVE Good
    <3>1. CASE asked = <<>>
      <4>1. nacks' = nacks
        BY <2>5, <3>1 DEF ApplyNack
      <4> QED BY <2>1, <4>1
    <3>2. CASE asked # <<>>
      <4>1. RequestNack(asked[1], asked[2])
        BY <2>5, <3>2 DEF ApplyNack
      <4>2. /\ asked[1] \in Int /\ asked[2] \in Int
            /\ \A x \in received : x < asked[1] \/ x > asked[2]
        BY <1>0, <3>2 DEF RangesTyped, RangesMissing, Ranges
      <4>3. nacks' \in Seq(Ranges) /\ Spares(nacks', received)
        BY <1>0, <4>1, <4>2, RequestSpares
      <4> QED BY <1>1, <1>6, <4>3
    <3> QED BY <3>1, <3>2
  <2>6. ASSUME NEW k \in DOMAIN nacks
        PROVE  LET before == SubSeq(nacks, 1, k - 1)
                   after == SubSeq(nacks, k + 1, Len(nacks))
               IN  /\ before \in Seq(Ranges) /\ Spares(before, received)
                   /\ after \in Seq(Ranges) /\ Spares(after, received)
    <3>1. k \in Nat /\ k - 1 \in Int /\ k - 1 <= Len(nacks) /\ Len(nacks) \in Int
          /\ k + 1 \in Nat \ {0} /\ 1 \in Nat \ {0} /\ Len(nacks) <= Len(nacks)
        BY <1>0
    <3> QED BY <1>0, <3>1, PartSpares
  <2>7. ASSUME NEW k \in DOMAIN nacks, ExpireNack(k) PROVE Good
    <3>1. nacks' = SubSeq(nacks, 1, k - 1) \o SubSeq(nacks, k + 1, Len(nacks))
        BY <2>7 DEF ExpireNack
    <3>2. nacks' \in Seq(Ranges) /\ Spares(nacks', received)
        BY <2>6, <3>1, ConcatSpares
    <3> QED BY <1>1, <1>6, <3>2
  <2>8. ASSUME NEW k \in DOMAIN nacks, TakeNack(k) PROVE Good
    <3> DEFINE low == nacks[k][1]
               high == nacks[k][2]
               sent == low + NackLimit - 1
               split == << <<low, sent>>, <<sent + 1, high>> >>
               before == SubSeq(nacks, 1, k - 1)
               after == SubSeq(nacks, k + 1, Len(nacks))
    <3>1. /\ sent < high /\ nacks' = before \o split \o after
        BY <2>8 DEF TakeNack
    <3>2. nacks[k] \in Ranges /\ k \in 1..Len(nacks)
        BY <1>0
    <3>3. /\ low \in Int /\ high \in Int /\ NackLimit \in Nat /\ NackLimit >= 1
          /\ \A x \in received : x < low \/ x > high
        BY <1>0, <3>2, ReceiverAssumption DEF Ranges, Spares
    <3> HIDE DEF low, high
    <3>4. <<low, sent>> \in Ranges /\ <<sent + 1, high>> \in Ranges
        BY <3>3 DEF Ranges
    <3>5. split \in Seq(Ranges) /\ Len(split) = 2 /\ split[1] = <<low, sent>>
          /\ split[2] = <<sent + 1, high>>
        BY <3>4
    <3>6. sent \in Int /\ low <= sent /\ sent < high
        BY <3>1, <3>3
    <3> HIDE DEF split, sent
    <3>7. ASSUME NEW x \in received
           PROVE  (x < low \/ x > sent) /\ (x < sent + 1 \/ x > high)
        BY <1>0, <3>3, <3>6
    <3>8. ASSUME NEW j \in 1..2, NEW x \in received
           PROVE  x < split[j][1] \/ x > split[j][2]
      <4>1. CASE j = 1
        BY <3>5, <3>7, <4>1
      <4>2. CASE j = 2
        BY <3>5, <3>7, <4>2
      <4> QED BY <4>1, <4>2
    <3>9. Spares(split, received)
        BY <3>5, <3>8 DEF Spares
    <3>10. /\ before \in Seq(Ranges) /\ Spares(before, received)
          /\ after \in Seq(Ranges) /\ Spares(after, received)
        BY <2>6
    <3> HIDE DEF before, after
    <3>11. before \o split \in Seq(Ranges) /\ Spares(before \o split, received)
        BY <3>5, <3>9, <3>10, ConcatSpares
    <3>12. nacks' \in Seq(Ranges) /\ Spares(nacks', received)
        BY <3>1, <3>10, <3>11, ConcatSpares
    <3> QED BY <1>1, <1>6, <3>12
  <2>9. ASSUME ResolveNack \/ Push \/ PushShard PROVE Good
    BY <1>3, <1>4, <2>9
  <2> HIDE DEF Good
  <2> QED BY <2>1, <2>2, <2>3, <2>4, <2>5, <2>7, <2>8, <2>9, Writers
<1> HIDE DEF Good
<1>7. Good
    BY <1>2, <1>3, <1>4, <1>5, <1>6, Writers
<1> QED BY <1>7, AskedMissing DEF Good, RangesTyped, RangesMissing

\* A stream keeps its layout.
LEMMA SameStream ==
    ASSUME UNCHANGED fec
    PROVE  /\ BlockSize' = BlockSize
           /\ \A f : Base(f)' = Base(f)
           /\ \A p : FrameOf(p)' = FrameOf(p) /\ Shard(p)' = Shard(p)
           /\ \A p : Successor(p)' = Successor(p)
BY DEF BlockSize, Base, FrameOf, Shard, Successor

\* A packet that was taken in is behind RtpReorderBuffer's next_index, or in it.
LEMMA PacketsHeldStep ==
    ASSUME ReceiverInv, ReceiverNext PROVE PacketsHeld'
<1>0. BuffersTyped /\ TaskTyped /\ PacketsHeld
    BY DEF ReceiverInv, ReceiverTyped
<1>1. next \in Int /\ held \subseteq Int /\ received \subseteq Int /\ packet \in Int
    BY <1>0 DEF BuffersTyped, TaskTyped
<1> SUFFICES ASSUME ~fec PROVE PacketsHeld'
  <2>1. fec => PacketsHeld'
    BY Writers DEF PacketsHeld
  <2> QED BY <2>1
<1>2. ASSUME UNCHANGED <<next, held>>, ~Push, ~ResetMediaState PROVE PacketsHeld'
  <2>1. received' = received
    BY <1>2, Writers DEF Authenticate, ResolveNack, PushShard
  <2> QED BY <1>0, <1>2, <2>1, Writers DEF PacketsHeld
<1>3. CASE Push
  <2>1. packet \in Nat /\ received' = received \cup {packet}
    BY <1>0, <1>3 DEF Push, Resolved, TaskTyped
  <2>2. next = -1 => held = {} /\ received = {}
    BY <1>0 DEF PacketsHeld, BuffersTyped
  <2>3. CASE packet < Expected \/ packet \in held
    <3>1. next' = next /\ held' = held
        BY <1>1, <1>3, <2>2, <2>3 DEF Push, Expected
    <3> QED BY <1>0, <1>1, <2>1, <2>2, <2>3, <3>1 DEF PacketsHeld, Expected
  <2>4. CASE ~(packet < Expected \/ packet \in held)
    <3>1. /\ held' = held \cup {packet}
          /\ next' = Expected \/ (held = {} /\ next' = packet)
        BY <1>1, <1>3, <2>4 DEF Push
    <3>2. Expected \in Int /\ Expected <= packet /\ Expected # -1
        BY <1>0, <1>1, <2>1, <2>4 DEF Expected, BuffersTyped
    <3>3. \A p \in received : p < Expected \/ p \in held
        BY <1>0, <2>2 DEF PacketsHeld, Expected
    <3>4. \A p \in held : Expected <= p
        BY <1>0, <2>2 DEF PacketsHeld, Expected
    <3>5. \A p \in received' : p < next' \/ p \in held'
        BY <1>1, <2>1, <3>1, <3>2, <3>3
    <3>6. (\A p \in held' : next' <= p) /\ next' # -1
        BY <1>1, <2>1, <3>1, <3>2, <3>4
    <3> QED BY <3>5, <3>6 DEF PacketsHeld
  <2> QED BY <2>3, <2>4
<1>4. CASE DrainPacket
  <2>1. /\ next \in held /\ held' = held \ {next} /\ next' = next + 1
        /\ received' = received /\ next \in Nat
    BY <1>0, <1>4 DEF DrainPacket, Turn, BuffersTyped
  <2> QED BY <1>0, <1>1, <2>1 DEF PacketsHeld
<1>5. ASSUME NEW first \in held, SkipGap(first) PROVE PacketsHeld'
  <2>1. /\ IsLeast(first, held) /\ held' = held /\ next' = first
        /\ received' = received /\ first \in Nat
    BY <1>0, <1>5 DEF SkipGap, Turn, BuffersTyped
  <2> QED BY <1>0, <1>1, <2>1 DEF PacketsHeld, IsLeast
<1>6. CASE ResetMediaState
    BY <1>6 DEF ResetMediaState, PacketsHeld
<1> QED BY <1>2, <1>3, <1>4, <1>5, <1>6, Writers

\* A packet that was taken in is before FecReorderBuffer's completed_through, or
\* among the shards of a pending block, and the blocks start after it.
LEMMA ShardsHeldStep ==
    ASSUME ReceiverInv, ReceiverNext PROVE ShardsHeld'
<1>0. BuffersTyped /\ TaskTyped /\ ShardsHeld
    BY DEF ReceiverInv, ReceiverTyped
<1>1. /\ through \in Nat \cup {-1} /\ DOMAIN shards \subseteq Nat
      /\ received \subseteq Nat /\ packet \in Int
    BY <1>0 DEF BuffersTyped, TaskTyped
<1> SUFFICES ASSUME fec PROVE ShardsHeld'
  <2>1. ~fec => ShardsHeld'
    BY Writers DEF ShardsHeld
  <2> QED BY <2>1
<1>2. fec' = fec /\ \A p : FrameOf(p)' = FrameOf(p) /\ Shard(p)' = Shard(p)
    BY Writers, SameStream
<1>3. \A f : Base(f)' = Base(f)
    BY Writers, SameStream
<1>4. BlockSize \in Nat /\ \A f \in Nat : Base(f) \in Nat
    BY BlockHasData, Blocks
<1>5. ASSUME UNCHANGED <<shards, failed, through>>, ~PushShard, ~ResetMediaState
      PROVE  ShardsHeld'
  <2>1. received' = received
    BY <1>5, Writers DEF Authenticate, ResolveNack, Push
  <2> QED BY <1>0, <1>2, <1>3, <1>5, <2>1 DEF ShardsHeld
<1>6. CASE PushShard
  <2> DEFINE f == FrameOf(packet)
             s == Shard(packet)
  <2>1. packet \in Nat /\ received' = received \cup {packet} /\ through' = through
    BY <1>0, <1>6 DEF PushShard, Resolved, TaskTyped
  <2>2. f \in Nat /\ s \in Nat /\ packet = Base(f) + s /\ s < BlockSize
    BY <2>1, Places
  <2>3. CASE packet < through \/ s \in HeldShards(f)
    <3>1. UNCHANGED shards
        BY <1>1, <1>6, <2>1, <2>3 DEF PushShard
    <3>2. packet < through \/ (f \in DOMAIN shards /\ s \in shards[f])
        BY <2>3 DEF HeldShards
    <3> QED BY <1>0, <1>2, <1>3, <2>1, <3>1, <3>2 DEF ShardsHeld
  <2>4. CASE ~(packet < through \/ s \in HeldShards(f))
    <3>1. shards' = [g \in DOMAIN shards \cup {f} |->
                       IF g = f THEN HeldShards(f) \cup {s} ELSE shards[g]]
        BY <1>6, <2>4 DEF PushShard
    <3>2. /\ DOMAIN shards' = DOMAIN shards \cup {f} /\ s \in shards'[f]
          /\ \A g \in DOMAIN shards : \A t \in shards[g] : t \in shards'[g]
        BY <3>1 DEF HeldShards
    <3>3. through <= Base(f)
      <4>1. CASE through = -1
        BY <1>4, <2>2, <4>1
      <4>2. CASE through # -1
        <5>1. through \in Nat /\ FrameOf(through) \in Nat
            BY <1>1, <4>2, Places
        <5>2. through = Base(FrameOf(through))
            BY <1>0, <4>2 DEF ShardsHeld
        <5>3. ~(f < FrameOf(through))
          <6>1. f < FrameOf(through) => Base(f) + BlockSize <= Base(FrameOf(through))
            BY <2>2, <5>1, Blocks
          <6> QED BY <1>4, <2>1, <2>2, <2>4, <5>1, <5>2, <6>1
        <5>4. f = FrameOf(through) \/ Base(FrameOf(through)) + BlockSize <= Base(f)
          <6> HIDE DEF f
          <6>1. f = FrameOf(through) \/ FrameOf(through) < f
            BY <2>2, <5>1, <5>3
          <6>2. FrameOf(through) < f
                    => Base(FrameOf(through)) + BlockSize <= Base(f)
            BY <2>2, <5>1, Blocks
          <6> QED BY <6>1, <6>2
        <5> QED BY <1>4, <2>2, <5>1, <5>2, <5>4
      <4> QED BY <4>1, <4>2
    <3>4. \A p \in received' :
            \/ p < through
            \/ FrameOf(p) \in DOMAIN shards' /\ Shard(p) \in shards'[FrameOf(p)]
        BY <1>0, <2>1, <3>2 DEF ShardsHeld
    <3>5. \A g \in DOMAIN shards' : through <= Base(g)
        BY <1>0, <3>2, <3>3 DEF ShardsHeld
    <3> QED BY <1>0, <1>2, <1>3, <2>1, <3>4, <3>5 DEF ShardsHeld
  <2> QED BY <2>3, <2>4
<1>7. ASSUME NEW f \in DOMAIN shards, SkipToBlock(f) PROVE ShardsHeld'
  <2>1. /\ shards' = shards /\ received' = received /\ through' = Base(f)
        /\ through < Base(f) /\ IsLeast(f, DOMAIN shards) /\ f \in Nat
        /\ Base(f) \in Nat
    BY <1>1, <1>4, <1>7 DEF SkipToBlock, HeadBlock, GapBefore, Turn
  <2>2. \A g \in DOMAIN shards : Base(f) <= Base(g)
    BY <1>1, <1>4, <2>1, Blocks DEF IsLeast
  <2>3. FrameOf(Base(f)) = f
    BY <2>1, PlaceOf, BlockHasData
  <2> QED BY <1>0, <1>1, <1>2, <1>3, <2>1, <2>2, <2>3 DEF ShardsHeld
<1>8. ASSUME NEW f \in DOMAIN shards, IsLeast(f, DOMAIN shards),
             RemoveBlock(f), received' = received, through' = Base(f) + BlockSize
      PROVE  ShardsHeld'
  <2>1. /\ DOMAIN shards' = DOMAIN shards \ {f} /\ f \in Nat
        /\ \A g \in DOMAIN shards \ {f} : shards'[g] = shards[g]
    BY <1>1, <1>8 DEF RemoveBlock
  <2>2. through' = Base(f + 1) /\ FrameOf(Base(f + 1)) = f + 1 /\ through <= Base(f)
    <3>1. f + 1 \in Nat /\ 0 \in Nat /\ 0 < BlockSize /\ Base(f + 1) \in Nat
        BY <1>4, <2>1, BlockHasData
    <3>2. FrameOf(Base(f + 1) + 0) = f + 1
        BY <3>1, PlaceOf
    <3> QED BY <1>0, <1>8, <2>1, <3>1, <3>2, Blocks DEF ShardsHeld
  <2>3. ASSUME NEW g \in DOMAIN shards' PROVE through' <= Base(g)
    <3>1. g \in Nat /\ f < g
        BY <1>1, <1>8, <2>1 DEF IsLeast
    <3> QED BY <1>8, <2>1, <3>1, Blocks
  <2>4. ASSUME NEW p \in received
        PROVE  \/ p < through'
               \/ FrameOf(p) \in DOMAIN shards' /\ Shard(p) \in shards'[FrameOf(p)]
    <3>1. CASE p < through
        BY <1>1, <1>4, <1>8, <2>1, <2>2, <3>1
    <3>2. CASE FrameOf(p) = f
      <4>1. p = Base(f) + Shard(p) /\ Shard(p) \in Nat /\ Shard(p) < BlockSize
        BY <1>1, <3>2, Places
      <4> QED BY <1>4, <1>8, <2>1, <4>1
    <3>3. CASE ~(p < through) /\ FrameOf(p) # f
        BY <1>0, <2>1, <3>3 DEF ShardsHeld
    <3> QED BY <3>1, <3>2, <3>3
  <2> QED BY <1>2, <1>3, <1>8, <2>2, <2>3, <2>4 DEF ShardsHeld
<1>9. ASSUME NEW f \in DOMAIN shards, NEW low, NEW high,
             \/ FinishBlock(f)
             \/ \E newest \in DOMAIN shards : SkipBlock(f, low, high, newest)
      PROVE  ShardsHeld'
  <2>1. /\ IsLeast(f, DOMAIN shards) /\ RemoveBlock(f) /\ received' = received
        /\ through' = Base(f) + BlockSize
    BY <1>9 DEF FinishBlock, SkipBlock, HeadBlock, Turn
  <2> QED BY <1>8, <2>1
<1>10. ASSUME NEW f \in DOMAIN shards, NEW low, NEW high, RepairFails(f, low, high)
       PROVE  ShardsHeld'
  <2>1. UNCHANGED <<shards, through, received>>
    BY <1>10 DEF RepairFails, HeadBlock, Turn
  <2> QED BY <1>0, <1>2, <1>3, <2>1 DEF ShardsHeld
<1>11. CASE ResetMediaState
    BY <1>11 DEF ResetMediaState, ShardsHeld
<1> QED BY <1>5, <1>6, <1>7, <1>9, <1>10, <1>11, Writers

\* The shards of a block are its own, and repair_failed is set only while data is
\* missing.
LEMMA ShardsKeptStep ==
    ASSUME ReceiverInv, ReceiverNext PROVE ShardsKept'
<1>0. TaskTyped /\ ShardsKept
    BY DEF ReceiverInv, ReceiverTyped
<1>1. BlockSize' = BlockSize /\ BlockSize \in Nat
    BY Writers, SameStream, BlockHasData
<1>2. /\ \A f \in DOMAIN shards : shards[f] \subseteq 0..(BlockSize - 1)
      /\ \A f \in failed : f \in DOMAIN shards /\ (0..(Data - 1)) \ shards[f] # {}
    BY <1>0 DEF ShardsKept, MissingData
<1>3. ASSUME \A f \in DOMAIN shards' : shards'[f] \subseteq 0..(BlockSize - 1),
             \A f \in failed' : /\ f \in DOMAIN shards'
                                /\ (0..(Data - 1)) \ shards'[f] # {}
      PROVE  ShardsKept'
    BY <1>1, <1>3 DEF ShardsKept, MissingData
<1>4. ASSUME UNCHANGED <<shards, failed>> PROVE ShardsKept'
    BY <1>2, <1>3, <1>4
<1>5. CASE PushShard
  <2> DEFINE g == FrameOf(packet)
             s == Shard(packet)
  <2>1. g \in Nat /\ s \in 0..(BlockSize - 1)
    BY <1>0, <1>1, <1>5, Places DEF PushShard, Resolved, TaskTyped
  <2>2. \/ UNCHANGED <<shards, failed>>
        \/ /\ failed' = failed \ {g}
           /\ shards' = [h \in DOMAIN shards \cup {g} |->
                           IF h = g THEN HeldShards(g) \cup {s} ELSE shards[h]]
    BY <1>5 DEF PushShard
  <2>3. HeldShards(g) \subseteq 0..(BlockSize - 1)
    BY <1>2 DEF HeldShards
  <2> HIDE DEF g, s
  <2>4. CASE /\ failed' = failed \ {g}
             /\ shards' = [h \in DOMAIN shards \cup {g} |->
                             IF h = g THEN HeldShards(g) \cup {s} ELSE shards[h]]
    <3>1. \A f \in DOMAIN shards' : shards'[f] \subseteq 0..(BlockSize - 1)
        BY <1>2, <2>1, <2>3, <2>4
    <3>2. \A f \in failed' : f \in DOMAIN shards' /\ (0..(Data - 1)) \ shards'[f] # {}
      <4> TAKE f \in failed'
      <4>1. f \in DOMAIN shards /\ f # g /\ (0..(Data - 1)) \ shards[f] # {}
        BY <1>2, <2>4
      <4>2. f \in DOMAIN shards' /\ shards'[f] = shards[f]
        BY <2>4, <4>1
      <4> QED BY <4>1, <4>2
    <3> QED BY <1>3, <3>1, <3>2
  <2> QED BY <1>4, <2>2, <2>4
<1>6. ASSUME NEW g \in DOMAIN shards, RemoveBlock(g) PROVE ShardsKept'
  <2>1. /\ DOMAIN shards' = DOMAIN shards \ {g} /\ failed' = failed \ {g}
        /\ \A f \in DOMAIN shards \ {g} : shards'[f] = shards[f]
    BY <1>6 DEF RemoveBlock
  <2>2. \A f \in DOMAIN shards' : shards'[f] \subseteq 0..(BlockSize - 1)
    BY <1>2, <2>1
  <2>3. \A f \in failed' : f \in DOMAIN shards' /\ (0..(Data - 1)) \ shards'[f] # {}
    BY <1>2, <2>1
  <2> QED BY <1>3, <2>2, <2>3
<1>7. ASSUME NEW g \in DOMAIN shards, NEW low, NEW high, RepairFails(g, low, high)
      PROVE  ShardsKept'
  <2>1. failed' = failed \cup {g} /\ UNCHANGED shards
    BY <1>7 DEF RepairFails
  <2>2. (0..(Data - 1)) \ shards[g] # {}
    BY <1>7 DEF RepairFails, FirstMissingRun, IsLeast, MissingData
  <2> QED BY <1>2, <1>3, <2>1, <2>2
<1>8. ASSUME NEW g \in DOMAIN shards, SkipToBlock(g) PROVE UNCHANGED <<shards, failed>>
    BY <1>8 DEF SkipToBlock
<1>9. ASSUME NEW g \in DOMAIN shards, NEW low, NEW high,
             \/ FinishBlock(g)
             \/ \E newest \in DOMAIN shards : SkipBlock(g, low, high, newest)
      PROVE  RemoveBlock(g)
    BY <1>9 DEF FinishBlock, SkipBlock
<1>10. CASE ResetMediaState
    BY <1>10 DEF ResetMediaState, ShardsKept
<1> QED BY <1>4, <1>5, <1>6, <1>7, <1>8, <1>9, <1>10, Writers

-----------------------------------------------------------------------------
(* Runs of the stream.                                                      *)

\* The packet after a data packet is a data packet, and lies after it.
LEMMA Successors ==
    ASSUME NEW p \in Nat, Shard(p) < Data
    PROVE  /\ Successor(p) \in Nat /\ p < Successor(p)
           /\ Shard(p) = Data - 1 => Successor(p) = Base(FrameOf(p) + 1)
           /\ Shard(p) # Data - 1 => Successor(p) = p + 1
           /\ ~fec => Successor(p) = p + 1
<1> DEFINE f == FrameOf(p)
           s == Shard(p)
<1>0. /\ BlockSize \in Nat /\ Data \in Nat /\ Data >= 1 /\ BlockSize >= Data
      /\ ~fec => BlockSize = Data
    BY BlockHasData
<1>1. f \in Nat /\ s \in Nat /\ s < Data /\ p = Base(f) + s
    BY Places
<1>2. Base(f) \in Nat /\ Base(f + 1) = Base(f) + BlockSize
    BY <1>1, Blocks
<1>3. Successor(p) = IF s = Data - 1 THEN Base(f + 1) ELSE p + 1
    BY DEF Successor
<1> HIDE DEF f, s
<1>4. /\ Successor(p) \in Nat /\ p < Successor(p)
      /\ s = Data - 1 => Successor(p) = Base(f + 1)
      /\ s # Data - 1 => Successor(p) = p + 1
      /\ ~fec => Successor(p) = p + 1
    BY <1>0, <1>1, <1>2, <1>3
<1> QED BY <1>4 DEF f, s

\* A run without its first packet is a run.
LEMMA TailInOrder ==
    ASSUME NEW q \in Seq(Nat), q # <<>>, NEW end \in Int, InOrder(q, end)
    PROVE  /\ InOrder(Tail(q), end)
           /\ Head(q) \in Nat /\ Shard(Head(q)) < Data
           /\ Successor(Head(q)) <= end
           /\ (IF Tail(q) = <<>> THEN end ELSE Head(Tail(q))) = Successor(Head(q))
           /\ \A k \in 1..Len(Tail(q)) : /\ Successor(Head(q)) <= Tail(q)[k]
                                         /\ \E j \in 1..Len(q) : Tail(q)[k] = q[j]
<1>1. /\ Head(q) = q[1] /\ q[1] \in Nat /\ Len(q) \in Nat /\ Len(q) >= 1
      /\ Tail(q) \in Seq(Nat) /\ Len(Tail(q)) = Len(q) - 1
      /\ \A k \in 1..(Len(q) - 1) : Tail(q)[k] = q[k + 1]
    OBVIOUS
<1>2. /\ \A k \in 1..Len(q) : Shard(q[k]) < Data /\ Successor(q[k]) <= end
      /\ \A j, k \in 1..Len(q) : j < k => Successor(q[j]) <= q[k]
      /\ \A k \in 1..(Len(q) - 1) : q[k + 1] = Successor(q[k])
      /\ end = Successor(q[Len(q)])
    BY DEF InOrder
<1>3. \A k \in 1..Len(Tail(q)) : /\ Shard(Tail(q)[k]) < Data
                                 /\ Successor(Tail(q)[k]) <= end
    BY <1>1, <1>2
<1>4. ASSUME NEW j \in 1..Len(Tail(q)), NEW k \in 1..Len(Tail(q)), j < k
      PROVE  Successor(Tail(q)[j]) <= Tail(q)[k]
    BY <1>1, <1>2, <1>4
<1>5. ASSUME NEW k \in 1..(Len(Tail(q)) - 1)
      PROVE  Tail(q)[k + 1] = Successor(Tail(q)[k])
  <2>1. k + 1 \in 1..(Len(q) - 1) /\ k \in 1..(Len(q) - 1)
    BY <1>1
  <2> QED BY <1>1, <1>2, <2>1
<1>6. ASSUME Tail(q) # <<>> PROVE end = Successor(Tail(q)[Len(Tail(q))])
  <2>1. Len(q) - 1 \in 1..(Len(q) - 1)
    BY <1>1, <1>6
  <2> QED BY <1>1, <1>2, <2>1
<1>7. InOrder(Tail(q), end)
    BY <1>3, <1>4, <1>5, <1>6 DEF InOrder
<1>8. Shard(Head(q)) < Data /\ Successor(Head(q)) <= end
    BY <1>1, <1>2
<1>9. CASE Tail(q) = <<>>
  <2>1. Len(q) = 1
    BY <1>1, <1>9
  <2>2. end = Successor(Head(q))
    BY <1>1, <1>2, <2>1
  <2>3. \A k \in 1..Len(Tail(q)) : FALSE
    <3> DEFINE n == Len(Tail(q))
    <3>1. n \in Nat /\ n = 0
        BY <1>1, <2>1
    <3> HIDE DEF n
    <3>2. \A k \in 1..n : FALSE
        BY <3>1
    <3> QED BY <3>2 DEF n
  <2>4. Head(q) \in Nat
    BY <1>1
  <2> QED BY <1>7, <1>8, <1>9, <2>2, <2>3, <2>4
<1>10. CASE Tail(q) # <<>>
  <2>1. Len(q) >= 2 /\ Head(Tail(q)) = Tail(q)[1]
    BY <1>1, <1>10
  <2>2. Head(Tail(q)) = Successor(Head(q))
    BY <1>1, <1>2, <2>1
  <2>3. ASSUME NEW k \in 1..Len(Tail(q))
        PROVE  /\ Successor(Head(q)) <= Tail(q)[k]
               /\ \E j \in 1..Len(q) : Tail(q)[k] = q[j]
    <3>1. k + 1 \in 1..Len(q) /\ 1 \in 1..Len(q) /\ 1 < k + 1 /\ Tail(q)[k] = q[k + 1]
        BY <1>1
    <3> QED BY <1>1, <1>2, <3>1
  <2> QED BY <1>1, <1>7, <1>8, <1>10, <2>2, <2>3
<1> QED BY <1>9, <1>10

\* A run and one that starts where it ends are one run.
LEMMA ConcatInOrder ==
    ASSUME NEW q \in Seq(Nat), NEW r \in Seq(Nat), r # <<>>,
           NEW end \in Int, NEW later \in Int,
           InOrder(q, end), InOrder(r, later), q # <<>> => r[1] = end
    PROVE  InOrder(q \o r, later)
<1>1. CASE q = <<>>
  <2>1. q \o r = r
    BY <1>1
  <2> QED BY <2>1
<1>2. CASE q # <<>>
  <2> DEFINE n == Len(q)
             m == Len(r)
             c == q \o r
  <2>1. n \in Nat /\ m \in Nat /\ n >= 1 /\ m >= 1
    BY <1>2
  <2>2. /\ c \in Seq(Nat) /\ Len(c) = n + m
        /\ \A k \in 1..n : c[k] = q[k] /\ q[k] \in Nat
        /\ \A k \in 1..m : c[n + k] = r[k] /\ r[k] \in Nat
    OBVIOUS
  <2>3. /\ \A k \in 1..n : Shard(q[k]) < Data /\ Successor(q[k]) <= end
        /\ \A j, k \in 1..n : j < k => Successor(q[j]) <= q[k]
        /\ \A k \in 1..(n - 1) : q[k + 1] = Successor(q[k])
        /\ end = Successor(q[n])
    BY <1>2 DEF InOrder
  <2>4. /\ \A k \in 1..m : Shard(r[k]) < Data /\ Successor(r[k]) <= later
        /\ \A j, k \in 1..m : j < k => Successor(r[j]) <= r[k]
        /\ \A k \in 1..(m - 1) : r[k + 1] = Successor(r[k])
        /\ later = Successor(r[m])
    BY DEF InOrder
  <2> HIDE DEF n, m, c
  <2>5. r[1] = end /\ r[1] \in Nat /\ Shard(r[1]) < Data
    BY <1>2, <2>1, <2>2, <2>4
  <2>6. end < Successor(r[1]) /\ Successor(r[1]) \in Nat
    BY <2>5, Successors
  <2>7. \A k \in 1..m : end <= r[k]
    <3> TAKE k \in 1..m
    <3>1. CASE k = 1
        BY <2>5, <3>1
    <3>2. CASE k # 1
      <4>1. 1 \in 1..m /\ 1 < k /\ r[k] \in Nat
        BY <2>1, <2>2, <3>2
      <4>2. Successor(r[1]) <= r[k]
        BY <2>4, <4>1
      <4> QED BY <2>6, <4>1, <4>2
    <3> QED BY <3>1, <3>2
  <2>8. end <= later
    BY <2>1, <2>4, <2>6
  <2>9. \A k \in 1..n : Successor(q[k]) \in Nat
    BY <2>2, <2>3, Successors
  <2>10. ASSUME NEW k \in 1..(n + m)
         PROVE  (k \in 1..n /\ c[k] = q[k])
                \/ (k - n \in 1..m /\ c[k] = r[k - n])
    <3>1. k \in 1..n \/ (k - n \in 1..m /\ k = n + (k - n))
        BY <2>1
    <3> QED BY <2>1, <2>2, <3>1
  <2>11. ASSUME NEW k \in 1..(n + m)
         PROVE  Shard(c[k]) < Data /\ Successor(c[k]) <= later
    <3>1. CASE k \in 1..n /\ c[k] = q[k]
        BY <2>3, <2>8, <2>9, <3>1
    <3>2. CASE k - n \in 1..m /\ c[k] = r[k - n]
        BY <2>4, <3>2
    <3> QED BY <2>10, <3>1, <3>2
  <2>12. ASSUME NEW j \in 1..(n + m), NEW k \in 1..(n + m), j < k
         PROVE  Successor(c[j]) <= c[k]
    <3>1. CASE j \in 1..n /\ c[j] = q[j] /\ k \in 1..n /\ c[k] = q[k]
        BY <2>3, <2>12, <3>1
    <3>2. CASE j \in 1..n /\ c[j] = q[j] /\ k - n \in 1..m /\ c[k] = r[k - n]
        BY <2>2, <2>3, <2>7, <2>9, <3>2
    <3>3. CASE j - n \in 1..m /\ c[j] = r[j - n] /\ k - n \in 1..m /\ c[k] = r[k - n]
      <4>1. j - n < k - n
        BY <2>1, <2>12
      <4> QED BY <2>4, <3>3, <4>1
    <3>4. ~(j - n \in 1..m /\ k \in 1..n)
        BY <2>1, <2>12
    <3> QED BY <2>10, <3>1, <3>2, <3>3, <3>4
  <2>13. ASSUME NEW k \in 1..(n + m - 1)
         PROVE  c[k + 1] = Successor(c[k])
    <3>1. CASE k < n
      <4>1. k \in 1..(n - 1) /\ k \in 1..n /\ k + 1 \in 1..n
        BY <2>1, <3>1
      <4> QED BY <2>2, <2>3, <4>1
    <3>2. CASE k = n
      <4>1. n \in 1..n /\ 1 \in 1..m
        BY <2>1
      <4> QED BY <2>2, <2>3, <2>5, <3>2, <4>1
    <3>3. CASE k > n
      <4> DEFINE i == k - n
      <4>1. /\ i \in 1..(m - 1) /\ i \in 1..m /\ i + 1 \in 1..m
            /\ k = n + i /\ k + 1 = n + (i + 1)
        BY <2>1, <3>3
      <4> HIDE DEF i
      <4>2. c[k] = r[i] /\ c[k + 1] = r[i + 1]
        BY <2>2, <4>1
      <4> QED BY <2>4, <4>1, <4>2
    <3> QED BY <2>1, <3>1, <3>2, <3>3
  <2>14. later = Successor(c[n + m])
    BY <2>1, <2>2, <2>4
  <2>15. InOrder(c, later)
    <3>1. /\ \A k \in 1..Len(c) : Shard(c[k]) < Data /\ Successor(c[k]) <= later
          /\ \A j, k \in 1..Len(c) : j < k => Successor(c[j]) <= c[k]
        BY <2>2, <2>11, <2>12
    <3>2. ASSUME NEW k \in 1..(Len(c) - 1) PROVE c[k + 1] = Successor(c[k])
      <4>1. k \in 1..(n + m - 1)
        BY <2>1, <2>2
      <4> QED BY <2>13, <4>1
    <3>3. later = Successor(c[Len(c)])
        BY <2>2, <2>14
    <3> QED BY <3>1, <3>2, <3>3 DEF InOrder
  <2> QED BY <2>15 DEF c
<1> QED BY <1>1, <1>2

\* The data packets of a block are a run that ends with the block.
LEMMA BlockInOrder ==
    ASSUME NEW f \in Nat
    PROVE  LET block == [i \in 1..Data |-> Base(f) + i - 1]
           IN  /\ block \in Seq(Nat) /\ block # <<>> /\ Len(block) = Data
               /\ block[1] = Base(f)
               /\ \A k \in 1..Data : Base(f) <= block[k]
               /\ InOrder(block, Base(f) + BlockSize)
<1> DEFINE block == [i \in 1..Data |-> Base(f) + i - 1]
           start == Base(f)
<1>0. /\ BlockSize \in Nat /\ Data \in Nat /\ Data >= 1 /\ BlockSize >= Data
      /\ start \in Nat /\ Base(f + 1) = start + BlockSize
    BY BlockHasData, Blocks
<1> HIDE DEF start
<1>1. block = [i \in 1..Data |-> start + i - 1]
    BY DEF start
<1> HIDE DEF block
<1>2. block \in Seq(Nat) /\ Len(block) = Data
    BY <1>0, <1>1
<1>3. \A k \in 1..Data : block[k] = start + (k - 1) /\ k - 1 \in Nat /\ k - 1 < Data
    BY <1>0, <1>1
<1>4. ASSUME NEW k \in 1..Data
      PROVE  /\ block[k] \in Nat /\ FrameOf(block[k]) = f /\ Shard(block[k]) = k - 1
             /\ k < Data => Successor(block[k]) = start + k
             /\ k = Data => Successor(block[k]) = start + BlockSize
  <2>1. block[k] = Base(f) + (k - 1) /\ k - 1 \in Nat /\ k - 1 < BlockSize
    BY <1>0, <1>3 DEF start
  <2>2. FrameOf(block[k]) = f /\ Shard(block[k]) = k - 1
    BY <2>1, PlaceOf
  <2>3. block[k] = start + (k - 1) /\ k - 1 < Data /\ block[k] \in Nat
    BY <1>0, <1>3
  <2> QED BY <1>0, <2>2, <2>3 DEF Successor
<1>5. \A k \in 1..Data : /\ Shard(block[k]) < Data
                         /\ Successor(block[k]) <= start + BlockSize
    BY <1>0, <1>4
<1>6. \A j, k \in 1..Data : j < k => Successor(block[j]) <= block[k]
    BY <1>0, <1>3, <1>4
<1>7. \A k \in 1..(Data - 1) : block[k + 1] = Successor(block[k])
  <2> TAKE k \in 1..(Data - 1)
  <2>1. k \in 1..Data /\ k + 1 \in 1..Data /\ k < Data
    BY <1>0
  <2> QED BY <1>0, <1>3, <1>4, <2>1
<1>8. start + BlockSize = Successor(block[Data])
    BY <1>0, <1>4
<1>9. InOrder(block, start + BlockSize)
    BY <1>2, <1>5, <1>6, <1>7, <1>8 DEF InOrder
<1>10. block # <<>> /\ block[1] = start /\ \A k \in 1..Data : start <= block[k]
    BY <1>0, <1>2, <1>3
<1> QED BY <1>2, <1>9, <1>10 DEF block, start

\* The place of the buffer in use is an index, or none yet.
LEMMA FrontierTyped ==
    ASSUME BuffersTyped PROVE Frontier \in Nat \cup {-1}
BY DEF BuffersTyped, Frontier

\* While packets are ready the buffer has a place, and a block that follows
\* without a gap starts there.
LEMMA NextBlock ==
    ASSUME ReceiverInv, NEW f \in DOMAIN shards, FinishBlock(f)
    PROVE  /\ fec /\ f \in Nat /\ Frontier <= Base(f)
           /\ Frontier # -1 => Frontier = Base(f)
<1>1. BuffersTyped /\ ShardsHeld
    BY DEF ReceiverInv, ReceiverTyped
<1>2. fec /\ f \in Nat /\ Base(f) \in Nat /\ through \in Nat \cup {-1}
    BY <1>1, Blocks DEF FinishBlock, HeadBlock, BuffersTyped
<1>3. through <= Base(f) /\ Frontier = through
    BY <1>1, <1>2 DEF ShardsHeld, Frontier
<1>4. through # -1 => ~(Base(f) > through)
    BY DEF FinishBlock, GapBefore
<1> QED BY <1>2, <1>3, <1>4

\* Every step keeps what is ready a run of the stream up to the buffer's place.
LEMMA ReadyInOrderStep ==
    ASSUME ReceiverInv, ReceiverNext PROVE ReadyInOrder'
<1>0. /\ BuffersTyped /\ TaskTyped /\ InOrder(ready, Frontier) /\ ready \in Seq(Nat)
      /\ Frontier \in Int
    BY FrontierTyped DEF ReceiverInv, ReceiverTyped, TaskTyped, ReadyInOrder
<1>1. UNCHANGED fec
    BY Writers
<1>2. ASSUME InOrder(ready', Frontier') PROVE ReadyInOrder'
    BY <1>1, <1>2, SameStream DEF ReadyInOrder, InOrder
<1>3. ASSUME ready' = <<>> PROVE InOrder(ready', Frontier')
    BY <1>3 DEF InOrder
<1>4. ASSUME UNCHANGED <<next, through, ready>>
      PROVE  InOrder(ready', Frontier')
    BY <1>0, <1>1, <1>4 DEF Frontier
<1>5. ASSUME Push \/ ResetMediaState PROVE ready' = <<>>
    BY <1>0, <1>5 DEF Push, Resolved, ResetMediaState, taskVars, resultVars,
        TaskTyped, NoResult
<1>6. ASSUME DrainPacket PROVE InOrder(ready', Frontier')
  <2>1. /\ ~fec /\ next \in Nat /\ ready' = Append(ready, next) /\ next' = next + 1
        /\ Frontier = next /\ Frontier' = next + 1
    BY <1>0, <1>1, <1>6 DEF DrainPacket, BuffersTyped, Frontier
  <2>2. Shard(next) < Data /\ Successor(next) = next + 1
    BY <2>1, Places, BlockHasData, Successors
  <2>3. InOrder(<<next>>, next + 1)
    BY <2>1, <2>2 DEF InOrder
  <2>4. /\ <<next>> \in Seq(Nat) /\ <<next>> # <<>> /\ <<next>>[1] = Frontier
        /\ Append(ready, next) = ready \o <<next>> /\ next + 1 \in Int
    BY <1>0, <2>1
  <2>5. InOrder(ready \o <<next>>, next + 1)
    BY <1>0, <2>3, <2>4, ConcatInOrder
  <2> QED BY <2>1, <2>4, <2>5
<1>7. ASSUME NEW f \in DOMAIN shards, FinishBlock(f)
      PROVE  InOrder(ready', Frontier')
  <2> DEFINE block == [i \in 1..Data |-> Base(f) + i - 1]
  <2>1. fec /\ f \in Nat /\ (Frontier # -1 => Frontier = Base(f))
    BY <1>7, NextBlock
  <2>2. ready' = ready \o block /\ Frontier' = Base(f) + BlockSize
    BY <1>1, <1>7, <2>1 DEF FinishBlock, Frontier
  <2>3. /\ block \in Seq(Nat) /\ block # <<>> /\ block[1] = Base(f)
        /\ InOrder(block, Base(f) + BlockSize)
    BY <2>1, BlockInOrder
  <2> HIDE DEF block
  <2>4. ready # <<>> => Frontier # -1
    <3>1. ASSUME ready # <<>> PROVE Frontier # -1
      <4>1. Len(ready) \in 1..Len(ready) /\ ready[Len(ready)] \in Nat
        BY <1>0, <3>1
      <4>2. Shard(ready[Len(ready)]) < Data /\ Frontier = Successor(ready[Len(ready)])
        BY <1>0, <3>1, <4>1 DEF InOrder
      <4>3. Frontier \in Nat
        BY <4>1, <4>2, Successors
      <4> QED BY <4>3
    <3> QED BY <3>1
  <2>5. Base(f) + BlockSize \in Int
    BY <2>1, Blocks, BlockHasData
  <2>6. InOrder(ready \o block, Base(f) + BlockSize)
    BY <1>0, <2>1, <2>3, <2>4, <2>5, ConcatInOrder
  <2> QED BY <2>2, <2>6
<1>8. ASSUME TakeReady PROVE InOrder(ready', Frontier')
  <2>1. ready # <<>> /\ ready' = Tail(ready) /\ Frontier' = Frontier
    BY <1>1, <1>8 DEF TakeReady, bufferVars, plainVars, fecVars, Frontier
  <2> QED BY <1>0, <2>1, TailInOrder
<1>9. ASSUME NEW first \in held, SkipGap(first) PROVE ready' = <<>>
    BY <1>9 DEF SkipGap, GiveUp
<1>10. ASSUME NEW f \in DOMAIN shards, NEW low, NEW high, NEW newest,
              SkipToBlock(f) \/ SkipBlock(f, low, high, newest)
       PROVE  ready' = <<>>
    BY <1>10 DEF SkipToBlock, SkipBlock, GiveUp
<1>11. ASSUME ApplyRecovery \/ ApplyNack PROVE UNCHANGED <<next, through, ready>>
    BY <1>11 DEF ApplyRecovery, ApplyNack, Applied, bufferVars, plainVars, fecVars
<1>12. ASSUME DropPacket \/ HoldPacket \/ CompleteFrame PROVE TakeReady
    BY <1>12 DEF DropPacket, HoldPacket, CompleteFrame, Accept
<1>13. InOrder(ready', Frontier')
    BY <1>3, <1>4, <1>5, <1>6, <1>7, <1>8, <1>9, <1>10, <1>11, <1>12, Writers
<1> QED BY <1>2, <1>13

-----------------------------------------------------------------------------
(* The assembler.                                                           *)

\* A packet that the assembler accepts continues the frame from its start.
LEMMA ExtendedInOrder ==
    ASSUME PictureTyped, AssemblerInOrder, NEW f \in Nat, NEW part \in Nat,
           ~Skips(f, part), ~AwaitingStart(f, part)
    PROVE  /\ Extended(part) \in Seq(Nat) /\ Len(Extended(part)) = part + 1
           /\ \A i \in 1..(part + 1) : Extended(part)[i] = i - 1
<1>1. CASE part = 0
    BY <1>1 DEF Extended
<1>2. CASE part # 0
  <2>1. frame = f /\ frame # -1 /\ parts[Len(parts)] = part - 1
    BY <1>2 DEF Skips, AwaitingStart
  <2>2. /\ parts \in Seq(Nat) /\ Len(parts) \in 1..(Data - 1)
        /\ \A i \in 1..Len(parts) : parts[i] = i - 1
    BY <2>1 DEF AssemblerInOrder, PictureTyped
  <2>3. Len(parts) = part
    <3>1. Len(parts) \in Nat /\ Len(parts) \in 1..Len(parts)
        BY <2>2
    <3> QED BY <2>1, <2>2, <3>1
  <2>4. Extended(part) = Append(parts, part)
    BY <1>2 DEF Extended
  <2> QED BY <2>2, <2>3, <2>4
<1> QED BY <1>1, <1>2

\* The packet that is assembled next.
LEMMA TakenPacket ==
    ASSUME ReceiverInv, TakeReady
    PROVE  /\ Head(ready) \in Nat /\ FrameOf(Head(ready)) \in Nat
           /\ Shard(Head(ready)) \in Nat /\ Shard(Head(ready)) < Data
           /\ Head(ready) = Base(FrameOf(Head(ready))) + Shard(Head(ready))
           /\ ready \in Seq(Nat) /\ ready # <<>> /\ ready' = Tail(ready)
           /\ UNCHANGED <<fec, next, through, recovery, resets>> /\ recovery = FALSE
<1>1. /\ ready \in Seq(Nat) /\ InOrder(ready, Frontier) /\ Frontier \in Int
    BY FrontierTyped DEF ReceiverInv, ReceiverTyped, TaskTyped, ReadyInOrder
<1>2. /\ ready # <<>> /\ ready' = Tail(ready) /\ at = "assemble"
      /\ UNCHANGED <<fec, next, through, recovery, resets>>
    BY DEF TakeReady, bufferVars, plainVars, fecVars, streamVars
<1>3. Head(ready) \in Nat /\ Shard(Head(ready)) < Data
    BY <1>1, <1>2, TailInOrder
<1>4. recovery = FALSE
    BY <1>2 DEF ReceiverInv, ReceiverTyped, TaskTyped
<1> QED BY <1>1, <1>2, <1>3, <1>4, Places

\* Every step keeps the assembler's packets the first ones of its frame, and a
\* frame that leaves has all of them.
LEMMA AssemblerStep ==
    ASSUME ReceiverInv, ReceiverNext PROVE AssemblerInOrder' /\ WholeFrames'
<1>0. PictureTyped /\ AssemblerInOrder /\ Data \in Nat /\ Data >= 1
    BY BlockHasData DEF ReceiverInv, ReceiverTyped
<1> DEFINE f == FrameOf(Head(ready))
           part == Shard(Head(ready))
<1>1. ASSUME Accept(f, part)
      PROVE  /\ f \in Nat /\ part \in Nat /\ part < Data
             /\ Extended(part) \in Seq(Nat) /\ Len(Extended(part)) = part + 1
             /\ \A i \in 1..(part + 1) : Extended(part)[i] = i - 1
  <2>1. f \in Nat /\ part \in Nat /\ part < Data
    BY <1>1, TakenPacket DEF Accept
  <2> QED BY <1>0, <1>1, <2>1, ExtendedInOrder DEF Accept
<1>2. AssemblerInOrder'
  <2>1. CASE UNCHANGED <<frame, parts, contiguous, last>>
    BY <1>0, <2>1 DEF AssemblerInOrder
  <2>2. CASE ApplyRecovery \/ DropPacket \/ CompleteFrame \/ ResetMediaState
    <3>1. frame' = -1 /\ parts' = <<>>
        BY <2>2 DEF ApplyRecovery, DropPacket, InvalidatePicture, CompleteFrame,
            ResetMediaState
    <3> QED BY <3>1 DEF AssemblerInOrder
  <2>3. CASE HoldPacket
    <3>1. /\ Accept(f, part) /\ part # Data - 1
          /\ frame' = f /\ parts' = Extended(part)
        BY <2>3 DEF HoldPacket
    <3> HIDE DEF f, part
    <3> QED BY <1>0, <1>1, <3>1 DEF AssemblerInOrder
  <2> QED BY <2>1, <2>2, <2>3, Writers
<1>3. WholeFrames'
  <2>1. CASE emitted' = {}
    BY <2>1 DEF WholeFrames
  <2>2. CASE CompleteFrame
    <3>1. Accept(f, part) /\ part = Data - 1
        BY <2>2 DEF CompleteFrame
    <3>2. \A e \in emitted' : e.parts = Extended(part)
        BY <2>2 DEF CompleteFrame
    <3> HIDE DEF f, part
    <3>3. /\ Extended(part) \in Seq(Nat) /\ Len(Extended(part)) = Data
          /\ \A i \in 1..Data : Extended(part)[i] = i - 1
        BY <1>0, <1>1, <3>1
    <3>4. Extended(part) = [i \in 1..Data |-> i - 1]
        BY <1>0, <3>3
    <3> QED BY <3>2, <3>4 DEF WholeFrames
  <2> QED BY <2>1, <2>2, Writers
<1> QED BY <1>2, <1>3

-----------------------------------------------------------------------------
(* The chain of frames.                                                     *)

\* The packet that is assembled next lies after the last frame, and while the
\* chain is whole it is the one the assembler waits for.
LEMMA NextInChain ==
    ASSUME ReceiverInv, TakeReady
    PROVE  /\ last < FrameOf(Head(ready))
           /\ contiguous /\ last # -1 => /\ FrameOf(Head(ready)) = last + 1
                                         /\ Shard(Head(ready)) = Len(parts)
<1> DEFINE p == Head(ready)
           f == FrameOf(p)
           part == Shard(p)
<1>0. PictureTyped /\ AssemblerInOrder /\ PictureFollows
    BY DEF ReceiverInv, ReceiverTyped
<1>1. /\ f \in Nat /\ part \in Nat /\ part < Data /\ p = Base(f) + part /\ p \in Nat
      /\ ready \in Seq(Nat) /\ ready # <<>> /\ recovery = FALSE
    BY TakenPacket
<1>2. last \in Nat \cup {-1} /\ Data \in Nat /\ BlockSize \in Nat /\ Data <= BlockSize
    BY <1>0, BlockHasData DEF PictureTyped
<1>3. p = ready[1] /\ 1 \in 1..Len(ready)
    BY <1>1
<1>4. last # -1 => Base(last) + Data <= p
    BY <1>0, <1>3 DEF PictureFollows
<1>5. Len(parts) \in Nat /\ Len(parts) < BlockSize
  <2>1. CASE frame = -1
    BY <1>0, <1>2, <2>1, BlockHasData DEF AssemblerInOrder
  <2>2. CASE frame # -1
    BY <1>0, <1>2, <2>2 DEF AssemblerInOrder
  <2> QED BY <2>1, <2>2
<1>6. contiguous /\ last # -1 => p = Base(last + 1) + Len(parts)
    BY <1>0, <1>1 DEF PictureFollows, Cursor
<1>7. contiguous /\ last # -1 => f = last + 1 /\ part = Len(parts)
  <2>1. ASSUME contiguous, last # -1 PROVE f = last + 1 /\ part = Len(parts)
    <3>1. last + 1 \in Nat
        BY <1>2, <2>1
    <3> QED BY <1>5, <1>6, <2>1, <3>1, PlaceOf
  <2> QED BY <2>1
<1> HIDE DEF p, f, part
<1>8. last < f
  <2>1. CASE last = -1
    BY <1>1, <2>1
  <2>2. CASE last # -1
    <3>1. last \in Nat /\ Base(last) \in Nat /\ Base(f) \in Nat
        BY <1>1, <1>2, <2>2, Blocks
    <3>2. f # last
        BY <1>1, <1>2, <1>4, <2>2, <3>1
    <3>3. f < last => Base(f) + BlockSize <= Base(last)
        BY <1>1, <3>1, Blocks
    <3>4. ~(f < last)
        BY <1>1, <1>2, <1>4, <2>2, <3>1, <3>3
    <3> QED BY <1>1, <3>1, <3>2, <3>4
  <2> QED BY <2>1, <2>2
<1> QED BY <1>7, <1>8 DEF p, f, part

\* Once it is taken, the place of the assembler is the packet after it.
LEMMA CursorMoves ==
    ASSUME ReceiverInv, TakeReady
    PROVE  /\ Cursor' = Successor(Head(ready)) /\ Frontier' = Frontier
           /\ Successor(Head(ready)) <= Frontier'
           /\ \A k \in 1..Len(ready') : /\ Successor(Head(ready)) <= ready'[k]
                                        /\ \E j \in 1..Len(ready) : ready'[k] = ready[j]
<1>1. /\ ready \in Seq(Nat) /\ InOrder(ready, Frontier) /\ Frontier \in Int
    BY FrontierTyped DEF ReceiverInv, ReceiverTyped, TaskTyped, ReadyInOrder
<1>2. ready # <<>> /\ ready' = Tail(ready) /\ Frontier' = Frontier
    BY TakenPacket DEF Frontier
<1>3. Cursor' = IF Tail(ready) = <<>> THEN Frontier ELSE Head(Tail(ready))
    BY <1>2 DEF Cursor
<1> QED BY <1>1, <1>2, <1>3, TailInOrder

\* Every step keeps the chain: what comes lies after the last frame, and goes on
\* where the assembler stands while nothing was given up.
LEMMA PictureFollowsStep ==
    ASSUME ReceiverInv, ReceiverNext PROVE PictureFollows' /\ ContiguousFollows'
<1>0. /\ BuffersTyped /\ PictureTyped /\ TaskTyped /\ PictureFollows
      /\ last \in Nat \cup {-1} /\ Frontier \in Nat \cup {-1}
      /\ ready \in Seq(Nat) /\ recovery \in BOOLEAN /\ contiguous \in BOOLEAN
    BY FrontierTyped DEF ReceiverInv, ReceiverTyped, PictureTyped, TaskTyped
<1>1. UNCHANGED fec /\ BlockSize \in Nat /\ Data \in Nat /\ Data >= 1
    BY Writers, BlockHasData
<1> DEFINE After == last' # -1 => /\ Base(last') + Data <= Frontier'
                                  /\ \A k \in 1..Len(ready') :
                                        Base(last') + Data <= ready'[k]
           Newer == frame' # -1 => frame' > last'
           Chain == contiguous' /\ last' # -1 /\ ~recovery'
                        => Cursor' = Base(last' + 1) + Len(parts')
<1>2. ASSUME After, Newer, Chain PROVE PictureFollows'
    BY <1>1, <1>2, SameStream DEF PictureFollows
<1>3. /\ last # -1 => /\ Base(last) + Data <= Frontier
                      /\ \A k \in 1..Len(ready) : Base(last) + Data <= ready[k]
      /\ frame # -1 => frame > last
      /\ contiguous /\ last # -1 /\ ~recovery => Cursor = Base(last + 1) + Len(parts)
    BY <1>0 DEF PictureFollows
<1>4. last # -1 => /\ last \in Nat /\ Base(last) \in Nat
                   /\ Frontier \in Nat /\ Frontier >= 1
  <2>1. ASSUME last # -1 PROVE last \in Nat /\ Base(last) \in Nat
    BY <1>0, <2>1, Blocks
  <2> QED BY <1>0, <1>1, <1>3, <2>1
\* The buffer moves on, and the picture is as it was.
<1>5. ASSUME UNCHANGED <<frame, parts, contiguous, last, resets>>,
             last # -1 => /\ Frontier' \in Int /\ Frontier <= Frontier'
                          /\ \A k \in 1..Len(ready') :
                                \/ ready'[k] \in Int /\ Frontier <= ready'[k]
                                \/ \E j \in 1..Len(ready) : ready'[k] = ready[j]
                          /\ recovery' \/ (recovery' = recovery /\ Cursor' = Cursor)
      PROVE  PictureFollows'
  <2>1. Newer
    BY <1>3, <1>5
  <2>2. After
    BY <1>1, <1>3, <1>4, <1>5
  <2>3. Chain
    BY <1>0, <1>3, <1>5
  <2> QED BY <1>2, <2>1, <2>2, <2>3
<1>6. ASSUME UNCHANGED <<next, through, ready, recovery, frame, parts, contiguous,
                         last, resets>>
      PROVE  PictureFollows'
  <2>1. Frontier' = Frontier /\ Cursor' = Cursor
    BY <1>1, <1>6 DEF Frontier, Cursor
  <2> QED BY <1>0, <1>4, <1>5, <1>6, <2>1
<1>7. ASSUME ApplyNack PROVE PictureFollows'
  <2>1. UNCHANGED <<next, through, ready, frame, parts, contiguous, last, resets>>
    BY <1>7 DEF ApplyNack, Applied, bufferVars, plainVars, fecVars, pictureVars
  <2>2. UNCHANGED recovery
    BY <1>0, <1>7 DEF ApplyNack, Applied
  <2> QED BY <1>6, <2>1, <2>2
<1>8. ASSUME Push PROVE PictureFollows'
  <2>1. /\ ~fec /\ at = "resolve" /\ ready' = ready
        /\ UNCHANGED <<frame, parts, contiguous, last, resets>>
    BY <1>8 DEF Push, Resolved, pictureVars
  <2>2. ready = <<>> /\ recovery = FALSE /\ packet \in Nat
    BY <1>0, <2>1 DEF TaskTyped, NoResult
  <2>3. /\ Frontier = next /\ Frontier' = next' /\ Cursor = next /\ Cursor' = next'
    BY <1>1, <2>1, <2>2 DEF Frontier, Cursor
  <2>4. ASSUME last # -1
        PROVE  (recovery' /\ next' \in Nat /\ next <= next')
               \/ (recovery' = recovery /\ next' = next)
    <3>1. Expected = next /\ next \in Nat
        BY <1>4, <2>3, <2>4 DEF Expected
    <3>2. \/ next' = next /\ recovery' = recovery
          \/ packet >= next /\ recovery' /\ next' = packet
      <4>1. CASE packet < Expected \/ packet \in held
        BY <1>8, <2>2, <3>1, <4>1 DEF Push
      <4>2. CASE ~(packet < Expected \/ packet \in held)
        BY <1>8, <2>2, <3>1, <4>2 DEF Push
      <4> QED BY <4>1, <4>2
    <3> QED BY <2>2, <3>1, <3>2
  <2>5. \A k \in 1..Len(ready') : FALSE
    BY <2>1, <2>2
  <2>6. ASSUME last # -1
        PROVE  /\ Frontier' \in Int /\ Frontier <= Frontier'
               /\ recovery' \/ (recovery' = recovery /\ Cursor' = Cursor)
    BY <1>4, <2>3, <2>4, <2>6
  <2> QED BY <1>5, <2>1, <2>5, <2>6
\* A push that makes packets ready, from the place where the buffer stood.
<1>9. ASSUME NEW more \in Seq(Nat), more # <<>>, ready' = ready \o more,
             UNCHANGED <<recovery, frame, parts, contiguous, last, resets>>,
             last # -1 => /\ Frontier' \in Int /\ Frontier <= Frontier'
                          /\ more[1] = Frontier
                          /\ \A k \in 1..Len(more) : Frontier <= more[k]
      PROVE  PictureFollows'
  <2>1. /\ Len(ready) \in Nat /\ Len(more) \in Nat /\ Len(more) >= 1
        /\ Len(ready') = Len(ready) + Len(more) /\ ready' # <<>>
        /\ \A k \in 1..(Len(ready) + Len(more)) :
              ready'[k] = IF k <= Len(ready) THEN ready[k] ELSE more[k - Len(ready)]
        /\ Head(ready') = ready'[1]
    BY <1>0, <1>9
  <2>2. ASSUME last # -1, NEW k \in 1..Len(ready')
        PROVE  \/ ready'[k] \in Int /\ Frontier <= ready'[k]
               \/ \E j \in 1..Len(ready) : ready'[k] = ready[j]
    <3>1. CASE k <= Len(ready)
        BY <2>1, <3>1
    <3>2. CASE k > Len(ready)
      <4> DEFINE i == k - Len(ready)
      <4>1. i \in 1..Len(more) /\ ready'[k] = more[i]
        BY <2>1, <3>2
      <4> HIDE DEF i
      <4> QED BY <1>9, <2>2, <4>1
    <3> QED BY <2>1, <3>1, <3>2
  <2>3. ASSUME last # -1 PROVE Cursor' = Cursor
    <3>1. CASE ready = <<>>
      <4>1. Len(ready) = 0 /\ ready'[1] = more[1]
        BY <1>9, <3>1
      <4> QED BY <1>9, <2>1, <2>3, <3>1, <4>1 DEF Cursor
    <3>2. CASE ready # <<>>
      <4>1. Len(ready) >= 1 /\ Head(ready) = ready[1]
        BY <1>0, <3>2
      <4>2. ready'[1] = ready[1]
        BY <2>1, <4>1
      <4> QED BY <2>1, <3>2, <4>1, <4>2 DEF Cursor
    <3> QED BY <3>1, <3>2
  <2> QED BY <1>5, <1>9, <2>2, <2>3
<1>10. ASSUME DrainPacket PROVE PictureFollows'
  <2>1. /\ ~fec /\ next \in Nat /\ ready' = Append(ready, next) /\ next' = next + 1
        /\ UNCHANGED <<recovery, frame, parts, contiguous, last, resets>>
    BY <1>0, <1>10 DEF DrainPacket, Turn, pictureVars, BuffersTyped
  <2>2. Frontier = next /\ Frontier' = next + 1
    BY <1>1, <2>1 DEF Frontier
  <2> DEFINE more == <<next>>
  <2>3. /\ more \in Seq(Nat) /\ more # <<>> /\ ready' = ready \o more
        /\ more[1] = next /\ \A k \in 1..Len(more) : next <= more[k]
    BY <1>0, <2>1
  <2> HIDE DEF more
  <2>4. Frontier' \in Int /\ Frontier <= Frontier' /\ more[1] = Frontier
    BY <2>1, <2>2, <2>3
  <2> QED BY <1>9, <2>1, <2>2, <2>3, <2>4
<1>11. ASSUME NEW f \in DOMAIN shards, FinishBlock(f) PROVE PictureFollows'
  <2> DEFINE block == [i \in 1..Data |-> Base(f) + i - 1]
  <2>1. fec /\ f \in Nat /\ (Frontier # -1 => Frontier = Base(f))
    BY <1>11, NextBlock
  <2>2. /\ ready' = ready \o block /\ Frontier' = Base(f) + BlockSize
        /\ UNCHANGED <<recovery, frame, parts, contiguous, last, resets>>
    BY <1>1, <1>11, <2>1 DEF FinishBlock, HeadBlock, Turn, pictureVars, Frontier
  <2>3. /\ block \in Seq(Nat) /\ block # <<>> /\ block[1] = Base(f)
        /\ Len(block) = Data /\ \A k \in 1..Data : Base(f) <= block[k]
    BY <2>1, BlockInOrder
  <2> HIDE DEF block
  <2>4. Base(f) \in Nat
    BY <2>1, Blocks
  <2>5. ASSUME last # -1
        PROVE  /\ Frontier' \in Int /\ Frontier <= Frontier' /\ block[1] = Frontier
               /\ \A k \in 1..Len(block) : Frontier <= block[k]
    BY <1>1, <1>4, <2>1, <2>2, <2>3, <2>4, <2>5
  <2> QED BY <1>9, <2>2, <2>3, <2>5
\* A gap that is given up.
<1>12. ASSUME UNCHANGED <<frame, parts, contiguous, last, resets>>,
              recovery' = TRUE, ready' = <<>>,
              last # -1 => Frontier' \in Int /\ Frontier <= Frontier'
       PROVE  PictureFollows'
  <2>1. \A k \in 1..Len(ready') : FALSE
    BY <1>12
  <2> QED BY <1>5, <1>12, <2>1
<1>13. ASSUME NEW first \in held, SkipGap(first) PROVE PictureFollows'
  <2>1. /\ UNCHANGED <<frame, parts, contiguous, last, resets>>
        /\ recovery' = TRUE /\ ready' = <<>> /\ ~fec /\ next' = first
    BY <1>13 DEF SkipGap, GiveUp, Turn, pictureVars
  <2>2. first \in Nat /\ next <= first
    BY <1>0, <2>1 DEF BuffersTyped, ReceiverInv, PacketsHeld
  <2>3. Frontier' \in Int /\ Frontier <= Frontier'
    BY <1>1, <2>1, <2>2 DEF Frontier
  <2> QED BY <1>12, <2>1, <2>3
<1>14. ASSUME NEW f \in DOMAIN shards, NEW low, NEW high, NEW newest,
              SkipToBlock(f) \/ SkipBlock(f, low, high, newest)
       PROVE  PictureFollows'
  <2>1. /\ UNCHANGED <<frame, parts, contiguous, last, resets>>
        /\ recovery' = TRUE /\ ready' = <<>> /\ fec
        /\ through' = Base(f) \/ through' = Base(f) + BlockSize
    BY <1>14 DEF SkipToBlock, SkipBlock, HeadBlock, GiveUp, Turn, pictureVars
  <2>2. f \in Nat /\ Base(f) \in Nat /\ through <= Base(f)
    BY <1>0, <2>1, Blocks DEF BuffersTyped, ReceiverInv, ShardsHeld
  <2>3. through \in Int /\ Frontier = through /\ Frontier' = through'
    BY <1>0, <1>1, <2>1 DEF Frontier, BuffersTyped
  <2>4. Frontier' \in Int /\ Frontier <= Frontier'
    BY <1>1, <2>1, <2>2, <2>3
  <2> QED BY <1>12, <2>1, <2>4
<1>15. ASSUME ApplyRecovery PROVE PictureFollows'
  <2>1. /\ frame' = -1 /\ contiguous' = FALSE
        /\ UNCHANGED <<next, through, ready, last>>
    BY <1>15 DEF ApplyRecovery, Applied, InvalidatePicture, bufferVars, plainVars,
        fecVars
  <2>2. Frontier' = Frontier
    BY <1>1, <2>1 DEF Frontier
  <2>3. After
    BY <1>3, <2>1, <2>2
  <2>4. Newer /\ Chain
    BY <2>1
  <2> QED BY <1>2, <2>3, <2>4
<1>16. ASSUME ResetMediaState PROVE PictureFollows'
  <2>1. frame' = -1 /\ contiguous' = FALSE /\ last' = -1
    BY <1>16 DEF ResetMediaState
  <2>2. After /\ Newer /\ Chain
    BY <2>1
  <2> QED BY <1>2, <2>2
<1> DEFINE f == FrameOf(Head(ready))
           part == Shard(Head(ready))
<1>17. ASSUME TakeReady
       PROVE  /\ f \in Nat /\ part \in Nat /\ part < Data /\ last < f
              /\ Head(ready) \in Nat
              /\ contiguous /\ last # -1 => f = last + 1 /\ part = Len(parts)
              /\ Cursor' = Successor(Head(ready)) /\ Frontier' = Frontier
              /\ resets' = resets
    BY <1>17, TakenPacket, NextInChain, CursorMoves
<1>18. ASSUME TakeReady, last' = last PROVE After
  <2>1. \A k \in 1..Len(ready') : \E j \in 1..Len(ready) : ready'[k] = ready[j]
    BY <1>18, CursorMoves
  <2> QED BY <1>3, <1>17, <1>18, <2>1
<1>19. ASSUME DropPacket PROVE PictureFollows'
  <2>1. TakeReady /\ frame' = -1 /\ contiguous' = FALSE /\ last' = last
    BY <1>19 DEF DropPacket, InvalidatePicture
  <2>2. Newer /\ Chain
    BY <2>1
  <2> QED BY <1>2, <1>18, <2>1, <2>2
<1>20. ASSUME HoldPacket PROVE PictureFollows'
  <2>1. /\ Accept(f, part) /\ TakeReady /\ part # Data - 1 /\ frame' = f
        /\ parts' = Extended(part) /\ last' = last
        /\ contiguous' = (contiguous /\ ~Unfinished(f, part))
    BY <1>20 DEF HoldPacket, Accept
  <2>2. contiguous' => contiguous
    BY <2>1
  <2>3. Newer
    BY <1>3, <1>17, <2>1, <2>2
  <2>4. ASSUME contiguous', last' # -1
        PROVE  Cursor' = Base(last' + 1) + Len(parts')
    <3>1. f = last + 1 /\ part = Len(parts)
        BY <1>17, <2>1, <2>2, <2>4
    <3>2. Len(parts') = part + 1
        BY <1>17, <2>1, ExtendedInOrder DEF Accept, ReceiverInv, ReceiverTyped
    <3>3. Cursor' = Head(ready) + 1
        BY <1>17, <2>1, Successors
    <3>4. Head(ready) = Base(f) + part
        BY <2>1, TakenPacket
    <3>5. Base(f) \in Nat /\ part \in Nat
        BY <1>17, <2>1, Blocks
    <3> HIDE DEF f, part
    <3> QED BY <2>1, <3>1, <3>2, <3>3, <3>4, <3>5
  <2>5. Chain
    BY <2>4
  <2> QED BY <1>2, <1>18, <2>1, <2>3, <2>5
<1>21. ASSUME CompleteFrame PROVE PictureFollows'
  <2>1. /\ TakeReady /\ part = Data - 1 /\ frame' = -1 /\ parts' = <<>> /\ last' = f
    BY <1>21 DEF CompleteFrame, Accept
  <2>2. /\ Successor(Head(ready)) = Base(f + 1) /\ Base(f + 1) = Base(f) + BlockSize
        /\ Base(f) \in Nat
    BY <1>17, <2>1, Successors, Blocks
  <2>3. Data <= BlockSize
    BY BlockHasData
  <2>4. /\ Successor(Head(ready)) <= Frontier'
        /\ \A k \in 1..Len(ready') : Successor(Head(ready)) <= ready'[k]
    BY <2>1, CursorMoves
  <2>5. ready' \in Seq(Nat) /\ Frontier' \in Int
    <3>1. ready # <<>> /\ ready' = Tail(ready)
        BY <2>1, TakenPacket
    <3> QED BY <1>0, <1>17, <2>1, <3>1
  <2>6. After
    <3>1. \A k \in 1..Len(ready') : ready'[k] \in Nat
        BY <2>5
    <3> QED BY <1>1, <2>1, <2>2, <2>3, <2>4, <2>5, <3>1
  <2>7. Newer
    BY <1>17, <2>1
  <2>8. Cursor' = Base(last' + 1) + Len(parts')
    BY <1>1, <1>17, <2>1, <2>2
  <2> QED BY <1>2, <2>6, <2>7, <2>8
<1>22. PictureFollows'
    BY <1>6, <1>7, <1>8, <1>10, <1>11, <1>13, <1>14, <1>15, <1>16, <1>19, <1>20,
        <1>21, Writers
<1>23. ContiguousFollows'
  <2>1. CASE emitted' = {}
    BY <2>1 DEF ContiguousFollows
  <2>2. CASE CompleteFrame
    <3> DEFINE unbroken == contiguous /\ ~Unfinished(f, part)
               content == Extended(part)
    <3>1. /\ TakeReady
          /\ emitted' = {[frame |-> f, parts |-> content, since |-> last,
                          after |-> shown, contiguous |-> unbroken]}
        BY <2>2 DEF CompleteFrame, Accept
    <3>2. last < f /\ f \in Nat
        BY <1>17, <3>1
    <3>3. contiguous => shown \in {f - 1, -1}
      <4>1. ShownFollows
        BY DEF ReceiverInv
      <4>2. ASSUME contiguous, last # -1 PROVE shown = f - 1
        <5>1. f = last + 1 /\ shown = last
            BY <1>17, <3>1, <4>1, <4>2 DEF ShownFollows
        <5>2. last \in Nat
            BY <1>0, <4>2
        <5> HIDE DEF f
        <5> QED BY <5>1, <5>2
      <4> QED BY <4>1, <4>2 DEF ShownFollows
    <3>4. unbroken => contiguous
        OBVIOUS
    <3> HIDE DEF f, part, unbroken, content
    <3>5. \A e \in emitted' : /\ e.since = last /\ e.after = shown
                              /\ e.frame = f /\ e.contiguous = unbroken
        BY <3>1
    <3> QED BY <3>2, <3>3, <3>4, <3>5 DEF ContiguousFollows
  <2> QED BY <2>1, <2>2, Writers
<1> QED BY <1>22, <1>23

\* Every step keeps the history of what left: a reset forgets only what left since
\* the one before, and breaks the chain.
LEMMA ShownStep ==
    ASSUME ReceiverInv, ReceiverNext PROVE ShownFollows'
<1>1. ShownFollows /\ ready \in Seq(Nat)
    BY DEF ReceiverInv, ReceiverTyped, TaskTyped
<1>2. CASE UNCHANGED <<contiguous, last, shown>>
    BY <1>1, <1>2 DEF ShownFollows
<1>3. ASSUME ApplyRecovery \/ DropPacket PROVE ShownFollows'
  <2>1. contiguous' = FALSE /\ UNCHANGED <<last, shown>>
    BY <1>3 DEF ApplyRecovery, DropPacket, InvalidatePicture
  <2> QED BY <1>1, <2>1 DEF ShownFollows
<1>4. ASSUME HoldPacket PROVE ShownFollows'
  <2>1. (contiguous' => contiguous) /\ UNCHANGED <<last, shown>>
    BY <1>4 DEF HoldPacket
  <2> QED BY <1>1, <2>1 DEF ShownFollows
<1>5. ASSUME CompleteFrame PROVE ShownFollows'
  <2>1. last' = FrameOf(Head(ready)) /\ shown' = last' /\ ready # <<>>
    BY <1>5 DEF CompleteFrame, Accept, TakeReady
  <2>2. Head(ready) \in Nat
    BY <1>1, <2>1
  <2>3. FrameOf(Head(ready)) \in Nat
    BY <2>2, Places
  <2>4. last' # -1
    BY <2>1, <2>3
  <2> QED BY <2>1, <2>4 DEF ShownFollows
<1>6. ASSUME ResetMediaState PROVE ShownFollows'
    BY <1>6 DEF ResetMediaState, ShownFollows
<1> QED BY <1>2, <1>3, <1>4, <1>5, <1>6, Writers

-----------------------------------------------------------------------------
(* The invariant of the receiver.                                           *)
\* A new receiver satisfies the invariant.
LEMMA ReceiverInvInit == ReceiverInit => ReceiverInv
<1> SUFFICES ASSUME ReceiverInit PROVE ReceiverInv
    OBVIOUS
<1>1. /\ next = -1 /\ held = {} /\ shards = [f \in {} |-> {}] /\ through = -1
      /\ frame = -1 /\ parts = <<>> /\ last = -1 /\ ready = <<>> /\ received = {}
      /\ nacks = <<>> /\ updated = <<>> /\ asked = <<>> /\ resets = 0
    BY DEF ReceiverInit, NoResult
<1>2. AssemblerInOrder
    BY <1>1 DEF AssemblerInOrder
<1>3. ReadyInOrder
    BY <1>1 DEF ReadyInOrder, InOrder
<1>4. PictureFollows /\ ShownFollows
    BY <1>1 DEF ReceiverInit, PictureFollows, ShownFollows
<1>5. PacketsHeld /\ ShardsHeld
    BY <1>1 DEF PacketsHeld, ShardsHeld
<1>7. ShardsKept
    BY DEF ReceiverInit, ShardsKept
<1>6. RangesMissing
    BY <1>1 DEF RangesMissing, Spares
<1> QED BY <1>2, <1>3, <1>4, <1>5, <1>6, <1>7, TypedInit DEF ReceiverInv

\* Every step preserves the invariant.
LEMMA ReceiverInvStep ==
    ReceiverInv /\ [ReceiverNext]_receiverVars => ReceiverInv'
<1>1. ASSUME ReceiverInv, ReceiverNext PROVE ReceiverInv'
  <2>1. ReceiverTyped'
    BY <1>1, BuffersTypedStep, PictureTypedStep, RangesStep, TaskTypedStep
        DEF ReceiverTyped
  <2> QED BY <1>1, <2>1, AssemblerStep, ReadyInOrderStep, PictureFollowsStep, ShownStep,
            PacketsHeldStep, ShardsHeldStep, ShardsKeptStep, RangesStep DEF ReceiverInv
<1>2. ASSUME ReceiverInv, UNCHANGED receiverVars PROVE ReceiverInv'
  <2>1. UNCHANGED <<fec, next, held, shards, failed, through, frame, parts, contiguous,
                    last, shown, nacks, at, packet, updated, ready, asked, recovery,
                    received, resets>>
    BY <1>2 DEF receiverVars, streamVars, bufferVars, plainVars, fecVars,
        pictureVars, feedbackVars, taskVars, resultVars
  <2>2. UNCHANGED fec
    BY <2>1
  <2>3. ReceiverTyped'
    <3>1. ReceiverTyped
        BY <1>2 DEF ReceiverInv
    <3> QED BY <2>1, <3>1 DEF ReceiverTyped, BuffersTyped, PictureTyped,
                RangesTyped, TaskTyped, NoResult
  <2>4. AssemblerInOrder' /\ RangesMissing' /\ PacketsHeld'
    BY <1>2, <2>1 DEF ReceiverInv, AssemblerInOrder, RangesMissing, PacketsHeld
  <2>5. ShardsHeld' /\ ShardsKept'
    BY <1>2, <2>1, <2>2, SameStream
        DEF ReceiverInv, ShardsHeld, ShardsKept, MissingData
  <2>6. Frontier' = Frontier /\ Cursor' = Cursor
    BY <2>1 DEF Frontier, Cursor
  <2>7. ReadyInOrder'
    BY <1>2, <2>1, <2>2, <2>6, SameStream DEF ReceiverInv, ReadyInOrder, InOrder
  <2>8. PictureFollows'
    BY <1>2, <2>1, <2>2, <2>6, SameStream DEF ReceiverInv, PictureFollows
  <2>9. ShownFollows'
    BY <1>2, <2>1 DEF ReceiverInv, ShownFollows
  <2> QED BY <2>3, <2>4, <2>5, <2>7, <2>8, <2>9 DEF ReceiverInv
<1> QED BY <1>1, <1>2

\* The invariant of the video receiver, for every stream and every loss: the
\* assembler, the reorder buffer in use and the packets between the two agree
\* on one place of the stream, every packet that was taken in is behind that
\* place or in the buffer, and the ranges to ask for have none of them.
THEOREM ReceiverInvariant == ReceiverSpec => []ReceiverInv
BY ReceiverInvInit, ReceiverInvStep, PTL DEF ReceiverSpec

\* Every frame that leaves the receiver has all its data packets, in order:
\* VideoAccessUnitAssembler behind either reorder buffer, whatever was lost,
\* repaired or skipped.
THEOREM ReceiverWholeFrames == ReceiverSpec => []WholeFrames
<1>1. ReceiverInit => WholeFrames
    BY DEF ReceiverInit, WholeFrames
<1>2. ReceiverInv /\ WholeFrames /\ [ReceiverNext]_receiverVars => WholeFrames'
  <2>1. UNCHANGED receiverVars => emitted' = emitted
    BY DEF receiverVars
  <2> QED BY <2>1, AssemblerStep DEF WholeFrames
<1> QED BY <1>1, <1>2, ReceiverInvariant, PTL DEF ReceiverSpec

\* A frame marked contiguous directly follows the frame that left before it, also
\* over resets of the media state, and frames leave in order from one reset to
\* the next: next_frame_contiguous is true only while nothing between the frames
\* was given up.
THEOREM ReceiverContiguousFollows == ReceiverSpec => []ContiguousFollows
<1>1. ReceiverInit => ContiguousFollows
    BY DEF ReceiverInit, ContiguousFollows
<1>2. ReceiverInv /\ ContiguousFollows /\ [ReceiverNext]_receiverVars
        => ContiguousFollows'
  <2>1. UNCHANGED receiverVars => emitted' = emitted
    BY DEF receiverVars
  <2> QED BY <2>1, PictureFollowsStep DEF ContiguousFollows
<1> QED BY <1>1, <1>2, ReceiverInvariant, PTL DEF ReceiverSpec

\* No range of pending_nacks has a packet that was taken in, at any point of
\* process_datagram and of the feedback thread beside it.
THEOREM ReceiverNackOnlyMissing == ReceiverSpec => []NackOnlyMissing
<1>1. ReceiverInv => NackOnlyMissing
  <2> SUFFICES ASSUME ReceiverInv, NEW k \in DOMAIN nacks,
                      NEW x \in nacks[k][1]..nacks[k][2] \cap received
               PROVE  FALSE
    BY DEF NackOnlyMissing
  <2>1. nacks \in Seq(Ranges) /\ received \subseteq Nat /\ Spares(nacks, received)
    BY DEF ReceiverInv, ReceiverTyped, RangesTyped, BuffersTyped, RangesMissing
  <2>2. k \in 1..Len(nacks) /\ nacks[k] \in Ranges
    BY <2>1
  <2>3. nacks[k][1] \in Int /\ nacks[k][2] \in Int /\ x \in Int
    BY <2>1, <2>2 DEF Ranges
  <2>4. x < nacks[k][1] \/ x > nacks[k][2]
    BY <2>1, <2>2 DEF Spares
  <2> QED BY <2>3, <2>4
<1> QED BY <1>1, ReceiverInvariant, PTL

\* An incomplete FEC block always has missing data, so that the expects of
\* FecReorderBuffer.push hold: a block with fewer shards than data packets lacks
\* one, and a repair only fails for a block that lacks one.
THEOREM ReceiverIncompleteHasMissing == ReceiverSpec => []IncompleteHasMissing
<1>1. ReceiverInv => IncompleteHasMissing
  <2> SUFFICES ASSUME ReceiverInv, NEW f \in DOMAIN shards, ~Complete(f),
                      MissingData(f) = {}
               PROVE  FALSE
    BY DEF IncompleteHasMissing
  <2>1. shards[f] \subseteq 0..(BlockSize - 1) /\ f \notin failed
    BY DEF ReceiverInv, ShardsKept
  <2>2. (0..(Data - 1)) \subseteq shards[f]
    BY DEF MissingData
  <2>3. BlockSize \in Nat /\ Data \in Nat /\ Data >= 1
    BY BlockHasData
  <2>4. IsFiniteSet(0..(BlockSize - 1)) /\ Cardinality(0..(Data - 1)) = Data
    BY <2>3, FS_Interval
  <2>5. IsFiniteSet(shards[f])
    BY <2>1, <2>4, FS_Subset
  <2>6. Cardinality(0..(Data - 1)) <= Cardinality(shards[f])
    BY <2>2, <2>5, FS_Subset
  <2>7. Cardinality(shards[f]) \in Nat
    BY <2>5, FS_CardinalityType
  <2> QED BY <2>1, <2>3, <2>4, <2>6, <2>7 DEF Complete
<1> QED BY <1>1, ReceiverInvariant, PTL

==============================================================================

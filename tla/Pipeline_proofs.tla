--------------------------- MODULE Pipeline_proofs ---------------------------
(***************************************************************************)
(* Proofs about Pipeline: the sink's queue and its wake-ups, the stream's  *)
(* queue and the loss tracker.                                             *)
(***************************************************************************)
EXTENDS Pipeline, Codec_proofs, SequenceTheorems, FiniteSetTheorems, NatLemmas

----------------------------------------------------------------------------
(* The sleeping task. *)

(* Why the sending task sleeps, and that a task which flushes after every  *)
(* item asks for the next one with an empty queue.                         *)
SinkInv ==
  /\ asleep => task \in {"ready", "flush"}
  /\ asleep /\ task = "ready" => Len(pending) >= MaxPending
  /\ asleep /\ task = "flush" => waker /\ pending # <<>>
  /\ waker => asleep /\ task = "flush"
  /\ usage # "feed" /\ task \in {"ready", "start"} => pending = <<>>

(* Every step of the pipeline preserves SinkInv. *)
LEMMA SinkStep == SinkInv /\ [PipelineNext]_pipelineVars => SinkInv'
<1>. SUFFICES ASSUME SinkInv, [PipelineNext]_pipelineVars PROVE SinkInv'  OBVIOUS
<1>1. CASE PollReady /\ usage' = usage
  BY <1>1 DEF SinkInv, PollReady
<1>2. CASE StartSend /\ usage' = usage
  <2>1. task = "start" /\ ~asleep /\ ~waker  BY <1>2 DEF StartSend, SinkInv
  <2>2. UNCHANGED <<asleep, waker>> /\ task' \in {"ready", "flush"}
        /\ (usage # "feed" => task' = "flush")
    BY <1>2 DEF StartSend, AfterItem
  <2>. QED  BY <1>2, <2>1, <2>2 DEF SinkInv
<1>3. CASE (StartSendFails \/ FlushFails) /\ usage' = usage
  BY <1>3 DEF SinkInv, StartSendFails, FlushFails
<1>4. CASE PollFlush /\ usage' = usage
  BY <1>4 DEF SinkInv, PollFlush, AfterBlock, WakerSpawned
<1>5. CASE FlushDone /\ usage' = usage
  BY <1>5 DEF SinkInv, FlushDone
<1>6. CASE WakeSender /\ usage' = usage
  BY <1>6 DEF SinkInv, WakeSender
<1>7. CASE UNCHANGED <<usage, pending, task, asleep, waker>>
  BY <1>7 DEF SinkInv
<1>. QED
  BY <1>1, <1>2, <1>3, <1>4, <1>5, <1>6, <1>7
  DEF PipelineNext, SenderTask, SocketDrains, ReaderTask, Decode, pipelineVars, sinkVars

(* No order of blocking, waking and draining leaves the sending task       *)
(* asleep with no one to wake it, except poll_ready on a full queue, which *)
(* an application that flushes after every item never meets.               *)
THEOREM PipelineOnlyFullQueueStalls == PipelineSpec => []OnlyFullQueueStalls
<1>1. PipelineInit => SinkInv  BY DEF PipelineInit, SinkInv
<1>2. SinkInv => OnlyFullQueueStalls
  <2>. SUFFICES ASSUME SinkInv, asleep, ~waker
                PROVE  usage = "feed" /\ task = "ready" /\ Len(pending) >= MaxPending
    BY DEF OnlyFullQueueStalls
  <2>1. task = "ready" /\ Len(pending) >= MaxPending  BY DEF SinkInv
  <2>2. pending # <<>>  BY <2>1, PipelineAssumption
  <2>. QED  BY <2>1, <2>2 DEF SinkInv
<1>. QED  BY <1>1, <1>2, SinkStep, PTL DEF PipelineSpec

----------------------------------------------------------------------------
(* The sink's queue. *)

(* What the encoder has returned, in the order in which it leaves. *)
All == transmitted \o pending

IsSource(m) == m.packet.kind = "source"

AllSound == \A i \in 1..Len(All) : EP!SoundPacket(All[i].packet, window.next_id)

(* Source packets leave in the order of their identifiers. *)
SourcesAscend ==
  \A i, j \in 1..Len(All) :
    i < j /\ IsSource(All[i]) /\ IsSource(All[j]) => All[i].packet.id < All[j].packet.id

(* A datagram on its way is one that was handed to the socket. *)
SentTransmitted == \A m \in sent : m.at \in 1..Len(transmitted) /\ transmitted[m.at] = m

Sequences == \E S : transmitted \in Seq(S) /\ pending \in Seq(S)

FlowInv == /\ SenderOK /\ Sequences /\ QueueKeepsOrder
           /\ AllSound /\ SourcesAscend /\ SentTransmitted

(* What the concatenation of two sequences is made of. *)
LEMMA ConcatParts ==
  ASSUME NEW S, NEW a \in Seq(S), NEW b \in Seq(S)
  PROVE  /\ a \o b \in Seq(S) /\ Len(a \o b) = Len(a) + Len(b)
         /\ \A i \in 1..Len(a) : (a \o b)[i] = a[i]
         /\ \A i \in 1..Len(b) : (a \o b)[Len(a) + i] = b[i]
BY ConcatProperties

(* Moving the head of b to the end of a leaves the concatenation alone. *)
LEMMA ConcatMove ==
  ASSUME NEW S, NEW a \in Seq(S), NEW b \in Seq(S), b # <<>>
  PROVE  /\ Append(a, Head(b)) \in Seq(S) /\ Tail(b) \in Seq(S)
         /\ Append(a, Head(b)) \o Tail(b) = a \o b
<1>. DEFINE c == Append(a, Head(b))
            d == Tail(b)
<1>1. Len(b) > 0 /\ Len(b) \in Nat /\ Len(a) \in Nat  BY EmptySeq, LenProperties
<1>2. /\ Head(b) = b[1] /\ Head(b) \in S /\ d \in Seq(S) /\ Len(d) = Len(b) - 1
      /\ \A i \in 1..Len(d) : d[i] = b[i + 1]
  <2>1. Head(b) = b[1]  BY <1>1
  <2>. QED  BY <2>1, HeadTailProperties
<1>3. /\ c \in Seq(S) /\ Len(c) = Len(a) + 1 /\ c[Len(a) + 1] = b[1]
      /\ \A i \in 1..Len(a) : c[i] = a[i]
  BY <1>2, AppendProperties
<1>. HIDE DEF c, d
<1>4. /\ c \o d \in Seq(S) /\ a \o b \in Seq(S)
      /\ Len(c \o d) = Len(a) + Len(b) /\ Len(a \o b) = Len(a) + Len(b)
  <2>1. c \o d \in Seq(S) /\ Len(c \o d) = Len(c) + Len(d)  BY <1>2, <1>3, ConcatParts, Zenon
  <2>2. a \o b \in Seq(S) /\ Len(a \o b) = Len(a) + Len(b)  BY ConcatParts, Zenon
  <2>3. Len(c) + Len(d) = Len(a) + Len(b)  BY <1>1, <1>2, <1>3
  <2>. QED  BY <2>1, <2>2, <2>3, Zenon
<1>5. ASSUME NEW i \in 1..(Len(a) + Len(b)) PROVE (c \o d)[i] = (a \o b)[i]
  <2>1. CASE i <= Len(a)
    BY <1>1, <1>2, <1>3, <2>1, ConcatParts
  <2>2. CASE i = Len(a) + 1
    <3>1. (c \o d)[i] = b[1]  BY <1>1, <1>2, <1>3, <2>2, ConcatParts
    <3>2. (a \o b)[Len(a) + 1] = b[1]  BY <1>1, ConcatParts
    <3>. QED  BY <2>2, <3>1, <3>2
  <2>3. CASE i > Len(a) + 1
    <3>. DEFINE k == i - Len(a) - 1
    <3>1. k \in 1..Len(d) /\ k + 1 \in 1..Len(b) /\ i = Len(c) + k /\ i = Len(a) + (k + 1)
      BY <1>1, <1>2, <1>3, <2>3
    <3>2. (c \o d)[Len(c) + k] = d[k]  BY <1>2, <1>3, <3>1, ConcatParts
    <3>3. (a \o b)[Len(a) + (k + 1)] = b[k + 1]  BY <3>1, ConcatParts
    <3>. QED  BY <1>2, <3>1, <3>2, <3>3
  <2>4. i <= Len(a) \/ i = Len(a) + 1 \/ i > Len(a) + 1  BY <1>1
  <2>. QED  BY <2>1, <2>2, <2>3, <2>4, Zenon
<1>6. c \o d = a \o b  BY <1>4, <1>5, SeqEqual
<1>. QED  BY <1>2, <1>3, <1>6 DEF c, d

(* Facts about the two sequences. *)
LEMMA FlowLengths ==
  ASSUME FlowInv
  PROVE  /\ Len(transmitted) \in Nat /\ Len(pending) \in Nat
         /\ Len(All) = Len(transmitted) + Len(pending)
         /\ \A i \in 1..Len(transmitted) : All[i] = transmitted[i]
         /\ Len(All) = window.next_id + coded_ids_used
         /\ \A i \in 1..Len(All) : All[i].at = i
         /\ window.next_id \in Nat /\ coded_ids_used \in Nat
<1>1. PICK S : transmitted \in Seq(S) /\ pending \in Seq(S)  BY DEF FlowInv, Sequences
<1>2. Len(transmitted) \in Nat /\ Len(pending) \in Nat  BY <1>1, LenProperties
<1>3. /\ Len(All) = Len(transmitted) + Len(pending)
      /\ \A i \in 1..Len(transmitted) : All[i] = transmitted[i]
  BY <1>1, ConcatParts, Zenon DEF All
<1>4. /\ Len(All) = window.next_id + coded_ids_used
      /\ \A i \in 1..Len(All) : All[i].at = i
  BY Zenon DEF FlowInv, QueueKeepsOrder, All
<1>5. window.next_id \in Nat /\ coded_ids_used \in Nat  BY SenderFacts DEF FlowInv
<1>. QED  BY <1>2, <1>3, <1>4, <1>5

(* A submission appends its packets, its source packet carrying the next   *)
(* identifier.                                                             *)
LEMMA StartSendAppends ==
  ASSUME FlowInv, StartSend
  PROVE  /\ Sequences' /\ Len(All') \in Nat /\ Len(All) <= Len(All')
         /\ Len(All') = window'.next_id + coded_ids_used'
         /\ \A i \in 1..Len(All) : All'[i] = All[i]
         /\ \A i \in (Len(All) + 1)..Len(All') :
              /\ All'[i].at = i /\ All'[i].packet \in output'
              /\ IsSource(All'[i]) <=> i = Len(All) + 1
<1>. DEFINE k == 1 + coded_ids_used' - coded_ids_used
<1>1. /\ window'.next_id = window.next_id + 1
      /\ coded_ids_used' \in Nat /\ coded_ids_used <= coded_ids_used'
  BY SubmitPackets DEF StartSend, FlowInv
<1>0. ~panicked'  BY SubmitPackets DEF StartSend, FlowInv
<1>2. PICK r \in Returned : pending' = pending \o Numbered(r)  BY DEF StartSend
<1>3. transmitted' = transmitted  BY DEF StartSend
<1>4. k \in Nat \ {0} /\ window'.next_id + coded_ids_used' = Len(All) + k
  <2>1. window.next_id \in Nat /\ coded_ids_used \in Nat  BY FlowLengths, Zenon
  <2>2. k \in Nat \ {0}
    <3>1. coded_ids_used \in Nat  BY <2>1
    <3>2. coded_ids_used' \in Nat /\ coded_ids_used <= coded_ids_used'  BY <1>1
    <3>3. ASSUME NEW x \in Nat, NEW y \in Nat, x <= y PROVE 1 + y - x \in Nat \ {0}  BY <3>3
    <3>. QED  BY <3>1, <3>2, <3>3
  <2>3. window'.next_id + coded_ids_used' = (window.next_id + coded_ids_used) + k
    BY <1>1, <2>1
  <2>4. Len(All) = window.next_id + coded_ids_used  BY FlowLengths, Zenon
  <2>. HIDE DEF k
  <2>. QED  BY <2>2, <2>3, <2>4, Zenon
<1>5. r \in [1..k -> output'] /\ \A i \in 1..k : r[i].kind = "source" <=> i = 1
  BY <1>0, <1>2 DEF Returned
<1>. DEFINE q == Numbered(r)
<1>6. PICK S : transmitted \in Seq(S) /\ pending \in Seq(S)  BY DEF FlowInv, Sequences
<1>. DEFINE T == S \cup {q[i] : i \in 1..k}
<1>7. DOMAIN r = 1..k  BY <1>5
<1>8. \A i \in 1..k : q[i] = [at |-> Len(All) + i, packet |-> r[i]]
  BY <1>7, FlowLengths DEF Numbered
<1>9. q \in Seq(T) /\ Len(q) = k
  <2>1. q = [i \in 1..k |-> q[i]]  BY <1>7 DEF Numbered
  <2>2. \A i \in 1..k : q[i] \in T  OBVIOUS
  <2>. HIDE DEF q, T
  <2>3. q \in [1..k -> T]  BY <2>1, <2>2
  <2>. HIDE DEF k
  <2>. QED  BY <1>4, <2>3
<1>. HIDE DEF k, q, T
<1>10. transmitted \in Seq(T) /\ pending \in Seq(T)
  <2>1. S \subseteq T  BY DEF T
  <2>. QED  BY <1>6, <2>1, SeqMonotonic
<1>11. All \in Seq(T)  BY <1>10, ConcatParts DEF All
<1>12. pending' \in Seq(T)  BY <1>2, <1>9, <1>10, ConcatParts DEF q
<1>13. Sequences'  BY <1>3, <1>10, <1>12 DEF Sequences
<1>14. All' = All \o q
  <2>1. All' = transmitted \o (pending \o q)  BY <1>2, <1>3, Zenon DEF All, q
  <2>2. transmitted \o (pending \o q) = (transmitted \o pending) \o q
    BY <1>9, <1>10, ConcatAssociative
  <2>. QED  BY <2>1, <2>2, Zenon DEF All
<1>15. /\ Len(All') = Len(All) + k
       /\ \A i \in 1..Len(All) : All'[i] = All[i]
       /\ \A i \in 1..k : All'[Len(All) + i] = q[i]
  <2>1. Len(All \o q) = Len(All) + Len(q)  BY <1>9, <1>11, ConcatParts, Zenon
  <2>2. \A i \in 1..Len(All) : (All \o q)[i] = All[i]  BY <1>9, <1>11, ConcatParts, Zenon
  <2>3. \A i \in 1..Len(q) : (All \o q)[Len(All) + i] = q[i]
    BY <1>9, <1>11, ConcatParts
  <2>. QED  BY <1>9, <1>14, <2>1, <2>2, <2>3, Zenon
<1>16. Len(All) \in Nat  BY FlowLengths
<1>17. ASSUME NEW i \in (Len(All) + 1)..Len(All')
       PROVE  /\ All'[i].at = i /\ All'[i].packet \in output'
              /\ IsSource(All'[i]) <=> i = Len(All) + 1
  <2>. DEFINE j == i - Len(All)
  <2>1. j \in 1..k /\ i = Len(All) + j  BY <1>4, <1>15, <1>16
  <2>2. All'[i] = [at |-> i, packet |-> r[j]]  BY <1>8, <1>15, <2>1
  <2>3. r[j] \in output' /\ (r[j].kind = "source" <=> j = 1)  BY <1>5, <2>1
  <2>. QED  BY <1>16, <2>2, <2>3 DEF IsSource
<1>. QED  BY <1>4, <1>13, <1>15, <1>16, <1>17

(* A submission preserves FlowInv. *)
LEMMA StartSendFlow ==
  ASSUME FlowInv, StartSend
  PROVE  /\ FlowInv'
         /\ \A i \in (Len(All) + 1)..Len(All') :
              IsSource(All'[i]) => All'[i].packet.id = window.next_id
<1>1. /\ SenderOK' /\ config' = config /\ window'.next_id = window.next_id + 1
  BY SubmitPackets DEF StartSend, FlowInv
<1>2. \A p \in output' : /\ EP!SoundPacket(p, window.next_id + 1)
                         /\ p.kind = "source" => p.id = window.next_id
  BY SubmitPackets, Zenon DEF StartSend, FlowInv
<1>3. /\ Len(All) \in Nat /\ window.next_id \in Nat
      /\ \A i \in 1..Len(All) : All[i].at = i
  BY FlowLengths
<1>4. /\ Len(All') \in Nat /\ Len(All) <= Len(All')
      /\ \A i \in 1..Len(All) : All'[i] = All[i]
      /\ \A i \in (Len(All) + 1)..Len(All') :
           /\ All'[i].at = i /\ All'[i].packet \in output'
           /\ IsSource(All'[i]) <=> i = Len(All) + 1
  BY StartSendAppends, Zenon
<1>5. \A i \in 1..Len(All') : i \in 1..Len(All) \/ i \in (Len(All) + 1)..Len(All')
  BY <1>3, <1>4
<1>6. QueueKeepsOrder'
  <2>1. \A i \in 1..Len(All') : All'[i].at = i  BY <1>3, <1>4, <1>5
  <2>2. Len(All') = window'.next_id + coded_ids_used'  BY StartSendAppends, Zenon
  <2>. QED  BY <2>1, <2>2, Zenon DEF QueueKeepsOrder, All
<1>7. EP!FirstCodedId' = EP!FirstCodedId /\ EP!coded_id_cycle' = EP!coded_id_cycle
  BY <1>1 DEF EP!FirstCodedId, EP!coded_id_cycle
<1>8. AllSound'
  <2>. SUFFICES ASSUME NEW i \in 1..Len(All')
                PROVE  EP!SoundPacket(All[i].packet, window.next_id)'
    BY DEF AllSound
  <2>1. CASE i \in 1..Len(All)
    <3>1. EP!SoundPacket(All[i].packet, window.next_id)  BY <2>1 DEF FlowInv, AllSound
    <3>2. All'[i] = All[i]  BY <1>4, <2>1
    <3>. QED  BY <1>1, <1>3, <1>7, <3>1, <3>2 DEF EP!SoundPacket
  <2>2. CASE i \in (Len(All) + 1)..Len(All')
    <3>1. EP!SoundPacket(All'[i].packet, window.next_id + 1)  BY <1>2, <1>4, <2>2
    <3>. QED  BY <1>1, <1>3, <1>7, <3>1 DEF EP!SoundPacket
  <2>. QED  BY <1>5, <2>1, <2>2
<1>9. \A i \in (Len(All) + 1)..Len(All') :
        IsSource(All'[i]) => All'[i].packet.id = window.next_id
  BY <1>2, <1>4 DEF IsSource
<1>10. SourcesAscend'
  <2>. SUFFICES ASSUME NEW i \in 1..Len(All'), NEW j \in 1..Len(All'), i < j,
                       IsSource(All'[i]), IsSource(All'[j])
                PROVE  All'[i].packet.id < All'[j].packet.id
    BY DEF SourcesAscend
  <2>1. CASE j \in 1..Len(All)
    <3>1. i \in 1..Len(All)  BY <1>3, <2>1
    <3>. QED  BY <1>4, <2>1, <3>1 DEF FlowInv, SourcesAscend
  <2>2. CASE j \in (Len(All) + 1)..Len(All')
    <3>1. j = Len(All) + 1  BY <1>4, <2>2
    <3>2. i \in 1..Len(All)  BY <1>3, <3>1
    <3>3. EP!SoundPacket(All[i].packet, window.next_id) /\ IsSource(All[i])
      BY <1>4, <3>2 DEF FlowInv, AllSound
    <3>4. All[i].packet.id \in 0..(window.next_id - 1)
      BY <3>3 DEF EP!SoundPacket, IsSource
    <3>. QED  BY <1>3, <1>4, <1>9, <2>2, <3>2, <3>4
  <2>. QED  BY <1>5, <2>1, <2>2
<1>11. SentTransmitted'
  BY DEF StartSend, FlowInv, SentTransmitted
<1>. QED  BY <1>1, <1>6, <1>8, <1>9, <1>10, <1>11, StartSendAppends DEF FlowInv

(* The rest of FlowInv when nothing new is returned. *)
LEMMA FlowRests ==
  ASSUME FlowInv, UNCHANGED encoderVars, Sequences', All' = All, SentTransmitted'
  PROVE  FlowInv'
<1>1. SenderOK'  BY SenderRests DEF FlowInv
<1>2. QueueKeepsOrder'
  BY Zenon DEF FlowInv, QueueKeepsOrder, All, encoderVars
<1>3. AllSound'
  BY DEF FlowInv, AllSound, encoderVars, EP!SoundPacket, EP!FirstCodedId, EP!coded_id_cycle
<1>4. SourcesAscend'  BY DEF FlowInv, SourcesAscend
<1>. QED  BY <1>1, <1>2, <1>3, <1>4 DEF FlowInv

(* A datagram handed to the socket moves from the one sequence to the      *)
(* other; a blocked socket moves nothing.                                  *)
LEMMA PollFlushFlow ==
  ASSUME FlowInv, PollFlush
  PROVE  /\ FlowInv' /\ All' = All
         /\ \/ UNCHANGED <<sent, transmitted>>
            \/ /\ Len(transmitted') = Len(transmitted) + 1
               /\ sent' = sent \cup {All[Len(transmitted) + 1]}
               /\ All[Len(transmitted) + 1].at = Len(transmitted) + 1
<1>. pending # <<>> /\ UNCHANGED encoderVars  BY DEF PollFlush
<1>1. PICK S : transmitted \in Seq(S) /\ pending \in Seq(S)  BY DEF FlowInv, Sequences
<1>2. CASE writable
  <2>1. /\ sent' = sent \cup {Head(pending)} /\ pending' = Tail(pending)
        /\ transmitted' = Append(transmitted, Head(pending))
    BY <1>2 DEF PollFlush
  <2>2. transmitted' \in Seq(S) /\ pending' \in Seq(S) /\ All' = All
    BY <1>1, <2>1, ConcatMove DEF All
  <2>3. Head(pending) \in S  BY <1>1, HeadTailProperties
  <2>4. /\ Len(transmitted') = Len(transmitted) + 1
        /\ \A i \in 1..Len(transmitted) : transmitted'[i] = transmitted[i]
        /\ transmitted'[Len(transmitted) + 1] = Head(pending)
    BY <1>1, <2>1, <2>3, AppendProperties
  <2>5. Len(transmitted) \in Nat  BY FlowLengths
  <2>6. All[Len(transmitted) + 1] = Head(pending)
    <3>1. \A i \in 1..Len(transmitted') : All'[i] = transmitted'[i]
      BY <2>2, ConcatParts DEF All
    <3>. QED  BY <2>2, <2>4, <2>5, <3>1
  <2>7. Head(pending).at = Len(transmitted) + 1
    <3>1. Len(transmitted') <= Len(All)
      BY <2>2, <2>4, <2>5, ConcatParts, LenProperties DEF All
    <3>. QED  BY <2>4, <2>5, <2>6, <3>1, FlowLengths
  <2>8. SentTransmitted'
    BY <2>1, <2>4, <2>5, <2>7 DEF FlowInv, SentTransmitted
  <2>9. Sequences'  BY <2>2 DEF Sequences
  <2>. QED  BY <2>1, <2>2, <2>4, <2>6, <2>7, <2>8, <2>9, FlowRests
<1>3. CASE ~writable
  <2>1. UNCHANGED <<sent, transmitted, pending>>  BY <1>3 DEF PollFlush, AfterBlock
  <2>. QED  BY <2>1, FlowRests DEF FlowInv, Sequences, All, SentTransmitted
<1>. QED  BY <1>2, <1>3

(* Everything else only takes datagrams out of the network. *)
LEMMA FlowTakes ==
  ASSUME FlowInv, UNCHANGED <<encoderVars, transmitted, pending>>, sent' \subseteq sent
  PROVE  FlowInv' /\ All' = All
BY FlowRests DEF FlowInv, Sequences, All, SentTransmitted

LEMMA FlowInit == PipelineInit => FlowInv
<1>. SUFFICES ASSUME PipelineInit PROVE FlowInv  OBVIOUS
<1>1. window.next_id = 0 /\ coded_ids_used = 0
  BY DEF PipelineInit, Init, E!Init, E!NewWindow
<1>2. SenderOK
  <2>1. EP!SenderInv
    BY SameEncoderInit, EncoderAssumptions, EP!SenderInit DEF PipelineInit, Init
  <2>. QED  BY <1>1, <2>1, CodecAssumption DEF SenderOK
<1>3. transmitted = <<>> /\ pending = <<>> /\ sent = {}  BY DEF PipelineInit, Init
<1>4. transmitted \in Seq({}) /\ pending \in Seq({})  BY <1>3, EmptySeq
<1>5. Len(All) = 0  BY <1>3, <1>4, ConcatParts, EmptySeq DEF All
<1>6. QueueKeepsOrder
  <2>1. Len(transmitted \o pending) = 0  BY <1>5 DEF All
  <2>. QED  BY <1>1, <2>1 DEF QueueKeepsOrder
<1>. QED
  BY <1>2, <1>3, <1>4, <1>5, <1>6
  DEF FlowInv, Sequences, AllSound, SourcesAscend, SentTransmitted

(* The steps of the pipeline that are neither a submission nor a turn of   *)
(* poll_flush.                                                             *)
LEMMA OtherSteps ==
  ASSUME [PipelineNext]_pipelineVars, ~StartSend, ~PollFlush
  PROVE  UNCHANGED <<encoderVars, transmitted, pending>> /\ sent' \subseteq sent
<1>1. CASE SenderTask
  BY <1>1 DEF SenderTask, PollReady, StartSendFails, FlushFails, FlushDone, WakeSender
<1>2. CASE ReaderTask
  BY <1>2 DEF ReaderTask, PollQueue, PollDatagram, PollBlocked, WakeReader, sinkVars
<1>3. CASE SocketDrains \/ Decode \/ UNCHANGED pipelineVars
  BY <1>3 DEF SocketDrains, Decode, pipelineVars, codecVars, netVars, sinkVars
<1>. QED  BY <1>1, <1>2, <1>3 DEF PipelineNext

LEMMA FlowStep == FlowInv /\ [PipelineNext]_pipelineVars => FlowInv'
BY StartSendFlow, PollFlushFlow, OtherSteps, FlowTakes

(* However often the socket blocks and wherever between two packets of a   *)
(* submission, the socket is given every packet of the encoder once and in *)
(* the order in which the encoder returned it, for every configuration.    *)
THEOREM PipelineQueueKeepsOrder == PipelineSpec => []QueueKeepsOrder
<1>1. FlowInv => QueueKeepsOrder  BY DEF FlowInv
<1>. QED  BY <1>1, FlowInit, FlowStep, PTL DEF PipelineSpec

----------------------------------------------------------------------------
(* The stream. *)

(* What the decoder has delivered, in the order of the stream. *)
Yielded == consumed \o ready

StreamInv == /\ DP!TypeInv /\ DP!FateDecided
             /\ consumed \in Seq(Nat) /\ ready \in Seq(Nat)
             /\ StreamYieldsDelivered

(* A datagram on its way holds a sound packet. *)
LEMMA SentSound ==
  ASSUME FlowInv, NEW m \in sent
  PROVE  /\ EP!SoundPacket(m.packet, window.next_id)
         /\ m.at \in 1..Len(transmitted) /\ m.at \in 1..Len(All) /\ All[m.at] = m
<1>1. m.at \in 1..Len(transmitted) /\ transmitted[m.at] = m  BY DEF FlowInv, SentTransmitted
<1>2. m.at \in 1..Len(All) /\ All[m.at] = m  BY <1>1, FlowLengths
<1>. QED  BY <1>1, <1>2 DEF FlowInv, AllSound

(* The decoder's handlers deliver nothing themselves. *)
LEMMA HandleDelivers ==
  ASSUME SenderOK, DP!TypeInv, DP!FateDecided, NEW p,
         EP!SoundPacket(p, window.next_id), Handle(p)
  PROVE  DP!TypeInv' /\ DP!FateDecided' /\ delivered' = delivered
<1>1. CASE p.kind = "source"
  <2>. DEFINE id == p.id
  <2>1. id \in 0..(window.next_id - 1) /\ p.data = id  BY <1>1 DEF EP!SoundPacket
  <2>2. id \in DP!SrcIds  BY <2>1, SenderFacts DEF DP!SrcIds
  <2>3. DP!HandleSource(id, DP!Unit(id))
    BY <1>1, <2>1, SameHandleSource, SameVectors DEF Handle
  <2>4. [DP!Next]_DP!decVars  BY <2>2, <2>3 DEF DP!Next
  <2>5. DP!TypeInv' /\ DP!FateDecided'
    BY <2>4, DecoderAssumptions, DP!TypeStep, DP!FateStep
  <2>6. delivered' = delivered  BY <2>3 DEF DP!HandleSource, DP!emitted
  <2>. QED  BY <2>5, <2>6
<1>2. CASE p.kind = "coded"
  <2>. DEFINE v == CoefVector(p)
  <2>1. v \in DP!Vectors /\ PayloadVector(p) = v /\ DP!Support(v) # {}
    BY <1>2, CodedVectors
  <2>2. DP!HandleCoded(v, v)  BY <1>2, <2>1, SameHandleCoded DEF Handle
  <2>. HIDE DEF v
  <2>3. DP!TypeInv'  BY <2>1, <2>2, DecoderAssumptions, DP!HandleCodedType
  <2>4. UNCHANGED <<delivered, skipped, buffer, next_delivery_id>>
    BY <2>2 DEF DP!HandleCoded, DP!emitted, DP!stored
  <2>. QED  BY <2>3, <2>4 DEF DP!FateDecided, DP!Keys
<1>. QED  BY <1>1, <1>2 DEF EP!SoundPacket

(* A step of the decoder delivers an interval that starts at its delivery  *)
(* pointer, and only the last step of a call delivers anything.            *)
LEMMA StepDelivers ==
  ASSUME DP!TypeInv, DP!FateDecided, D!Step
  PROVE  /\ DP!TypeInv' /\ DP!FateDecided'
         /\ pc' # "idle" => delivered' = delivered
         /\ next_delivery_id \in Nat
         /\ \A i \in D!Keys(delivered) : i \in Nat /\ i < next_delivery_id
         /\ \E e \in Nat : /\ next_delivery_id <= e
                           /\ D!Keys(delivered') = D!Keys(delivered)
                                \cup next_delivery_id..(e - 1)
<1>1. DP!Step  BY SameStep
<1>2. [DP!Next]_DP!decVars  BY <1>1 DEF DP!Next
<1>3. DP!TypeInv' /\ DP!FateDecided'
  BY <1>2, DecoderAssumptions, DP!TypeStep, DP!FateStep
<1>4. next_delivery_id \in 0..NumIds /\ NumIds \in Nat
  BY DecoderAssumptions DEF DP!TypeInv, DP!TypeOK, DP!NumIdsAssumption
<1>5. \A m : D!Keys(m) = {i \in DP!SrcIds : m[i] # Absent}
  BY SameVectors DEF D!Keys
<1>6. \A i \in D!Keys(delivered) : i \in Nat /\ i < next_delivery_id
  BY <1>4, <1>5 DEF DP!FateDecided, DP!SrcIds
<1>7. CASE DP!Finish
  <2>1. /\ DP!End \in next_delivery_id..NumIds
        /\ \A i \in DP!SrcIds : next_delivery_id <= i /\ i < DP!End => delivered'[i] # Absent
        /\ next_delivery_id' \in DP!End..NumIds
        /\ \A i \in DP!SrcIds : DP!End <= i /\ i < next_delivery_id' => delivered'[i] = Absent
        /\ \A i \in DP!SrcIds : i < next_delivery_id \/ next_delivery_id' <= i =>
             delivered'[i] = delivered[i]
    BY <1>7, DecoderAssumptions, DP!FinishFate
  <2>2. \A i \in DP!SrcIds : i >= next_delivery_id => delivered[i] = Absent
    BY <1>4 DEF DP!FateDecided, DP!SrcIds
  <2>. DEFINE e == DP!End
  <2>. HIDE DEF e
  <2>3. e \in Nat /\ next_delivery_id <= e /\ e <= NumIds  BY <1>4, <2>1 DEF e
  <2>4. D!Keys(delivered') = D!Keys(delivered) \cup next_delivery_id..(e - 1)
    <3>1. ASSUME NEW i \in DP!SrcIds
          PROVE  delivered'[i] # Absent <=>
                   delivered[i] # Absent \/ i \in next_delivery_id..(e - 1)
      <4>1. i \in Nat  BY <3>1, <1>4 DEF DP!SrcIds
      <4>. QED  BY <1>4, <2>1, <2>2, <2>3, <4>1 DEF e
    <3>2. next_delivery_id..(e - 1) \subseteq DP!SrcIds
      BY <1>4, <2>3 DEF DP!SrcIds
    <3>. QED  BY <1>5, <3>1, <3>2
  <2>5. pc' = "idle"  BY <1>7 DEF DP!Finish
  <2>. QED  BY <1>3, <1>4, <1>6, <2>3, <2>4, <2>5
<1>8. CASE delivered' = delivered
  <2>1. next_delivery_id..(next_delivery_id - 1) = {}  BY <1>4
  <2>2. D!Keys(delivered') = D!Keys(delivered) \cup next_delivery_id..(next_delivery_id - 1)
    BY <1>8, <2>1
  <2>. QED  BY <1>3, <1>4, <1>6, <1>8, <2>2
<1>9. DP!Finish \/ delivered' = delivered
  BY <1>1 DEF DP!Step, DP!SubstituteKnown, DP!EliminateRow, DP!HarvestRow,
      DP!StartElimination, DP!InsertRow, DP!Rescan, DP!Cascade, DP!stored, DP!emitted
<1>. QED  BY <1>7, <1>8, <1>9

(* The stream in terms of Yielded. *)
LEMMA YieldedForm ==
  StreamYieldsDelivered <=>
    /\ \A i \in 1..(Len(Yielded) - 1) : Yielded[i] < Yielded[i + 1]
    /\ {Yielded[i] : i \in 1..Len(Yielded)} = D!Keys(delivered)
BY Zenon DEF StreamYieldsDelivered, Yielded

(* What a call delivers joins the end of the stream, in ascending order. *)
LEMMA DecodeStream ==
  ASSUME StreamInv, Decode
  PROVE  StreamInv'
<1>. DEFINE n == next_delivery_id
<1>1. DP!TypeInv /\ DP!FateDecided /\ D!Step  BY DEF StreamInv, Decode
<1>2. DP!TypeInv' /\ DP!FateDecided' /\ n \in Nat  BY <1>1, StepDelivers
<1>3. consumed \in Seq(Nat) /\ ready \in Seq(Nat)  BY DEF StreamInv
<1>4. CASE pc' # "idle"
  <2>1. delivered' = delivered  BY <1>1, <1>4, StepDelivers
  <2>2. UNCHANGED <<ready, consumed>>  BY <1>4 DEF Decode
  <2>3. StreamYieldsDelivered'  BY <2>1, <2>2, Zenon DEF StreamInv, StreamYieldsDelivered
  <2>. QED  BY <1>2, <1>3, <2>2, <2>3 DEF StreamInv
<1>5. CASE pc' = "idle"
  <2>1. PICK e \in Nat : n <= e /\ D!Keys(delivered') = D!Keys(delivered) \cup n..(e - 1)
    BY <1>1, StepDelivers
  <2>2. \A i \in D!Keys(delivered) : i \in Nat /\ i < n  BY <1>1, StepDelivers
  <2>. DEFINE c == e - n
  <2>3. c \in Nat  BY <1>2, <2>1
  <2>4. Drained = [k \in 1..c |-> n + k - 1]
    <3>1. D!Keys(delivered') \ D!Keys(delivered) = n..(e - 1)
      BY <1>2, <2>1, <2>2
    <3>2. Cardinality(n..(e - 1)) = c  BY <1>2, <2>1, IntervalSize
    <3>. QED  BY <3>1, <3>2 DEF Drained
  <2>. HIDE DEF c
  <2>5. /\ Drained \in Seq(Nat) /\ Len(Drained) = c
        /\ \A k \in 1..c : Drained[k] = n + k - 1
    <3>. DEFINE d == [k \in 1..c |-> n + k - 1]
    <3>1. d \in [1..c -> Nat]  BY <1>2, <2>3
    <3>2. \A k \in 1..c : d[k] = n + k - 1  OBVIOUS
    <3>. HIDE DEF d
    <3>3. d \in Seq(Nat) /\ Len(d) = c  BY <2>3, <3>1
    <3>4. Drained = d  BY <2>4 DEF d
    <3>. QED  BY <3>2, <3>3, <3>4
  <2>. DEFINE out == ready \o Drained
  <2>6. out \in Seq(Nat)  BY <1>3, <2>5, ConcatParts
  <2>7. /\ ready' = IF out = <<>> THEN out ELSE Tail(out)
        /\ consumed' = IF out = <<>> THEN consumed ELSE Append(consumed, Head(out))
    BY <1>5 DEF Decode, QueueAll
  <2>. HIDE DEF out
  <2>8. consumed' \in Seq(Nat) /\ ready' \in Seq(Nat) /\ Yielded' = consumed \o out
    <3>1. CASE out = <<>>
      BY <1>3, <2>6, <2>7, <3>1 DEF Yielded
    <3>2. CASE out # <<>>
      <4>1. ready' = Tail(out) /\ consumed' = Append(consumed, Head(out))  BY <2>7, <3>2
      <4>2. /\ Append(consumed, Head(out)) \in Seq(Nat) /\ Tail(out) \in Seq(Nat)
            /\ Append(consumed, Head(out)) \o Tail(out) = consumed \o out
        BY <1>3, <2>6, <3>2, ConcatMove, Zenon
      <4>. QED  BY <4>1, <4>2, Zenon DEF Yielded
    <3>. QED  BY <3>1, <3>2
  <2>9. Yielded' = Yielded \o Drained
    <3>1. Drained \in Seq(Nat)  BY <2>5
    <3>2. (consumed \o ready) \o Drained = consumed \o (ready \o Drained)
      <4>1. PICK T : consumed \in Seq(T) /\ ready \in Seq(T) /\ Drained \in Seq(T)
        BY <1>3, <3>1
      <4>. QED  BY <4>1, ConcatAssociative
    <3>. QED  BY <2>8, <3>2, Zenon DEF Yielded, out
  <2>10. Yielded \in Seq(Nat)  BY <1>3, ConcatParts DEF Yielded
  <2>. DEFINE l == Len(Yielded)
  <2>11. l \in Nat  BY <2>10, LenProperties
  <2>12. /\ Len(Yielded') = l + c
         /\ \A i \in 1..l : Yielded'[i] = Yielded[i]
    <3>1. Len(Yielded \o Drained) = Len(Yielded) + Len(Drained)
      BY <2>5, <2>10, ConcatParts, Zenon
    <3>2. \A i \in 1..Len(Yielded) : (Yielded \o Drained)[i] = Yielded[i]
      BY <2>5, <2>10, ConcatParts, Zenon
    <3>. QED  BY <2>5, <2>9, <3>1, <3>2, Zenon
  <2>13. \A k \in 1..c : Yielded'[l + k] = n + k - 1
    <3>1. \A k \in 1..Len(Drained) : (Yielded \o Drained)[Len(Yielded) + k] = Drained[k]
      <4>1. Drained \in Seq(Nat)  BY <2>5
      <4>. QED  BY <2>10, <4>1, ConcatParts
    <3>. QED  BY <2>5, <2>9, <3>1
  <2>14. /\ \A i \in 1..(l - 1) : Yielded[i] < Yielded[i + 1]
         /\ {Yielded[i] : i \in 1..l} = D!Keys(delivered)
    <3>1. StreamYieldsDelivered  BY DEF StreamInv
    <3>. QED  BY <3>1, YieldedForm
  <2>. HIDE DEF l
  <2>15. \A i \in 1..l : Yielded[i] \in Nat /\ Yielded[i] < n  BY <2>2, <2>14
  <2>16. ASSUME NEW i \in 1..((l + c) - 1) PROVE Yielded'[i] < Yielded'[i + 1]
    <3>1. CASE i + 1 \in 1..l
      <4>1. i \in 1..(l - 1) /\ i \in 1..l  BY <2>11, <3>1
      <4>. QED  BY <2>12, <2>14, <3>1, <4>1
    <3>2. CASE i = l
      <4>1. 1 \in 1..c /\ i \in 1..l  BY <2>3, <2>11, <3>2
      <4>2. Yielded'[l + 1] = n  BY <1>2, <2>13, <4>1
      <4>. QED  BY <2>12, <2>15, <3>2, <4>1, <4>2
    <3>3. CASE i > l
      <4>. DEFINE k == i - l
      <4>1. k \in 1..c /\ k + 1 \in 1..c /\ i = l + k /\ i + 1 = l + (k + 1)
        BY <2>3, <2>11, <3>3
      <4>2. Yielded'[i] = n + k - 1 /\ Yielded'[i + 1] = n + (k + 1) - 1
        BY <2>13, <4>1
      <4>. QED  BY <1>2, <4>1, <4>2
    <3>4. i + 1 \in 1..l \/ i = l \/ i > l  BY <2>3, <2>11
    <3>. QED  BY <3>1, <3>2, <3>3, <3>4
  <2>17. {Yielded'[i] : i \in 1..(l + c)} = D!Keys(delivered) \cup n..(e - 1)
    <3>1. ASSUME NEW i \in 1..(l + c)
          PROVE  Yielded'[i] \in D!Keys(delivered) \cup n..(e - 1)
      <4>1. CASE i \in 1..l
        BY <2>12, <2>14, <4>1
      <4>2. CASE i \notin 1..l
        <5>. DEFINE k == i - l
        <5>1. k \in 1..c /\ i = l + k  BY <2>3, <2>11, <4>2
        <5>2. Yielded'[i] = n + k - 1  BY <2>13, <5>1
        <5>3. n + k - 1 \in n..(e - 1)  BY <1>2, <2>1, <5>1 DEF c
        <5>. QED  BY <5>2, <5>3
      <4>. QED  BY <4>1, <4>2
    <3>2. ASSUME NEW x \in D!Keys(delivered)
          PROVE  \E i \in 1..(l + c) : Yielded'[i] = x
      <4>1. PICK i \in 1..l : Yielded[i] = x  BY <2>14
      <4>2. i \in 1..(l + c)  BY <2>3, <2>11
      <4>. QED  BY <2>12, <4>1, <4>2
    <3>3. ASSUME NEW x \in n..(e - 1)
          PROVE  \E i \in 1..(l + c) : Yielded'[i] = x
      <4>. DEFINE k == x - n + 1
      <4>1. k \in 1..c /\ x = n + k - 1  BY <1>2, <2>1 DEF c
      <4>2. l + k \in 1..(l + c)  BY <2>3, <2>11, <4>1
      <4>3. Yielded'[l + k] = x  BY <2>13, <4>1
      <4>. QED  BY <4>2, <4>3
    <3>. QED  BY <3>1, <3>2, <3>3
  <2>18. /\ \A i \in 1..(Len(Yielded') - 1) : Yielded'[i] < Yielded'[i + 1]
         /\ {Yielded'[i] : i \in 1..Len(Yielded')} = D!Keys(delivered')
    BY <2>1, <2>12, <2>16, <2>17
  <2>19. StreamYieldsDelivered'
    BY <2>18, Zenon DEF StreamYieldsDelivered, Yielded
  <2>. QED  BY <1>2, <2>8, <2>19 DEF StreamInv
<1>. QED  BY <1>4, <1>5

LEMMA StreamInit == PipelineInit => StreamInv
<1>. SUFFICES ASSUME PipelineInit PROVE StreamInv  OBVIOUS
<1>1. DP!Init  BY SameDecoderInit DEF PipelineInit, Init
<1>2. DP!TypeInv /\ DP!FateDecided
  BY <1>1, DecoderAssumptions, DP!InitType, DP!FateInit
<1>3. consumed = <<>> /\ ready = <<>>  BY DEF PipelineInit
<1>4. consumed \in Seq(Nat) /\ ready \in Seq(Nat) /\ Len(Yielded) = 0
  BY <1>3, EmptySeq, ConcatParts DEF Yielded
<1>5. D!Keys(delivered) = {}
  BY <1>1 DEF DP!Init, D!Keys, DP!EmptyMap, D!SrcIds, DP!SrcIds
<1>6. StreamYieldsDelivered  BY <1>4, <1>5, YieldedForm
<1>. QED  BY <1>2, <1>4, <1>6 DEF StreamInv

(* The stream's half of every step; the datagrams on their way are sound. *)
LEMMA StreamStep == FlowInv /\ StreamInv /\ [PipelineNext]_pipelineVars => StreamInv'
<1>. SUFFICES ASSUME FlowInv, StreamInv, [PipelineNext]_pipelineVars PROVE StreamInv'
  OBVIOUS
<1>1. CASE Decode
  BY <1>1, DecodeStream
<1>2. ASSUME NEW m \in sent, PollDatagram(m) PROVE StreamInv'
  <2>1. DP!TypeInv' /\ DP!FateDecided' /\ delivered' = delivered
    BY <1>2, SentSound, HandleDelivers DEF FlowInv, StreamInv, PollDatagram
  <2>2. UNCHANGED <<ready, consumed>>  BY <1>2 DEF PollDatagram
  <2>3. StreamYieldsDelivered'  BY <2>1, <2>2, Zenon DEF StreamInv, StreamYieldsDelivered
  <2>. QED  BY <2>1, <2>2, <2>3 DEF StreamInv
<1>3. ASSUME UNCHANGED decoderVars PROVE DP!TypeInv' /\ DP!FateDecided' /\ delivered' = delivered
  <2>1. UNCHANGED DP!decVars
    BY <1>3 DEF decoderVars, DP!decVars, DP!matrix, DP!stored, DP!emitted
  <2>. QED
    BY <1>3, <2>1, DecoderAssumptions, DP!TypeStep, DP!FateStep DEF StreamInv, decoderVars
<1>4. CASE PollQueue
  <2>1. /\ consumed' = Append(consumed, Head(ready)) /\ ready' = Tail(ready) /\ ready # <<>>
        /\ UNCHANGED decoderVars
    BY <1>4 DEF PollQueue
  <2>2. consumed \in Seq(Nat) /\ ready \in Seq(Nat)  BY DEF StreamInv
  <2>3. consumed' \in Seq(Nat) /\ ready' \in Seq(Nat) /\ Yielded' = Yielded
    <3>1. /\ Append(consumed, Head(ready)) \in Seq(Nat) /\ Tail(ready) \in Seq(Nat)
          /\ Append(consumed, Head(ready)) \o Tail(ready) = consumed \o ready
      BY <2>1, <2>2, ConcatMove, Zenon
    <3>. QED  BY <2>1, <3>1, Zenon DEF Yielded
  <2>4. delivered' = delivered  BY <1>3, <2>1
  <2>5. StreamYieldsDelivered'
    BY <2>3, <2>4, Zenon DEF StreamInv, StreamYieldsDelivered, Yielded
  <2>. QED  BY <1>3, <2>1, <2>3, <2>5 DEF StreamInv
<1>5. CASE UNCHANGED <<decoderVars, ready, consumed>>
  <2>1. StreamYieldsDelivered'  BY <1>3, <1>5, Zenon DEF StreamInv, StreamYieldsDelivered
  <2>. QED  BY <1>3, <1>5, <2>1 DEF StreamInv
<1>. QED
  BY <1>1, <1>2, <1>4, <1>5
  DEF PipelineNext, SenderTask, SocketDrains, ReaderTask, PollBlocked, WakeReader,
      pipelineVars, codecVars, streamVars

(* The caller of poll_next gets every symbol that the decoder delivers,    *)
(* once, in ascending order, whatever a call of the decoder recovers at    *)
(* once and however polls, datagrams, losses and reordering interleave.    *)
THEOREM PipelineStreamYieldsDelivered == PipelineSpec => []StreamYieldsDelivered
<1>1. StreamInv => StreamYieldsDelivered  BY DEF StreamInv
<1>. QED  BY <1>1, FlowInit, FlowStep, StreamInit, StreamStep, PTL DEF PipelineSpec

----------------------------------------------------------------------------
(* The loss tracker. *)

(* The packet at position i may still arrive on a fifo network. *)
Ahead(i) == i > Len(transmitted) \/ All[i] \in sent

(* Without reordering the source packets to come have higher identifiers   *)
(* than those that have arrived.                                           *)
SourcesPassed ==
  network = "fifo" =>
    \A s \in sources : \A i \in 1..Len(All) :
      IsSource(All[i]) /\ Ahead(i) => s < All[i].packet.id

(* The tracker's counters against the source packets that have arrived. *)
LossCounts ==
  /\ sources \subseteq 0..loss.last_seen
  /\ Cardinality(sources) <= loss.received
  /\ loss.expected + Cardinality(sources) <= loss.last_seen + loss.received
  /\ loss.last_seen <= MaxGap =>
       loss.expected + Cardinality(sources) = loss.last_seen + loss.received

LossInv ==
  /\ loss \in [received : Nat, expected : Nat, last_seen : Nat]
  /\ sources = {} => loss.last_seen = 0
  /\ sources # {} => loss.last_seen \in sources
  /\ sources \subseteq 0..(window.next_id - 1)
  /\ network = "fifo" => LossCounts

(* The packets that a submission or a turn of poll_flush adds are still    *)
(* ahead, and a submission's identifier is new.                            *)
LEMMA PassedStep ==
  ASSUME FlowInv, SourcesPassed, LossInv, [PipelineNext]_pipelineVars,
         UNCHANGED <<network, sources>>
  PROVE  SourcesPassed'
<1>. SUFFICES ASSUME network = "fifo", NEW s \in sources, NEW i \in 1..Len(All'),
                     IsSource(All'[i]), Ahead(i)'
              PROVE  s < All'[i].packet.id
  BY DEF SourcesPassed
<1>1. s \in 0..(window.next_id - 1) /\ window.next_id \in Nat /\ Len(All) \in Nat
      /\ Len(transmitted) \in Nat /\ Len(transmitted) <= Len(All)
  BY FlowLengths DEF LossInv
<1>2. \A j \in 1..Len(All) : IsSource(All[j]) /\ Ahead(j) => s < All[j].packet.id
  BY DEF SourcesPassed
<1>3. CASE StartSend
  <2>1. /\ Len(All') \in Nat /\ \A j \in 1..Len(All) : All'[j] = All[j]
        /\ \A j \in (Len(All) + 1)..Len(All') :
             IsSource(All'[j]) => All'[j].packet.id = window.next_id
    BY <1>3, StartSendAppends, StartSendFlow
  <2>2. sent' = sent /\ transmitted' = transmitted  BY <1>3 DEF StartSend
  <2>3. CASE i \in 1..Len(All)
    <3>1. All'[i] = All[i] /\ Ahead(i)
      BY <2>1, <2>2, <2>3 DEF Ahead
    <3>. QED  BY <1>2, <2>3, <3>1
  <2>4. CASE i \notin 1..Len(All)
    <3>1. i \in (Len(All) + 1)..Len(All')  BY <1>1, <2>1, <2>4
    <3>. QED  BY <1>1, <2>1, <3>1
  <2>. QED  BY <2>3, <2>4
<1>4. CASE PollFlush
  <2>1. All' = All  BY <1>4, PollFlushFlow
  <2>2. Ahead(i)
    <3>1. i > Len(transmitted') \/ All[i] \in sent'  BY <2>1 DEF Ahead
    <3>2. All[i].at = i  BY <2>1, FlowLengths
    <3>. QED  BY <1>1, <1>4, <3>1, <3>2, PollFlushFlow DEF Ahead
  <2>. QED  BY <1>2, <2>1, <2>2
<1>5. CASE ~StartSend /\ ~PollFlush
  <2>1. All' = All /\ transmitted' = transmitted /\ sent' \subseteq sent
    BY <1>5, OtherSteps, FlowTakes
  <2>2. Ahead(i)  BY <2>1 DEF Ahead
  <2>. QED  BY <1>2, <2>1, <2>2
<1>. QED  BY <1>3, <1>4, <1>5

(* A source packet that arrives on a fifo network is beyond all that       *)
(* arrived before it, and those to come are beyond it.                     *)
LEMMA PassedByDatagram ==
  ASSUME FlowInv, SourcesPassed, NEW m \in sent, PollDatagram(m), network = "fifo",
         network' = network, UNCHANGED <<encoderVars, transmitted, pending>>
  PROVE  /\ SourcesPassed'
         /\ IsSource(m) => \A s \in sources : s < m.packet.id
<1>1. m.at \in 1..Len(All) /\ All[m.at] = m /\ m.at \in 1..Len(transmitted)  BY SentSound
<1>2. Ahead(m.at)  BY <1>1 DEF Ahead
<1>3. IsSource(m) => \A s \in sources : s < m.packet.id
  BY <1>1, <1>2 DEF SourcesPassed
<1>4. sent' = {x \in sent : x.at > m.at}  BY DEF PollDatagram
<1>5. All' = All  BY <1>4, FlowTakes
<1>6. sources' = IF IsSource(m) THEN sources \cup {m.packet.id} ELSE sources
  BY DEF PollDatagram, IsSource
<1>7. ASSUME NEW s \in sources', NEW i \in 1..Len(All), IsSource(All[i]), Ahead(i)'
      PROVE  s < All[i].packet.id
  <2>1. /\ i > Len(transmitted) \/ (All[i] \in sent /\ All[i].at > m.at)
    BY <1>4, <1>5, <1>7 DEF Ahead
  <2>2. Ahead(i)  BY <2>1 DEF Ahead
  <2>3. i > m.at  BY <1>1, <2>1, FlowLengths
  <2>4. CASE s \in sources
    BY <1>7, <2>2, <2>4 DEF SourcesPassed
  <2>5. CASE IsSource(m) /\ s = m.packet.id
    BY <1>1, <1>7, <2>3, <2>5 DEF FlowInv, SourcesAscend
  <2>. QED  BY <1>6, <2>4, <2>5
<1>8. SourcesPassed'  BY <1>5, <1>7 DEF SourcesPassed
<1>. QED  BY <1>3, <1>8

(* A remainder by the size of the identifier space. *)
LEMMA IdRemainder ==
  /\ MaxSource \in Nat
  /\ \A x \in Int : x % IdSpace \in Nat
  /\ \A x \in 0..(MaxSource - 1) : x % IdSpace = x
<1>1. IdSpace \in Nat \ {0} /\ MaxSource <= IdSpace /\ MaxSource \in Nat
  BY CodecAssumption, EncoderAssumptions
  DEF EP!WindowAssumption, EP!EncoderAssumption
<1>2. \A x \in Int : x % IdSpace \in Nat  BY <1>1
<1>3. \A x \in 0..(MaxSource - 1) : x % IdSpace = x  BY <1>1, ModSmall
<1>. QED  BY <1>1, <1>2, <1>3

(* The tracker on a datagram. *)
LEMMA LossDatagram ==
  ASSUME FlowInv, SourcesPassed, LossInv, NEW m \in sent, PollDatagram(m),
         UNCHANGED <<encoderVars, network, transmitted, pending>>
  PROVE  LossInv'
<1>1. /\ loss \in [received : Nat, expected : Nat, last_seen : Nat]
      /\ sources \subseteq 0..(window.next_id - 1)
      /\ sources = {} => loss.last_seen = 0
      /\ sources # {} => loss.last_seen \in sources
  BY DEF LossInv
<1>2. window' = window /\ window.next_id \in Nat /\ window.next_id <= MaxSource
  BY FlowLengths, SenderFacts DEF encoderVars, FlowInv, SenderOK
<1>3. IsFiniteSet(sources) /\ Cardinality(sources) \in Nat
  <2>1. IsFiniteSet(0..(window.next_id - 1))  BY <1>2, IntervalSize
  <2>. QED  BY <1>1, <2>1, FS_Subset, FS_CardinalityType
<1>. DEFINE card == Cardinality(sources)
<1>4. CASE ~IsSource(m)
  <2>1. loss' = on_coded /\ sources' = sources  BY <1>4 DEF PollDatagram, IsSource
  <2>2. /\ loss' \in [received : Nat, expected : Nat, last_seen : Nat]
        /\ loss'.received = loss.received + 1 /\ loss'.expected = loss.expected + 1
        /\ loss'.last_seen = loss.last_seen
    <3>. DEFINE r == loss.received
                x == loss.expected
    <3>1. r \in Nat /\ x \in Nat /\ loss.last_seen \in Nat
          /\ loss = [received |-> r, expected |-> x, last_seen |-> loss.last_seen]
      BY <1>1
    <3>2. loss' = [received |-> r + 1, expected |-> x + 1, last_seen |-> loss.last_seen]
      BY <2>1, <3>1 DEF on_coded
    <3>. QED  BY <3>1, <3>2
  <2>3. ASSUME LossCounts PROVE LossCounts'
    BY <1>1, <1>3, <2>1, <2>2, <2>3 DEF LossCounts
  <2>. QED  BY <1>1, <1>2, <2>1, <2>2, <2>3 DEF LossInv
<1>5. CASE IsSource(m)
  <2>. DEFINE id == m.packet.id
  <2>1. loss' = on_source(id) /\ sources' = sources \cup {id}
    BY <1>5 DEF PollDatagram, IsSource
  <2>2. id \in 0..(window.next_id - 1)
    BY <1>5, SentSound DEF EP!SoundPacket, IsSource
  <2>. HIDE DEF id
  <2>3. Gap(id) \in Nat
    <3>1. id - loss.last_seen \in Int  BY <1>1, <1>2, <2>2
    <3>. QED  BY <3>1, IdRemainder DEF Gap
  <2>. DEFINE g == IF Gap(id) < MaxGap THEN Gap(id) ELSE MaxGap
  <2>4. /\ g \in Nat
        /\ loss' \in [received : Nat, expected : Nat, last_seen : Nat]
        /\ loss'.received = loss.received + 1 /\ loss'.expected = loss.expected + g
        /\ loss'.last_seen = id
    BY <1>1, <1>2, <2>1, <2>2, <2>3, PipelineAssumption DEF on_source
  <2>5. ASSUME network = "fifo", LossCounts PROVE LossCounts'
    <3>1. \A s \in sources : s < id
      <4>1. \A s \in sources : s < m.packet.id  BY <1>5, <2>5, PassedByDatagram
      <4>. QED  BY <4>1 DEF id
    <3>2. loss.last_seen <= id /\ loss.last_seen \in Nat /\ id \in Nat
      BY <1>1, <1>2, <2>2, <3>1
    <3>3. Gap(id) = id - loss.last_seen
      <4>1. id - loss.last_seen \in 0..(MaxSource - 1)  BY <1>2, <2>2, <3>2, IdRemainder
      <4>. QED  BY <4>1, IdRemainder DEF Gap
    <3>4. Cardinality(sources') = card + 1
      <4>1. id \notin sources  BY <2>2, <1>2, <3>1
      <4>. QED  BY <1>3, <2>1, <4>1, FS_AddElement
    <3>5. sources' \subseteq 0..id  BY <1>1, <1>2, <2>1, <2>2, <3>1
    <3>6. /\ g <= id - loss.last_seen
          /\ id <= MaxGap => g = id - loss.last_seen
      BY <3>2, <3>3, PipelineAssumption
    <3>. HIDE DEF g
    <3>7. /\ card <= loss.received
          /\ loss.expected + card <= loss.last_seen + loss.received
          /\ loss.last_seen <= MaxGap => loss.expected + card = loss.last_seen + loss.received
      BY <2>5 DEF LossCounts
    <3>8. loss.expected \in Nat /\ loss.received \in Nat  BY <1>1
    <3>9. /\ Cardinality(sources') <= loss'.received
          /\ loss'.expected + Cardinality(sources') <= loss'.last_seen + loss'.received
      BY <1>3, <2>4, <3>2, <3>4, <3>6, <3>7, <3>8
    <3>10. loss'.last_seen <= MaxGap =>
             loss'.expected + Cardinality(sources') = loss'.last_seen + loss'.received
      BY <1>3, <2>4, <3>2, <3>4, <3>6, <3>7, <3>8, PipelineAssumption
    <3>. QED  BY <2>4, <3>5, <3>9, <3>10 DEF LossCounts
  <2>6. sources' \subseteq 0..(window'.next_id - 1) /\ loss'.last_seen \in sources'
    BY <1>1, <1>2, <2>1, <2>2, <2>4
  <2>. QED  BY <2>4, <2>5, <2>6 DEF LossInv
<1>. QED  BY <1>4, <1>5

LEMMA LossInit == PipelineInit => LossInv /\ SourcesPassed
<1>. SUFFICES ASSUME PipelineInit PROVE LossInv /\ SourcesPassed  OBVIOUS
<1>1. sources = {} /\ loss = [received |-> 0, expected |-> 0, last_seen |-> 0]
  BY DEF PipelineInit
<1>2. Cardinality(sources) = 0  BY <1>1, FS_EmptySet
<1>3. LossCounts  BY <1>1, <1>2 DEF LossCounts
<1>. QED  BY <1>1, <1>3 DEF LossInv, SourcesPassed

(* Only a datagram moves the tracker. *)
LEMMA LossStep ==
  FlowInv /\ SourcesPassed /\ LossInv /\ [PipelineNext]_pipelineVars
    => SourcesPassed' /\ LossInv'
<1>. SUFFICES ASSUME FlowInv, SourcesPassed, LossInv, [PipelineNext]_pipelineVars
              PROVE  SourcesPassed' /\ LossInv'
  OBVIOUS
<1>1. network' = network
  BY DEF PipelineNext, SenderTask, SocketDrains, ReaderTask, Decode, pipelineVars,
         codecVars, netVars
<1>2. ASSUME NEW m \in sent, PollDatagram(m),
             UNCHANGED <<encoderVars, transmitted, pending>>
      PROVE  SourcesPassed' /\ LossInv'
  <2>1. SourcesPassed'
    BY <1>1, <1>2, PassedByDatagram DEF SourcesPassed
  <2>2. LossInv'  BY <1>1, <1>2, LossDatagram
  <2>. QED  BY <2>1, <2>2
<1>3. CASE UNCHANGED <<loss, sources>>
  <2>1. SourcesPassed'  BY <1>1, <1>3, PassedStep
  <2>2. window'.next_id \in Nat /\ window.next_id <= window'.next_id
    <3>1. CASE StartSend
      BY <3>1, SubmitPackets, FlowLengths DEF StartSend, FlowInv
    <3>2. CASE ~StartSend
      <4>1. UNCHANGED encoderVars
        BY <3>2, OtherSteps DEF PollFlush
      <4>. QED  BY <4>1, FlowLengths DEF encoderVars
    <3>. QED  BY <3>1, <3>2
  <2>3. sources' \subseteq 0..(window'.next_id - 1)
    BY <1>3, <2>2, FlowLengths DEF LossInv
  <2>4. LossCounts => LossCounts'  BY <1>3 DEF LossCounts
  <2>. QED  BY <1>1, <1>3, <2>1, <2>3, <2>4 DEF LossInv
<1>4. CASE ReaderTask
  BY <1>2, <1>3, <1>4
  DEF ReaderTask, PollQueue, PollBlocked, WakeReader, sinkVars
<1>. QED
  BY <1>3, <1>4
  DEF PipelineNext, SenderTask, SocketDrains, Decode, pipelineVars, streamVars

(* Without reordering the loss that the receiver reports is never more     *)
(* than what was lost, and, as long as no gap exceeds the tracker's limit, *)
(* at most one packet less, for any mix of losses of source and coded      *)
(* packets.                                                                *)
THEOREM PipelineLossNotOverstated == PipelineSpec => []LossNotOverstated
<1>1. LossInv => LossNotOverstated
  <2>. SUFFICES ASSUME LossInv, network = "fifo", sources # {}
                PROVE  /\ Lost <= Cardinality((0..loss.last_seen) \ sources)
                       /\ loss.last_seen <= MaxGap =>
                            Cardinality((0..loss.last_seen) \ sources) <= Lost + 1
    BY Zenon DEF LossNotOverstated
  <2>. DEFINE l == loss.last_seen
              all == 0..l
  <2>1. l \in Nat /\ loss.expected \in Nat /\ loss.received \in Nat  BY DEF LossInv
  <2>2. LossCounts  BY DEF LossInv
  <2>3. IsFiniteSet(all) /\ Cardinality(all) = l + 1
    <3>1. ASSUME NEW k \in Nat PROVE IsFiniteSet(0..k) /\ Cardinality(0..k) = k + 1
      <4>1. 0 \in Int /\ k \in Int /\ ~(0 > k) /\ k - 0 + 1 = k + 1  OBVIOUS
      <4>2. /\ IsFiniteSet(0..k)
            /\ Cardinality(0..k) = IF 0 > k THEN 0 ELSE k - 0 + 1
        BY <4>1, FS_Interval, Zenon
      <4>. QED  BY <4>1, <4>2
    <3>. QED  BY <2>1, <3>1
  <2>4. all \cap sources = sources  BY <2>2 DEF LossCounts
  <2>5. Cardinality(all \ sources) = (l + 1) - Cardinality(sources)
    <3>. HIDE DEF all
    <3>. QED  BY <2>3, <2>4, FS_Difference
  <2>6. Cardinality(sources) \in Nat /\ Cardinality(sources) <= l + 1
    <3>1. sources \in SUBSET all  BY <2>2 DEF LossCounts
    <3>. HIDE DEF all
    <3>. QED  BY <2>3, <3>1, FS_Subset, FS_CardinalityType
  <2>. QED  BY <2>1, <2>2, <2>5, <2>6 DEF Lost, LossCounts
<1>. QED  BY <1>1, FlowInit, FlowStep, LossInit, LossStep, PTL DEF PipelineSpec
=============================================================================

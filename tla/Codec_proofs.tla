---------------------------- MODULE Codec_proofs ----------------------------
(***************************************************************************)
(* Proofs about Codec, from the lemmas about its two ends: what loss does  *)
(* to the data, what feedback tells the sender, what becomes of a symbol.  *)
(***************************************************************************)
EXTENDS Codec, NatLemmas, SequenceTheorems, TLAPS

EP == INSTANCE Encoder_proofs WITH Receivers <- {Receiver}
DP == INSTANCE DecoderFeedback_proofs WITH CodedInputs <- {}

(* What is in the network: packets that are what they say, in the order in *)
(* which they were sent, every source packet before the coded packets that *)
(* cover its symbol.                                                       *)
PacketsSound ==
  \A m \in sent : /\ m.at \in Nat /\ m.at < 2 * (window.next_id + coded_ids_used)
                  /\ EP!SoundPacket(m.packet, window.next_id)

SourcesFirst ==
  \A s, c \in sent :
    s.packet.kind = "source" /\ c.packet.kind = "coded" /\ s.packet.id \in c.packet.ids
      => s.at < c.at

(* No source packet of symbol i can arrive any more on a fifo network. *)
SourcePassed(i) ==
  /\ i < window.next_id
  /\ \A m \in sent : m.packet.kind = "source" /\ m.packet.id = i => m.at < arrived

(* Without reordering the matrix speaks only of symbols whose source       *)
(* packets have passed, so no source packet can hit the key of a row.      *)
FifoInv ==
  network = "fifo" => /\ ~late_pivot /\ DP!DataOK
                      /\ \A i \in D!SrcIds : DP!Mentions(i) => SourcePassed(i)

(* The encoder's half of the invariant. *)
SenderOK == EP!SenderInv /\ window.next_id <= MaxSource

CodecInv == /\ SenderOK /\ DP!TypeInv /\ arrived \in Nat
            /\ PacketsSound /\ SourcesFirst /\ FifoInv

----------------------------------------------------------------------------
(* The two names of each end: the proofs are about instances of the        *)
(* modules that Codec instantiates, with the same parameters.              *)

LEMMA SameVectors ==
  /\ D!SrcIds = DP!SrcIds /\ D!Vectors = DP!Vectors /\ D!MatrixRows = DP!MatrixRows
  /\ \A i : D!Unit(i) = DP!Unit(i)
BY DEF D!SrcIds, DP!SrcIds, D!Vectors, DP!Vectors, D!MatrixRows, DP!MatrixRows, D!Unit,
       DP!Unit

LEMMA SameDecoderInit == D!Init => DP!Init
BY Zenon DEF D!Init, DP!Init, D!EmptyMap, DP!EmptyMap, D!SrcIds, DP!SrcIds, D!NoRow,
             DP!NoRow

LEMMA SameHandleSource ==
  ASSUME NEW id, NEW data, D!HandleSource(id, data)
  PROVE  DP!HandleSource(id, data)
BY Zenon DEF D!HandleSource, DP!HandleSource, D!SrcIds, DP!SrcIds, D!OrInsert,
             DP!OrInsert, D!BufferInsert, DP!BufferInsert, D!Keys, DP!Keys, D!emitted,
             DP!emitted

LEMMA SameHandleCoded ==
  ASSUME NEW v, NEW w, D!HandleCoded(v, w)
  PROVE  DP!HandleCoded(v, w)
BY Zenon DEF D!HandleCoded, DP!HandleCoded, D!SrcIds, DP!SrcIds, D!Keys, DP!Keys,
             D!pivot_id, DP!pivot_id, D!Support, DP!Support, D!emitted, DP!emitted

LEMMA SameStep == ASSUME D!Step PROVE DP!Step
<1>1. ASSUME NEW k, D!SubstituteKnown(k) PROVE DP!SubstituteKnown(k)
  BY <1>1, Zenon DEF D!SubstituteKnown, DP!SubstituteKnown, D!SrcIds, DP!SrcIds,
                     D!IsFirst, DP!IsFirst, D!Substitute, DP!Substitute, D!MulAcc,
                     DP!MulAcc, D!stored, DP!stored, D!emitted, DP!emitted
<1>2. ASSUME NEW k, D!EliminateRow(k) PROVE DP!EliminateRow(k)
  BY <1>2, Zenon DEF D!EliminateRow, DP!EliminateRow, D!SrcIds, DP!SrcIds, D!IsFirst,
                     DP!IsFirst, D!subtract_scaled, DP!subtract_scaled, D!MulAcc,
                     DP!MulAcc, D!stored, DP!stored, D!emitted, DP!emitted
<1>3. ASSUME NEW k, D!HarvestRow(k) PROVE DP!HarvestRow(k)
  BY <1>3, Zenon DEF D!HarvestRow, DP!HarvestRow, D!SrcIds, DP!SrcIds, D!IsFirst,
                     DP!IsFirst, D!Support, DP!Support, D!is_solved, DP!is_solved,
                     D!SolvedId, DP!SolvedId, D!OrInsert, DP!OrInsert, D!stored,
                     DP!stored, D!emitted, DP!emitted
<1>4. ASSUME D!StartElimination PROVE DP!StartElimination
  BY <1>4, Zenon DEF D!StartElimination, DP!StartElimination, D!SrcIds, DP!SrcIds,
                     D!Support, DP!Support, D!is_zero, DP!is_zero, D!Keys, DP!Keys,
                     D!stored, DP!stored, D!emitted, DP!emitted
<1>5. ASSUME D!InsertRow PROVE DP!InsertRow
  BY <1>5, Zenon DEF D!InsertRow, DP!InsertRow, D!SrcIds, DP!SrcIds, D!Keys, DP!Keys,
                     D!Support, DP!Support, D!is_zero, DP!is_zero, D!pivot_id,
                     DP!pivot_id, D!normalize, DP!normalize, D!MulAcc, DP!MulAcc,
                     D!MulScale, DP!MulScale, D!subtract_scaled, DP!subtract_scaled,
                     D!back_substitute, DP!back_substitute, D!MakeRoom, DP!MakeRoom,
                     D!FirstKey, DP!FirstKey, D!Cardinality, DP!Cardinality, D!stored,
                     DP!stored, D!emitted, DP!emitted
<1>6. ASSUME D!Rescan PROVE DP!Rescan
  BY <1>6, Zenon DEF D!Rescan, DP!Rescan, D!SrcIds, DP!SrcIds, D!SolvedNow,
                     DP!SolvedNow, D!SolvedKeys, DP!SolvedKeys, D!Keys, DP!Keys,
                     D!Support, DP!Support, D!is_solved, DP!is_solved, D!stored,
                     DP!stored, D!emitted, DP!emitted
<1>7. ASSUME D!Finish PROVE DP!Finish
  BY <1>7, Zenon DEF D!Finish, DP!Finish, D!SrcIds, DP!SrcIds, D!Keys, DP!Keys,
                     D!EmptyMap, DP!EmptyMap, D!NoRow, DP!NoRow, D!OrInsert,
                     DP!OrInsert, D!BufferInsert, DP!BufferInsert, D!DrainEnd,
                     DP!DrainEnd, D!AckedIds, DP!AckedIds, D!PruneBelow, DP!PruneBelow,
                     D!FeedbackDue, DP!FeedbackDue, D!CounterAfter, DP!CounterAfter,
                     D!Cardinality, DP!Cardinality
<1>8. ASSUME NEW q, D!Cascade(q) PROVE DP!Cascade(q)
  BY <1>8, Zenon DEF D!Cascade, DP!Cascade, D!SrcIds, DP!SrcIds, D!Keys, DP!Keys,
                     D!Support, DP!Support, D!MulAcc, DP!MulAcc, D!Substitute,
                     DP!Substitute, D!is_solved, DP!is_solved, D!SolvedId, DP!SolvedId,
                     D!QueueAfter, DP!QueueAfter, D!stored, DP!stored, D!emitted,
                     DP!emitted
<1>. QED
  BY <1>1, <1>2, <1>3, <1>4, <1>5, <1>6, <1>7, <1>8, SameVectors DEF D!Step, DP!Step

LEMMA SameEncoderInit == E!Init => EP!Init
BY Zenon DEF E!Init, EP!Init, E!NewWindow, EP!NewWindow, E!NoAcks, EP!NoAcks,
             E!FirstCodedId, EP!FirstCodedId

LEMMA SameSubmitSource == ASSUME E!SubmitSource PROVE EP!SubmitSource
BY Zenon DEF E!SubmitSource, EP!SubmitSource, E!IsFull, EP!IsFull, E!EvictOldest,
             EP!EvictOldest, E!Push, EP!Push, E!Back, EP!Back, E!SourcePacket,
             EP!SourcePacket, E!PacketsDue, EP!PacketsDue, E!AccAfter, EP!AccAfter,
             E!GenerateCodedInner, EP!GenerateCodedInner, E!CodedIdAfter,
             EP!CodedIdAfter, E!GenerationAfter, EP!GenerationAfter, E!FirstCodedId,
             EP!FirstCodedId, E!coded_id_cycle, EP!coded_id_cycle, E!CodedPacket,
             EP!CodedPacket, E!Get, EP!Get, E!AtIndex, EP!AtIndex, E!Front, EP!Front,
             E!Id, EP!Id, E!WindowIds, EP!WindowIds, E!Cardinality, EP!Cardinality

LEMMA SameGenerateOne ==
  /\ \A cover : E!GenerateOne(cover) <=> EP!GenerateOne(cover)
  /\ E!WindowIds(window) = EP!WindowIds(window)
BY Zenon DEF E!GenerateOne, EP!GenerateOne, E!history, EP!history,
             E!GenerateCodedInner, EP!GenerateCodedInner, E!CodedIdAfter,
             EP!CodedIdAfter, E!GenerationAfter, EP!GenerationAfter, E!FirstCodedId,
             EP!FirstCodedId, E!coded_id_cycle, EP!coded_id_cycle, E!CodedPacket,
             EP!CodedPacket, E!Get, EP!Get, E!AtIndex, EP!AtIndex, E!Front, EP!Front,
             E!Id, EP!Id, E!WindowIds, EP!WindowIds, E!Cardinality, EP!Cardinality

LEMMA SameHandleFeedback ==
  ASSUME NEW r, NEW f, NEW loss, E!HandleFeedback(r, f, loss)
  PROVE  EP!HandleFeedback(r, f, loss)
BY Zenon DEF E!HandleFeedback, EP!HandleFeedback, E!Update, EP!Update, E!EntryOf,
             EP!EntryOf, E!EmptyEntry, EP!EmptyEntry, E!FirstMissing, EP!FirstMissing,
             E!RemoveIds, EP!RemoveIds, E!WindowIds, EP!WindowIds, E!Id, EP!Id,
             E!check_contiguous, EP!check_contiguous, E!Adjacent, EP!Adjacent,
             E!MayRemove, EP!MayRemove, E!AckedBy, EP!AckedBy, E!KnownReceivers,
             EP!KnownReceivers, E!IsAcked, EP!IsAcked, E!EntryAcks, EP!EntryAcks,
             E!RateAfter, EP!RateAfter, E!coder, EP!coder, E!Cardinality,
             EP!Cardinality

(* The assumptions of the two ends hold under both names. *)
LEMMA EncoderAssumptions ==
  EP!WindowAssumption /\ EP!ReceiverAssumption /\ EP!EncoderAssumption
BY CodecAssumption DEF E!ConfigType, EP!ConfigType, E!Policies, EP!Policies, E!Entries,
                       EP!Entries, E!IsFiniteSet, EP!IsFiniteSet

LEMMA DecoderAssumptions ==
  /\ DP!NumIdsAssumption /\ DP!FieldAssumption
  /\ DP!AbsentAssumption /\ DP!DecoderAssumption
BY CodecAssumption, SameVectors

----------------------------------------------------------------------------
(* What the two ends promise, in the words of Codec. *)

(* The sender's counters within the bounds of the session. *)
LEMMA SenderFacts ==
  ASSUME SenderOK
  PROVE  /\ window.next_id \in Nat /\ coded_ids_used \in Nat
         /\ config.strategy \in {"Cauchy", "Vandermonde"}
         /\ MaxSource \in Nat /\ NumIds \in Nat /\ IdSpace \in Nat
         /\ window.next_id <= NumIds /\ window.next_id <= IdSpace
<1>1. window.next_id \in Nat /\ coded_ids_used \in Nat /\ config \in Configs
  BY DEF SenderOK, EP!SenderInv, EP!CoderOK, EP!GoodWindow, EP!Windows
<1>2. config.strategy \in {"Cauchy", "Vandermonde"}
  BY <1>1, EncoderAssumptions DEF EP!ConfigType
<1>3. MaxSource \in Nat /\ NumIds \in Nat /\ IdSpace \in Nat
  BY CodecAssumption
<1>. QED  BY <1>1, <1>2, <1>3, CodecAssumption DEF SenderOK

(* submit_source. *)
LEMMA SubmitPackets ==
  ASSUME SenderOK, E!SubmitSource
  PROVE  /\ SenderOK' /\ config' = config
         /\ window'.next_id = window.next_id + 1
         /\ coded_ids_used' \in Nat /\ coded_ids_used <= coded_ids_used' /\ ~panicked'
         /\ \A p \in output' : /\ EP!SoundPacket(p, window.next_id + 1)
                               /\ p.kind = "source" => p.id = window.next_id
<1>1. EP!SubmitSource  BY SameSubmitSource
<1>2. window.next_id < MaxSource  BY DEF E!SubmitSource
<1>3. window.next_id < IdSpace  BY <1>2, SenderFacts, CodecAssumption
<1>4. /\ EP!SenderInv' /\ config' = config
      /\ window'.next_id = window.next_id + 1
      /\ coded_ids_used' \in Nat /\ coded_ids_used <= coded_ids_used' /\ ~panicked'
      /\ \A p \in output' : /\ EP!SoundPacket(p, window.next_id + 1)
                            /\ p.kind = "source" => p.id = window.next_id
  BY <1>1, <1>3, EncoderAssumptions, EP!SenderSubmit DEF SenderOK
<1>. QED  BY <1>2, <1>4, SenderFacts DEF SenderOK

(* A call that sends one coded packet. *)
LEMMA OnePacket ==
  ASSUME SenderOK, NEW cover \in SUBSET E!WindowIds(window), E!GenerateOne(cover)
  PROVE  /\ SenderOK' /\ config' = config /\ window' = window
         /\ coded_ids_used' = coded_ids_used + 1
         /\ \A p \in output' : EP!SoundPacket(p, window.next_id) /\ p.kind = "coded"
<1>1. cover \in SUBSET EP!WindowIds(window) /\ EP!GenerateOne(cover)
  BY SameGenerateOne
<1>2. /\ EP!SenderInv' /\ config' = config /\ window' = window
      /\ coded_ids_used' = coded_ids_used + 1
      /\ \A p \in output' : EP!SoundPacket(p, window.next_id) /\ p.kind = "coded"
  BY <1>1, SenderFacts, EncoderAssumptions, EP!SenderGenerate DEF SenderOK
<1>. QED  BY <1>2 DEF SenderOK

(* The calls of Generate. *)
LEMMA GeneratePackets ==
  ASSUME SenderOK, Generate
  PROVE  /\ SenderOK' /\ config' = config /\ window' = window
         /\ coded_ids_used' = coded_ids_used + 1
         /\ \A p \in output' : EP!SoundPacket(p, window.next_id) /\ p.kind = "coded"
<1>1. \E cover \in SUBSET E!WindowIds(window) : E!GenerateOne(cover)
  <2>1. CASE E!GenerateCoded
    BY <2>1 DEF E!GenerateCoded
  <2>2. CASE \E m \in 1..Capacity : E!GenerateCodedRecent(m)
    BY <2>2 DEF E!GenerateCodedRecent, E!WindowIds
  <2>3. CASE E!GenerateCodedForReceiver(Receiver)
    BY <2>3 DEF E!GenerateCodedForReceiver
  <2>. QED  BY <2>1, <2>2, <2>3 DEF Generate
<1>. QED  BY <1>1, OnePacket

(* handle_feedback, for feedback of whatever content. *)
LEMMA FeedbackHandled ==
  ASSUME SenderOK, NEW r, NEW f, NEW loss, E!HandleFeedback(r, f, loss)
  PROVE  /\ SenderOK' /\ config' = config /\ window'.next_id = window.next_id
         /\ coded_ids_used' = coded_ids_used
<1>1. EP!HandleFeedback(r, f, loss)  BY SameHandleFeedback
<1>2. /\ EP!SenderInv' /\ config' = config /\ window'.next_id = window.next_id
      /\ coded_ids_used' = coded_ids_used
  BY <1>1, EncoderAssumptions, EP!SenderFeedback DEF SenderOK
<1>. QED  BY <1>2 DEF SenderOK

(* The vectors of a sound coded packet: the payload is the combination     *)
(* that the coefficients say, of exactly the symbols it lists.             *)
LEMMA CodedVectors ==
  ASSUME SenderOK, NEW p, p.kind = "coded", EP!SoundPacket(p, window.next_id)
  PROVE  /\ CoefVector(p) \in DP!Vectors /\ PayloadVector(p) = CoefVector(p)
         /\ DP!Support(CoefVector(p)) # {}
         /\ \A i \in DP!SrcIds : CoefVector(p)[i] # Zero <=> i \in p.ids
<1>1. /\ p.ids # {} /\ p.ids \subseteq 0..(window.next_id - 1)
      /\ \A id \in p.ids : p.data[id] = id
      /\ p.coded_id \in EP!FirstCodedId..(EP!FirstCodedId + EP!coded_id_cycle - 1)
      /\ p.generation \in 0..(GenSpace - 1)
  BY DEF EP!SoundPacket
<1>2. p.ids \subseteq D!SrcIds  BY <1>1, SenderFacts DEF D!SrcIds
<1>3. \A i \in p.ids : CoefOf(p, i) \in F \ {Zero}
  <2>1. CASE config.strategy = "Cauchy"
    <3>1. p.coded_id \in 0..(CauchyCycle - 1)
      BY <1>1, <2>1, EncoderAssumptions DEF EP!FirstCodedId, EP!coded_id_cycle
    <3>. QED  BY <1>1, <1>2, <2>1, <3>1, CoefAssumption DEF CoefOf
  <2>2. CASE config.strategy = "Vandermonde"
    <3>1. p.coded_id \in 1..VandermondeCycle
      BY <1>1, <2>2, EncoderAssumptions DEF EP!FirstCodedId, EP!coded_id_cycle
    <3>. QED  BY <1>1, <1>2, <2>2, <3>1, CoefAssumption DEF CoefOf
  <2>. QED  BY <2>1, <2>2, SenderFacts
<1>4. CoefVector(p) \in [D!SrcIds -> F]
  BY <1>3, DecoderAssumptions DEF CoefVector
<1>5. PayloadVector(p) = CoefVector(p)
  <2>1. ASSUME NEW i \in D!SrcIds
        PROVE  (\E id \in p.ids : p.data[id] = i) <=> i \in p.ids
    BY <1>1
  <2>2. ASSUME NEW i \in p.ids
        PROVE  (CHOOSE id \in p.ids : p.data[id] = i) = i
    BY <1>1, <2>2
  <2>. QED  BY <2>1, <2>2 DEF PayloadVector, CoefVector
<1>6. DP!Support(CoefVector(p)) # {}
  BY <1>1, <1>2, <1>3, SameVectors DEF DP!Support, CoefVector
<1>7. \A i \in DP!SrcIds : CoefVector(p)[i] # Zero <=> i \in p.ids
  BY <1>3, SameVectors DEF CoefVector
<1>. QED  BY <1>4, <1>5, <1>6, <1>7, SameVectors DEF DP!Vectors

(* A step of a call. *)
LEMMA StepTypes == ASSUME DP!TypeInv, D!Step PROVE DP!TypeInv'
<1>1. DP!Next  BY SameStep DEF DP!Next
<1>. QED  BY <1>1, DecoderAssumptions, DP!TypeStep

LEMMA StepSafe ==
  ASSUME DP!TypeInv, DP!DataOK, ~late_pivot, D!Step
  PROVE  DP!DataOK' /\ ~late_pivot'
BY SameStep, DecoderAssumptions, DP!StepData

LEMMA StepMentions ==
  ASSUME DP!TypeInv, D!Step
  PROVE  \A i \in D!SrcIds : DP!Mentions(i)' => DP!Mentions(i)
BY SameStep, SameVectors, DecoderAssumptions, DP!MentionStep

----------------------------------------------------------------------------
(* The invariant of the composition. *)

(* The packets of a call of the sender. *)
OutputSound ==
  \A p \in output' : /\ EP!SoundPacket(p, window'.next_id)
                     /\ p.kind = "source" => p.id = window.next_id

(* What a call of the sender does to the composition: it counts what it    *)
(* sends, and stamps sound packets before counting them.                   *)
SenderStep ==
  /\ SenderOK' /\ config' = config
  /\ window'.next_id \in {window.next_id, window.next_id + 1}
  /\ coded_ids_used' \in Nat /\ coded_ids_used <= coded_ids_used'
  /\ window'.next_id + coded_ids_used' > window.next_id + coded_ids_used
  /\ OutputSound

LEMMA TransmitSound ==
  ASSUME CodecInv, SenderStep, Transmit, UNCHANGED <<decoderVars, network, arrived>>
  PROVE  CodecInv'
<1>. USE DEF SenderStep, OutputSound
<1>. DEFINE n == window.next_id
            u == coded_ids_used
<1>1. n \in Nat /\ u \in Nat /\ n <= window'.next_id /\ window'.next_id \in Nat
  BY SenderFacts DEF CodecInv
<1>2. \A p \in output' : p.kind \in {"source", "coded"}  BY DEF EP!SoundPacket
<1>3. \A p \in output' : Stamp(p) = IF p.kind = "source" THEN 2 * (n + u) ELSE 2 * (n + u) + 1
  BY <1>1 DEF Stamp
<1>4. \A m \in sent' \ sent :
        /\ m.packet \in output'
        /\ m.at = IF m.packet.kind = "source" THEN 2 * (n + u) ELSE 2 * (n + u) + 1
  BY <1>3 DEF Transmit
<1>5. \A m \in sent : /\ m.at \in Nat /\ m.at < 2 * (n + u)
                      /\ EP!SoundPacket(m.packet, n)
  BY DEF CodecInv, PacketsSound
<1>6. \A p : EP!SoundPacket(p, n) => EP!SoundPacket(p, window.next_id)'
  BY <1>1 DEF EP!SoundPacket, EP!FirstCodedId, EP!coded_id_cycle
<1>7. \A p : EP!SoundPacket(p, window'.next_id) => EP!SoundPacket(p, window.next_id)'
  BY DEF EP!SoundPacket, EP!FirstCodedId, EP!coded_id_cycle
<1>8. PacketsSound'
  <2>. SUFFICES ASSUME NEW m \in sent'
                PROVE  /\ m.at \in Nat
                       /\ m.at < 2 * (window'.next_id + coded_ids_used')
                       /\ EP!SoundPacket(m.packet, window.next_id)'
    BY DEF PacketsSound
  <2>1. CASE m \in sent
    BY <1>1, <1>5, <1>6, <2>1
  <2>2. CASE m \notin sent
    BY <1>1, <1>4, <1>7, <2>2
  <2>. QED  BY <2>1, <2>2
<1>9. SourcesFirst'
  <2>. SUFFICES ASSUME NEW s \in sent', NEW c \in sent', s.packet.kind = "source",
                       c.packet.kind = "coded", s.packet.id \in c.packet.ids
                PROVE  s.at < c.at
    BY DEF SourcesFirst
  <2>1. CASE s \in sent /\ c \in sent
    BY <2>1 DEF CodecInv, SourcesFirst
  <2>2. CASE s \notin sent /\ c \in sent
    <3>1. s.packet.id = n  BY <1>4, <2>2
    <3>2. c.packet.ids \subseteq 0..(n - 1)  BY <1>5, <2>2 DEF EP!SoundPacket
    <3>. QED  BY <1>1, <3>1, <3>2
  <2>3. CASE c \notin sent
    <3>1. c.at = 2 * (n + u) + 1  BY <1>4, <2>3
    <3>2. s.at \in Nat /\ s.at <= 2 * (n + u)  BY <1>1, <1>4, <1>5
    <3>. QED  BY <1>1, <3>1, <3>2
  <2>. QED  BY <2>1, <2>2, <2>3
<1>10. FifoInv'
  <2>. SUFFICES ASSUME network = "fifo"
                PROVE  /\ ~late_pivot' /\ DP!DataOK'
                       /\ \A i \in D!SrcIds : DP!Mentions(i)' => SourcePassed(i)'
    BY DEF FifoInv
  <2>1. ~late_pivot /\ DP!DataOK /\ \A i \in D!SrcIds : DP!Mentions(i) => SourcePassed(i)
    BY DEF CodecInv, FifoInv
  <2>2. ~late_pivot' /\ DP!DataOK' /\ \A i : DP!Mentions(i)' <=> DP!Mentions(i)
    BY <2>1 DEF decoderVars, DP!DataOK, DP!RowsOK, DP!PayloadsOK, DP!QueueOK, DP!CurOK,
                DP!Keys, DP!Mentions
  <2>3. \A i \in D!SrcIds : SourcePassed(i) => SourcePassed(i)'
    <3>. SUFFICES ASSUME NEW i \in D!SrcIds, SourcePassed(i)
                  PROVE  SourcePassed(i)'
      OBVIOUS
    <3>1. i \in Int /\ i < n  BY DEF SourcePassed, D!SrcIds
    <3>2. i < window'.next_id  BY <1>1, <3>1
    <3>3. ASSUME NEW m \in sent', m.packet.kind = "source", m.packet.id = i
          PROVE  m.at < arrived'
      <4>1. m \in sent  BY <1>1, <1>4, <3>1, <3>3
      <4>. QED  BY <3>3, <4>1 DEF SourcePassed
    <3>. QED  BY <3>2, <3>3 DEF SourcePassed
  <2>. QED  BY <2>1, <2>2, <2>3
<1>11. DP!TypeInv' /\ arrived' \in Nat
  <2>1. UNCHANGED DP!decVars
    BY DEF decoderVars, DP!decVars, DP!matrix, DP!stored, DP!emitted
  <2>2. DP!TypeInv'  BY <2>1, DecoderAssumptions, DP!TypeStep DEF CodecInv
  <2>. QED  BY <2>2 DEF CodecInv
<1>. QED  BY <1>8, <1>9, <1>10, <1>11 DEF CodecInv

(* The sender's calls. *)
LEMMA EncodeInv == CodecInv /\ Encode => CodecInv'
<1>. SUFFICES ASSUME CodecInv, Encode PROVE CodecInv'  OBVIOUS
<1>1. SenderOK /\ UNCHANGED <<decoderVars, network, arrived>> /\ Transmit
  BY DEF CodecInv, Encode, Submit, Generate
<1>2. window.next_id \in Nat /\ coded_ids_used \in Nat  BY <1>1, SenderFacts
<1>3. CASE Submit
  <2>1. E!SubmitSource  BY <1>3 DEF Submit
  <2>2. window'.next_id = window.next_id + 1  BY <1>1, <2>1, SubmitPackets
  <2>3. SenderOK'  BY <1>1, <2>1, SubmitPackets
  <2>4. config' = config /\ coded_ids_used' \in Nat /\ coded_ids_used <= coded_ids_used'
    BY <1>1, <2>1, SubmitPackets
  <2>5. OutputSound
    BY <1>1, <2>1, <2>2, SubmitPackets DEF OutputSound
  <2>6. window'.next_id + coded_ids_used' > window.next_id + coded_ids_used
    BY <1>2, <2>2, <2>4
  <2>7. window'.next_id \in {window.next_id, window.next_id + 1}
    BY <2>2
  <2>8. SenderStep  BY <2>3, <2>4, <2>5, <2>6, <2>7 DEF SenderStep
  <2>. QED  BY <1>1, <2>8, TransmitSound
<1>4. CASE Generate
  <2>1. /\ SenderOK' /\ config' = config /\ window' = window
        /\ coded_ids_used' = coded_ids_used + 1
        /\ \A p \in output' : EP!SoundPacket(p, window'.next_id) /\ p.kind # "source"
    BY <1>1, <1>4, GeneratePackets
  <2>2. /\ coded_ids_used' \in Nat /\ coded_ids_used <= coded_ids_used'
        /\ window'.next_id + coded_ids_used' > window.next_id + coded_ids_used
    BY <1>2, <2>1
  <2>3. SenderStep  BY <2>1, <2>2 DEF SenderStep, OutputSound
  <2>. QED  BY <1>1, <2>3, TransmitSound
<1>. QED  BY <1>3, <1>4 DEF Encode

(* The packets in the network, while the sender's counters rest. *)
LEMMA NetworkRests ==
  ASSUME CodecInv, UNCHANGED <<config, sent, coded_ids_used, network>>,
         window'.next_id = window.next_id
  PROVE  PacketsSound' /\ SourcesFirst'
BY DEF CodecInv, PacketsSound, SourcesFirst, EP!SoundPacket, EP!FirstCodedId,
       EP!coded_id_cycle

(* The sender's variables at rest. *)
LEMMA SenderRests == ASSUME SenderOK, UNCHANGED encoderVars PROVE SenderOK'
BY DEF encoderVars, SenderOK, EP!SenderInv, EP!CoderOK, EP!GoodWindow, EP!FirstCodedId,
       EP!coded_id_cycle

(* What the arrival of a packet does to the decoder. *)
LEMMA SourceArrives ==
  ASSUME SenderOK, NEW p, p.kind = "source", EP!SoundPacket(p, window.next_id), Handle(p)
  PROVE  p.id \in DP!SrcIds /\ DP!HandleSource(p.id, DP!Unit(p.id))
<1>1. p.id \in 0..(window.next_id - 1) /\ p.data = p.id  BY DEF EP!SoundPacket
<1>2. p.id \in DP!SrcIds  BY <1>1, SenderFacts DEF DP!SrcIds
<1>3. DP!HandleSource(p.id, DP!Unit(p.id))
  BY <1>1, SameHandleSource, SameVectors DEF Handle
<1>. QED  BY <1>2, <1>3

LEMMA CodedArrives ==
  ASSUME SenderOK, NEW p, p.kind = "coded", EP!SoundPacket(p, window.next_id), Handle(p)
  PROVE  DP!HandleCoded(CoefVector(p), CoefVector(p))
<1>1. PayloadVector(p) = CoefVector(p)  BY CodedVectors
<1>. QED  BY <1>1, SameHandleCoded DEF Handle

(* The packet that is received. *)
LEMMA Received ==
  ASSUME CodecInv, NEW m \in sent, Receive(m)
  PROVE  SenderOK /\ EP!SoundPacket(m.packet, window.next_id) /\ Handle(m.packet)
BY DEF CodecInv, PacketsSound, Receive

(* A source packet arrives: on a fifo network no row speaks of its symbol. *)
LEMMA ReceiveSource ==
  ASSUME CodecInv, NEW m \in sent, Receive(m), m.packet.kind = "source"
  PROVE  DP!TypeInv' /\ FifoInv'
<1>. DEFINE id == m.packet.id
<1>1. m.at \in Nat  BY DEF CodecInv, PacketsSound
<1>2. id \in DP!SrcIds  BY Received, SourceArrives
<1>3. DP!HandleSource(id, DP!Unit(id))  BY Received, SourceArrives
<1>4. DP!Unit(id) \in DP!Vectors  BY <1>2, DecoderAssumptions, DP!UnitType
<1>5. DP!TypeInv'
  BY <1>2, <1>3, <1>4, DecoderAssumptions, DP!HandleSourceType DEF CodecInv
<1>6. ASSUME network = "fifo"
      PROVE  /\ ~late_pivot' /\ DP!DataOK'
             /\ \A i \in D!SrcIds : DP!Mentions(i)' => SourcePassed(i)'
  <2>1. ~late_pivot /\ DP!DataOK /\ \A i \in D!SrcIds : DP!Mentions(i) => SourcePassed(i)
    BY <1>6 DEF CodecInv, FifoInv
  <2>2. m.at >= arrived /\ arrived' = m.at /\ arrived \in Nat
    BY <1>6 DEF Receive, CodecInv
  <2>3. rows[id] = Absent
    <3>. SUFFICES ASSUME rows[id] # Absent PROVE FALSE  OBVIOUS
    <3>1. id \in DP!Keys(rows)  BY <1>2 DEF DP!Keys
    <3>2. rows[id].coefs[id] = One  BY <2>1, <3>1 DEF DP!DataOK, DP!RowsOK
    <3>3. DP!Mentions(id)  BY <3>1, <3>2, DecoderAssumptions DEF DP!Mentions
    <3>4. m.at < arrived  BY <1>2, <2>1, <3>3, SameVectors DEF SourcePassed
    <3>. QED  BY <1>1, <2>2, <3>4
  <2>4. ~late_pivot'  BY <1>3, <2>1, <2>3 DEF DP!HandleSource
  <2>5. DP!DataOK'
    BY <1>2, <1>3, <2>1, <2>4, DecoderAssumptions, DP!HandleSourceData DEF CodecInv
  <2>6. \A i : DP!Mentions(i)' => DP!Mentions(i)
    BY <1>3 DEF DP!HandleSource, DP!Mentions, DP!Keys
  <2>7. \A i \in D!SrcIds : SourcePassed(i) => SourcePassed(i)'
    <3>1. window' = window /\ sent' = sent  BY DEF Receive, encoderVars
    <3>2. \A s \in sent : s.at \in Nat  BY DEF CodecInv, PacketsSound
    <3>. QED  BY <1>1, <2>2, <3>1, <3>2 DEF SourcePassed
  <2>. QED  BY <2>1, <2>4, <2>5, <2>6, <2>7
<1>. QED  BY <1>5, <1>6 DEF FifoInv, Receive

(* A coded packet arrives: the source packets of what it covers were sent  *)
(* before it.                                                              *)
LEMMA ReceiveCoded ==
  ASSUME CodecInv, NEW m \in sent, Receive(m), m.packet.kind = "coded"
  PROVE  DP!TypeInv' /\ FifoInv'
<1>. DEFINE p == m.packet
            v == CoefVector(p)
<1>1. EP!SoundPacket(p, window.next_id) /\ m.at \in Nat
  BY DEF CodecInv, PacketsSound
<1>2. p.ids \subseteq 0..(window.next_id - 1)  BY <1>1 DEF EP!SoundPacket
<1>3. /\ v \in DP!Vectors /\ DP!Support(v) # {}
      /\ \A i \in DP!SrcIds : v[i] # Zero => i \in p.ids
  BY <1>1, CodedVectors DEF CodecInv
<1>4. DP!HandleCoded(v, v)  BY Received, CodedArrives
<1>. HIDE DEF v
<1>5. DP!TypeInv'
  BY <1>3, <1>4, DecoderAssumptions, DP!HandleCodedType DEF CodecInv
<1>6. ASSUME network = "fifo"
      PROVE  /\ ~late_pivot' /\ DP!DataOK'
             /\ \A i \in D!SrcIds : DP!Mentions(i)' => SourcePassed(i)'
  <2>1. ~late_pivot /\ DP!DataOK /\ \A i \in D!SrcIds : DP!Mentions(i) => SourcePassed(i)
    BY <1>6 DEF CodecInv, FifoInv
  <2>2. m.at >= arrived /\ arrived' = m.at /\ arrived \in Nat
    BY <1>6 DEF Receive, CodecInv
  <2>3. ~late_pivot'  BY <1>4, <2>1 DEF DP!HandleCoded
  <2>4. DP!DataOK'
    BY <1>3, <1>4, <2>1, DecoderAssumptions, DP!HandleCodedData DEF CodecInv
  <2>5. \A i \in D!SrcIds : DP!Mentions(i)' => DP!Mentions(i) \/ i \in p.ids
    BY <1>3, <1>4, SameVectors DEF DP!HandleCoded, DP!Mentions, DP!Keys
  <2>6. window' = window /\ sent' = sent  BY DEF Receive, encoderVars
  <2>7. \A s \in sent : s.at \in Nat  BY DEF CodecInv, PacketsSound
  <2>8. \A i \in D!SrcIds : SourcePassed(i) => SourcePassed(i)'
    BY <1>1, <2>2, <2>6, <2>7 DEF SourcePassed
  <2>9. \A i \in p.ids : SourcePassed(i)'
    <3>. SUFFICES ASSUME NEW i \in p.ids
                  PROVE  /\ i < window.next_id
                         /\ \A s \in sent : s.packet.kind = "source" /\ s.packet.id = i
                                              => s.at < m.at
      BY <2>2, <2>6 DEF SourcePassed
    <3>1. i < window.next_id  BY <1>2, SenderFacts DEF CodecInv
    <3>. QED  BY <3>1 DEF CodecInv, SourcesFirst
  <2>. QED  BY <2>1, <2>3, <2>4, <2>5, <2>8, <2>9
<1>. QED  BY <1>5, <1>6 DEF FifoInv, Receive

(* Everything else leaves the network alone. *)
LEMMA CodecStep == CodecInv /\ [Next]_codecVars => CodecInv'
<1>. SUFFICES ASSUME CodecInv, [Next]_codecVars PROVE CodecInv'  OBVIOUS
<1>1. ASSUME NEW m \in sent, Receive(m) PROVE CodecInv'
  <2>1. UNCHANGED <<encoderVars, network, sent>>  BY <1>1 DEF Receive
  <2>2. SenderOK' /\ PacketsSound' /\ SourcesFirst'
    BY <2>1, SenderRests, NetworkRests DEF CodecInv, encoderVars
  <2>3. m.packet.kind \in {"source", "coded"} /\ m.at \in Nat
    BY DEF CodecInv, PacketsSound, EP!SoundPacket
  <2>4. DP!TypeInv' /\ FifoInv'  BY <1>1, <2>3, ReceiveSource, ReceiveCoded
  <2>5. arrived' \in Nat  BY <1>1, <2>3 DEF Receive, CodecInv
  <2>. QED  BY <2>2, <2>4, <2>5 DEF CodecInv
<1>2. CASE DecoderStep
  <2>1. D!Step /\ UNCHANGED <<encoderVars, network, sent, arrived>>
    BY <1>2 DEF DecoderStep
  <2>2. SenderOK' /\ PacketsSound' /\ SourcesFirst'
    BY <2>1, SenderRests, NetworkRests DEF CodecInv, encoderVars
  <2>3. DP!TypeInv'  BY <2>1, StepTypes DEF CodecInv
  <2>4. FifoInv'
    <3>1. \A i \in D!SrcIds : SourcePassed(i) => SourcePassed(i)'
      BY <2>1 DEF SourcePassed, encoderVars
    <3>. QED  BY <2>1, <3>1, StepSafe, StepMentions DEF CodecInv, FifoInv
  <2>. QED  BY <2>1, <2>2, <2>3, <2>4 DEF CodecInv
<1>3. CASE /\ UNCHANGED <<decoderVars, network, sent, arrived, config, coded_ids_used>>
           /\ window'.next_id = window.next_id /\ SenderOK'
  <2>1. PacketsSound' /\ SourcesFirst'  BY <1>3, NetworkRests
  <2>2. UNCHANGED DP!decVars
    BY <1>3 DEF decoderVars, DP!decVars, DP!matrix, DP!stored, DP!emitted
  <2>3. DP!TypeInv'  BY <2>2, DecoderAssumptions, DP!TypeStep DEF CodecInv
  <2>4. FifoInv'
    BY <1>3 DEF CodecInv, FifoInv, SourcePassed, decoderVars, DP!DataOK, DP!RowsOK,
                DP!PayloadsOK, DP!QueueOK, DP!CurOK, DP!Keys, DP!Mentions
  <2>. QED  BY <1>3, <2>1, <2>3, <2>4 DEF CodecInv
<1>4. ASSUME NEW d \in inbox, ReceiveFeedback(d) PROVE CodecInv'
  <2>1. UNCHANGED <<decoderVars, network, sent, arrived>>
    BY <1>4 DEF ReceiveFeedback, netVars
  <2>2. \E f, loss : E!HandleFeedback(Receiver, f, loss)  BY <1>4 DEF ReceiveFeedback
  <2>. QED  BY <1>3, <2>1, <2>2, FeedbackHandled DEF CodecInv
<1>5. CASE \E d \in PeerData : PeerSends(d)
  BY <1>3, <1>5, SenderRests DEF PeerSends, CodecInv, encoderVars
<1>6. CASE UNCHANGED codecVars
  BY <1>3, <1>6, SenderRests DEF codecVars, netVars, CodecInv, encoderVars
<1>. QED  BY <1>1, <1>2, <1>4, <1>5, <1>6, EncodeInv DEF Next

(* The invariant holds at the start. *)
LEMMA CodecInit == Init => CodecInv
<1>. SUFFICES ASSUME Init PROVE CodecInv  OBVIOUS
<1>1. EP!SenderInv
  BY SameEncoderInit, EncoderAssumptions, EP!SenderInit DEF Init
<1>2. window.next_id = 0  BY DEF Init, E!Init, E!NewWindow
<1>3. DP!Init  BY SameDecoderInit DEF Init
<1>4. DP!TypeInv /\ DP!DataInv /\ ~late_pivot
  BY <1>3, DecoderAssumptions, DP!InitType, DP!InitData DEF DP!Init
<1>5. \A i \in D!SrcIds : ~DP!Mentions(i)
  BY <1>3, SameVectors DEF DP!Init, DP!Mentions, DP!Keys, DP!EmptyMap, DP!NoRow
<1>6. SenderOK  BY <1>1, <1>2, CodecAssumption DEF SenderOK
<1>7. FifoInv  BY <1>4, <1>5 DEF FifoInv, DP!DataInv, DP!DataOK
<1>. QED  BY <1>4, <1>6, <1>7 DEF Init, CodecInv, PacketsSound, SourcesFirst

(* Loss alone is harmless, end to end: on a network that does not reorder, *)
(* no source packet arrives for the key of a matrix row, and everything    *)
(* the decoder delivers is what the application submitted, for every       *)
(* configuration of the encoder, every choice of coded packets, any loss   *)
(* and any feedback, whatever it says.                                     *)
THEOREM CodecFifoIsSafe == Spec => []FifoIsSafe
<1>1. CodecInv => FifoIsSafe
  BY SameVectors DEF CodecInv, FifoInv, FifoIsSafe, DP!DataOK, DP!PayloadsOK
<1>. QED  BY <1>1, CodecInit, CodecStep, PTL DEF Spec

----------------------------------------------------------------------------
(* Feedback on the wire. *)

(* Two sequences, one after the other. *)
LEMMA Joined ==
  ASSUME NEW S, NEW s \in Seq(S), NEW t \in Seq(S)
  PROVE  /\ s \o t \in Seq(S) /\ Len(s \o t) = Len(s) + Len(t)
         /\ \A i \in 1..Len(s) : (s \o t)[i] = s[i]
         /\ \A i \in 1..Len(t) : (s \o t)[Len(s) + i] = t[i]
<1>1. Len(s) \in Nat /\ Len(t) \in Nat  BY LenProperties
<1>. QED BY <1>1, ConcatProperties

(* A buffer made of six parts, the first five of four bytes. *)
Parts(S, s, a, b, c, d, e, p) ==
  /\ a \in Seq(S) /\ b \in Seq(S) /\ c \in Seq(S) /\ d \in Seq(S) /\ e \in Seq(S)
  /\ p \in Seq(S)
  /\ Len(a) = 4 /\ Len(b) = 4 /\ Len(c) = 4 /\ Len(d) = 4 /\ Len(e) = 4
  /\ s = a \o b \o c \o d \o e \o p

LEMMA PartsRead ==
  ASSUME NEW S, NEW s, NEW a, NEW b, NEW c, NEW d, NEW e, NEW p,
         Parts(S, s, a, b, c, d, e, p)
  PROVE  /\ s[1] = a[1] /\ s[18] = e[2]
         /\ \A i \in 1..4 : s[12 + i] = d[i]
         /\ \A k \in 1..Len(p) : s[20 + k] = p[k]
<1>1. /\ a \in Seq(S) /\ b \in Seq(S) /\ c \in Seq(S) /\ d \in Seq(S) /\ e \in Seq(S)
      /\ p \in Seq(S)
  BY DEF Parts
<1>. DEFINE t == a \o b
            u == t \o c
            v == u \o d
            w == v \o e
            z == w \o p
<1>2. /\ t \in Seq(S) /\ Len(t) = Len(a) + Len(b)
      /\ \A i \in 1..Len(a) : t[i] = a[i]
  BY <1>1, Joined
<1>. HIDE DEF t
<1>3. /\ u \in Seq(S) /\ Len(u) = Len(t) + Len(c)
      /\ \A i \in 1..Len(t) : u[i] = t[i]
  <2>1. t \in Seq(S)  BY <1>2
  <2>. QED  BY <1>1, <2>1, Joined
<1>. HIDE DEF u
<1>4. /\ v \in Seq(S) /\ Len(v) = Len(u) + Len(d)
      /\ \A i \in 1..Len(u) : v[i] = u[i]
      /\ \A i \in 1..Len(d) : v[Len(u) + i] = d[i]
  <2>1. u \in Seq(S)  BY <1>3
  <2>. QED  BY <1>1, <2>1, Joined
<1>. HIDE DEF v
<1>5. /\ w \in Seq(S) /\ Len(w) = Len(v) + Len(e)
      /\ \A i \in 1..Len(v) : w[i] = v[i]
      /\ \A i \in 1..Len(e) : w[Len(v) + i] = e[i]
  <2>1. v \in Seq(S)  BY <1>4
  <2>. QED  BY <1>1, <2>1, Joined
<1>. HIDE DEF w
<1>6. /\ z \in Seq(S) /\ Len(z) = Len(w) + Len(p)
      /\ \A i \in 1..Len(w) : z[i] = w[i]
      /\ \A i \in 1..Len(p) : z[Len(w) + i] = p[i]
  <2>1. w \in Seq(S)  BY <1>5
  <2>. QED  BY <1>1, <2>1, Joined
<1>. HIDE DEF z
<1>. SUFFICES /\ z[1] = a[1] /\ z[18] = e[2]
              /\ \A i \in 1..4 : z[12 + i] = d[i]
              /\ \A k \in 1..Len(p) : z[20 + k] = p[k]
  <2>1. s = z  BY DEF Parts, t, u, v, w, z
  <2>. QED  BY <2>1
<1>7. Len(t) = 8 /\ Len(u) = 12 /\ Len(v) = 16 /\ Len(w) = 20 /\ Len(a) = 4
      /\ Len(e) = 4 /\ Len(d) = 4
  BY <1>2, <1>3, <1>4, <1>5 DEF Parts
<1>8. z[1] = a[1]
  <2>1. t[1] = a[1] /\ u[1] = t[1]  BY <1>2, <1>3, <1>7
  <2>2. v[1] = u[1] /\ w[1] = v[1] /\ z[1] = w[1]  BY <1>4, <1>5, <1>6, <1>7
  <2>. QED  BY <2>1, <2>2
<1>9. z[18] = e[2]  BY <1>5, <1>6, <1>7
<1>10. ASSUME NEW i \in 1..4 PROVE z[12 + i] = d[i]
  <2>1. 12 + i \in 1..16 /\ 12 + i \in 1..20  OBVIOUS
  <2>2. v[12 + i] = d[i]  BY <1>4, <1>7
  <2>. QED  BY <1>5, <1>6, <1>7, <2>1, <2>2
<1>11. \A k \in 1..Len(p) : z[20 + k] = p[k]  BY <1>6, <1>7
<1>. QED  BY <1>8, <1>9, <1>10, <1>11

(* Four bytes hold an identifier exactly, except the one after the last,   *)
(* which wraps to zero.                                                    *)
LEMMA IdentifierArrives ==
  ASSUME NEW v \in 0..IdSpace, NEW buf, NEW off \in Nat,
         \A i \in 1..4 : buf[off + i] = W!BigEndian(v, 4)[i]
  PROVE  W!U32(buf, off) = IF v = IdSpace THEN 0 ELSE v
<1>. DEFINE m == IdSpace
            b1 == buf[off + 1]
            b2 == buf[off + 2]
            b3 == buf[off + 3]
            b4 == buf[off + 4]
<1>1. m \in Nat \ {0} /\ m <= 4294967296
  BY CodecAssumption DEF E!WindowAssumption
<1>2. /\ b1 = (v \div 256^(4 - 1)) % 256 /\ b2 = (v \div 256^(4 - 2)) % 256
      /\ b3 = (v \div 256^(4 - 3)) % 256 /\ b4 = (v \div 256^(4 - 4)) % 256
  BY DEF W!BigEndian
<1>3. 256^(4-1) = 16777216 /\ 256^(4-2) = 65536 /\ 256^(4-3) = 256 /\ 256^(4-4) = 1
  OBVIOUS
<1>4. /\ b1 = (v \div 16777216) % 256 /\ b2 = (v \div 65536) % 256
      /\ b3 = (v \div 256) % 256 /\ b4 = v % 256
  BY <1>1, <1>2, <1>3
<1>. HIDE DEF b1, b2, b3, b4, m
<1>5. b1 \in Nat /\ b2 \in Nat /\ b3 \in Nat /\ b4 \in Nat  BY <1>1, <1>4
<1>6. v < 4294967296 => 256 * (256 * (256 * b1 + b2) + b3) + b4 = v
  BY <1>4
<1>7. v = 4294967296 => b1 = 0 /\ b2 = 0 /\ b3 = 0 /\ b4 = 0
  BY <1>4
<1>8. W!U32(buf, off) = (256 * ((256 * ((256 * b1 + b2) % m) + b3) % m) + b4) % m
  BY DEF W!U32, W!U16, b1, b2, b3, b4, m
<1>9. CASE v < m
  <2>1. v < 4294967296  BY <1>1, <1>9
  <2>2. 256 * b1 + b2 <= v /\ 256 * (256 * b1 + b2) + b3 <= v  BY <1>5, <1>6, <2>1
  <2>3. (256 * b1 + b2) % m = 256 * b1 + b2  BY <1>1, <1>5, <1>9, <2>2
  <2>4. (256 * (256 * b1 + b2) + b3) % m = 256 * (256 * b1 + b2) + b3
    BY <1>1, <1>5, <1>9, <2>2
  <2>5. W!U32(buf, off) = v % m  BY <1>6, <1>8, <2>1, <2>3, <2>4
  <2>. QED  BY <1>1, <1>9, <2>5 DEF m
<1>10. CASE v = m /\ v < 4294967296
  <2>1. 256 * b1 + b2 < m  BY <1>1, <1>5, <1>6, <1>10
  <2>2. (256 * b1 + b2) % m = 256 * b1 + b2  BY <1>1, <1>5, <2>1
  <2>3. 256 * (256 * b1 + b2) + b3 < m  BY <1>1, <1>5, <1>6, <1>10
  <2>4. (256 * (256 * b1 + b2) + b3) % m = 256 * (256 * b1 + b2) + b3
    BY <1>1, <1>5, <2>3
  <2>5. W!U32(buf, off) = m % m  BY <1>6, <1>8, <1>10, <2>2, <2>4
  <2>. QED  BY <1>1, <1>10, <2>5 DEF m
<1>11. CASE v = 4294967296
  BY <1>1, <1>7, <1>8, <1>11 DEF m
<1>. QED  BY <1>1, <1>9, <1>10, <1>11 DEF m

(* The bits of a byte are read as they were written. *)
LEMMA OctetBits ==
  ASSUME NEW bit \in [0..7 -> {0, 1}]
  PROVE  \A b \in 0..7 : (W!Octet(bit) \div 2^(7 - b)) % 2 = bit[b]
<1>1. \A b \in 0..7 : bit[b] \in {0, 1}  OBVIOUS
<1>2. W!Octet(bit) = 128 * bit[0] + 64 * bit[1] + 32 * bit[2] + 16 * bit[3]
                       + 8 * bit[4] + 4 * bit[5] + 2 * bit[6] + bit[7]
  BY DEF W!Octet
<1>3. bit[0] \in {0, 1} /\ bit[1] \in {0, 1} /\ bit[2] \in {0, 1} /\ bit[3] \in {0, 1}
      /\ bit[4] \in {0, 1} /\ bit[5] \in {0, 1} /\ bit[6] \in {0, 1} /\ bit[7] \in {0, 1}
  BY <1>1
<1>. SUFFICES ASSUME NEW b \in 0..7
              PROVE  (W!Octet(bit) \div 2^(7 - b)) % 2 = bit[b]
  OBVIOUS
<1>4. CASE b = 0  BY <1>2, <1>3, <1>4
<1>5. CASE b = 1  BY <1>2, <1>3, <1>5
<1>6. CASE b = 2  BY <1>2, <1>3, <1>6
<1>7. CASE b = 3  BY <1>2, <1>3, <1>7
<1>8. CASE b = 4  BY <1>2, <1>3, <1>8
<1>9. CASE b = 5  BY <1>2, <1>3, <1>9
<1>10. CASE b = 6  BY <1>2, <1>3, <1>10
<1>11. CASE b = 7  BY <1>2, <1>3, <1>11
<1>. QED  BY <1>4, <1>5, <1>6, <1>7, <1>8, <1>9, <1>10, <1>11

(* The bits of build_sack name only identifiers of the list. *)
LEMMA SackSound ==
  ASSUME NEW first \in Nat, NEW acked \in SUBSET D!SrcIds
  PROVE  LET sack == W!build_sack(first, acked)
         IN  /\ sack \in Seq(Int)
             /\ \A k \in 1..Len(sack), b \in 0..7 :
                  (sack[k] \div 2^(7 - b)) % 2 = 1 => first + 8 * (k - 1) + b \in acked
             /\ first >= NumIds => sack = <<>>
<1>. DEFINE above == {id \in acked : id >= first}
            n == ((W!Max(above) - first + 1) + 7) \div 8
            Bits(k) == [b \in 0..7 |-> IF first + 8 * (k - 1) + b \in above THEN 1 ELSE 0]
            sack == W!build_sack(first, acked)
<1>1. /\ above = {} => sack = <<>>
      /\ above # {} => sack = [k \in 1..n |-> W!Octet(Bits(k))]
  BY DEF W!build_sack
<1>. HIDE DEF sack
<1>. SUFFICES /\ sack \in Seq(Int)
              /\ \A k \in 1..Len(sack), b \in 0..7 :
                   (sack[k] \div 2^(7 - b)) % 2 = 1 => first + 8 * (k - 1) + b \in acked
              /\ first >= NumIds => sack = <<>>
  BY DEF sack
<1>2. NumIds \in Nat  BY CodecAssumption
<1>3. above \subseteq 0..(NumIds - 1) /\ above \subseteq acked
      /\ \A id \in above : id >= first
  BY DEF D!SrcIds
<1>4. first >= NumIds => above = {}  BY <1>2, <1>3
<1>. HIDE DEF above
<1>5. above # {} => n \in Nat
  <2>. SUFFICES ASSUME above # {} PROVE n \in Nat  OBVIOUS
  <2>1. \E x \in above : \A y \in above : x >= y
    <3>1. above \subseteq Nat /\ \A y \in above : y < NumIds  BY <1>2, <1>3
    <3>2. \E x \in above : \A y \in above : y <= x  BY <1>2, <3>1, GreatestElement
    <3>. QED  BY <3>1, <3>2
  <2>2. PICK x \in above : x = W!Max(above)  BY <2>1 DEF W!Max
  <2>3. x \in Nat /\ x >= first  BY <1>2, <1>3
  <2>4. ((x - first + 1) + 7) \div 8 \in Nat  BY <2>3
  <2>. QED  BY <2>2, <2>4
<1>. HIDE DEF n
<1>6. \A k : Bits(k) \in [0..7 -> {0, 1}]  OBVIOUS
<1>7. \A k : W!Octet(Bits(k)) \in Int
  <2>1. \A bit \in [0..7 -> {0, 1}] : W!Octet(bit) \in Int
    BY DEF W!Octet
  <2>. QED  BY <1>6, <2>1
<1>8. \A k, b : b \in 0..7 /\ (W!Octet(Bits(k)) \div 2^(7 - b)) % 2 = 1
                 => first + 8 * (k - 1) + b \in above
  <2>1. \A k : \A b \in 0..7 : (W!Octet(Bits(k)) \div 2^(7 - b)) % 2 = Bits(k)[b]
    BY <1>6, OctetBits
  <2>. SUFFICES ASSUME NEW k, NEW b \in 0..7,
                       (W!Octet(Bits(k)) \div 2^(7 - b)) % 2 = 1
                PROVE  first + 8 * (k - 1) + b \in above
    OBVIOUS
  <2>2. Bits(k)[b] = 1  BY <2>1
  <2>. QED  BY <2>2
<1>. HIDE DEF Bits
<1>9. CASE above = {}
  BY <1>1, <1>9
<1>10. CASE above # {}
  <2>1. sack \in Seq(Int) /\ Len(sack) = n
    BY <1>1, <1>5, <1>7, <1>10
  <2>2. \A k \in 1..n : sack[k] = W!Octet(Bits(k))
    BY <1>1, <1>10
  <2>. QED  BY <1>3, <1>4, <1>8, <1>10, <2>1, <2>2
<1>. QED  BY <1>9, <1>10

(* What the parser makes of a feedback packet says no more than was        *)
(* written: a cumulative part that wraps to zero, or a bit vector too long *)
(* for its length field, loses acknowledgements and invents none.          *)
LEMMA FeedbackArrives ==
  ASSUME NEW first \in 0..NumIds, NEW acked \in SUBSET D!SrcIds,
         NEW missing, NEW unused, NEW plr, NEW f,
         f = W!ParseFeedback(W!SerialiseFeedback(
                               W!BuildFeedback(first, missing, unused, plr, acked))),
         f # Absent
  PROVE  /\ f.first_src_id \in 0..first
         /\ W!acked_ids(f) \subseteq acked
<1>. DEFINE sack == W!build_sack(first, acked)
            a == W!Header(W!FeedbackType, <<>>, <<>>, 4)
            b == W!BigEndian(missing, 4)
            c == W!BigEndian(unused, 4)
            d == W!BigEndian(first, 4)
            e == <<plr, Len(sack) % 256, 0, 0>>
            p == W!Padded(sack)
            buf == a \o b \o c \o d \o e \o p
            size == Len(sack) % 256
<1>1. f = W!ParseFeedback(buf)
  BY DEF W!SerialiseFeedback, W!BuildFeedback
<1>2. /\ sack \in Seq(Int) /\ Len(sack) \in Nat
      /\ \A k \in 1..Len(sack), i \in 0..7 :
           (sack[k] \div 2^(7 - i)) % 2 = 1 => first + 8 * (k - 1) + i \in acked
      /\ first >= NumIds => sack = <<>>
  <2>1. first \in Nat  OBVIOUS
  <2>. QED  BY <2>1, SackSound, LenProperties
<1>3. a = <<16, 0, 4, 2>>
  BY DEF W!Header, W!FeedbackType
<1>. HIDE DEF a, sack
<1>4. /\ p \in Seq(Int)
       /\ \A k \in 1..Len(sack) : k \in 1..Len(p) /\ p[k] = sack[k]
  <2>. DEFINE n == W!pad32(Len(sack)) - Len(sack)
              zeros == [i \in 1..n |-> 0]
  <2>1. n \in Nat  BY <1>2 DEF W!pad32
  <2>. HIDE DEF n
  <2>2. zeros \in Seq(Int) /\ Len(zeros) \in Nat  BY <2>1
  <2>3. p = sack \o zeros  BY DEF W!Padded, n
  <2>. HIDE DEF zeros
  <2>4. /\ sack \o zeros \in Seq(Int) /\ Len(sack \o zeros) = Len(sack) + Len(zeros)
        /\ \A i \in 1..Len(sack) : (sack \o zeros)[i] = sack[i]
    BY <1>2, <2>2, Joined
  <2>. QED  BY <1>2, <2>2, <2>3, <2>4
<1>5. PICK S : a \in Seq(S) /\ b \in Seq(S) /\ c \in Seq(S) /\ d \in Seq(S)
               /\ e \in Seq(S) /\ p \in Seq(S)
  <2>. DEFINE S == Int \cup {plr} \cup {b[i] : i \in 1..4} \cup {c[i] : i \in 1..4}
                       \cup {d[i] : i \in 1..4}
  <2>1. a \in Seq(S)  BY <1>3
  <2>2. b \in Seq(S) /\ c \in Seq(S) /\ d \in Seq(S)
    <3>1. /\ b \in [1..4 -> S] /\ c \in [1..4 -> S] /\ d \in [1..4 -> S]
      BY DEF W!BigEndian
    <3>. HIDE DEF S, b, c, d
    <3>2. 4 \in Nat  OBVIOUS
    <3>3. \A x \in [1..4 -> S] : x \in Seq(S)
      <4>1. Seq(S) = UNION {[1..n -> S] : n \in Nat}  BY SeqDef
      <4>2. [1..4 -> S] \in {[1..n -> S] : n \in Nat}  BY <3>2
      <4>. QED  BY <4>1, <4>2, Zenon
    <3>. QED  BY <3>1, <3>3, Zenon
  <2>3. e \in Seq(S)
    <3>1. size \in S /\ plr \in S /\ 0 \in S  BY <1>2
    <3>. HIDE DEF S
    <3>. QED  BY <3>1
  <2>4. p \in Seq(S)
    <3>1. p \in Seq(Int)  BY <1>4
    <3>. HIDE DEF p
    <3>2. Int \subseteq S  OBVIOUS
    <3>. HIDE DEF S
    <3>. QED  BY <3>1, <3>2
  <2>. HIDE DEF S
  <2>. QED  BY <2>1, <2>2, <2>3, <2>4
<1>6. /\ Len(a) = 4 /\ Len(b) = 4 /\ Len(c) = 4 /\ Len(d) = 4 /\ Len(e) = 4
      /\ a[1] = 16 /\ e[2] = size
  BY <1>3 DEF W!BigEndian
<1>. HIDE DEF b, c, d, e, p
<1>7. buf = a \o b \o c \o d \o e \o p  OBVIOUS
<1>. HIDE DEF buf
<1>8. /\ buf[1] = 16 /\ buf[18] = size
      /\ \A i \in 1..4 : buf[12 + i] = d[i]
      /\ \A k \in 1..Len(p) : buf[20 + k] = p[k]
  <2>1. Parts(S, buf, a, b, c, d, e, p)  BY <1>5, <1>6, <1>7, Zenon DEF Parts
  <2>2. /\ buf[1] = a[1] /\ buf[18] = e[2]
        /\ \A i \in 1..4 : buf[12 + i] = d[i]
        /\ \A k \in 1..Len(p) : buf[20 + k] = p[k]
    BY <2>1, PartsRead
  <2>. QED  BY <1>6, <2>2
<1>9. W!BodyOffset(buf) = 4 /\ W!CciEnd(buf) = 4
  BY <1>8 DEF W!BodyOffset, W!CciEnd
<1>10. f.first_src_id = W!U32(buf, 12) /\ f.sack = SubSeq(buf, 21, 20 + size)
  <2>1. /\ f.first_src_id = W!U32(buf, W!BodyOffset(buf) + 8)
        /\ f.sack = SubSeq(buf, W!BodyOffset(buf) + 17,
                           W!BodyOffset(buf) + 16 + buf[W!BodyOffset(buf) + 14])
    <3>. DEFINE off == W!BodyOffset(buf)
                tsi == SubSeq(buf, 5, 4 + off - W!CciEnd(buf))
                miss == W!U32(buf, off)
                used == W!U32(buf, off + 4)
                id == W!U32(buf, off + 8)
                loss == buf[off + 13]
                bits == SubSeq(buf, off + 17, off + 16 + buf[off + 14])
    <3>1. f = [tsi |-> tsi, nb_missing_src |-> miss, nb_not_used_coded |-> used,
               first_src_id |-> id, plr_raw |-> loss, sack |-> bits]
      BY <1>1, Zenon DEF W!ParseFeedback
    <3>. HIDE DEF tsi, miss, used, id, loss, bits
    <3>2. f.first_src_id = id /\ f.sack = bits  BY <3>1
    <3>. QED  BY <3>2 DEF id, bits
  <2>2. /\ W!BodyOffset(buf) + 8 = 12 /\ W!BodyOffset(buf) + 17 = 21
        /\ W!BodyOffset(buf) + 16 = 20 /\ W!BodyOffset(buf) + 14 = 18
    BY <1>9
  <2>. QED  BY <1>8, <2>1, <2>2, Zenon
<1>11. f.first_src_id = IF first = IdSpace THEN 0 ELSE first
  <2>1. first \in 0..IdSpace  BY CodecAssumption
  <2>. QED  BY <1>8, <1>10, <2>1, IdentifierArrives DEF d
<1>12. Len(f.sack) = size /\ \A k \in 1..size : f.sack[k] = buf[20 + k]
  <2>1. size \in Nat  BY <1>2
  <2>. QED  BY <1>10, <2>1
<1>13. size \in Nat /\ size <= Len(sack)
  <2>1. Len(sack) \in Nat  BY <1>2
  <2>2. \A n \in Nat : n % 256 \in Nat /\ n % 256 <= n  OBVIOUS
  <2>. QED  BY <2>1, <2>2
<1>. HIDE DEF size
<1>14. ASSUME NEW k \in 1..Len(f.sack)
       PROVE  k \in 1..Len(sack) /\ f.sack[k] = sack[k]
  <2>1. k \in 1..size /\ k \in 1..Len(sack)  BY <1>2, <1>12, <1>13
  <2>2. f.sack[k] = buf[20 + k] /\ buf[20 + k] = p[k] /\ p[k] = sack[k]
    BY <1>8, <1>12, <1>4, <2>1
  <2>. QED  BY <2>1, <2>2
<1>15. W!acked_ids(f) \subseteq acked
  <2>. SUFFICES ASSUME NEW k \in 1..Len(f.sack), NEW i \in 0..7,
                       (f.sack[k] \div 2^(7 - i)) % 2 = 1
                PROVE  f.first_src_id + 8 * (k - 1) + i \in acked
    BY DEF W!acked_ids
  <2>1. k \in 1..Len(sack) /\ (sack[k] \div 2^(7 - i)) % 2 = 1  BY <1>14
  <2>2. first + 8 * (k - 1) + i \in acked  BY <1>2, <2>1, Zenon
  <2>3. sack # <<>>  BY <1>14
  <2>4. first # IdSpace  BY <1>2, <2>3, CodecAssumption
  <2>. QED  BY <1>11, <2>2, <2>4
<1>. QED  BY <1>11, <1>15

----------------------------------------------------------------------------
(* What the sender learns from feedback. *)

(* The sender reads nothing but feedback: no data packet of the peer       *)
(* parses as such.                                                         *)
FeedbackOnly == \A d \in PeerData : W!ParseFeedback(d) = Absent

(* The decoder holds symbol i or has given it up. *)
Have(i) == known[i] # Absent \/ i \in skipped

(* What is on its way to the sender acknowledges only what the decoder     *)
(* has, and so does what the sender has noted of it.                       *)
Truthful(d) ==
  LET f == W!ParseFeedback(d)
  IN  f # Absent =>
        /\ f.first_src_id \in 0..NumIds /\ W!acked_ids(f) \subseteq D!SrcIds
        /\ \A i \in D!SrcIds : i < f.first_src_id \/ i \in W!acked_ids(f) => Have(i)

InboxTruthful == \A d \in inbox : Truthful(d)

AcksTrue ==
  /\ acks \in [{Receiver} -> EP!Entries \cup {NoEntry}]
  /\ acks[Receiver] # NoEntry =>
       /\ acks[Receiver].sack \subseteq D!SrcIds
       /\ \A i \in D!SrcIds : EP!EntryAcks(acks[Receiver], i) => Have(i)

HeldInv == DP!ReportInv /\ InboxTruthful /\ AcksTrue

(* The decoder loses nothing, whatever arrives. *)
HaveKept == \A i \in D!SrcIds : Have(i) => Have(i)'

LEMMA DecoderGoesOn ==
  ASSUME CodecInv, DP!ReportInv, [Next]_codecVars
  PROVE  DP!ReportInv' /\ HaveKept
<1>1. SUFFICES DP!ReportInv' /\ DP!NothingLost
  BY <1>1, SameVectors DEF HaveKept, Have, DP!NothingLost, DP!Keys
<1>2. DP!TypeInv  BY DEF CodecInv
<1>3. CASE DP!Next
  BY <1>2, <1>3, DecoderAssumptions, DP!ReportStep
<1>4. CASE UNCHANGED <<known, buffer, next_delivery_id, DP!emitted>>
  BY <1>4, DecoderAssumptions, DP!ReportRests
<1>5. ASSUME NEW m \in sent, Receive(m) PROVE DP!ReportInv' /\ DP!NothingLost
  <2>1. m.packet.kind \in {"source", "coded"}
    BY DEF CodecInv, PacketsSound, EP!SoundPacket
  <2>2. CASE m.packet.kind = "source"
    BY <1>3, <1>5, <2>2, Received, SourceArrives DEF DP!Next
  <2>3. CASE m.packet.kind = "coded"
    <3>1. \E v : DP!HandleCoded(v, v)  BY <1>5, <2>3, Received, CodedArrives
    <3>. QED  BY <1>4, <3>1 DEF DP!HandleCoded
  <2>. QED  BY <2>1, <2>2, <2>3
<1>6. CASE DecoderStep
  BY <1>3, <1>6, SameStep DEF DecoderStep, DP!Next
<1>7. CASE UNCHANGED decoderVars
  BY <1>4, <1>7 DEF decoderVars, DP!emitted
<1>. QED
  BY <1>5, <1>6, <1>7 DEF Next, Encode, ReceiveFeedback, PeerSends, codecVars

(* The feedback of a call is true when it is sent. *)
LEMMA InboxStep ==
  ASSUME FeedbackOnly, CodecInv, HeldInv, [Next]_codecVars
  PROVE  InboxTruthful'
<1>1. DP!ReportInv' /\ HaveKept  BY DecoderGoesOn DEF HeldInv
<1>2. \A d \in inbox : Truthful(d)'
  BY <1>1 DEF HeldInv, InboxTruthful, Truthful, HaveKept, Have
<1>3. ASSUME NEW d \in inbox' \ inbox PROVE Truthful(d)'
  <2>1. CASE \E p \in PeerData : PeerSends(p)
    BY <1>3, <2>1 DEF PeerSends, FeedbackOnly, Truthful
  <2>2. CASE DecoderStep
    <3>. DEFINE first == feedback'.first_src_id
                acked == feedback'.acked
                missing == count_missing(feedback')
                unused == Cardinality(D!Keys(rows))
                f == W!ParseFeedback(d)
    <3>1. d = FeedbackDatagram(feedback') /\ feedback' # Absent
      BY <1>3, <2>2 DEF DecoderStep
    <3>2. DP!TypeInv'  BY CodecStep DEF CodecInv
    <3>3. feedback' \in DP!Feedbacks  BY <3>1, <3>2 DEF DP!TypeInv, DP!TypeOK
    <3>4. first \in 0..NumIds /\ acked \in SUBSET D!SrcIds
      BY <3>3, SameVectors DEF DP!Feedbacks
    <3>5. f = W!ParseFeedback(W!SerialiseFeedback(
                W!BuildFeedback(first, missing, unused, 0, acked)))
      BY <3>1 DEF FeedbackDatagram
    <3>. HIDE DEF f
    <3>6. f # Absent => f.first_src_id \in 0..first /\ W!acked_ids(f) \subseteq acked
      <4>. HIDE DEF first, acked, missing, unused
      <4>. SUFFICES ASSUME f # Absent
                    PROVE  f.first_src_id \in 0..first /\ W!acked_ids(f) \subseteq acked
        OBVIOUS
      <4>. QED  BY <3>4, <3>5, FeedbackArrives
    <3>7. \A i \in D!SrcIds : i < first \/ i \in acked => Have(i)'
      <4>1. DP!FeedbackTruthful' /\ DP!DeliveredKnown'  BY <1>1 DEF DP!ReportInv
      <4>2. /\ \A i \in 0..(first - 1) : delivered'[i] # Absent \/ i \in skipped'
            /\ \A i \in acked : known'[i] # Absent
        BY <3>1, <4>1 DEF DP!FeedbackTruthful
      <4>3. \A i \in D!SrcIds : delivered'[i] # Absent => known'[i] # Absent
        BY <4>1, SameVectors DEF DP!DeliveredKnown, DP!Keys
      <4>4. \A i \in D!SrcIds : i < first => i \in 0..(first - 1)
        BY <3>4, CodecAssumption DEF D!SrcIds
      <4>. QED  BY <4>2, <4>3, <4>4 DEF Have
    <3>8. NumIds \in Nat  BY CodecAssumption
    <3>9. \A i \in D!SrcIds : f # Absent /\ i < f.first_src_id => i < first
      BY <3>4, <3>6, <3>8 DEF D!SrcIds
    <3>10. f # Absent => f.first_src_id \in 0..NumIds
      BY <3>4, <3>6, <3>8
    <3>11. f # Absent => /\ f.first_src_id \in 0..NumIds
                         /\ W!acked_ids(f) \subseteq D!SrcIds
                         /\ \A i \in D!SrcIds :
                              i < f.first_src_id \/ i \in W!acked_ids(f) => Have(i)'
      <4>. HIDE DEF first, acked
      <4>. QED  BY <3>4, <3>6, <3>7, <3>9, <3>10
    <3>. QED  BY <3>11 DEF f, Truthful, Have
  <2>3. CASE inbox' = inbox  BY <1>3, <2>3
  <2>. QED
    BY <2>1, <2>2, <2>3
    DEF Next, Encode, Receive, ReceiveFeedback, codecVars, netVars
<1>. QED  BY <1>2, <1>3 DEF InboxTruthful

(* The sender notes what a report says, and nothing more. *)
LEMMA AcksStep ==
  ASSUME CodecInv, HeldInv, [Next]_codecVars
  PROVE  AcksTrue'
<1>1. HaveKept  BY DecoderGoesOn DEF HeldInv
<1>2. CASE acks' = acks
  BY <1>1, <1>2 DEF HeldInv, AcksTrue, HaveKept, EP!EntryAcks, Have
<1>3. ASSUME NEW d \in inbox, ReceiveFeedback(d) PROVE AcksTrue'
  <2>. DEFINE f == W!ParseFeedback(d)
              g == [first_src_id |-> f.first_src_id, acked |-> W!acked_ids(f)]
              e == EP!EntryOf(acks, Receiver)
              u == EP!Update(e, g)
  <2>1. f # Absent /\ EP!HandleFeedback(Receiver, g, f.plr_raw)
    BY <1>3, SameHandleFeedback DEF ReceiveFeedback
  <2>2. /\ f.first_src_id \in 0..NumIds /\ W!acked_ids(f) \subseteq D!SrcIds
        /\ \A i \in D!SrcIds : i < f.first_src_id \/ i \in W!acked_ids(f) => Have(i)
    BY <1>3, <2>1 DEF HeldInv, InboxTruthful, Truthful
  <2>. HIDE DEF f
  <2>3. NumIds \in Nat /\ D!SrcIds \subseteq Nat /\ \A i \in D!SrcIds : i < NumIds
    BY CodecAssumption DEF D!SrcIds
  <2>4. /\ acks \in [{Receiver} -> EP!Entries \cup {NoEntry}]
        /\ e \in EP!Entries /\ e.sack \subseteq D!SrcIds
        /\ \A i \in D!SrcIds : EP!EntryAcks(e, i) => Have(i)
    <3>1. CASE acks[Receiver] = NoEntry
      <4>1. e = [cumulative_ack |-> 0, sack |-> {}]
        BY <3>1 DEF EP!EntryOf, EP!EmptyEntry
      <4>. QED  BY <2>3, <4>1 DEF EP!Entries, EP!EntryAcks, HeldInv, AcksTrue
    <3>2. CASE acks[Receiver] # NoEntry
      BY <3>2 DEF EP!EntryOf, HeldInv, AcksTrue
    <3>. QED  BY <3>1, <3>2
  <2>5. g \in [first_src_id : Nat, acked : SUBSET Nat]
    <3>. DEFINE ids == W!acked_ids(f)
                first == f.first_src_id
    <3>1. first \in 0..NumIds /\ ids \subseteq D!SrcIds  BY <2>2
    <3>. HIDE DEF ids, first
    <3>2. first \in Nat /\ ids \subseteq Nat  BY <2>3, <3>1
    <3>3. [first_src_id |-> first, acked |-> ids] \in [first_src_id : Nat, acked : SUBSET Nat]
      BY <3>2
    <3>. QED  BY <3>3 DEF ids, first
  <2>6. g.first_src_id = f.first_src_id /\ g.acked = W!acked_ids(f)  OBVIOUS
  <2>. HIDE DEF e, g
  <2>7. /\ u \in EP!Entries
        /\ \A i \in Nat : EP!EntryAcks(u, i) <=>
             EP!EntryAcks(e, i) \/ i < g.first_src_id \/ i \in g.acked
    <3>1. \A i \in e.sack \cup g.acked : i < NumIds  BY <2>2, <2>3, <2>4, <2>6
    <3>. QED  BY <2>3, <2>4, <2>5, <3>1, EncoderAssumptions, EP!UpdateExact
  <2>8. u.sack \subseteq e.sack \cup g.acked  BY DEF EP!Update
  <2>9. acks' = [acks EXCEPT ![Receiver] = u]
    BY <2>1 DEF EP!HandleFeedback, e
  <2>. HIDE DEF u
  <2>10. acks' \in [{Receiver} -> EP!Entries \cup {NoEntry}] /\ acks'[Receiver] = u
    BY <2>4, <2>7, <2>9
  <2>11. \A i \in D!SrcIds : EP!EntryAcks(u, i) => Have(i)'
    BY <1>1, <2>2, <2>3, <2>4, <2>6, <2>7 DEF HaveKept
  <2>12. u.sack \subseteq D!SrcIds  BY <2>2, <2>4, <2>6, <2>8
  <2>13. /\ EP!Entries' = EP!Entries
         /\ \A i : EP!EntryAcks(acks[Receiver], i)' <=> EP!EntryAcks(u, i)
    BY <2>10 DEF EP!Entries, EP!EntryAcks
  <2>. QED  BY <2>10, <2>11, <2>12, <2>13 DEF AcksTrue
<1>4. CASE Encode
  <2>1. Generate => acks' = acks
    BY DEF Generate, E!GenerateCoded, E!GenerateCodedRecent, E!GenerateCodedForReceiver,
           E!GenerateOne
  <2>2. Submit => acks' = acks  BY DEF Submit, E!SubmitSource
  <2>. QED  BY <1>2, <1>4, <2>1, <2>2 DEF Encode
<1>. QED
  BY <1>2, <1>3, <1>4 DEF Next, Receive, DecoderStep, PeerSends, codecVars, encoderVars

LEMMA HeldStep ==
  ASSUME FeedbackOnly
  PROVE  CodecInv /\ HeldInv /\ [Next]_codecVars => HeldInv'
BY DecoderGoesOn, InboxStep, AcksStep DEF HeldInv

LEMMA HeldInit == Init => HeldInv
<1>. SUFFICES ASSUME Init PROVE HeldInv  OBVIOUS
<1>1. DP!ReportInv
  BY SameDecoderInit, DecoderAssumptions, DP!ReportInit DEF Init
<1>2. InboxTruthful  BY DEF Init, InboxTruthful
<1>3. AcksTrue  BY DEF Init, E!Init, E!NoAcks, AcksTrue
<1>. QED  BY <1>1, <1>2, <1>3 DEF HeldInv

(* The encoder's knowledge is never ahead of the decoder, through loss,    *)
(* duplication and reordering of feedback and through its encoding on the  *)
(* wire, with the wrap of its identifiers and the overflow of its length   *)
(* field, as long as the sender reads nothing but feedback.                *)
THEOREM CodecAckedMeansHeld == FeedbackOnly => (Spec => []AckedMeansHeld)
<1>. SUFFICES ASSUME FeedbackOnly PROVE Spec => []AckedMeansHeld  OBVIOUS
<1>1. HeldInv => AckedMeansHeld
  BY DEF HeldInv, AcksTrue, AckedMeansHeld, E!IsAcked, E!EntryAcks, EP!EntryAcks, Have
<1>. QED  BY <1>1, CodecInit, CodecStep, HeldInit, HeldStep, PTL DEF Spec

----------------------------------------------------------------------------
(* What becomes of every symbol. *)

(* A quorum of none would release symbols nobody has. *)
QuorumPositive == \A c \in Configs : c.policy.kind = "quorum" => c.policy.quorum > 0

(* What leaves the window on feedback is with the decoder. *)
LEMMA ReleasedIsHeld ==
  ASSUME FeedbackOnly, QuorumPositive, CodecInv, HeldInv, NEW d \in inbox, ReceiveFeedback(d)
  PROVE  /\ evicted' = evicted /\ window'.next_id = window.next_id
         /\ \A i \in window.symbols : i \in window'.symbols \/ Have(i)'
<1>1. PICK f, loss : EP!HandleFeedback(Receiver, f, loss)
  BY SameHandleFeedback DEF ReceiveFeedback
<1>2. EP!SenderInv /\ config \in Configs
  BY DEF CodecInv, SenderOK, EP!SenderInv, EP!CoderOK
<1>3. /\ evicted' = evicted
      /\ \A i \in window.symbols :
           i \in window'.symbols \/ EP!MayRemove(config.policy, acks', EP!Id(i))
  BY <1>1, <1>2, EncoderAssumptions, EP!FeedbackKeeps
<1>4. window'.next_id = window.next_id
  BY <1>1, <1>2, EncoderAssumptions, EP!SenderFeedback
<1>5. AcksTrue'
  <2>1. Next  BY DEF Next
  <2>. QED  BY <2>1, AcksStep
<1>6. /\ config.policy \in EP!Policies
      /\ config.policy.kind = "quorum" => config.policy.quorum > 0
  BY <1>2, EncoderAssumptions DEF EP!ConfigType, QuorumPositive
<1>7. ASSUME NEW i \in window.symbols, EP!MayRemove(config.policy, acks', EP!Id(i))
      PROVE  Have(i)'
  <2>1. i \in 0..(window.next_id - 1)
    BY <1>2 DEF EP!SenderInv, EP!GoodWindow, EP!Windows
  <2>2. i \in D!SrcIds /\ i \in 0..(IdSpace - 1)
    BY <2>1, SenderFacts DEF CodecInv, D!SrcIds
  <2>3. EP!Id(i) = i  BY <2>2, EncoderAssumptions, EP!IdIsNumber
  <2>4. \E r \in {Receiver} : EP!IsAcked(acks', r, i)
    BY <1>6, <1>7, <2>3, EncoderAssumptions, EP!MayRemoveAcked
  <2>5. acks'[Receiver] # NoEntry /\ EP!EntryAcks(acks'[Receiver], i)
    BY <2>4 DEF EP!IsAcked
  <2>. QED  BY <1>5, <2>2, <2>5 DEF AcksTrue, EP!EntryAcks
<1>. QED  BY <1>3, <1>4, <1>7

(* Every symbol is in the window or accounted for. *)
LEMMA VanishStep ==
  ASSUME FeedbackOnly, QuorumPositive
  PROVE  CodecInv /\ HeldInv /\ NothingVanishes /\ [Next]_codecVars => NothingVanishes'
<1>. SUFFICES ASSUME CodecInv, HeldInv, NothingVanishes, [Next]_codecVars
              PROVE  NothingVanishes'
  OBVIOUS
<1>1. HaveKept  BY DecoderGoesOn DEF HeldInv
<1>2. window.next_id \in Nat /\ \A i \in 0..(window.next_id - 1) : i \in D!SrcIds
  BY SenderFacts DEF CodecInv, D!SrcIds
<1>3. \A i \in 0..(window.next_id - 1) : i \in window.symbols \/ i \in evicted \/ Have(i)'
  BY <1>1, <1>2 DEF NothingVanishes, Have, HaveKept
<1>4. SUFFICES \A i \in 0..(window'.next_id - 1) :
                 i \in window'.symbols \/ i \in evicted' \/ Have(i)'
  BY <1>4 DEF NothingVanishes, Have
<1>5. CASE Encode /\ Submit
  <2>1. EP!SubmitSource  BY <1>5, SameSubmitSource DEF Submit
  <2>2. /\ evicted \subseteq evicted' /\ window.next_id \in window'.symbols
        /\ \A n \in window.symbols : n \in window'.symbols \/ n \in evicted'
    BY <2>1, EncoderAssumptions, EP!SubmitKeeps
  <2>3. window'.next_id = window.next_id + 1
    BY <1>5, SubmitPackets DEF Submit, CodecInv
  <2>. QED  BY <1>2, <1>3, <2>2, <2>3
<1>6. CASE UNCHANGED <<window, evicted>>
  BY <1>3, <1>6
<1>7. ASSUME NEW d \in inbox, ReceiveFeedback(d)
      PROVE  \A i \in 0..(window'.next_id - 1) :
               i \in window'.symbols \/ i \in evicted' \/ Have(i)'
  BY <1>3, <1>7, ReleasedIsHeld
<1>8. Generate => UNCHANGED <<window, evicted>>
  BY DEF Generate, E!GenerateCoded, E!GenerateCodedRecent, E!GenerateCodedForReceiver,
         E!GenerateOne, E!history
<1>. QED
  BY <1>5, <1>6, <1>7, <1>8
  DEF Next, Encode, Receive, DecoderStep, PeerSends, codecVars, encoderVars

LEMMA VanishInit == Init => NothingVanishes
BY DEF Init, E!Init, E!NewWindow, NothingVanishes

(* No symbol is lost between the two ends: until backpressure evicts it or *)
(* the decoder gives it up, the encoder can combine it or the decoder has  *)
(* it, for every policy and any loss, duplication and reordering.          *)
THEOREM CodecNothingVanishes ==
  FeedbackOnly /\ QuorumPositive => (Spec => []NothingVanishes)
<1>. SUFFICES ASSUME FeedbackOnly, QuorumPositive PROVE Spec => []NothingVanishes  OBVIOUS
<1>. QED
  BY CodecInit, CodecStep, HeldInit, HeldStep, VanishInit, VanishStep, PTL DEF Spec

----------------------------------------------------------------------------
(* When nothing is evicted, nothing is given up. *)

Reliable == config.backpressure = "Reject" /\ covers # "recent"

(* Everything below the first symbol of a cover is known. *)
KnownBelow(ids) == \A i \in D!SrcIds : (\A j \in ids : i < j) => known[i] # Absent

(* With backpressure Reject every coded packet starts at a symbol below    *)
(* which the decoder misses nothing, so its window minimum never overtakes *)
(* what it knows.                                                          *)
NoGapInv ==
  Reliable =>
    /\ evicted = {} /\ skipped = {}
    /\ \A m \in sent : m.packet.kind = "coded" => KnownBelow(m.packet.ids)
    /\ \A i \in D!SrcIds : i < encoder_win_min => known[i] # Absent

(* What a call that codes leaves out, it counts as acknowledged. *)
LEMMA CoverComplete ==
  ASSUME SenderOK, Generate, covers # "recent"
  PROVE  \A p \in output' : \A i \in window.symbols :
           i \in p.ids \/ E!IsAcked(acks, Receiver, i)
<1>1. E!WindowIds(window) = window.symbols
  BY SenderFacts, SameGenerateOne, EncoderAssumptions, EP!WindowIdsExact
  DEF SenderOK, EP!SenderInv
<1>2. ASSUME NEW cover, E!GenerateOne(cover) PROVE \A p \in output' : p.ids = cover
  BY <1>2 DEF E!GenerateOne, E!GenerateCodedInner, E!CodedPacket
<1>3. CASE E!GenerateCoded
  BY <1>1, <1>2, <1>3 DEF E!GenerateCoded
<1>4. CASE E!GenerateCodedForReceiver(Receiver)
  BY <1>1, <1>2, <1>4 DEF E!GenerateCodedForReceiver
<1>. QED  BY <1>3, <1>4 DEF Generate

(* The packets of a call start where the decoder misses nothing. *)
LEMMA OutputBelow ==
  ASSUME FeedbackOnly, QuorumPositive, CodecInv, HeldInv, NothingVanishes, NoGapInv, Encode,
         Reliable
  PROVE  /\ evicted' = {}
         /\ \A p \in output' : p.kind = "coded" => KnownBelow(p.ids)
<1>1. /\ window.next_id \in Nat /\ window.next_id <= IdSpace /\ SenderOK
      /\ evicted = {} /\ skipped = {}
  BY SenderFacts DEF CodecInv, NoGapInv
<1>2. \A i \in 0..(window.next_id - 1) : i \in window.symbols \/ known[i] # Absent
  BY <1>1 DEF NothingVanishes
<1>3. CASE Submit
  <2>1. EP!SubmitSource  BY <1>3, SameSubmitSource DEF Submit
  <2>2. /\ window.next_id \in window'.symbols
        /\ \A n \in window.symbols : n \in window'.symbols \/ n \in evicted'
        /\ config.backpressure = "Reject" => evicted' = evicted
        /\ \A p \in output' : p.kind = "coded" => p.ids = EP!WindowIds(window')
    BY <2>1, EncoderAssumptions, EP!SubmitKeeps
  <2>3. evicted' = {}  BY <1>1, <2>2 DEF Reliable
  <2>4. SenderOK'  BY <1>1, <1>3, SubmitPackets DEF Submit
  <2>5. EP!WindowIds(window') = window'.symbols
    <3>1. window'.next_id <= IdSpace
      <4>1. window'.next_id \in Nat /\ window'.next_id <= MaxSource
        BY <2>4 DEF SenderOK, EP!SenderInv, EP!GoodWindow, EP!Windows
      <4>. QED  BY <4>1, CodecAssumption
    <3>2. EP!GoodWindow(window')
      BY <2>4 DEF SenderOK, EP!SenderInv, EP!GoodWindow, EP!Windows
    <3>. QED  BY <3>1, <3>2, EncoderAssumptions, EP!WindowIdsExact
  <2>6. ASSUME NEW i \in D!SrcIds, \A j \in window'.symbols : i < j
        PROVE  known[i] # Absent
    <3>1. i \in Nat /\ i < window.next_id  BY <2>2, <2>6, CodecAssumption DEF D!SrcIds
    <3>2. i \notin window'.symbols  BY <2>6, <3>1
    <3>. QED  BY <1>1, <1>2, <2>2, <2>3, <3>1, <3>2
  <2>. QED  BY <2>2, <2>3, <2>5, <2>6 DEF KnownBelow
<1>4. CASE Generate
  <2>1. \A p \in output' : EP!SoundPacket(p, window.next_id) /\ p.kind = "coded"
    BY <1>1, <1>4, GeneratePackets
  <2>2. evicted' = evicted
    BY <1>4 DEF Generate, E!GenerateCoded, E!GenerateCodedRecent,
                E!GenerateCodedForReceiver, E!GenerateOne, E!history
  <2>3. ASSUME NEW p \in output', NEW i \in D!SrcIds, \A j \in p.ids : i < j
        PROVE  known[i] # Absent
    <3>1. p.ids # {} /\ p.ids \subseteq 0..(window.next_id - 1)
      BY <2>1 DEF EP!SoundPacket
    <3>2. i \in Nat /\ i < window.next_id /\ i \notin p.ids
      BY <1>1, <2>3, <3>1, CodecAssumption DEF D!SrcIds
    <3>3. CASE i \in window.symbols
      <4>1. E!IsAcked(acks, Receiver, i)
        BY <1>1, <1>4, <3>2, <3>3, CoverComplete DEF Reliable
      <4>2. Have(i)
        BY <4>1 DEF HeldInv, AcksTrue, E!IsAcked, E!EntryAcks, EP!EntryAcks
      <4>. QED  BY <1>1, <4>2 DEF Have
    <3>4. CASE i \notin window.symbols
      BY <1>1, <1>2, <3>2, <3>4
    <3>. QED  BY <3>3, <3>4
  <2>. QED  BY <1>1, <2>2, <2>3 DEF KnownBelow
<1>. QED  BY <1>3, <1>4 DEF Encode

(* A step of a call. *)
LEMMA StepGives ==
  ASSUME D!Step
  PROVE  encoder_win_min' = encoder_win_min /\ (skipped' = skipped \/ DP!Finish)
<1>1. DP!Step  BY SameStep
<1>. QED
  BY <1>1 DEF DP!Step, DP!SubstituteKnown, DP!EliminateRow, DP!HarvestRow,
      DP!StartElimination, DP!InsertRow, DP!Rescan, DP!Cascade, DP!stored, DP!emitted,
      DP!Finish

(* Every step preserves NoGapInv. *)
LEMMA NoGapStep ==
  ASSUME FeedbackOnly, QuorumPositive
  PROVE  CodecInv /\ HeldInv /\ NothingVanishes /\ NoGapInv /\ [Next]_codecVars => NoGapInv'
<1>. SUFFICES ASSUME CodecInv, HeldInv, NothingVanishes, NoGapInv, [Next]_codecVars,
                     Reliable'
              PROVE  /\ evicted' = {} /\ skipped' = {}
                     /\ \A m \in sent' : m.packet.kind = "coded" => KnownBelow(m.packet.ids)'
                     /\ \A i \in D!SrcIds : i < encoder_win_min' => known'[i] # Absent
  BY DEF NoGapInv
<1>1. config' = config /\ covers' = covers
  <2>1. CASE Encode
    BY <2>1, SubmitPackets, GeneratePackets DEF Encode, Submit, CodecInv
  <2>2. CASE \E d \in inbox : ReceiveFeedback(d)
    BY <2>2, FeedbackHandled DEF ReceiveFeedback, netVars, CodecInv
  <2>. QED
    BY <2>1, <2>2 DEF Next, Receive, DecoderStep, PeerSends, codecVars, encoderVars, netVars
<1>2. Reliable  BY <1>1 DEF Reliable
<1>3. /\ evicted = {} /\ skipped = {}
      /\ \A m \in sent : m.packet.kind = "coded" => KnownBelow(m.packet.ids)
      /\ \A i \in D!SrcIds : i < encoder_win_min => known[i] # Absent
  BY <1>2 DEF NoGapInv
<1>4. skipped' = {} => \A i \in D!SrcIds : known[i] # Absent => known'[i] # Absent
  <2>1. HaveKept  BY DecoderGoesOn DEF HeldInv
  <2>. QED  BY <2>1 DEF HaveKept, Have
<1>5. skipped' = {} => \A ids : KnownBelow(ids) => KnownBelow(ids)'
  BY <1>4 DEF KnownBelow
<1>6. CASE UNCHANGED <<evicted, skipped, sent, encoder_win_min>>
  BY <1>3, <1>4, <1>5, <1>6
<1>7. CASE Encode
  <2>1. /\ evicted' = {}
        /\ \A p \in output' : p.kind = "coded" => KnownBelow(p.ids)
    BY <1>2, <1>7, OutputBelow
  <2>2. UNCHANGED <<skipped, encoder_win_min>>  BY <1>7 DEF Encode, decoderVars
  <2>3. \A m \in sent' : m \in sent \/ m.packet \in output'
    BY <1>7 DEF Encode, Submit, Generate, Transmit
  <2>. QED  BY <1>3, <1>4, <1>5, <2>1, <2>2, <2>3
<1>8. ASSUME NEW m \in sent, Receive(m), m.packet.kind = "coded"
      PROVE  /\ UNCHANGED <<evicted, skipped, sent>>
             /\ \A i \in D!SrcIds : i < encoder_win_min' => known[i] # Absent
  <2>. DEFINE p == m.packet
              v == CoefVector(p)
  <2>1. EP!SoundPacket(p, window.next_id)  BY DEF CodecInv, PacketsSound
  <2>2. p.ids \subseteq DP!SrcIds
    BY <1>8, <2>1, SenderFacts DEF CodecInv, EP!SoundPacket, DP!SrcIds
  <2>3. /\ v \in DP!Vectors /\ DP!Support(v) # {}
        /\ \A i \in DP!SrcIds : v[i] # Zero <=> i \in p.ids
    BY <1>8, <2>1, CodedVectors DEF CodecInv
  <2>4. DP!HandleCoded(v, v)  BY <1>8, Received, CodedArrives
  <2>. HIDE DEF v
  <2>5. DP!pivot_id(v) \in DP!SrcIds /\ \A j \in DP!Support(v) : DP!pivot_id(v) <= j
    BY <2>3, DecoderAssumptions, DP!PivotIsFirst
  <2>6. \A j \in p.ids : DP!pivot_id(v) <= j
    BY <2>2, <2>3, <2>5 DEF DP!Support
  <2>7. \A i \in D!SrcIds : i < DP!pivot_id(v) => known[i] # Absent
    <3>1. KnownBelow(p.ids)  BY <1>3, <1>8
    <3>2. \A i \in D!SrcIds : i < DP!pivot_id(v) => \A j \in p.ids : i < j
      BY <2>2, <2>5, <2>6 DEF D!SrcIds, DP!SrcIds
    <3>. QED  BY <3>1, <3>2 DEF KnownBelow
  <2>8. encoder_win_min' \in {DP!pivot_id(v), encoder_win_min} /\ skipped' = skipped
    BY <2>4 DEF DP!HandleCoded, DP!emitted
  <2>9. evicted' = evicted /\ sent' = sent  BY <1>8 DEF Receive, encoderVars
  <2>. QED  BY <1>3, <2>7, <2>8, <2>9
<1>9. CASE \E m \in sent : Receive(m)
  <2>1. PICK m \in sent : Receive(m)  BY <1>9
  <2>2. m.packet.kind \in {"source", "coded"}
    BY DEF CodecInv, PacketsSound, EP!SoundPacket
  <2>3. CASE m.packet.kind = "source"
    <3>1. UNCHANGED <<skipped, encoder_win_min>>
      BY <2>1, <2>3, Received, SourceArrives DEF DP!HandleSource, DP!emitted
    <3>. QED  BY <1>6, <2>1, <3>1 DEF Receive, encoderVars
  <2>4. CASE m.packet.kind = "coded"
    BY <1>3, <1>4, <1>5, <1>8, <2>1, <2>4
  <2>. QED  BY <2>2, <2>3, <2>4
<1>10. CASE DecoderStep
  <2>1. D!Step /\ UNCHANGED <<evicted, sent>>  BY <1>10 DEF DecoderStep, encoderVars
  <2>2. encoder_win_min' = encoder_win_min /\ (skipped' = skipped \/ DP!Finish)
    BY <2>1, StepGives
  <2>3. DP!Finish => skipped' = skipped
    BY <1>3, SameVectors, DecoderAssumptions, DP!FinishNoGap DEF CodecInv, HeldInv
  <2>. QED  BY <1>6, <2>1, <2>2, <2>3
<1>11. CASE \E d \in inbox : ReceiveFeedback(d)
  <2>1. evicted' = evicted  BY <1>11, ReleasedIsHeld
  <2>. QED  BY <1>6, <1>11, <2>1 DEF ReceiveFeedback, decoderVars, netVars
<1>12. CASE (\E d \in PeerData : PeerSends(d)) \/ UNCHANGED codecVars
  BY <1>6, <1>12 DEF PeerSends, codecVars, encoderVars, decoderVars, netVars
<1>. QED  BY <1>7, <1>9, <1>10, <1>11, <1>12 DEF Next

LEMMA NoGapInit == Init => NoGapInv
<1>1. Init => encoder_win_min = 0 /\ skipped = {} /\ evicted = {} /\ sent = {}
  BY DEF Init, E!Init, D!Init
<1>2. \A i \in D!SrcIds : ~(i < 0)  BY DEF D!SrcIds
<1>. QED  BY <1>1, <1>2 DEF NoGapInv

(* With backpressure Reject, and coded packets over the whole window or    *)
(* over all that the receiver has not acknowledged, the decoder never      *)
(* gives a symbol up, whatever is lost, duplicated and reordered, for      *)
(* every window, policy and rate.                                          *)
THEOREM CodecNoGapWithoutEviction ==
  FeedbackOnly /\ QuorumPositive => (Spec => []NoGapWithoutEviction)
<1>. SUFFICES ASSUME FeedbackOnly, QuorumPositive PROVE Spec => []NoGapWithoutEviction
  OBVIOUS
<1>1. NoGapInv => NoGapWithoutEviction  BY DEF NoGapInv, Reliable, NoGapWithoutEviction
<1>. QED
  BY <1>1, CodecInit, CodecStep, HeldInit, HeldStep, VanishInit, VanishStep, NoGapInit,
     NoGapStep, PTL DEF Spec
=============================================================================

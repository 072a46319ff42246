-------------------------- MODULE Transfer_proofs ---------------------------
(***************************************************************************)
(* Proofs about Transfer: the argument of Codec_proofs, for a network from *)
(* which datagrams leave, carried through the receiver's loop; and the     *)
(* linear algebra of DecoderMatrix_proofs, for the tail flush.             *)
(***************************************************************************)
EXTENDS Transfer, Codec_proofs, FiniteSetTheorems

IsSource(m, i) == m.packet.kind = "source" /\ m.packet.id = i

(* A datagram on its way: a frame of the transfer or a sound packet. *)
Datagram(m) ==
  \/ m.packet.kind = "START" /\ m.at = -1 /\ m.packet.n_symbols = n_symbols
  \/ m.packet.kind = "END" /\ m.at \in Int
  \/ /\ m.packet.kind \in {"source", "coded"}
     /\ m.at \in Nat /\ m.at < 2 * (window.next_id + coded_ids_used)
     /\ EP!SoundPacket(m.packet, window.next_id)

(* A coded packet is behind every source packet of what it covers and of   *)
(* what is older.                                                          *)
SourcesBefore ==
  \A s, c \in sent :
    /\ s.packet.kind = "source" /\ c.packet.kind = "coded"
    /\ \E j \in c.packet.ids : s.packet.id <= j
    => s.at < c.at

FlightOK == (\A m \in sent : Datagram(m)) /\ SourcesBefore

(* The source packet of symbol i was sent and is not on its way. *)
Gone(i) == i < window.next_id /\ \A m \in sent : ~IsSource(m, i)

(* Without reordering the matrix speaks only of such symbols. *)
FifoDecoder ==
  network = "fifo" => /\ ~late_pivot /\ DP!DataOK
                      /\ \A i \in D!SrcIds : DP!Mentions(i) => Gone(i)

(* The receiver's loop knows the length of the file from START on, writes  *)
(* the right file unless the matrix has gone wrong, and succeeds only then.*)
ReceiverOK ==
  /\ receiver \in {"receive", "stitch", "verify"} => session = n_symbols
  /\ ~late_pivot => /\ file \in {Absent, Original}
                    /\ receiver = "verify" => file = Original
  /\ result = "verified" => receiver = "done" /\ file = Original

TransferInv == /\ SenderOK /\ DP!TypeInv /\ DP!DataInv /\ n_symbols \in 0..NumIds
               /\ FlightOK /\ FifoDecoder /\ ReceiverOK

----------------------------------------------------------------------------
(* The network. *)

(* A symbol whose packet is not on its way stays so. *)
GoneKept == \A i \in D!SrcIds : Gone(i) => Gone(i)'

(* The sender adds what one call returns. *)
LEMMA TransmitFlight ==
  ASSUME SenderOK, FlightOK, SenderStep, Transmit, n_symbols' = n_symbols
  PROVE  FlightOK' /\ GoneKept
<1>. USE DEF SenderStep, OutputSound
<1>. DEFINE n == window.next_id
            u == coded_ids_used
<1>1. n \in Nat /\ u \in Nat /\ n <= window'.next_id /\ window'.next_id \in Nat
  BY SenderFacts
<1>2. \A p \in output' : p.kind \in {"source", "coded"}  BY DEF EP!SoundPacket
<1>3. \A p \in output' : Stamp(p) = IF p.kind = "source" THEN 2 * (n + u) ELSE 2 * (n + u) + 1
  BY <1>1 DEF Stamp
<1>4. /\ sent \subseteq sent'
      /\ \A m \in sent' \ sent :
        /\ m.packet \in output'
        /\ m.at = IF m.packet.kind = "source" THEN 2 * (n + u) ELSE 2 * (n + u) + 1
  BY <1>3 DEF Transmit
<1>5. \A p : EP!SoundPacket(p, n) => EP!SoundPacket(p, window.next_id)'
  BY <1>1 DEF EP!SoundPacket, EP!FirstCodedId, EP!coded_id_cycle
<1>6. \A p : EP!SoundPacket(p, window'.next_id) => EP!SoundPacket(p, window.next_id)'
  BY DEF EP!SoundPacket, EP!FirstCodedId, EP!coded_id_cycle
<1>7. ASSUME NEW m \in sent' PROVE Datagram(m)'
  <2>1. CASE m \in sent
    <3>1. Datagram(m)  BY <2>1 DEF FlightOK
    <3>. QED  BY <1>1, <1>5, <3>1 DEF Datagram
  <2>2. CASE m \notin sent
    BY <1>1, <1>2, <1>4, <1>6, <2>2 DEF Datagram
  <2>. QED  BY <2>1, <2>2
<1>8. SourcesBefore'
  <2>. SUFFICES ASSUME NEW s \in sent', NEW c \in sent', s.packet.kind = "source",
                       c.packet.kind = "coded", NEW j \in c.packet.ids, s.packet.id <= j
                PROVE  s.at < c.at
    BY DEF SourcesBefore
  <2>1. CASE s \in sent /\ c \in sent
    BY <2>1 DEF FlightOK, SourcesBefore
  <2>2. CASE s \notin sent /\ c \in sent
    <3>1. s.packet.id = n  BY <1>4, <2>2
    <3>2. c.packet.ids \subseteq 0..(n - 1)
      BY <2>2 DEF FlightOK, Datagram, EP!SoundPacket
    <3>. QED  BY <1>1, <3>1, <3>2
  <2>3. CASE c \notin sent
    <3>1. c.at = 2 * (n + u) + 1  BY <1>4, <2>3
    <3>2. s.at \in Nat /\ s.at <= 2 * (n + u)
      <4>1. CASE s \in sent  BY <1>1, <4>1 DEF FlightOK, Datagram
      <4>2. CASE s \notin sent  BY <1>1, <1>4, <4>2
      <4>. QED  BY <4>1, <4>2
    <3>. QED  BY <1>1, <3>1, <3>2
  <2>. QED  BY <2>1, <2>2, <2>3
<1>9. GoneKept
  <2>. SUFFICES ASSUME NEW i \in D!SrcIds, Gone(i) PROVE Gone(i)'  BY DEF GoneKept
  <2>1. i \in Int /\ i < n  BY DEF Gone, D!SrcIds
  <2>2. ASSUME NEW m \in sent', IsSource(m, i) PROVE FALSE
    <3>1. m \notin sent  BY <2>2 DEF Gone
    <3>2. i = n  BY <1>4, <2>2, <3>1 DEF IsSource
    <3>. QED  BY <1>1, <2>1, <3>2
  <2>. QED  BY <1>1, <2>1, <2>2 DEF Gone, IsSource
<1>. QED  BY <1>7, <1>8, <1>9 DEF FlightOK

(* Datagrams leave, or a frame is added. *)
LEMMA FlightRests ==
  ASSUME FlightOK, UNCHANGED <<config, coded_ids_used, n_symbols>>,
         window'.next_id = window.next_id,
         \A m \in sent' \ sent : m.packet.kind \in {"START", "END"} /\ Datagram(m)
  PROVE  FlightOK' /\ GoneKept
<1>1. \A m \in sent' : m \in sent \/ m.packet.kind \notin {"source", "coded"}
  OBVIOUS
<1>2. \A m \in sent' : Datagram(m)  BY DEF FlightOK
<1>3. \A m : Datagram(m) => Datagram(m)'
  BY DEF Datagram, EP!SoundPacket, EP!FirstCodedId, EP!coded_id_cycle
<1>4. SourcesBefore'  BY <1>1 DEF FlightOK, SourcesBefore
<1>5. GoneKept  BY <1>1 DEF GoneKept, Gone, IsSource
<1>. QED  BY <1>2, <1>3, <1>4, <1>5 DEF FlightOK

(* The decoder between calls. *)
LEMMA DecoderRests ==
  ASSUME DP!TypeInv, DP!DataInv, FifoDecoder, GoneKept, UNCHANGED <<decoderVars, network>>
  PROVE  DP!TypeInv' /\ DP!DataInv' /\ FifoDecoder'
<1>1. UNCHANGED DP!decVars
  BY DEF decoderVars, DP!decVars, DP!matrix, DP!stored, DP!emitted
<1>2. DP!TypeInv' /\ DP!DataInv'  BY <1>1, DecoderAssumptions, DP!TypeStep, DP!DataStep
<1>3. \A i : DP!Mentions(i)' <=> DP!Mentions(i)
  BY DEF decoderVars, DP!Keys, DP!Mentions
<1>4. DP!DataOK => DP!DataOK'
  BY DEF decoderVars, DP!DataOK, DP!RowsOK, DP!PayloadsOK, DP!QueueOK, DP!CurOK, DP!Keys
<1>5. late_pivot' = late_pivot  BY DEF decoderVars
<1>. QED  BY <1>2, <1>3, <1>4, <1>5 DEF FifoDecoder, GoneKept

(* The decoder within a call: its data stays right, or the key of a row    *)
(* went stale before.                                                      *)
LEMMA StepKeepsData ==
  ASSUME DP!TypeInv, DP!DataInv, D!Step
  PROVE  DP!DataInv' /\ late_pivot' = late_pivot
<1>1. DP!Next  BY SameStep DEF DP!Next
<1>2. DP!DataInv'  BY <1>1, DecoderAssumptions, DP!DataStep
<1>3. late_pivot' = late_pivot
  BY DEF D!Step, D!SubstituteKnown, D!EliminateRow, D!HarvestRow, D!StartElimination,
         D!InsertRow, D!Rescan, D!Finish, D!Cascade
<1>. QED  BY <1>2, <1>3

(* A datagram is taken: those before it are gone on a fifo network. *)
LEMMA Taken ==
  ASSUME FlightOK, NEW m, Take(m)
  PROVE  FlightOK' /\ GoneKept /\ Datagram(m)
<1>1. /\ UNCHANGED <<config, coded_ids_used, n_symbols>> /\ window'.next_id = window.next_id
      /\ sent' \subseteq sent /\ m \in sent
  BY DEF Take, MayBeLate, encoderVars, sendVars
<1>. QED  BY <1>1, FlightRests DEF FlightOK

----------------------------------------------------------------------------
(* The steps of the transfer. *)

(* send::run. *)
LEMMA SendInv ==
  ASSUME TransferInv, Send
  PROVE  /\ TransferInv' /\ GoneKept /\ config' = config
         /\ window'.next_id \in {window.next_id, window.next_id + 1}
<1>1. UNCHANGED <<decoderVars, network, n_symbols, recvVars>>  BY DEF Send
<1>2. ReceiverOK'  BY <1>1 DEF TransferInv, ReceiverOK, recvVars, decoderVars, Original
<1>3. window.next_id \in Nat /\ coded_ids_used \in Nat /\ SenderOK /\ FlightOK
  BY SenderFacts DEF TransferInv
<1>4. SUFFICES SenderOK' /\ FlightOK' /\ GoneKept /\ config' = config
               /\ window'.next_id \in {window.next_id, window.next_id + 1}
  BY <1>1, <1>2, <1>4, DecoderRests DEF TransferInv
<1>5. CASE SendSymbol
  <2>1. E!SubmitSource /\ Transmit  BY <1>5 DEF SendSymbol, Submit
  <2>2. /\ SenderOK' /\ config' = config /\ window'.next_id = window.next_id + 1
        /\ coded_ids_used' \in Nat /\ coded_ids_used <= coded_ids_used'
    BY <1>3, <2>1, SubmitPackets
  <2>3. OutputSound  BY <1>3, <2>1, <2>2, SubmitPackets DEF OutputSound
  <2>4. SenderStep  BY <1>3, <2>2, <2>3 DEF SenderStep
  <2>. QED  BY <1>1, <1>3, <2>1, <2>2, <2>4, TransmitFlight
<1>6. CASE SendTargeted \/ SendTail
  <2>1. PICK cover \in SUBSET E!WindowIds(window) : E!GenerateOne(cover)
    <3>1. CASE E!GenerateCoded
      BY <3>1 DEF E!GenerateCoded
    <3>2. CASE E!GenerateCodedRecent(AltcRecent)
      BY <3>2 DEF E!GenerateCodedRecent, E!WindowIds
    <3>3. CASE E!GenerateCodedForReceiver(Receiver)
      BY <3>3 DEF E!GenerateCodedForReceiver
    <3>. QED  BY <1>6, <3>1, <3>2, <3>3 DEF SendTargeted, SendTail
  <2>2. /\ SenderOK' /\ config' = config /\ window' = window
        /\ coded_ids_used' = coded_ids_used + 1
        /\ \A p \in output' : EP!SoundPacket(p, window'.next_id) /\ p.kind # "source"
    BY <1>3, <2>1, OnePacket
  <2>3. Transmit  BY <1>6 DEF SendTargeted, SendTail
  <2>4. SenderStep  BY <1>3, <2>2 DEF SenderStep, OutputSound
  <2>. QED  BY <1>1, <1>3, <2>2, <2>3, <2>4, TransmitFlight
<1>7. CASE SendStart \/ BeginTail \/ SendEnd
  <2>1. UNCHANGED encoderVars /\ sent' \ sent \subseteq {Start, End}
    BY <1>7 DEF SendStart, BeginTail, SendEnd
  <2>2. Datagram(Start) /\ Start.packet.kind = "START"  BY DEF Datagram, Start
  <2>3. Datagram(End) /\ End.packet.kind = "END"  BY <1>3 DEF Datagram, End
  <2>4. SenderOK'  BY <1>3, <2>1, SenderRests
  <2>5. \A m \in sent' \ sent : m.packet.kind \in {"START", "END"} /\ Datagram(m)
    BY <2>1, <2>2, <2>3
  <2>6. UNCHANGED <<config, coded_ids_used, window>>  BY <2>1 DEF encoderVars
  <2>. QED  BY <1>1, <1>3, <2>4, <2>5, <2>6, FlightRests
<1>. QED  BY <1>5, <1>6, <1>7 DEF Send

(* A packet reaches the decoder. *)
LEMMA DataInvStep ==
  ASSUME TransferInv, NEW m, Take(m), ReceiveData(m)
  PROVE  /\ DP!TypeInv' /\ DP!DataInv' /\ FifoDecoder'
         /\ late_pivot => late_pivot'
<1>. DEFINE p == m.packet
<1>1. /\ SenderOK /\ m \in sent /\ Handle(p) /\ p.kind \in {"source", "coded"}
      /\ DP!TypeInv /\ DP!DataInv /\ network' = network
  BY DEF TransferInv, Take, ReceiveData
<1>2. FlightOK' /\ GoneKept /\ m.at \in Nat /\ EP!SoundPacket(p, window.next_id)
  BY <1>1, Taken DEF TransferInv, Datagram
<1>3. CASE p.kind = "source"
  <2>1. p.id \in DP!SrcIds /\ DP!HandleSource(p.id, DP!Unit(p.id))
    BY <1>1, <1>2, <1>3, SourceArrives
  <2>2. DP!Unit(p.id) \in DP!Vectors  BY <2>1, DecoderAssumptions, DP!UnitType
  <2>3. DP!TypeInv'
    BY <1>1, <2>1, <2>2, DecoderAssumptions, DP!HandleSourceType
  <2>4. ASSUME network = "fifo"
        PROVE  /\ ~late_pivot' /\ DP!DataOK'
               /\ \A i \in D!SrcIds : DP!Mentions(i)' => Gone(i)'
    <3>1. ~late_pivot /\ DP!DataOK /\ \A i \in D!SrcIds : DP!Mentions(i) => Gone(i)
      BY <2>4 DEF TransferInv, FifoDecoder
    <3>2. rows[p.id] = Absent
      <4>. SUFFICES ASSUME rows[p.id] # Absent PROVE FALSE  OBVIOUS
      <4>1. p.id \in DP!Keys(rows)  BY <2>1 DEF DP!Keys
      <4>2. rows[p.id].coefs[p.id] = One  BY <3>1, <4>1 DEF DP!DataOK, DP!RowsOK
      <4>3. DP!Mentions(p.id)  BY <4>1, <4>2, DecoderAssumptions DEF DP!Mentions
      <4>4. Gone(p.id)  BY <2>1, <3>1, <4>3, SameVectors
      <4>. QED  BY <1>1, <1>3, <4>4 DEF Gone, IsSource
    <3>3. ~late_pivot'  BY <2>1, <3>1, <3>2 DEF DP!HandleSource
    <3>4. DP!DataOK'
      BY <1>1, <2>1, <3>1, <3>3, DecoderAssumptions, DP!HandleSourceData
    <3>5. \A i : DP!Mentions(i)' => DP!Mentions(i)
      BY <2>1 DEF DP!HandleSource, DP!Mentions, DP!Keys
    <3>. QED  BY <1>2, <3>1, <3>3, <3>4, <3>5 DEF GoneKept
  <2>5. late_pivot => late_pivot'
    BY <2>1, <1>1, DecoderAssumptions DEF DP!HandleSource, DP!TypeInv, DP!TypeOK
  <2>6. ASSUME ~late_pivot' PROVE DP!DataOK'
    <3>1. ~late_pivot  BY <2>1, <2>6 DEF DP!HandleSource
    <3>2. DP!DataOK  BY <1>1, <3>1 DEF DP!DataInv, DP!DataOK
    <3>. QED  BY <1>1, <2>1, <2>6, <3>1, <3>2, DecoderAssumptions, DP!HandleSourceData
  <2>7. DP!DataInv'  BY <2>6 DEF DP!DataInv, DP!DataOK
  <2>. QED  BY <1>1, <2>3, <2>4, <2>5, <2>7 DEF FifoDecoder
<1>4. CASE p.kind = "coded"
  <2>. DEFINE v == CoefVector(p)
  <2>1. DP!HandleCoded(v, v)  BY <1>1, <1>2, <1>4, CodedArrives
  <2>2. /\ v \in DP!Vectors /\ DP!Support(v) # {}
        /\ \A i \in DP!SrcIds : v[i] # Zero <=> i \in p.ids
    BY <1>1, <1>2, <1>4, CodedVectors
  <2>. HIDE DEF v
  <2>3. DP!TypeInv'
    BY <1>1, <2>1, <2>2, DecoderAssumptions, DP!HandleCodedType
  <2>4. ASSUME network = "fifo"
        PROVE  /\ ~late_pivot' /\ DP!DataOK'
               /\ \A i \in D!SrcIds : DP!Mentions(i)' => Gone(i)'
    <3>1. ~late_pivot /\ DP!DataOK /\ \A i \in D!SrcIds : DP!Mentions(i) => Gone(i)
      BY <2>4 DEF TransferInv, FifoDecoder
    <3>2. ~late_pivot'  BY <2>1, <3>1 DEF DP!HandleCoded
    <3>3. DP!DataOK'
      BY <1>1, <2>1, <2>2, <3>1, DecoderAssumptions, DP!HandleCodedData
    <3>4. \A i \in D!SrcIds : DP!Mentions(i)' => DP!Mentions(i) \/ i \in p.ids
      BY <2>1, <2>2, SameVectors DEF DP!HandleCoded, DP!Mentions, DP!Keys
    <3>5. ASSUME NEW i \in p.ids PROVE Gone(i)'
      <4>1. i \in Int /\ i < window.next_id
        BY <1>2, <1>1, <1>4, SenderFacts DEF EP!SoundPacket
      <4>2. window' = window /\ sent' = {x \in sent \ {m} : x.at >= m.at}
        BY <2>4 DEF Take, MayBeLate, encoderVars
      <4>3. ASSUME NEW s \in sent', IsSource(s, i) PROVE FALSE
        <5>1. s \in sent /\ s.at >= m.at  BY <4>2
        <5>2. s.at \in Nat  BY <4>3, <5>1 DEF TransferInv, FlightOK, Datagram, IsSource
        <5>3. s.at < m.at
          BY <1>1, <1>4, <4>1, <4>3, <5>1 DEF TransferInv, FlightOK, SourcesBefore, IsSource
        <5>. QED  BY <1>2, <5>1, <5>2, <5>3
      <4>. QED  BY <4>1, <4>2, <4>3 DEF Gone, IsSource
    <3>. QED  BY <1>2, <3>1, <3>2, <3>3, <3>4, <3>5 DEF GoneKept
  <2>5. late_pivot' = late_pivot  BY <2>1 DEF DP!HandleCoded
  <2>6. ASSUME ~late_pivot' PROVE DP!DataOK'
    <3>1. DP!DataOK  BY <1>1, <2>5, <2>6 DEF DP!DataInv, DP!DataOK
    <3>. QED  BY <1>1, <2>1, <2>2, <3>1, DecoderAssumptions, DP!HandleCodedData
  <2>7. DP!DataInv'  BY <2>6 DEF DP!DataInv, DP!DataOK
  <2>. QED  BY <1>1, <2>3, <2>4, <2>5, <2>7 DEF FifoDecoder
<1>. QED  BY <1>1, <1>3, <1>4

(* recv::run takes a datagram. *)
LEMMA ReceiveInv ==
  ASSUME TransferInv, NEW m, Take(m), Receiving(m)
  PROVE  TransferInv'
<1>1. /\ UNCHANGED encoderVars /\ n_symbols' = n_symbols /\ network' = network
      /\ SenderOK /\ DP!TypeInv /\ DP!DataInv /\ FifoDecoder
  BY DEF Take, sendVars, TransferInv
<1>2. SenderOK'  BY <1>1, SenderRests
<1>3. FlightOK' /\ GoneKept /\ Datagram(m)  BY Taken DEF TransferInv
<1>4. DP!TypeInv' /\ DP!DataInv' /\ FifoDecoder' /\ (late_pivot => late_pivot')
  <2>1. CASE ReceiveData(m)  BY <2>1, DataInvStep
  <2>2. CASE UNCHANGED decoderVars
    BY <1>1, <1>3, <2>2, DecoderRests DEF decoderVars
  <2>. QED  BY <2>1, <2>2 DEF Receiving, WaitStart, ReceiveEnd
<1>5. ReceiverOK'
  <2>1. file' = file /\ Original' = Original
    BY <1>1 DEF Receiving, WaitStart, ReceiveData, ReceiveEnd, recvVars, Original
  <2>2. CASE WaitStart(m)
    BY <1>1, <1>3, <2>1, <1>4, <2>2 DEF WaitStart, Datagram, TransferInv, ReceiverOK
  <2>3. CASE ReceiveData(m)
    BY <1>1, <2>1, <1>4, <2>3 DEF ReceiveData, recvVars, TransferInv, ReceiverOK
  <2>4. CASE ReceiveEnd(m)
    BY <1>1, <2>1, <1>4, <2>4 DEF ReceiveEnd, TransferInv, ReceiverOK
  <2>. QED  BY <2>2, <2>3, <2>4 DEF Receiving
<1>. QED  BY <1>1, <1>2, <1>3, <1>4, <1>5 DEF TransferInv

(* The steps that leave the decoder and the network alone. *)
LEMMA LoopInv ==
  ASSUME TransferInv, StartTimeout \/ ReceiveTimeout \/ SlowPacket \/ Stitch \/ Verify
  PROVE  TransferInv'
<1>1. UNCHANGED <<encoderVars, decoderVars, netVars, sendVars>>
  BY DEF StartTimeout, ReceiveTimeout, SlowPacket, Stitch, Verify, Expires
<1>2. SenderOK'  BY <1>1, SenderRests DEF TransferInv
<1>3. FlightOK' /\ GoneKept
  <2>1. UNCHANGED <<config, window, coded_ids_used, n_symbols, sent>>
    BY <1>1 DEF encoderVars, sendVars, netVars
  <2>. QED  BY <2>1, FlightRests DEF TransferInv
<1>4. DP!TypeInv' /\ DP!DataInv' /\ FifoDecoder'
  BY <1>1, <1>3, DecoderRests DEF TransferInv, netVars
<1>5. n_symbols' = n_symbols /\ late_pivot' = late_pivot /\ Original' = Original
  BY <1>1 DEF sendVars, decoderVars, Original
<1>6. ReceiverOK'
  <2>1. CASE Stitch
    <3>1. session = n_symbols /\ session' = session
      BY <2>1 DEF Stitch, TransferInv, ReceiverOK
    <3>2. CASE \E id \in 0..(session - 1) : delivered[id] = Absent
      BY <1>5, <2>1, <3>1, <3>2 DEF Stitch, TransferInv, ReceiverOK
    <3>3. CASE \A id \in 0..(session - 1) : delivered[id] # Absent
      <4>1. receiver' = "verify" /\ file' = [id \in 0..(n_symbols - 1) |-> delivered[id]]
        BY <2>1, <3>1, <3>3 DEF Stitch
      <4>2. ~late_pivot => file' = Original
        <5>. SUFFICES ASSUME ~late_pivot PROVE file' = Original  OBVIOUS
        <5>1. \A i \in D!SrcIds : delivered[i] \in {Absent, D!Unit(i)}
          BY SameVectors DEF TransferInv, DP!DataInv, DP!PayloadsOK
        <5>2. 0..(n_symbols - 1) \subseteq D!SrcIds
          BY CodecAssumption DEF TransferInv, D!SrcIds
        <5>3. \A id \in 0..(n_symbols - 1) : delivered[id] = D!Unit(id)
          BY <3>1, <3>3, <5>1, <5>2
        <5>. QED  BY <4>1, <5>3 DEF Original
      <4>3. result' = result /\ result # "verified"
        BY <2>1, <3>3 DEF Stitch, TransferInv, ReceiverOK
      <4>. QED  BY <1>5, <3>1, <4>1, <4>2, <4>3 DEF ReceiverOK
    <3>. QED  BY <3>2, <3>3
  <2>2. CASE StartTimeout \/ ReceiveTimeout \/ SlowPacket \/ Verify
    BY <1>5, <2>2
    DEF StartTimeout, ReceiveTimeout, SlowPacket, Verify, Expires, TransferInv, ReceiverOK
  <2>. QED  BY <2>1, <2>2
<1>. QED  BY <1>2, <1>3, <1>4, <1>5, <1>6 DEF TransferInv

(* Every step preserves the invariant. *)
LEMMA TransferStep == TransferInv /\ [TransferNext]_transferVars => TransferInv'
<1>. SUFFICES ASSUME TransferInv, [TransferNext]_transferVars PROVE TransferInv'  OBVIOUS
<1>1. CASE Send  BY <1>1, SendInv
<1>2. CASE ReceiveDatagram  BY <1>2, ReceiveInv DEF ReceiveDatagram
<1>3. CASE Vanish \/ UNCHANGED transferVars
  <2>1. /\ UNCHANGED <<encoderVars, decoderVars, network, sendVars, recvVars>>
        /\ sent' \subseteq sent
    BY <1>3 DEF Vanish, transferVars, codecVars, netVars
  <2>2. SenderOK'  BY <2>1, SenderRests DEF TransferInv
  <2>3. FlightOK' /\ GoneKept
    <3>1. UNCHANGED <<config, window, coded_ids_used, n_symbols>>
      BY <2>1 DEF encoderVars, sendVars
    <3>. QED  BY <2>1, <3>1, FlightRests DEF TransferInv
  <2>4. DP!TypeInv' /\ DP!DataInv' /\ FifoDecoder'
    BY <2>1, <2>3, DecoderRests DEF TransferInv
  <2>5. ReceiverOK' /\ n_symbols' = n_symbols
    BY <2>1 DEF TransferInv, ReceiverOK, Original, sendVars, recvVars, decoderVars
  <2>. QED  BY <2>2, <2>3, <2>4, <2>5 DEF TransferInv
<1>4. CASE Decode
  <2>1. D!Step /\ UNCHANGED <<encoderVars, netVars, sendVars, recvVars>>
    BY <1>4 DEF Decode
  <2>2. SenderOK'  BY <2>1, SenderRests DEF TransferInv
  <2>3. FlightOK' /\ GoneKept
    <3>1. UNCHANGED <<config, window, coded_ids_used, n_symbols, sent>>
      BY <2>1 DEF encoderVars, sendVars, netVars
    <3>. QED  BY <3>1, FlightRests DEF TransferInv
  <2>4. DP!TypeInv' /\ DP!DataInv' /\ late_pivot' = late_pivot
    BY <2>1, StepTypes, StepKeepsData DEF TransferInv
  <2>5. FifoDecoder'
    BY <2>1, <2>3, StepSafe, StepMentions DEF TransferInv, FifoDecoder, GoneKept, netVars
  <2>6. ReceiverOK' /\ n_symbols' = n_symbols
    BY <2>1, <2>4 DEF TransferInv, ReceiverOK, Original, sendVars, recvVars
  <2>. QED  BY <2>2, <2>3, <2>4, <2>5, <2>6 DEF TransferInv
<1>. QED  BY <1>1, <1>2, <1>3, <1>4, LoopInv DEF TransferNext

(* TransferInv holds at the start. *)
LEMMA TransferStarts == TransferInit => TransferInv
<1>. SUFFICES ASSUME TransferInit PROVE TransferInv  OBVIOUS
<1>1. EP!SenderInv
  BY SameEncoderInit, EncoderAssumptions, EP!SenderInit DEF TransferInit
<1>2. window.next_id = 0  BY DEF TransferInit, E!Init, E!NewWindow
<1>3. DP!Init  BY SameDecoderInit DEF TransferInit
<1>4. DP!TypeInv /\ DP!DataInv /\ ~late_pivot
  BY <1>3, DecoderAssumptions, DP!InitType, DP!InitData DEF DP!Init
<1>5. \A i \in D!SrcIds : ~DP!Mentions(i)
  BY <1>3, SameVectors DEF DP!Init, DP!Mentions, DP!Keys, DP!EmptyMap, DP!NoRow
<1>6. SenderOK  BY <1>1, <1>2, CodecAssumption DEF SenderOK
<1>7. FifoDecoder  BY <1>4, <1>5 DEF FifoDecoder, DP!DataInv, DP!DataOK
<1>8. n_symbols \in 0..NumIds  BY TransferAssumption DEF TransferInit
<1>9. FlightOK /\ ReceiverOK
  BY DEF TransferInit, FlightOK, SourcesBefore, ReceiverOK
<1>. QED  BY <1>4, <1>6, <1>7, <1>8, <1>9 DEF TransferInv

(* A wrong file is written only when datagrams overtake each other and a   *)
(* source packet meets the key of a row, and success is reported for the   *)
(* right file only, for every file, every --altc mode and every pattern of *)
(* loss, eviction, timeouts and reordering.                                *)
THEOREM TransferWrongFileReported == TransferSpec => []WrongFileReported
<1>1. TransferInv => WrongFileReported
  BY DEF TransferInv, ReceiverOK, FifoDecoder, WrongFileReported
<1>. QED  BY <1>1, TransferStarts, TransferStep, PTL DEF TransferSpec

----------------------------------------------------------------------------
(* All the sources suffice: the rest of the invariant. *)

(* No source packet is lost so far: each one sent is on its way or was     *)
(* handed to the decoder.                                                  *)
Intact == \A i \in 0..(window.next_id - 1) : i \in sources \/ ~Gone(i)

DecoderGoing == DP!ReportInv /\ DP!NoStallWithoutGap /\ gap \subseteq skipped

(* Without loss and reordering of sources the window minimum of a coded    *)
(* packet never overtakes what the decoder knows.                          *)
NothingGivenUp ==
  network = "fifo" /\ Intact =>
    /\ skipped = {}
    /\ \A i \in D!SrcIds : i < encoder_win_min => known[i] # Absent

SourcesKnown == sources \subseteq DP!Keys(known)

ProgressInv == /\ DecoderGoing /\ SourcesKnown /\ NothingGivenUp /\ AllSourcesSuffice
               /\ window.next_id <= n_symbols
               /\ receiver = "wait_start" => session = Absent

(* What is lost stays lost. *)
LEMMA IntactBack ==
  ASSUME SenderOK, GoneKept, window'.next_id \in {window.next_id, window.next_id + 1},
         \A i \in sources' : i \in sources \/ ~Gone(i), Intact'
  PROVE  Intact
<1>1. window.next_id \in Nat /\ NumIds \in Nat /\ window.next_id <= NumIds  BY SenderFacts
<1>2. \A i \in 0..(window.next_id - 1) : i \in D!SrcIds /\ i \in 0..(window'.next_id - 1)
  BY <1>1 DEF D!SrcIds
<1>. QED  BY <1>2 DEF Intact, GoneKept

(* The decoder and the record of the sources at rest. *)
LEMMA ProgressRests ==
  ASSUME TransferInv, ProgressInv, GoneKept, UNCHANGED <<decoderVars, network, sources>>,
         window'.next_id \in {window.next_id, window.next_id + 1}
  PROVE  DecoderGoing' /\ SourcesKnown' /\ NothingGivenUp'
<1>1. UNCHANGED <<known, buffer, next_delivery_id, DP!emitted, pc, gap, skipped,
                  encoder_win_min>>
  BY DEF decoderVars, DP!emitted
<1>2. DP!ReportInv'  BY <1>1, DecoderAssumptions, DP!ReportRests DEF ProgressInv, DecoderGoing
<1>3. DP!NoStallWithoutGap' /\ gap' \subseteq skipped'
  BY <1>1 DEF ProgressInv, DecoderGoing, DP!NoStallWithoutGap
<1>4. SourcesKnown'  BY <1>1 DEF ProgressInv, SourcesKnown, DP!Keys
<1>5. Intact' => Intact  BY IntactBack DEF TransferInv
<1>6. NothingGivenUp'  BY <1>1, <1>5 DEF ProgressInv, NothingGivenUp
<1>. QED  BY <1>2, <1>3, <1>4, <1>6 DEF DecoderGoing

(* A call of the decoder goes on. *)
LEMMA DecodeProgress ==
  ASSUME TransferInv, ProgressInv, GoneKept, Decode
  PROVE  DecoderGoing' /\ SourcesKnown' /\ NothingGivenUp'
<1>1. /\ D!Step /\ UNCHANGED <<window, network, sources>> /\ DP!TypeInv
      /\ DecoderGoing /\ SenderOK
  BY DEF Decode, encoderVars, netVars, TransferInv, ProgressInv
<1>2. DP!Next  BY <1>1, SameStep DEF DP!Next
<1>3. DP!ReportInv' /\ DP!NothingLost
  BY <1>1, <1>2, DecoderAssumptions, DP!ReportStep DEF DecoderGoing
<1>4. DP!NoStallWithoutGap'
  BY <1>1, <1>2, DecoderAssumptions, DP!StallStep DEF DecoderGoing
<1>5. gap' \subseteq skipped'
  BY <1>1, <1>2, DecoderAssumptions, DP!GapSkippedStep DEF DecoderGoing
<1>6. SourcesKnown'
  BY <1>1, <1>3 DEF ProgressInv, SourcesKnown, DP!NothingLost
<1>7. ASSUME network' = "fifo", Intact'
      PROVE  /\ skipped' = {}
             /\ \A i \in D!SrcIds : i < encoder_win_min' => known'[i] # Absent
  <2>1. Intact  BY <1>1, <1>7, IntactBack
  <2>2. /\ skipped = {}
        /\ \A i \in D!SrcIds : i < encoder_win_min => known[i] # Absent
    BY <1>1, <1>7, <2>1 DEF ProgressInv, NothingGivenUp
  <2>3. encoder_win_min' = encoder_win_min /\ (skipped' = skipped \/ DP!Finish)
    BY <1>1, StepGives
  <2>4. DP!Finish => skipped' = skipped
    BY <1>1, <2>2, SameVectors, DecoderAssumptions, DP!FinishNoGap DEF DecoderGoing
  <2>5. \A i \in D!SrcIds : known[i] # Absent => known'[i] # Absent
    BY <1>3, SameVectors DEF DP!NothingLost, DP!Keys
  <2>. QED  BY <2>2, <2>3, <2>4, <2>5
<1>. QED  BY <1>3, <1>4, <1>5, <1>6, <1>7 DEF DecoderGoing, NothingGivenUp

(* A source packet reaches the decoder. *)
LEMMA SourceProgress ==
  ASSUME TransferInv, ProgressInv, NEW m, Take(m), ReceiveData(m), m.packet.kind = "source"
  PROVE  DecoderGoing' /\ SourcesKnown' /\ NothingGivenUp'
<1>. DEFINE p == m.packet
<1>1. /\ SenderOK /\ m \in sent /\ Handle(p) /\ sources' \subseteq sources \cup {p.id}
      /\ DP!TypeInv /\ UNCHANGED <<window, network>> /\ DecoderGoing
  BY DEF TransferInv, ProgressInv, Take, ReceiveData, encoderVars
<1>2. GoneKept /\ EP!SoundPacket(p, window.next_id)
  BY Taken DEF TransferInv, Datagram
<1>3. p.id \in DP!SrcIds /\ DP!HandleSource(p.id, DP!Unit(p.id))
  BY <1>1, <1>2, SourceArrives
<1>4. DP!Next  BY <1>3 DEF DP!Next
<1>5. DP!ReportInv' /\ DP!NothingLost
  BY <1>1, <1>4, DecoderAssumptions, DP!ReportStep DEF DecoderGoing
<1>6. DP!NoStallWithoutGap'
  BY <1>1, <1>4, DecoderAssumptions, DP!StallStep DEF DecoderGoing
<1>7. UNCHANGED <<gap, skipped, encoder_win_min>>
  BY <1>3 DEF DP!HandleSource, DP!emitted
<1>8. p.id \in DP!Keys(known)'
  <2>1. DP!Unit(p.id) # Absent
    BY <1>3, DecoderAssumptions, DP!UnitType DEF DP!AbsentAssumption
  <2>2. known' = DP!OrInsert(known, p.id, DP!Unit(p.id))  BY <1>3 DEF DP!HandleSource
  <2>3. known \in [DP!SrcIds -> DP!Vectors \cup {Absent}]
    BY <1>1 DEF DP!TypeInv, DP!TypeOK
  <2>4. known'[p.id] # Absent  BY <1>3, <2>1, <2>2, <2>3 DEF DP!OrInsert
  <2>. QED  BY <1>3, <2>4 DEF DP!Keys
<1>9. SourcesKnown'
  BY <1>1, <1>5, <1>8 DEF ProgressInv, SourcesKnown, DP!NothingLost
<1>10. Intact' => Intact
  <2>1. ~Gone(p.id)  BY <1>1 DEF Gone, IsSource
  <2>. QED  BY <1>1, <1>2, <2>1, IntactBack
<1>11. \A i \in D!SrcIds : known[i] # Absent => known'[i] # Absent
  BY <1>5, SameVectors DEF DP!NothingLost, DP!Keys
<1>12. NothingGivenUp'  BY <1>1, <1>7, <1>10, <1>11 DEF ProgressInv, NothingGivenUp
<1>. QED  BY <1>1, <1>5, <1>6, <1>7, <1>9, <1>12 DEF DecoderGoing

(* A coded packet reaches the decoder: on a fifo network every source      *)
(* packet below its first symbol has left, and if none is lost they are    *)
(* with the decoder.                                                       *)
LEMMA CodedProgress ==
  ASSUME TransferInv, ProgressInv, NEW m, Take(m), ReceiveData(m), m.packet.kind = "coded"
  PROVE  DecoderGoing' /\ SourcesKnown' /\ NothingGivenUp'
<1>. DEFINE p == m.packet
            v == CoefVector(p)
<1>1. /\ SenderOK /\ m \in sent /\ Handle(p) /\ sources' = sources
      /\ DP!TypeInv /\ UNCHANGED <<window, network>> /\ DecoderGoing
      /\ FlightOK
  BY DEF TransferInv, ProgressInv, Take, ReceiveData, encoderVars
<1>2. GoneKept /\ EP!SoundPacket(p, window.next_id) /\ m.at \in Nat
  BY Taken DEF TransferInv, Datagram
<1>3. DP!HandleCoded(v, v)  BY <1>1, <1>2, CodedArrives
<1>4. /\ v \in DP!Vectors /\ DP!Support(v) # {}
      /\ \A i \in DP!SrcIds : v[i] # Zero <=> i \in p.ids
  BY <1>1, <1>2, CodedVectors
<1>. HIDE DEF v
<1>5. UNCHANGED <<known, buffer, next_delivery_id, DP!emitted>> /\ pc' # "idle"
  BY <1>3 DEF DP!HandleCoded
<1>6. DP!ReportInv'  BY <1>1, <1>5, DecoderAssumptions, DP!ReportRests DEF DecoderGoing
<1>7. DP!NoStallWithoutGap'  BY <1>5 DEF DP!NoStallWithoutGap
<1>8. UNCHANGED <<gap, skipped>>  BY <1>5 DEF DP!emitted
<1>9. SourcesKnown'  BY <1>1, <1>5 DEF ProgressInv, SourcesKnown, DP!Keys
<1>10. ASSUME network' = "fifo", Intact'
       PROVE  /\ skipped' = {}
              /\ \A i \in D!SrcIds : i < encoder_win_min' => known'[i] # Absent
  <2>1. Intact  BY <1>1, <1>2, <1>10, IntactBack
  <2>2. /\ skipped = {}
        /\ \A i \in D!SrcIds : i < encoder_win_min => known[i] # Absent
    BY <1>1, <1>10, <2>1 DEF ProgressInv, NothingGivenUp
  <2>3. DP!pivot_id(v) \in DP!Support(v)
    BY <1>4, DecoderAssumptions, DP!PivotIsFirst
  <2>4. DP!pivot_id(v) \in p.ids /\ DP!pivot_id(v) \in Int
    BY <1>4, <2>3 DEF DP!Support, DP!SrcIds
  <2>5. encoder_win_min' \in {DP!pivot_id(v), encoder_win_min}
    BY <1>3 DEF DP!HandleCoded
  <2>6. DP!pivot_id(v) < window.next_id
    BY <1>1, <1>2, <2>4, SenderFacts DEF EP!SoundPacket
  <2>7. ASSUME NEW i \in D!SrcIds, i < DP!pivot_id(v) PROVE known[i] # Absent
    <3>1. i \in 0..(window.next_id - 1) /\ i < window.next_id
      BY <1>1, <2>4, <2>6, <2>7, SenderFacts DEF D!SrcIds
    <3>2. ASSUME NEW s \in sent', IsSource(s, i) PROVE FALSE
      <4>1. s \in sent /\ s.at >= m.at  BY <1>1, <1>10 DEF Take, MayBeLate
      <4>2. s.at \in Nat  BY <3>2, <4>1 DEF TransferInv, FlightOK, Datagram, IsSource
      <4>3. i <= DP!pivot_id(v)  BY <2>4, <2>7 DEF D!SrcIds
      <4>4. s.at < m.at
        BY <1>1, <2>4, <3>2, <4>1, <4>3 DEF FlightOK, SourcesBefore, IsSource
      <4>. QED  BY <1>2, <4>1, <4>2, <4>4
    <3>3. Gone(i)'  BY <1>1, <3>1, <3>2 DEF Gone, IsSource
    <3>4. i \in sources  BY <1>1, <1>10, <3>1, <3>3 DEF Intact
    <3>. QED  BY <3>4 DEF ProgressInv, SourcesKnown, DP!Keys
  <2>. QED  BY <1>5, <1>8, <2>2, <2>5, <2>7
<1>. QED  BY <1>1, <1>6, <1>7, <1>8, <1>9, <1>10 DEF DecoderGoing, NothingGivenUp

(* Between the calls of a decoder that gave nothing up, the receiver has   *)
(* what the decoder knows.                                                 *)
LEMMA FileDelivered ==
  ASSUME TransferInv, DecoderGoing, skipped = {}, pc = "idle", session = n_symbols,
         \A i \in 0..(n_symbols - 1) : known[i] # Absent
  PROVE  AllSymbols /\ \A i \in 0..(session - 1) : delivered[i] # Absent
<1>1. DP!TypeInv /\ n_symbols \in 0..NumIds /\ n_symbols \in Nat /\ NumIds \in Nat
  BY SenderFacts DEF TransferInv
<1>2. gap = {}  BY DEF DecoderGoing
<1>3. \A i \in 0..(n_symbols - 1) : i \in DP!SrcIds /\ delivered[i] # Absent
  BY <1>1, <1>2, DecoderAssumptions, DP!KnownAreDelivered DEF DecoderGoing
<1>4. 0..(n_symbols - 1) \in SUBSET D!Keys(delivered)
  BY <1>3, SameVectors DEF D!Keys
<1>5. D!Keys(delivered) \in SUBSET (0..(NumIds - 1))
  BY DEF D!Keys, D!SrcIds
<1>6. IsFiniteSet(D!Keys(delivered))
  <2>1. IsFiniteSet(0..(NumIds - 1))  BY <1>1, IntervalSize
  <2>. QED  BY <1>5, <2>1, FS_Subset
<1>7. Cardinality(D!Keys(delivered)) \in Nat  BY <1>6, FS_CardinalityType
<1>8. Cardinality(0..(n_symbols - 1)) = n_symbols  BY <1>1, IntervalSize
<1>9. Cardinality(0..(n_symbols - 1)) <= Cardinality(D!Keys(delivered))
  BY <1>4, <1>6, FS_Subset
<1>10. AllSymbols  BY <1>1, <1>7, <1>8, <1>9 DEF AllSymbols
<1>. QED  BY <1>3, <1>10

(* With every source packet received it has the file. *)
LEMMA SourcesDelivered ==
  ASSUME TransferInv, ProgressInv, network = "fifo", sources = 0..(n_symbols - 1),
         pc = "idle", session = n_symbols
  PROVE  AllSymbols /\ \A i \in 0..(session - 1) : delivered[i] # Absent
<1>1. SenderOK /\ DecoderGoing /\ n_symbols \in Nat /\ window.next_id <= n_symbols
  BY DEF TransferInv, ProgressInv
<1>2. window.next_id \in Nat  BY <1>1, SenderFacts
<1>3. Intact  BY <1>1, <1>2 DEF Intact
<1>4. skipped = {}  BY <1>3 DEF ProgressInv, NothingGivenUp
<1>5. \A i \in 0..(n_symbols - 1) : known[i] # Absent
  BY DEF ProgressInv, SourcesKnown, DP!Keys
<1>. QED  BY <1>1, <1>4, <1>5, FileDelivered

(* What the receiver's own steps make of it. *)
LEMMA LoopProgress ==
  ASSUME TransferInv, ProgressInv,
         StartTimeout \/ ReceiveTimeout \/ SlowPacket \/ Stitch \/ Verify
  PROVE  AllSourcesSuffice' /\ (receiver' = "wait_start" => session' = Absent)
<1>1. UNCHANGED <<network, n_symbols, sources, session>>
  BY DEF StartTimeout, ReceiveTimeout, SlowPacket, Stitch, Verify, Expires, netVars, sendVars
<1>2. receiver' # "wait_start"
  BY DEF StartTimeout, ReceiveTimeout, SlowPacket, Stitch, Verify
<1>3. SUFFICES ASSUME network = "fifo", sources = 0..(n_symbols - 1), receiver' = "done",
                      session # Absent
               PROVE  result' = "verified"
  BY <1>1, <1>2 DEF AllSourcesSuffice
<1>4. ~StartTimeout  BY <1>3 DEF StartTimeout, ProgressInv
<1>5. ReceiveTimeout => pc = "idle" /\ session = n_symbols /\ ~AllSymbols
  BY <1>3 DEF ReceiveTimeout, Expires, TransferInv, ReceiverOK
<1>6. Stitch => /\ pc = "idle" /\ session = n_symbols
                /\ \E i \in 0..(session - 1) : delivered[i] = Absent
  BY <1>3 DEF Stitch, TransferInv, ReceiverOK
<1>7. ~ReceiveTimeout /\ ~Stitch  BY <1>3, <1>5, <1>6, SourcesDelivered
<1>8. ~SlowPacket  BY <1>3 DEF SlowPacket
<1>9. CASE Verify  BY <1>3, <1>9 DEF Verify, TransferInv, ReceiverOK, FifoDecoder
<1>. QED  BY <1>4, <1>7, <1>8, <1>9

(* Every step preserves ProgressInv. *)
LEMMA ProgressStep ==
  TransferInv /\ ProgressInv /\ [TransferNext]_transferVars => ProgressInv'
<1>. SUFFICES ASSUME TransferInv, ProgressInv, [TransferNext]_transferVars
              PROVE  ProgressInv'
  OBVIOUS
<1>1. window.next_id \in Nat /\ n_symbols \in Nat /\ SenderOK
  BY SenderFacts DEF TransferInv
<1>2. CASE Send
  <2>1. UNCHANGED <<decoderVars, network, n_symbols, recvVars, sources>>
    BY <1>2 DEF Send
  <2>2. GoneKept /\ window'.next_id \in {window.next_id, window.next_id + 1}
    BY <1>2, SendInv
  <2>3. DecoderGoing' /\ SourcesKnown' /\ NothingGivenUp'  BY <2>1, <2>2, ProgressRests
  <2>4. window'.next_id <= n_symbols
    <3>1. CASE SendSymbol  BY <1>1, <2>2, <3>1 DEF SendSymbol
    <3>2. CASE window' = window  BY <3>2 DEF ProgressInv
    <3>3. SendTargeted \/ SendTail => window' = window
      BY DEF SendTargeted, SendTail, E!GenerateCoded, E!GenerateCodedRecent,
             E!GenerateCodedForReceiver, E!GenerateOne
    <3>4. SendStart \/ BeginTail \/ SendEnd => window' = window
      BY DEF SendStart, BeginTail, SendEnd, encoderVars
    <3>. QED  BY <1>2, <3>1, <3>2, <3>3, <3>4 DEF Send
  <2>5. AllSourcesSuffice' /\ (receiver' = "wait_start" => session' = Absent)
    BY <2>1 DEF ProgressInv, AllSourcesSuffice, recvVars
  <2>. QED  BY <2>1, <2>3, <2>4, <2>5 DEF ProgressInv
<1>3. ASSUME NEW m, Take(m), Receiving(m) PROVE ProgressInv'
  <2>1. UNCHANGED <<window, network, n_symbols>> /\ GoneKept
    BY <1>3, Taken DEF Take, encoderVars, sendVars, TransferInv
  <2>2. CASE UNCHANGED <<decoderVars, sources, result>> /\ ~ReceiveData(m)
    <3>1. DecoderGoing' /\ SourcesKnown' /\ NothingGivenUp'
      BY <2>1, <2>2, ProgressRests
    <3>2. receiver' # "done" /\ (receiver' = "wait_start" => session' = Absent)
      BY <1>3, <2>2 DEF Receiving, WaitStart, ReceiveEnd, ProgressInv
    <3>. QED  BY <2>1, <3>1, <3>2 DEF ProgressInv, AllSourcesSuffice
  <2>3. CASE ReceiveData(m)
    <3>1. DecoderGoing' /\ SourcesKnown' /\ NothingGivenUp'
      BY <1>3, <2>3, SourceProgress, CodedProgress DEF ReceiveData
    <3>2. receiver' = "receive"  BY <2>3 DEF ReceiveData, recvVars
    <3>. QED  BY <2>1, <3>1, <3>2 DEF ProgressInv, AllSourcesSuffice
  <2>. QED  BY <1>3, <2>2, <2>3 DEF Receiving, WaitStart, ReceiveEnd
<1>4. ASSUME UNCHANGED <<encoderVars, network, n_symbols, sources>>, sent' \subseteq sent
      PROVE  GoneKept /\ window' = window
  <2>1. UNCHANGED <<config, window, coded_ids_used>>  BY <1>4 DEF encoderVars
  <2>. QED  BY <1>4, <2>1, FlightRests DEF TransferInv
<1>5. CASE Vanish \/ UNCHANGED transferVars
  <2>1. /\ UNCHANGED <<encoderVars, decoderVars, network, n_symbols, recvVars, sources>>
        /\ sent' \subseteq sent
    BY <1>5 DEF Vanish, transferVars, codecVars, netVars, sendVars
  <2>2. DecoderGoing' /\ SourcesKnown' /\ NothingGivenUp' /\ window' = window
    BY <1>4, <2>1, ProgressRests
  <2>. QED  BY <2>1, <2>2 DEF ProgressInv, AllSourcesSuffice, recvVars
<1>6. CASE Decode
  <2>1. /\ UNCHANGED <<encoderVars, network, n_symbols, recvVars, sources>>
        /\ sent' \subseteq sent
    BY <1>6 DEF Decode, netVars, sendVars
  <2>2. GoneKept /\ window' = window  BY <1>4, <2>1
  <2>3. DecoderGoing' /\ SourcesKnown' /\ NothingGivenUp'  BY <1>6, <2>2, DecodeProgress
  <2>. QED  BY <2>1, <2>2, <2>3 DEF ProgressInv, AllSourcesSuffice, recvVars
<1>7. CASE StartTimeout \/ ReceiveTimeout \/ SlowPacket \/ Stitch \/ Verify
  <2>1. /\ UNCHANGED <<encoderVars, decoderVars, network, n_symbols, sources>>
        /\ sent' \subseteq sent
    BY <1>7 DEF StartTimeout, ReceiveTimeout, SlowPacket, Stitch, Verify, Expires, netVars,
                sendVars
  <2>2. DecoderGoing' /\ SourcesKnown' /\ NothingGivenUp' /\ window' = window
    BY <1>4, <2>1, ProgressRests
  <2>. QED  BY <1>7, <2>1, <2>2, LoopProgress DEF ProgressInv
<1>. QED  BY <1>2, <1>3, <1>5, <1>6, <1>7 DEF TransferNext, ReceiveDatagram

(* ProgressInv holds at the start. *)
LEMMA ProgressStarts == TransferInit => ProgressInv
<1>. SUFFICES ASSUME TransferInit PROVE ProgressInv  OBVIOUS
<1>1. DP!Init  BY SameDecoderInit DEF TransferInit
<1>2. DecoderGoing
  BY <1>1, DecoderAssumptions, DP!ReportInit, DP!StallInit DEF DecoderGoing, DP!Init
<1>3. window.next_id = 0 /\ n_symbols \in 0..NumIds
  BY TransferAssumption DEF TransferInit, E!Init, E!NewWindow
<1>4. SourcesKnown /\ AllSourcesSuffice /\ (receiver = "wait_start" => session = Absent)
  BY DEF TransferInit, SourcesKnown, AllSourcesSuffice
<1>5. NothingGivenUp
  <2>1. skipped = {} /\ encoder_win_min = 0  BY <1>1 DEF DP!Init
  <2>. QED  BY <2>1 DEF NothingGivenUp, D!SrcIds
<1>6. window.next_id <= n_symbols  BY <1>3, CodecAssumption
<1>. QED  BY <1>2, <1>4, <1>5, <1>6 DEF ProgressInv

(* Once START and every source packet have arrived in order the transfer   *)
(* succeeds: no coded packet, lost END or timeout turns it into a failure, *)
(* for every file that fits the session and every configuration.           *)
THEOREM TransferAllSourcesSuffice == TransferSpec => []AllSourcesSuffice
<1>1. ProgressInv => AllSourcesSuffice  BY DEF ProgressInv
<1>. QED
  BY <1>1, TransferStarts, TransferStep, ProgressStarts, ProgressStep, PTL DEF TransferSpec

----------------------------------------------------------------------------
(* The tail flush: what the decoder holds determines the final window.     *)

(* The arithmetic of equations under both names. *)
LEMMA SameDot ==
  /\ \A v, x : D!Dot(v, x) = DP!Dot(v, x)
  /\ \A x : D!Support(x) = DP!Support(x)
  /\ DP!FieldLaws
<1>1. \A v, x : D!Dot(v, x) = DP!Dot(v, x)
  BY Zenon DEF D!Dot, DP!Dot
<1>2. \A x : D!Support(x) = DP!Support(x)
  BY Zenon DEF D!Support, DP!Support, D!SrcIds, DP!SrcIds
<1>3. DP!FieldLaws
  BY FieldLawsAssumption, Zenon DEF D!FieldLaws, DP!FieldLaws
<1>. QED  BY <1>1, <1>2, <1>3

(* The final window fits the window. *)
LEMMA FinalWindowSize ==
  ASSUME n_symbols \in Nat
  PROVE  IsFiniteSet(FinalWindow) /\ Cardinality(FinalWindow) \in Nat
         /\ Cardinality(FinalWindow) <= Capacity
<1>1. Capacity \in Nat  BY EncoderAssumptions DEF EP!WindowAssumption
<1>. DEFINE lo == IF n_symbols >= Capacity THEN n_symbols - Capacity ELSE 0
            I == lo..(n_symbols - 1)
<1>2. lo \in Nat /\ lo <= n_symbols /\ n_symbols - lo <= Capacity  BY <1>1
<1>3. FinalWindow \subseteq I  BY <1>1 DEF FinalWindow, FinalWindowOf
<1>. HIDE DEF lo
<1>4. IsFiniteSet(I) /\ Cardinality(I) = n_symbols - lo  BY <1>2, IntervalSize
<1>. HIDE DEF I
<1>5. IsFiniteSet(FinalWindow) /\ Cardinality(FinalWindow) <= Cardinality(I)
  BY <1>3, <1>4, FS_Subset
<1>6. Cardinality(FinalWindow) \in Nat  BY <1>5, FS_CardinalityType
<1>. QED  BY <1>1, <1>2, <1>4, <1>5, <1>6

(* There are finitely many packets over a set of symbols. *)
LEMMA PacketVectorsFinite ==
  ASSUME NEW strategy, NEW ids
  PROVE  IsFiniteSet(PacketVectors(strategy, ids))
<1>. DEFINE A == IF strategy = "Cauchy" THEN 0..(CauchyCycle - 1) ELSE 1..VandermondeCycle
            B == 0..(GenSpace - 1)
            V(id, gen) == [i \in D!SrcIds |-> IF i \in ids THEN Coef(strategy, i, id, gen) ELSE Zero]
            P == PacketVectors(strategy, ids)
            f == [ab \in A \X B |-> V(ab[1], ab[2])]
<1>1. IsFiniteSet(A) /\ IsFiniteSet(B)
  <2>1. CauchyCycle \in Nat /\ VandermondeCycle \in Nat /\ GenSpace \in Nat
    BY EncoderAssumptions DEF EP!EncoderAssumption
  <2>2. IsFiniteSet(0..(CauchyCycle - 1)) /\ IsFiniteSet(1..VandermondeCycle)
        /\ IsFiniteSet(0..(GenSpace - 1))
    BY <2>1, FS_Interval
  <2>. QED  BY <2>2
<1>2. P = {V(id, gen) : id \in A, gen \in B}  BY DEF PacketVectors
<1>. HIDE DEF A, B, V, P
<1>3. IsFiniteSet(A \X B)  BY <1>1, FS_Product
<1>4. f \in Surjection(A \X B, P)
  <2>1. \A ab \in A \X B : V(ab[1], ab[2]) \in P  BY <1>2
  <2>2. f \in [A \X B -> P]  BY <2>1
  <2>3. ASSUME NEW v \in P PROVE \E ab \in A \X B : f[ab] = v
    <3>1. PICK id \in A, gen \in B : v = V(id, gen)  BY <1>2
    <3>2. <<id, gen>> \in A \X B /\ f[<<id, gen>>] = v  BY <3>1
    <3>. QED  BY <3>2
  <2>. QED  BY <2>2, <2>3 DEF Surjection
<1>. QED  BY <1>3, <1>4, FS_Surjection DEF P

(* What the packet leaves out at the front is before the final window. *)
CoversTail(p) ==
  p.kind = "coded" =>
    \A i \in D!SrcIds : (\A j \in p.ids : i < j) => i + Capacity < n_symbols

(* The sender hears no feedback, so its window has the last symbols. *)
TailSender == /\ acks = EP!NoAcks /\ EP!Recent(window)
              /\ covers # "recent" => \A m \in sent : CoversTail(m.packet)

(* A packet over the whole of the sender's window. *)
LEMMA WindowCoversTail ==
  ASSUME NEW w, EP!GoodWindow(w), EP!Recent(w), w.next_id <= n_symbols, n_symbols \in Nat,
         w.symbols # {}, NEW p, p.ids = w.symbols
  PROVE  CoversTail(p)
<1>1. /\ w.symbols \subseteq Nat /\ w.next_id \in Nat /\ NumIds \in Nat
      /\ \A n \in w.symbols : n < w.next_id
  BY CodecAssumption DEF EP!GoodWindow, EP!Windows
<1>2. ASSUME NEW i \in D!SrcIds, \A j \in p.ids : i < j PROVE i + Capacity < n_symbols
  <2>1. i \in Nat  BY <1>1 DEF D!SrcIds
  <2>2. PICK j \in w.symbols : TRUE  OBVIOUS
  <2>3. i < j /\ j \in Nat /\ j < w.next_id  BY <1>1, <1>2, <2>2
  <2>4. i \in 0..(w.next_id - 1) /\ i \notin w.symbols
    BY <1>1, <1>2, <2>1, <2>3
  <2>5. i + Capacity < w.next_id  BY <2>4 DEF EP!Recent
  <2>6. Capacity \in Nat  BY EncoderAssumptions DEF EP!WindowAssumption
  <2>. QED  BY <1>1, <2>1, <2>5, <2>6
<1>. QED  BY <1>2 DEF CoversTail

(* send::run. *)
LEMMA TailSend ==
  ASSUME TransferInv, TailSender, Send, window'.next_id <= n_symbols
  PROVE  TailSender'
<1>1. /\ SenderOK /\ n_symbols \in Nat /\ n_symbols' = n_symbols /\ covers' = covers
      /\ acks = EP!NoAcks /\ EP!Recent(window) /\ window.next_id \in Nat
  BY SenderFacts DEF TransferInv, TailSender, Send
<1>2. \A p : CoversTail(p)' <=> CoversTail(p)  BY <1>1 DEF CoversTail
<1>3. SUFFICES /\ acks' = acks /\ EP!Recent(window)'
               /\ covers # "recent" => \A m \in sent' : m \in sent \/ CoversTail(m.packet)
  BY <1>1, <1>2, <1>3 DEF TailSender
<1>4. CASE SendSymbol
  <2>1. E!SubmitSource /\ Transmit  BY <1>4 DEF SendSymbol, Submit
  <2>2. EP!SubmitSource  BY <2>1, SameSubmitSource
  <2>3. /\ acks' = acks /\ window.next_id \in window'.symbols
        /\ \A p \in output' : p.kind = "coded" => p.ids = EP!WindowIds(window')
    BY <2>2, EncoderAssumptions, EP!SubmitKeeps
  <2>4. EP!Recent(window')
    BY <1>1, <2>2, EncoderAssumptions, EP!SubmitRecent DEF SenderOK
  <2>5. SenderOK'  BY <1>1, <2>1, SubmitPackets
  <2>6. EP!GoodWindow(window') /\ window'.next_id \in Nat /\ window'.next_id <= MaxSource
    BY <2>5 DEF SenderOK, EP!SenderInv, EP!GoodWindow, EP!Windows
  <2>7. EP!WindowIds(window') = window'.symbols
    <3>1. window'.next_id <= IdSpace  BY <2>6, CodecAssumption
    <3>. QED  BY <2>6, <3>1, EncoderAssumptions, EP!WindowIdsExact
  <2>8. EP!Recent(window)'  BY <2>4 DEF EP!Recent
  <2>9. ASSUME NEW p \in output' PROVE CoversTail(p)
    <3>1. CASE p.kind # "coded"  BY <3>1 DEF CoversTail
    <3>2. CASE p.kind = "coded"
      <4>1. p.ids = window'.symbols /\ window'.symbols # {}  BY <2>3, <2>7, <3>2
      <4>. QED  BY <1>1, <2>4, <2>6, <4>1, WindowCoversTail
    <3>. QED  BY <3>1, <3>2
  <2>10. \A m \in sent' : m \in sent \/ m.packet \in output'  BY <2>1 DEF Transmit
  <2>. QED  BY <2>3, <2>8, <2>9, <2>10
<1>5. CASE SendTargeted \/ SendTail
  <2>1. Transmit  BY <1>5 DEF SendTargeted, SendTail
  <2>2. acks' = acks /\ window' = window
    BY <1>5 DEF SendTargeted, SendTail, E!GenerateCoded, E!GenerateCodedRecent,
                E!GenerateCodedForReceiver, E!GenerateOne
  <2>3. EP!Recent(window)'  BY <1>1, <2>2 DEF EP!Recent
  <2>4. E!WindowIds(window) = window.symbols
    BY <1>1, SenderFacts, SameGenerateOne, EncoderAssumptions, EP!WindowIdsExact
    DEF SenderOK, EP!SenderInv
  <2>5. \A id : ~E!IsAcked(acks, Receiver, id)
    BY <1>1 DEF EP!NoAcks, E!IsAcked
  <2>6. ASSUME covers # "recent" PROVE E!GenerateOne(window.symbols)
    <3>1. CASE E!GenerateCoded  BY <2>4, <3>1 DEF E!GenerateCoded
    <3>2. CASE E!GenerateCodedForReceiver(Receiver)
      <4>1. {id \in E!WindowIds(window) : ~E!IsAcked(acks, Receiver, id)} = window.symbols
        BY <2>4, <2>5
      <4>. QED  BY <3>2, <4>1 DEF E!GenerateCodedForReceiver
    <3>. QED  BY <1>5, <2>6, <3>1, <3>2 DEF SendTargeted, SendTail
  <2>7. ASSUME covers # "recent", NEW p \in output' PROVE CoversTail(p)
    <3>1. p.ids = window.symbols /\ window.symbols # {}
      BY <2>6, <2>7 DEF E!GenerateOne, E!GenerateCodedInner, E!CodedPacket
    <3>2. window.next_id <= n_symbols /\ EP!GoodWindow(window)
      BY <1>1, <2>2 DEF SenderOK, EP!SenderInv
    <3>. QED  BY <1>1, <3>1, <3>2, WindowCoversTail
  <2>8. \A m \in sent' : m \in sent \/ m.packet \in output'  BY <2>1 DEF Transmit
  <2>. QED  BY <2>2, <2>3, <2>7, <2>8
<1>6. CASE SendStart \/ BeginTail \/ SendEnd
  <2>1. UNCHANGED encoderVars /\ sent' \ sent \subseteq {Start, End}
    BY <1>6 DEF SendStart, BeginTail, SendEnd
  <2>2. CoversTail(Start.packet) /\ CoversTail(End.packet)  BY DEF Start, End, CoversTail
  <2>3. UNCHANGED <<acks, window>>  BY <2>1 DEF encoderVars
  <2>. QED  BY <1>1, <2>1, <2>2, <2>3 DEF EP!Recent
<1>. QED  BY <1>4, <1>5, <1>6 DEF Send

(* The sender does nothing. *)
LEMMA TailSenderRests ==
  ASSUME TailSender, UNCHANGED <<encoderVars, covers, n_symbols>>, sent' \subseteq sent
  PROVE  TailSender'
<1>1. \A p : CoversTail(p)' <=> CoversTail(p)  BY DEF CoversTail
<1>2. UNCHANGED <<acks, window>>  BY DEF encoderVars
<1>. QED  BY <1>1, <1>2 DEF TailSender, EP!Recent

(* What elimination keeps of the matrix, the rest without reordering. *)
MatrixInv == DP!ReducedInv /\ (network = "fifo" => DP!SolvedInv /\ DP!TodoSolved)

(* The decoder at rest. *)
LEMMA MatrixRests ==
  ASSUME MatrixInv, DP!TypeInv, UNCHANGED <<decoderVars, network>>
  PROVE  MatrixInv' /\ \A x : DP!Has(DP!Kernel(x))' => DP!Has(DP!Kernel(x))
<1>1. UNCHANGED DP!decVars
  BY DEF decoderVars, DP!decVars, DP!matrix, DP!stored, DP!emitted
<1>2. DP!ReducedInv'  BY <1>1, DecoderAssumptions, DP!ReducedStep DEF MatrixInv
<1>3. network' = "fifo" => DP!SolvedInv' /\ DP!TodoSolved'
  BY DEF MatrixInv, decoderVars, DP!SolvedInv, DP!TodoSolved
<1>4. \A x : DP!Has(DP!Kernel(x))' => DP!Has(DP!Kernel(x))
  BY DEF decoderVars, DP!Has, DP!Held, DP!Keys
<1>. QED  BY <1>2, <1>3, <1>4 DEF MatrixInv

(* A source packet; what follows from the matrix still does. *)
LEMMA MatrixSource ==
  ASSUME MatrixInv, DP!TypeInv, NEW id \in DP!SrcIds,
         DP!HandleSource(id, DP!Unit(id)), network' = network
  PROVE  MatrixInv' /\ \A x \in DP!Vectors : DP!Has(DP!Kernel(x))' => DP!Has(DP!Kernel(x))
<1>1. DP!Next  BY DEF DP!Next
<1>2. DP!ReducedInv'  BY <1>1, DecoderAssumptions, DP!ReducedStep DEF MatrixInv
<1>3. network = "fifo" => DP!SolvedInv' /\ DP!TodoSolved'
  BY DEF MatrixInv, DP!HandleSource, DP!SolvedInv, DP!TodoSolved
<1>4. \A x \in DP!Vectors : DP!Has(DP!Kernel(x))' => DP!Has(DP!Kernel(x))
  <2>. SUFFICES ASSUME NEW x \in DP!Vectors, DP!Has(DP!Kernel(x))'
                PROVE  DP!Has(DP!Kernel(x))
    OBVIOUS
  <2>. DEFINE K == DP!Kernel(x)
  <2>1. DP!Has(K)'  OBVIOUS
  <2>. HIDE DEF K
  <2>2. DP!Has(K)  BY <2>1, DecoderAssumptions, DP!HandleSourceBack
  <2>. QED  BY <2>2 DEF K
<1>. QED  BY <1>2, <1>3, <1>4 DEF MatrixInv

(* A coded packet: its equation joins what the decoder holds. *)
LEMMA MatrixCoded ==
  ASSUME MatrixInv, DP!TypeInv, NEW v \in DP!Vectors, DP!Support(v) # {},
         DP!HandleCoded(v, v), network' = network
  PROVE  MatrixInv' /\ \A x \in DP!Vectors : DP!Has(DP!Kernel(x))' =>
                         v \in DP!Kernel(x) /\ DP!Has(DP!Kernel(x))
<1>1. DP!ReducedInv'
  BY DecoderAssumptions, DP!HandleCodedReduced DEF MatrixInv
<1>2. network = "fifo" => DP!SolvedInv' /\ DP!TodoSolved'
  BY DEF MatrixInv, DP!HandleCoded, DP!SolvedInv, DP!TodoSolved
<1>3. \A x \in DP!Vectors : DP!Has(DP!Kernel(x))' => v \in DP!Kernel(x) /\ DP!Has(DP!Kernel(x))
  <2>. SUFFICES ASSUME NEW x \in DP!Vectors, DP!Has(DP!Kernel(x))'
                PROVE  v \in DP!Kernel(x) /\ DP!Has(DP!Kernel(x))
    OBVIOUS
  <2>. DEFINE K == DP!Kernel(x)
  <2>1. DP!Has(K)'  OBVIOUS
  <2>. HIDE DEF K
  <2>2. v \in K /\ DP!Has(K)  BY <2>1, DecoderAssumptions, DP!HandleCodedBack
  <2>. QED  BY <2>2 DEF K
<1>. QED  BY <1>1, <1>2, <1>3 DEF MatrixInv

(* Cardinality under both names. *)
LEMMA SameCardinality == \A S : DP!Cardinality(S) = Cardinality(S)
BY Zenon DEF DP!Cardinality, Cardinality

(* No source packet before the final window is lost so far. *)
OldKept == \A i \in 0..(window.next_id - 1) :
             i + Capacity < n_symbols => i \in sources \/ ~Gone(i)

(* While that is so the decoder gives nothing up, and every equation over  *)
(* the final window that reached it follows from what it holds.            *)
TailHeld ==
  network = "fifo" /\ covers # "recent" /\ OldKept =>
    /\ skipped = {}
    /\ \A i \in D!SrcIds : i < encoder_win_min => known[i] # Absent
    /\ \A x \in DP!Vectors : DP!Has(DP!Kernel(x)) => final_coded \subseteq DP!Kernel(x)

(* What is lost stays lost. *)
LEMMA OldKeptBack ==
  ASSUME SenderOK, GoneKept, n_symbols' = n_symbols,
         window'.next_id \in {window.next_id, window.next_id + 1},
         \A i \in sources' : i \in sources \/ ~Gone(i), OldKept'
  PROVE  OldKept
<1>1. window.next_id \in Nat /\ NumIds \in Nat /\ window.next_id <= NumIds  BY SenderFacts
<1>2. \A i \in 0..(window.next_id - 1) : i \in D!SrcIds /\ i \in 0..(window'.next_id - 1)
  BY <1>1 DEF D!SrcIds
<1>. QED  BY <1>2 DEF OldKept, GoneKept

(* What the matrix speaks of and the decoder does not know is in the final *)
(* window.                                                                 *)
LEMMA UnknownInTail ==
  ASSUME TransferInv, ProgressInv, network = "fifo", OldKept,
         NEW i \in D!SrcIds, DP!Mentions(i), i \notin DP!Keys(known)
  PROVE  i \in FinalWindow \ sources
<1>1. Gone(i) /\ SenderOK  BY DEF TransferInv, FifoDecoder
<1>2. /\ i \in Nat /\ window.next_id \in Nat /\ i < window.next_id
      /\ window.next_id <= n_symbols /\ n_symbols \in Nat
  BY <1>1, SenderFacts DEF Gone, D!SrcIds, ProgressInv, TransferInv
<1>3. i \notin sources  BY DEF ProgressInv, SourcesKnown
<1>4. i \in 0..(window.next_id - 1) /\ i \in 0..(n_symbols - 1)  BY <1>2
<1>5. ~(i + Capacity < n_symbols)  BY <1>1, <1>3, <1>4 DEF OldKept
<1>6. Capacity \in Nat  BY EncoderAssumptions DEF EP!WindowAssumption
<1>. QED  BY <1>2, <1>3, <1>4, <1>5, <1>6 DEF FinalWindow, FinalWindowOf

(* The matrix never needs more rows than the final window has symbols. *)
LEMMA RoomForRow ==
  ASSUME TransferInv, ProgressInv, MatrixInv, Capacity <= MaxRows, network = "fifo", OldKept,
         DP!InsertRow, ~DP!is_zero(cur.coefs)
  PROVE  DP!Cardinality(DP!Keys(rows)) < MaxRows
<1>1. /\ DP!TypeInv /\ DP!DataOK /\ DP!ReducedInv /\ pc = "eliminate" /\ todo = {}
      /\ n_symbols \in Nat
  BY DEF TransferInv, FifoDecoder, MatrixInv, DP!InsertRow
<1>. DEFINE K == DP!Keys(rows)
            p == DP!NewPivot
<1>2. p \in DP!SrcIds /\ cur.coefs[p] # Zero
  BY <1>1, DecoderAssumptions, DP!NewRowForm DEF DP!TypeInv
<1>. HIDE DEF p
<1>3. p \notin K /\ p \notin DP!Keys(known)
  BY <1>1, <1>2 DEF DP!ReducedInv, DP!CurReduced
<1>4. DP!Mentions(p)  BY <1>2 DEF DP!Mentions
<1>5. ASSUME NEW k \in K PROVE k \in DP!SrcIds /\ DP!Mentions(k) /\ k \notin DP!Keys(known)
  <2>1. k \in DP!SrcIds /\ rows[k].coefs[k] # Zero
    BY <1>1, DecoderAssumptions DEF DP!Keys, DP!DataOK, DP!RowsOK, DP!FieldAssumption
  <2>2. DP!Queued = {} /\ DP!Keys(known) \subseteq DP!Held
    BY <1>1 DEF DP!TypeInv, DP!LoopOK, DP!Queued, DP!Held
  <2>3. k \notin DP!Keys(known)
    BY <1>1, <2>1, <2>2 DEF DP!ReducedInv, DP!RowsReduced
  <2>. QED  BY <2>1, <2>3 DEF DP!Mentions
<1>6. K \cup {p} \subseteq FinalWindow
  BY <1>2, <1>3, <1>4, <1>5, SameVectors, UnknownInTail
<1>. HIDE DEF K
<1>7. /\ IsFiniteSet(FinalWindow) /\ Cardinality(FinalWindow) \in Nat
      /\ Cardinality(FinalWindow) <= Capacity
  BY <1>1, FinalWindowSize
<1>8. IsFiniteSet(K \cup {p}) /\ Cardinality(K \cup {p}) <= Cardinality(FinalWindow)
  BY <1>6, <1>7, FS_Subset
<1>9. IsFiniteSet(K)  BY <1>6, <1>7, FS_Subset
<1>10. Cardinality(K \cup {p}) = Cardinality(K) + 1 /\ Cardinality(K) \in Nat
  BY <1>3, <1>9, FS_AddElement, FS_CardinalityType
<1>11. Capacity \in Nat /\ MaxRows \in Nat
  BY EncoderAssumptions, DecoderAssumptions DEF EP!WindowAssumption, DP!DecoderAssumption
<1>12. Cardinality(K) < MaxRows  BY <1>7, <1>8, <1>10, <1>11
<1>. QED  BY <1>12, SameCardinality DEF K

(* A call of the decoder goes on. *)
LEMMA DecodeTail ==
  ASSUME TransferInv, ProgressInv, MatrixInv, TailHeld, Capacity <= MaxRows, GoneKept, Decode
  PROVE  MatrixInv' /\ TailHeld'
<1>1. /\ D!Step /\ UNCHANGED <<window, network, covers, sources, n_symbols, final_coded>>
      /\ DP!TypeInv /\ SenderOK /\ DP!Step
  BY SameStep DEF Decode, encoderVars, netVars, sendVars, TransferInv
<1>2. DP!Next  BY <1>1 DEF DP!Next
<1>3. network = "fifo" => DP!DataOK /\ ~late_pivot
  BY DEF TransferInv, FifoDecoder
<1>4. MatrixInv'
  <2>1. DP!ReducedInv'  BY <1>1, <1>2, DecoderAssumptions, DP!ReducedStep DEF MatrixInv
  <2>2. network = "fifo" => DP!SolvedInv'
    BY <1>1, <1>2, <1>3, DecoderAssumptions, DP!SolvedStep DEF MatrixInv, DP!DataInv, DP!DataOK
  <2>3. network = "fifo" => DP!TodoSolved'
    BY <1>1, <1>3, DecoderAssumptions, DP!TodoSolvedStep DEF MatrixInv
  <2>. QED  BY <1>1, <2>1, <2>2, <2>3 DEF MatrixInv
<1>5. ASSUME network' = "fifo", covers' # "recent", OldKept'
      PROVE  /\ skipped' = {}
             /\ \A i \in D!SrcIds : i < encoder_win_min' => known'[i] # Absent
             /\ \A x \in DP!Vectors : DP!Has(DP!Kernel(x))' => final_coded' \subseteq DP!Kernel(x)
  <2>1. OldKept  BY <1>1, <1>5, OldKeptBack
  <2>2. /\ skipped = {}
        /\ \A i \in D!SrcIds : i < encoder_win_min => known[i] # Absent
        /\ \A x \in DP!Vectors : DP!Has(DP!Kernel(x)) => final_coded \subseteq DP!Kernel(x)
    BY <1>1, <1>5, <2>1 DEF TailHeld
  <2>3. encoder_win_min' = encoder_win_min /\ (skipped' = skipped \/ DP!Finish)
    BY <1>1, StepGives
  <2>4. DP!Finish => skipped' = skipped
    BY <1>1, <2>2, SameVectors, DecoderAssumptions, DP!FinishNoGap DEF ProgressInv, DecoderGoing
  <2>5. \A i \in D!SrcIds : known[i] # Absent => known'[i] # Absent
    <3>1. DP!NothingLost
      BY <1>1, <1>2, DecoderAssumptions, DP!ReportStep DEF ProgressInv, DecoderGoing
    <3>. QED  BY <3>1, SameVectors DEF DP!NothingLost, DP!Keys
  <2>6. ASSUME NEW x \in DP!Vectors, DP!Has(DP!Kernel(x))' PROVE DP!Has(DP!Kernel(x))
    <3>. DEFINE K == DP!Kernel(x)
    <3>1. DP!Has(K)'  BY <2>6
    <3>2. DP!Closed(K)  BY SameDot, DecoderAssumptions, DP!KernelClosed
    <3>3. DP!InsertRow /\ ~DP!is_zero(cur.coefs) =>
            DP!Cardinality(DP!Keys(rows)) < MaxRows \/ DP!Keys(rows) = {}
      BY <1>1, <1>5, <2>1, RoomForRow
    <3>4. DP!ReducedInv /\ DP!DataOK /\ DP!TodoSolved  BY <1>1, <1>3, <1>5 DEF MatrixInv
    <3>. HIDE DEF K
    <3>5. DP!Has(K)  BY <1>1, <3>1, <3>2, <3>3, <3>4, DecoderAssumptions, DP!StepBack
    <3>. QED  BY <3>5 DEF K
  <2>. QED  BY <1>1, <2>2, <2>3, <2>4, <2>5, <2>6
<1>. QED  BY <1>4, <1>5 DEF TailHeld

(* The equations over the final window are of packets of the sender. *)
FinalPackets == final_coded \subseteq PacketVectors(config.strategy, FinalWindow)

(* The decoder and what reached it at rest. *)
LEMMA TailRests ==
  ASSUME TransferInv, MatrixInv, TailHeld, FinalPackets, GoneKept,
         UNCHANGED <<decoderVars, config, network, covers, n_symbols, sources, final_coded>>,
         window'.next_id \in {window.next_id, window.next_id + 1}
  PROVE  MatrixInv' /\ TailHeld' /\ FinalPackets'
<1>1. UNCHANGED <<known, skipped, encoder_win_min>> /\ SenderOK /\ DP!TypeInv
  BY DEF decoderVars, TransferInv
<1>2. MatrixInv' /\ \A x : DP!Has(DP!Kernel(x))' => DP!Has(DP!Kernel(x))
  BY <1>1, MatrixRests
<1>3. OldKept' => OldKept  BY <1>1, OldKeptBack
<1>4. TailHeld'  BY <1>1, <1>2, <1>3 DEF TailHeld
<1>5. FinalPackets'  BY DEF FinalPackets, FinalWindow, FinalWindowOf, PacketVectors
<1>. QED  BY <1>2, <1>4, <1>5

(* A source packet reaches the decoder. *)
LEMMA SourceTail ==
  ASSUME TransferInv, ProgressInv, MatrixInv, TailHeld, FinalPackets,
         NEW m, Take(m), ReceiveData(m), m.packet.kind = "source"
  PROVE  MatrixInv' /\ TailHeld' /\ FinalPackets'
<1>. DEFINE p == m.packet
<1>1. /\ SenderOK /\ m \in sent /\ Handle(p) /\ sources' \subseteq sources \cup {p.id}
      /\ DP!TypeInv /\ UNCHANGED <<window, config, network, covers, n_symbols, final_coded>>
      /\ DecoderGoing
  BY DEF TransferInv, ProgressInv, Take, ReceiveData, encoderVars, sendVars
<1>2. GoneKept /\ EP!SoundPacket(p, window.next_id)
  BY Taken DEF TransferInv, Datagram
<1>3. p.id \in DP!SrcIds /\ DP!HandleSource(p.id, DP!Unit(p.id))
  BY <1>1, <1>2, SourceArrives
<1>4. DP!NothingLost
  <2>1. DP!Next  BY <1>3 DEF DP!Next
  <2>. QED  BY <1>1, <2>1, DecoderAssumptions, DP!ReportStep DEF DecoderGoing
<1>5. UNCHANGED <<skipped, encoder_win_min>>
  BY <1>3 DEF DP!HandleSource, DP!emitted
<1>6. \A i \in D!SrcIds : known[i] # Absent => known'[i] # Absent
  BY <1>4, SameVectors DEF DP!NothingLost, DP!Keys
<1>7. OldKept' => OldKept
  <2>1. ~Gone(p.id)  BY <1>1 DEF Gone, IsSource
  <2>. QED  BY <1>1, <1>2, <2>1, OldKeptBack
<1>8. MatrixInv' /\ \A x \in DP!Vectors : DP!Has(DP!Kernel(x))' => DP!Has(DP!Kernel(x))
  BY <1>1, <1>3, MatrixSource
<1>9. TailHeld'  BY <1>1, <1>5, <1>6, <1>7, <1>8 DEF TailHeld
<1>10. FinalPackets'  BY <1>1 DEF FinalPackets, FinalWindow, FinalWindowOf, PacketVectors
<1>. QED  BY <1>8, <1>9, <1>10

(* The equation of a packet is one of PacketVectors. *)
LEMMA PacketVector ==
  ASSUME SenderOK, NEW p, p.kind = "coded", EP!SoundPacket(p, window.next_id)
  PROVE  CoefVector(p) \in PacketVectors(config.strategy, p.ids)
<1>1. /\ p.coded_id \in EP!FirstCodedId..(EP!FirstCodedId + EP!coded_id_cycle - 1)
      /\ p.generation \in 0..(GenSpace - 1)
  BY DEF EP!SoundPacket
<1>. DEFINE A == IF config.strategy = "Cauchy" THEN 0..(CauchyCycle - 1) ELSE 1..VandermondeCycle
            B == 0..(GenSpace - 1)
            V(id, gen) == [i \in D!SrcIds |-> IF i \in p.ids THEN Coef(config.strategy, i, id, gen)
                                              ELSE Zero]
<1>2. CauchyCycle \in Nat /\ VandermondeCycle \in Nat
  BY EncoderAssumptions DEF EP!EncoderAssumption
<1>3. p.coded_id \in A /\ p.generation \in B
  BY <1>1, <1>2 DEF EP!FirstCodedId, EP!coded_id_cycle
<1>4. CoefVector(p) = V(p.coded_id, p.generation)  BY DEF CoefVector, CoefOf
<1>5. PacketVectors(config.strategy, p.ids) = {V(id, gen) : id \in A, gen \in B}
  BY DEF PacketVectors
<1>. HIDE DEF A, B, V
<1>. QED  BY <1>3, <1>4, <1>5

(* A coded packet reaches the decoder: the source packets below its first  *)
(* symbol have left and are before the final window, so they are with the  *)
(* decoder while none of those is lost.                                    *)
LEMMA CodedTail ==
  ASSUME TransferInv, ProgressInv, TailSender, MatrixInv, TailHeld, FinalPackets,
         NEW m, Take(m), ReceiveData(m), m.packet.kind = "coded"
  PROVE  MatrixInv' /\ TailHeld' /\ FinalPackets'
<1>. DEFINE p == m.packet
            v == CoefVector(p)
<1>1. /\ SenderOK /\ m \in sent /\ Handle(p) /\ sources' = sources
      /\ DP!TypeInv /\ UNCHANGED <<window, config, network, covers, n_symbols>> /\ FlightOK
      /\ final_coded' = IF TailCounts /\ p.ids = FinalWindow
                          THEN final_coded \cup {v} ELSE final_coded
  BY DEF TransferInv, ProgressInv, Take, ReceiveData, encoderVars, sendVars
<1>2. GoneKept /\ EP!SoundPacket(p, window.next_id) /\ m.at \in Nat
  BY Taken DEF TransferInv, Datagram
<1>3. DP!HandleCoded(v, v)  BY <1>1, <1>2, CodedArrives
<1>4. /\ v \in DP!Vectors /\ DP!Support(v) # {}
      /\ \A i \in DP!SrcIds : v[i] # Zero <=> i \in p.ids
  BY <1>1, <1>2, CodedVectors
<1>5. v \in PacketVectors(config.strategy, p.ids)  BY <1>1, <1>2, PacketVector
<1>. HIDE DEF v
<1>6. UNCHANGED <<known, skipped>>
  BY <1>3 DEF DP!HandleCoded, DP!emitted
<1>7. MatrixInv' /\ \A x \in DP!Vectors : DP!Has(DP!Kernel(x))' =>
                      v \in DP!Kernel(x) /\ DP!Has(DP!Kernel(x))
  BY <1>1, <1>3, <1>4, MatrixCoded
<1>8. FinalPackets'
  <2>1. final_coded' \subseteq PacketVectors(config.strategy, FinalWindow)
    BY <1>1, <1>5 DEF FinalPackets
  <2>. QED  BY <1>1, <2>1 DEF FinalPackets, FinalWindow, FinalWindowOf, PacketVectors
<1>9. ASSUME network' = "fifo", covers' # "recent", OldKept'
      PROVE  /\ skipped' = {}
             /\ \A i \in D!SrcIds : i < encoder_win_min' => known'[i] # Absent
             /\ \A x \in DP!Vectors : DP!Has(DP!Kernel(x))' => final_coded' \subseteq DP!Kernel(x)
  <2>1. OldKept  BY <1>1, <1>2, <1>9, OldKeptBack
  <2>2. /\ skipped = {}
        /\ \A i \in D!SrcIds : i < encoder_win_min => known[i] # Absent
        /\ \A x \in DP!Vectors : DP!Has(DP!Kernel(x)) => final_coded \subseteq DP!Kernel(x)
    BY <1>1, <1>9, <2>1 DEF TailHeld
  <2>3. DP!pivot_id(v) \in DP!Support(v) /\ \A j \in DP!Support(v) : DP!pivot_id(v) <= j
    BY <1>4, DecoderAssumptions, DP!PivotIsFirst
  <2>4. /\ DP!pivot_id(v) \in p.ids /\ DP!pivot_id(v) \in Int
        /\ p.ids \subseteq DP!SrcIds
        /\ \A j \in p.ids : DP!pivot_id(v) <= j
    <3>1. p.ids \subseteq DP!SrcIds
      BY <1>1, <1>2, SenderFacts DEF EP!SoundPacket, DP!SrcIds
    <3>. QED  BY <1>4, <2>3, <3>1 DEF DP!Support, DP!SrcIds
  <2>5. encoder_win_min' \in {DP!pivot_id(v), encoder_win_min}
    BY <1>3 DEF DP!HandleCoded
  <2>6. DP!pivot_id(v) < window.next_id
    BY <1>1, <1>2, <2>4, SenderFacts DEF EP!SoundPacket
  <2>7. ASSUME NEW i \in D!SrcIds, i < DP!pivot_id(v) PROVE known[i] # Absent
    <3>1. i \in 0..(window.next_id - 1) /\ i < window.next_id
      BY <1>1, <2>4, <2>6, <2>7, SenderFacts DEF D!SrcIds
    <3>2. ASSUME NEW s \in sent', IsSource(s, i) PROVE FALSE
      <4>1. s \in sent /\ s.at >= m.at  BY <1>1, <1>9 DEF Take, MayBeLate
      <4>2. s.at \in Nat  BY <3>2, <4>1 DEF TransferInv, FlightOK, Datagram, IsSource
      <4>3. i <= DP!pivot_id(v)  BY <2>4, <2>7 DEF D!SrcIds
      <4>4. s.at < m.at
        BY <1>1, <2>4, <3>2, <4>1, <4>3 DEF FlightOK, SourcesBefore, IsSource
      <4>. QED  BY <1>2, <4>1, <4>2, <4>4
    <3>3. Gone(i)'  BY <1>1, <3>1, <3>2 DEF Gone, IsSource
    <3>4. i + Capacity < n_symbols
      <4>1. CoversTail(p)  BY <1>1, <1>9 DEF TailSender
      <4>2. \A j \in p.ids : i < j  BY <2>4, <2>7 DEF D!SrcIds, DP!SrcIds
      <4>. QED  BY <4>1, <4>2 DEF CoversTail
    <3>5. i \in sources  BY <1>1, <1>9, <3>1, <3>3, <3>4 DEF OldKept
    <3>. QED  BY <3>5 DEF ProgressInv, SourcesKnown, DP!Keys
  <2>8. \A x \in DP!Vectors : DP!Has(DP!Kernel(x))' => final_coded' \subseteq DP!Kernel(x)
    BY <1>1, <1>7, <2>2
  <2>. QED  BY <1>6, <2>2, <2>5, <2>7, <2>8
<1>. QED  BY <1>7, <1>8, <1>9 DEF TailHeld

(* If the symbols before the final window have arrived, none is lost. *)
LEMMA OldArrived ==
  ASSUME TransferInv, ProgressInv, (0..(n_symbols - 1)) \ FinalWindow \subseteq sources
  PROVE  OldKept
<1>1. /\ window.next_id \in Nat /\ n_symbols \in Nat /\ window.next_id <= n_symbols
      /\ Capacity \in Nat
  BY SenderFacts, EncoderAssumptions DEF TransferInv, ProgressInv, EP!WindowAssumption
<1>. SUFFICES ASSUME NEW i \in 0..(window.next_id - 1), i + Capacity < n_symbols
              PROVE  i \in sources
  BY DEF OldKept
<1>2. i \in 0..(n_symbols - 1) /\ ~(i + Capacity >= n_symbols)  BY <1>1
<1>. QED  BY <1>2 DEF FinalWindow, FinalWindowOf

(* Fewer equations hold of a solution over the lost symbols than there are *)
(* lost symbols, so one with that many equations has nothing free.         *)
LEMMA TooManyEquations ==
  ASSUME TransferInv, FinalPackets, Separating, \E t \in Transfers : n_symbols = t.n_symbols,
         Cardinality(FinalWindow \ sources) <= Cardinality(final_coded),
         NEW x \in DP!Vectors, DP!Support(x) # {}, DP!Support(x) \subseteq FinalWindow \ sources,
         final_coded \subseteq DP!Kernel(x)
  PROVE  FALSE
<1>. DEFINE V == PacketVectors(config.strategy, FinalWindow)
            Z == {v \in V : D!Dot(v, x) = Zero}
            lost == FinalWindow \ sources
<1>1. config \in Configs /\ n_symbols \in Nat
  BY DEF TransferInv, SenderOK, EP!SenderInv, EP!CoderOK
<1>2. SeparatingOn(config.strategy, FinalWindow)  BY <1>1 DEF Separating, FinalWindow
<1>3. x \in D!Vectors /\ D!Support(x) = DP!Support(x)  BY SameVectors, SameDot
<1>4. Cardinality(Z) < Cardinality(D!Support(x))  BY <1>2, <1>3 DEF SeparatingOn
<1>5. final_coded \subseteq Z  BY SameDot DEF FinalPackets, DP!Kernel
<1>6. IsFiniteSet(V)  BY PacketVectorsFinite
<1>7. IsFiniteSet(FinalWindow)  BY <1>1, FinalWindowSize
<1>8. Z \subseteq V /\ lost \subseteq FinalWindow /\ D!Support(x) \subseteq lost  BY <1>3
<1>. HIDE DEF V, Z, lost
<1>9. IsFiniteSet(Z) /\ IsFiniteSet(lost)  BY <1>6, <1>7, <1>8, FS_Subset
<1>10. /\ Cardinality(final_coded) <= Cardinality(Z) /\ IsFiniteSet(final_coded)
       /\ Cardinality(D!Support(x)) <= Cardinality(lost) /\ IsFiniteSet(D!Support(x))
  BY <1>5, <1>8, <1>9, FS_Subset
<1>11. /\ Cardinality(final_coded) \in Nat /\ Cardinality(Z) \in Nat
       /\ Cardinality(D!Support(x)) \in Nat /\ Cardinality(lost) \in Nat
  BY <1>9, <1>10, FS_CardinalityType
<1>12. Cardinality(lost) <= Cardinality(final_coded)  BY DEF lost
<1>. QED  BY <1>4, <1>10, <1>11, <1>12

(* With as many equations over the final window as symbols are lost in it, *)
(* the receiver has the file between the calls of the decoder.             *)
LEMMA TailDelivered ==
  ASSUME TransferInv, ProgressInv, MatrixInv, TailHeld, FinalPackets, Separating,
         \E t \in Transfers : n_symbols = t.n_symbols,
         network = "fifo", covers # "recent",
         (0..(n_symbols - 1)) \ FinalWindow \subseteq sources,
         Cardinality(FinalWindow \ sources) <= Cardinality(final_coded),
         pc = "idle", session = n_symbols
  PROVE  AllSymbols /\ \A i \in 0..(session - 1) : delivered[i] # Absent
<1>1. /\ DP!TypeInv /\ DecoderGoing /\ n_symbols \in 0..NumIds /\ DP!DataOK /\ ~late_pivot
      /\ DP!ReducedInv /\ DP!SolvedInv /\ NumIds \in Nat /\ n_symbols \in Nat
  BY SenderFacts DEF TransferInv, ProgressInv, FifoDecoder, MatrixInv
<1>2. OldKept  BY OldArrived
<1>3. /\ skipped = {}
      /\ \A x \in DP!Vectors : DP!Has(DP!Kernel(x)) => final_coded \subseteq DP!Kernel(x)
  BY <1>2 DEF TailHeld
<1>4. DP!SolvedKeys(rows) = {}  BY <1>1 DEF DP!SolvedInv
<1>5. ASSUME NEW k \in DP!Keys(rows)
      PROVE  /\ k \in DP!SrcIds /\ k \notin DP!Keys(known) /\ DP!Mentions(k)
             /\ \E u \in DP!SrcIds : /\ u \notin DP!Keys(known) /\ u \notin DP!Keys(rows)
                                     /\ DP!Mentions(u)
  <2>1. k \in DP!SrcIds /\ rows[k].coefs[k] # Zero
    BY <1>1, DecoderAssumptions DEF DP!Keys, DP!DataOK, DP!RowsOK, DP!FieldAssumption
  <2>2. /\ k \notin DP!Keys(known)
        /\ \E u \in DP!SrcIds : /\ u \notin DP!Keys(known) /\ u \notin DP!Keys(rows)
                                /\ rows[k].coefs[u] # Zero
    BY <1>1, <1>4, DecoderAssumptions, DP!RowNeedsMore
  <2>. QED  BY <2>1, <2>2 DEF DP!Mentions
<1>6. \A k \in DP!Keys(rows) : k \in FinalWindow \ sources
  BY <1>2, <1>5, SameVectors, UnknownInTail
<1>7. ASSUME NEW i \in 0..(n_symbols - 1), known[i] = Absent PROVE FALSE
  <2>1. i \in DP!SrcIds /\ i \notin DP!Keys(known) /\ i \notin sources
    BY <1>1, <1>7 DEF DP!SrcIds, DP!Keys, ProgressInv, SourcesKnown
  <2>2. PICK u \in DP!SrcIds : /\ u \notin DP!Keys(known) /\ u \notin DP!Keys(rows)
                               /\ u \in FinalWindow \ sources
    <3>1. CASE i \notin DP!Keys(rows)  BY <1>7, <2>1, <3>1
    <3>2. CASE i \in DP!Keys(rows)  BY <1>2, <1>5, <3>2, SameVectors, UnknownInTail
    <3>. QED  BY <3>1, <3>2
  <2>3. PICK x \in DP!Vectors : /\ u \in DP!Support(x)
                                /\ DP!Support(x) \subseteq {u} \cup DP!Keys(rows)
                                /\ DP!Has(DP!Kernel(x))
    BY <1>1, <2>2, SameDot, DecoderAssumptions, DP!FreeSymbol
  <2>4. DP!Support(x) # {} /\ DP!Support(x) \subseteq FinalWindow \ sources
    BY <1>6, <2>2, <2>3
  <2>5. final_coded \subseteq DP!Kernel(x)  BY <1>3, <2>3
  <2>. QED  BY <2>4, <2>5, TooManyEquations
<1>. QED  BY <1>1, <1>3, <1>7, FileDelivered

TailInv == /\ TailSender /\ MatrixInv /\ TailHeld /\ FinalPackets /\ TailRecovers
           /\ \E t \in Transfers : n_symbols = t.n_symbols

(* What the receiver's own steps make of it. *)
LEMMA LoopTail ==
  ASSUME TransferInv, ProgressInv, TailInv, Separating,
         StartTimeout \/ ReceiveTimeout \/ SlowPacket \/ Stitch \/ Verify
  PROVE  TailRecovers'
<1>1. UNCHANGED <<network, covers, n_symbols, sources, final_coded, session>>
  BY DEF StartTimeout, ReceiveTimeout, SlowPacket, Stitch, Verify, Expires, netVars, sendVars
<1>2. FinalWindow' = FinalWindow  BY <1>1 DEF FinalWindow, FinalWindowOf
<1>3. SUFFICES ASSUME network = "fifo", covers # "recent", receiver' = "done", session # Absent,
                      (0..(n_symbols - 1)) \ FinalWindow \subseteq sources,
                      Cardinality(FinalWindow \ sources) <= Cardinality(final_coded)
               PROVE  result' = "verified"
  BY <1>1, <1>2 DEF TailRecovers, TailCounts
<1>4. ~StartTimeout  BY <1>3 DEF StartTimeout, ProgressInv
<1>5. ReceiveTimeout => pc = "idle" /\ session = n_symbols /\ ~AllSymbols
  BY <1>3 DEF ReceiveTimeout, Expires, TransferInv, ReceiverOK
<1>6. Stitch => /\ pc = "idle" /\ session = n_symbols
                /\ \E i \in 0..(session - 1) : delivered[i] = Absent
  BY <1>3 DEF Stitch, TransferInv, ReceiverOK
<1>7. ~ReceiveTimeout /\ ~Stitch  BY <1>3, <1>5, <1>6, TailDelivered DEF TailInv
<1>8. ~SlowPacket  BY <1>3 DEF SlowPacket
<1>9. CASE Verify  BY <1>3, <1>9 DEF Verify, TransferInv, ReceiverOK, FifoDecoder
<1>. QED  BY <1>4, <1>7, <1>8, <1>9

(* Steps that leave the receiver's loop where it is. *)
LEMMA TailKept ==
  ASSUME TailRecovers, UNCHANGED <<network, covers, receiver, session, result, n_symbols,
                                   sources, final_coded>>
  PROVE  TailRecovers'
BY DEF TailRecovers, TailCounts, FinalWindow, FinalWindowOf

(* Every step preserves TailInv. *)
LEMMA TailStep ==
  ASSUME Separating, Capacity <= MaxRows
  PROVE  TransferInv /\ ProgressInv /\ TailInv /\ [TransferNext]_transferVars => TailInv'
<1>. SUFFICES ASSUME TransferInv, ProgressInv, TailInv, [TransferNext]_transferVars
              PROVE  TailInv'
  OBVIOUS
<1>1. /\ TailSender /\ MatrixInv /\ TailHeld /\ FinalPackets /\ TailRecovers
      /\ \E t \in Transfers : n_symbols = t.n_symbols
  BY DEF TailInv
<1>2. CASE Send
  <2>1. UNCHANGED <<decoderVars, network, covers, n_symbols, recvVars, sources, final_coded>>
    BY <1>2 DEF Send
  <2>2. GoneKept /\ window'.next_id \in {window.next_id, window.next_id + 1}
    BY <1>2, SendInv
  <2>3. window'.next_id <= n_symbols
    <3>1. ProgressInv'  BY ProgressStep
    <3>. QED  BY <2>1, <3>1 DEF ProgressInv
  <2>4. TailSender'  BY <1>1, <1>2, <2>3, TailSend
  <2>5. config' = config  BY <1>2, SendInv
  <2>6. MatrixInv' /\ TailHeld' /\ FinalPackets'  BY <1>1, <2>1, <2>2, <2>5, TailRests
  <2>7. TailRecovers'  BY <1>1, <2>1, TailKept DEF recvVars
  <2>. QED  BY <1>1, <2>1, <2>4, <2>6, <2>7 DEF TailInv
<1>3. ASSUME NEW m, Take(m), Receiving(m) PROVE TailInv'
  <2>1. /\ UNCHANGED <<encoderVars, config, window, network, covers, n_symbols>> /\ GoneKept
        /\ sent' \subseteq sent
    BY <1>3, Taken DEF Take, MayBeLate, encoderVars, sendVars, TransferInv
  <2>2. TailSender'  BY <1>1, <2>1, TailSenderRests
  <2>3. receiver' # "done"
    BY <1>3 DEF Receiving, WaitStart, ReceiveData, ReceiveEnd, recvVars
  <2>4. TailRecovers'  BY <2>3 DEF TailRecovers
  <2>5. CASE UNCHANGED <<decoderVars, sources, final_coded>> /\ ~ReceiveData(m)
    <3>1. MatrixInv' /\ TailHeld' /\ FinalPackets'  BY <1>1, <2>1, <2>5, TailRests
    <3>. QED  BY <1>1, <2>1, <2>2, <2>4, <3>1 DEF TailInv
  <2>6. CASE ReceiveData(m)
    <3>1. MatrixInv' /\ TailHeld' /\ FinalPackets'
      BY <1>1, <1>3, <2>6, SourceTail, CodedTail DEF ReceiveData
    <3>. QED  BY <1>1, <2>1, <2>2, <2>4, <3>1 DEF TailInv
  <2>. QED  BY <1>3, <2>5, <2>6 DEF Receiving, WaitStart, ReceiveEnd
<1>4. ASSUME UNCHANGED <<encoderVars, network, covers, n_symbols, sources, final_coded>>,
             sent' \subseteq sent
      PROVE  GoneKept /\ UNCHANGED <<window, config>> /\ TailSender'
  <2>1. UNCHANGED <<config, window, coded_ids_used>>  BY <1>4 DEF encoderVars
  <2>2. GoneKept  BY <1>4, <2>1, FlightRests DEF TransferInv
  <2>. QED  BY <1>1, <1>4, <2>1, <2>2, TailSenderRests
<1>5. CASE Vanish \/ UNCHANGED transferVars
  <2>1. /\ UNCHANGED <<encoderVars, decoderVars, network, covers, n_symbols, recvVars, sources,
                       final_coded>>
        /\ sent' \subseteq sent
    BY <1>5 DEF Vanish, transferVars, codecVars, netVars, sendVars
  <2>2. GoneKept /\ UNCHANGED <<window, config>> /\ TailSender'  BY <1>4, <2>1
  <2>3. MatrixInv' /\ TailHeld' /\ FinalPackets'  BY <1>1, <2>1, <2>2, TailRests
  <2>4. TailRecovers'  BY <1>1, <2>1, TailKept DEF recvVars
  <2>. QED  BY <1>1, <2>1, <2>2, <2>3, <2>4 DEF TailInv
<1>6. CASE Decode
  <2>1. /\ UNCHANGED <<encoderVars, network, covers, n_symbols, recvVars, sources, final_coded>>
        /\ sent' \subseteq sent
    BY <1>6 DEF Decode, netVars, sendVars
  <2>2. GoneKept /\ UNCHANGED <<window, config>> /\ TailSender'  BY <1>4, <2>1
  <2>3. MatrixInv' /\ TailHeld'  BY <1>1, <1>6, <2>2, DecodeTail
  <2>4. FinalPackets'
    BY <1>1, <2>1, <2>2 DEF FinalPackets, FinalWindow, FinalWindowOf, PacketVectors
  <2>5. TailRecovers'  BY <1>1, <2>1, TailKept DEF recvVars
  <2>. QED  BY <1>1, <2>1, <2>2, <2>3, <2>4, <2>5 DEF TailInv
<1>7. CASE StartTimeout \/ ReceiveTimeout \/ SlowPacket \/ Stitch \/ Verify
  <2>1. /\ UNCHANGED <<encoderVars, decoderVars, network, covers, n_symbols, sources, final_coded>>
        /\ sent' \subseteq sent
    BY <1>7 DEF StartTimeout, ReceiveTimeout, SlowPacket, Stitch, Verify, Expires, netVars,
                sendVars
  <2>2. GoneKept /\ UNCHANGED <<window, config>> /\ TailSender'  BY <1>4, <2>1
  <2>3. MatrixInv' /\ TailHeld' /\ FinalPackets'  BY <1>1, <2>1, <2>2, TailRests
  <2>4. TailRecovers'  BY <1>7, LoopTail
  <2>. QED  BY <1>1, <2>1, <2>2, <2>3, <2>4 DEF TailInv
<1>. QED  BY <1>2, <1>3, <1>5, <1>6, <1>7 DEF TransferNext, ReceiveDatagram

(* TailInv holds at the start. *)
LEMMA TailStarts == TransferInit => TailInv
<1>. SUFFICES ASSUME TransferInit PROVE TailInv  OBVIOUS
<1>1. DP!Init  BY SameDecoderInit DEF TransferInit
<1>2. TailSender
  <2>1. EP!Init /\ sent = {}  BY SameEncoderInit DEF TransferInit
  <2>2. acks = EP!NoAcks /\ window.next_id = 0  BY <2>1 DEF EP!Init, EP!NewWindow
  <2>. QED  BY <2>1, <2>2 DEF TailSender, EP!Recent
<1>3. MatrixInv
  <2>1. DP!ReducedInv  BY <1>1, DecoderAssumptions, DP!InitReduced
  <2>2. DP!SolvedInv /\ DP!TodoSolved
    BY <1>1 DEF DP!Init, DP!SolvedInv, DP!TodoSolved, DP!SolvedKeys, DP!EmptyMap, DP!Keys
  <2>. QED  BY <2>1, <2>2 DEF MatrixInv
<1>4. TailHeld
  <2>1. skipped = {} /\ encoder_win_min = 0 /\ final_coded = {}
    BY <1>1 DEF DP!Init, TransferInit
  <2>. QED  BY <2>1 DEF TailHeld, D!SrcIds
<1>5. FinalPackets /\ TailRecovers /\ \E t \in Transfers : n_symbols = t.n_symbols
  BY DEF TransferInit, FinalPackets, TailRecovers
<1>. QED  BY <1>2, <1>3, <1>4, <1>5 DEF TailInv

(* The tail flush does what the comment in send.rs claims, for every file, *)
(* window, field, configuration and pattern of loss: as many different     *)
(* equations over the final window as symbols are lost in it complete the  *)
(* file, if what precedes the window has arrived.  The generators must     *)
(* separate solutions and the matrix must have a row for every symbol of   *)
(* the window.                                                             *)
THEOREM TransferTailRecovers ==
  Separating /\ Capacity <= MaxRows => (TransferSpec => []TailRecovers)
<1>. SUFFICES ASSUME Separating, Capacity <= MaxRows PROVE TransferSpec => []TailRecovers
  OBVIOUS
<1>1. TransferInv /\ ProgressInv /\ TailInv /\ [TransferNext]_transferVars => TailInv'
  BY TailStep
<1>2. TailInv => TailRecovers  BY DEF TailInv
<1>. QED
  BY <1>1, <1>2, TransferStarts, TransferStep, ProgressStarts, ProgressStep, TailStarts, PTL
  DEF TransferSpec
=============================================================================

------------------------------- MODULE Codec --------------------------------
(***************************************************************************)
(* One encoder and one decoder joined by an unreliable network: the        *)
(* packets the encoder returns are sent, the decoder's feedback travels    *)
(* back (transport/sender.rs, transport/receiver.rs).                      *)
(*                                                                         *)
(* Everything ever sent stays in the network.  On a "reordering" network   *)
(* any of it may arrive next, so packets are lost, duplicated and          *)
(* delivered in any order; on a "fifo" network packets are only lost, or   *)
(* repeated before the next one.  Feedback is lost, duplicated and         *)
(* reordered on both.                                                      *)
(*                                                                         *)
(* Datagrams for the sender are byte sequences (Wire): the feedback of the *)
(* decoder and, in a session that is used in both directions, the data     *)
(* packets of the peer, which arrive at the same socket (session.rs).  The *)
(* sender half parses whatever it reads as feedback; what the receiver     *)
(* half of its session reads first is lost to it.                          *)
(*                                                                         *)
(* The calls of the two state machines are atomic, so the encoder acts     *)
(* between the calls of the decoder.                                       *)
(***************************************************************************)
EXTENDS Integers, FiniteSets

CONSTANTS Capacity, IdSpace, None, NoEntry, Configs, CauchyCycle,
          VandermondeCycle, GenSpace, MaxSource, MaxCoded, LossReports,
          NumIds, F, Zero, One, FAdd(_, _), FMul(_, _), FInv(_), Absent,
          MaxRows, Period, MaxSack,
          Coef(_, _, _, _), \* coefficient for a strategy, source, coded id, generation
          Networks,         \* subset of {"fifo", "reordering"}
          Covers,           \* subset of {"window", "recent", "receiver"}
          Receiver,
          PeerData          \* data packets the peer sends, as byte sequences

VARIABLES config, window, acks, next_coded_id, generation, coded_ids_used,
          current_rate, acc, panicked, output, reported, evicted, auto_coded, owed,
          rows, known, buffer, next_delivery_id, encoder_win_min, counter,
          pc, cur, todo, queue, recovered, local_known,
          delivered, skipped, feedback, gap, late_pivot,
          network, covers, sent, arrived, inbox

E == INSTANCE Encoder WITH Receivers <- {Receiver}
D == INSTANCE Decoder WITH CodedInputs <- {}
W == INSTANCE Wire WITH Rejected <- Absent

(* What the two ends assume; the decoder's identifiers are those of the    *)
(* wire, u32 in the program; and sessions that end before they wrap.       *)
ASSUME CodecAssumption ==
  /\ E!WindowAssumption /\ E!ReceiverAssumption /\ E!EncoderAssumption
  /\ D!NumIdsAssumption /\ D!FieldAssumption /\ D!AbsentAssumption /\ D!DecoderAssumption
  /\ NumIds <= IdSpace /\ (IdSpace - 1) \div 16777216 < 256
  /\ MaxSource <= NumIds

(* The generators never return zero: a power of the field's generator, or  *)
(* the inverse of a sum of two different points (coef_gen.rs).             *)
ASSUME CoefAssumption ==
  \A src \in D!SrcIds, gen \in 0..(GenSpace - 1) :
    /\ \A id \in 0..(CauchyCycle - 1) : Coef("Cauchy", src, id, gen) \in F \ {Zero}
    /\ \A id \in 1..VandermondeCycle : Coef("Vandermonde", src, id, gen) \in F \ {Zero}

encoderVars == <<config, window, acks, next_coded_id, generation, coded_ids_used,
                 current_rate, acc, panicked, output, reported, evicted, auto_coded,
                 owed>>
decoderVars == <<rows, known, buffer, next_delivery_id, encoder_win_min, counter,
                 pc, cur, todo, queue, recovered, local_known,
                 delivered, skipped, feedback, gap, late_pivot>>
netVars == <<network, covers, sent, arrived, inbox>>
codecVars == <<encoderVars, decoderVars, netVars>>

Init == /\ E!Init /\ D!Init
        /\ network \in Networks /\ covers \in Covers
        /\ sent = {} /\ arrived = 0 /\ inbox = {}

----------------------------------------------------------------------------
(* Packets carry the position at which they were sent; a source packet is  *)
(* sent before the coded packets of the same call.                         *)
Stamp(p) ==
  2 * (window.next_id + coded_ids_used) + (IF p.kind = "source" THEN 0 ELSE 1)

Transmit == sent' = sent \cup {[at |-> Stamp(p), packet |-> p] : p \in output'}

Submit == E!SubmitSource /\ Transmit

(* Which operation the sender uses for coded packets beyond those that     *)
(* submit_source returns is fixed for the session.                         *)
Generate == /\ \/ covers = "window" /\ E!GenerateCoded
               \/ covers = "recent" /\ \E m \in 1..Capacity : E!GenerateCodedRecent(m)
               \/ covers = "receiver" /\ E!GenerateCodedForReceiver(Receiver)
            /\ Transmit

Encode == /\ pc = "idle"
          /\ Submit \/ Generate
          /\ UNCHANGED <<decoderVars, network, covers, arrived, inbox>>

(* The vectors a coded packet carries: its coefficients, which the decoder *)
(* reads or recomputes, and the combination of the payloads that the       *)
(* encoder looked up in its window.                                        *)
CoefOf(p, id) == Coef(config.strategy, id, p.coded_id, p.generation)

CoefVector(p) == [i \in D!SrcIds |-> IF i \in p.ids THEN CoefOf(p, i) ELSE Zero]

PayloadVector(p) ==
  [i \in D!SrcIds |-> IF \E id \in p.ids : p.data[id] = i
                        THEN CoefOf(p, CHOOSE id \in p.ids : p.data[id] = i)
                        ELSE Zero]

(* The decoder's handler for the packet, as process_one calls it. *)
Handle(p) == IF p.kind = "source" THEN D!HandleSource(p.id, D!Unit(p.data))
                                  ELSE D!HandleCoded(CoefVector(p), PayloadVector(p))

Receive(m) ==
  /\ network = "fifo" => m.at >= arrived
  /\ arrived' = IF network = "fifo" THEN m.at ELSE arrived
  /\ Handle(m.packet)
  /\ UNCHANGED <<encoderVars, network, covers, sent, inbox>>

(* count_missing: holes below the highest buffered symbol. *)
count_missing(f) == IF f.acked = {} THEN 0
                    ELSE W!Max(f.acked) - f.first_src_id + 1 - Cardinality(f.acked)

(* The feedback packet of maybe_send_feedback.  A constant FEC rate does   *)
(* not look at the loss rate: it is tracked in Pipeline.                   *)
FeedbackDatagram(f) ==
  W!SerialiseFeedback(W!BuildFeedback(f.first_src_id, count_missing(f),
                                      Cardinality(D!Keys(rows)), 0, f.acked))

(* The decoder works on the packet; the feedback it returns is sent. *)
DecoderStep ==
  /\ D!Step
  /\ inbox' = IF pc' = "idle" /\ feedback' # Absent
                THEN inbox \cup {FeedbackDatagram(feedback')} ELSE inbox
  /\ UNCHANGED <<encoderVars, network, covers, sent, arrived>>

(* One turn of recv_feedback's loop, or a call of wait_feedback: the       *)
(* packet type of the datagram is not looked at.                           *)
ReceiveFeedback(d) ==
  LET f == W!ParseFeedback(d)
  IN  /\ pc = "idle"
      /\ f # Absent
      /\ E!HandleFeedback(Receiver, [first_src_id |-> f.first_src_id,
                                     acked |-> W!acked_ids(f)], f.plr_raw)
      /\ UNCHANGED <<decoderVars, netVars>>

(* The sender half of the peer's session. *)
PeerSends(d) ==
  /\ pc = "idle" /\ d \notin inbox
  /\ inbox' = inbox \cup {d}
  /\ UNCHANGED <<encoderVars, decoderVars, network, covers, sent, arrived>>

Next == \/ Encode
        \/ \E m \in sent : Receive(m)
        \/ DecoderStep
        \/ \E d \in inbox : ReceiveFeedback(d)
        \/ \E d \in PeerData : PeerSends(d)

Spec == Init /\ [][Next]_codecVars

----------------------------------------------------------------------------
(* The encoder's knowledge is never ahead of the decoder: a symbol it      *)
(* counts as acknowledged is held by the decoder or was given up by it,    *)
(* for stale, duplicated and reordered feedback, through the bits of the   *)
(* packet and its parser.                                                  *)
AckedMeansHeld ==
  \A id \in D!SrcIds : E!IsAcked(acks, Receiver, id) =>
    known[id] # Absent \/ id \in skipped

(* With backpressure Reject and coded packets over the whole window, or    *)
(* over all that the receiver has not acknowledged, no loss, duplication   *)
(* or reordering of packets and feedback makes the decoder give a symbol   *)
(* up: encoder_win_min never overtakes what it has delivered.              *)
NoGapWithoutEviction ==
  config.backpressure = "Reject" /\ covers # "recent" => skipped = {}

(* The decoder gives up only what the encoder can no longer combine        *)
(* (decoder/mod.rs, UnrecoverableGap).                                     *)
GapMeansGone == \A i \in skipped : i \notin window.symbols

(* Loss alone never brings the decoder into the situation in which its     *)
(* matrix goes wrong: without reordering no source packet arrives for the  *)
(* key of a row, and everything delivered is what was submitted.           *)
FifoIsSafe ==
  network = "fifo" =>
    /\ ~late_pivot
    /\ \A i \in D!SrcIds : delivered[i] \in {Absent, D!Unit(i)}

(* A symbol that is nowhere, neither in the encoder's window nor with the  *)
(* decoder, was evicted by backpressure or given up.                       *)
NothingVanishes ==
  \A i \in 0..(window.next_id - 1) :
    i \in window.symbols \/ known[i] # Absent \/ i \in evicted \/ i \in skipped
=============================================================================

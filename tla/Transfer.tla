------------------------------ MODULE Transfer ------------------------------
(***************************************************************************)
(* The file transfer of the command line (delp-cli/src/send.rs, recv.rs)   *)
(* over one encoder and one decoder.  The sender frames the packets of the *)
(* encoder with a START and an END datagram and never reads feedback; the  *)
(* receiver gives up when no datagram comes for the inactivity time.       *)
(*                                                                         *)
(* A "fifo" network loses datagrams but delivers the others in order and   *)
(* soon: the timer only expires when the sender is done and nothing is on  *)
(* its way.  On a "reordering" network up to MaxLate datagrams are         *)
(* overtaken at a time and arrive later or never, and the timer may expire *)
(* at any time.  sent holds the datagrams on their way; none is duplicated.*)
(*                                                                         *)
(* covers is the --altc mode, "none" for no targeted packets.  Both ends   *)
(* act between the calls of the decoder, which they cannot tell from their *)
(* acting during them.                                                     *)
(***************************************************************************)
EXTENDS Codec

CONSTANTS Transfers,  \* what Init chooses from: [network, covers, n_symbols, strategy]
          AltcRecent, \* --altc-recent
          MaxLate     \* bound on the datagrams that are overtaken at a time

(* Files within the identifiers of the decoder. *)
ASSUME TransferAssumption == \A t \in Transfers : t.n_symbols \in 0..NumIds

(* Elimination is over a field, which solving equations depends on. *)
ASSUME FieldLawsAssumption == D!FieldLaws

VARIABLES n_symbols,    \* length of the file in symbols
          sender,       \* where send::run is
          flush,        \* coded packets left in the tail flush
          receiver,     \* where recv::run is
          session,      \* parse_start's result: the number of symbols
          file,         \* the file on disk
          result,       \* how recv::run ended
          \* History of fifo networks, read by no action: the source packets, and
          \* the equations over the whole final window, that reached the decoder.
          sources, final_coded

sendVars == <<n_symbols, sender, flush>>
recvVars == <<receiver, session, file, result>>
transferVars == <<codecVars, sendVars, recvVars, sources, final_coded>>

Start == [at |-> -1, packet |-> [kind |-> "START", n_symbols |-> n_symbols]]
End == [at |-> 2 * (window.next_id + coded_ids_used), packet |-> [kind |-> "END"]]

TransferInit ==
  /\ E!Init /\ D!Init
  /\ \E t \in Transfers : /\ network = t.network /\ covers = t.covers
                          /\ n_symbols = t.n_symbols /\ config.strategy = t.strategy
  /\ sent = {} /\ arrived = -1 /\ inbox = {}
  /\ sender = "start" /\ flush = 0
  /\ receiver = "wait_start" /\ session = Absent /\ file = Absent /\ result = "running"
  /\ sources = {} /\ final_coded = {}

----------------------------------------------------------------------------
(* send::run. *)
SendStart == /\ sender = "start"
             /\ sent' = sent \cup {Start}
             /\ sender' = "stream"
             /\ UNCHANGED <<encoderVars, flush>>

(* One symbol of the file and the coded packets the FEC rate adds. *)
SendSymbol == /\ sender = "stream" /\ window.next_id < n_symbols
              /\ Submit
              /\ sender' = IF covers = "none" THEN "stream" ELSE "altc"
              /\ UNCHANGED flush

(* One targeted coded packet after each symbol. *)
SendTargeted == /\ sender = "altc"
                /\ \/ covers = "recent" /\ E!GenerateCodedRecent(AltcRecent)
                   \/ covers = "receiver" /\ E!GenerateCodedForReceiver(Receiver)
                /\ Transmit
                /\ sender' = "stream"
                /\ UNCHANGED flush

BeginTail == /\ sender = "stream" /\ window.next_id = n_symbols
             /\ sender' = "tail" /\ flush' = 2 * Capacity
             /\ UNCHANGED <<encoderVars, sent>>

SendTail == /\ sender = "tail" /\ flush > 0
            /\ E!GenerateCoded /\ Transmit
            /\ flush' = flush - 1
            /\ UNCHANGED sender

(* The flush also stops when there is nothing to combine. *)
SendEnd == /\ sender = "tail" /\ (flush = 0 \/ window.symbols = {})
           /\ sent' = sent \cup {End}
           /\ sender' = "done"
           /\ UNCHANGED <<encoderVars, flush>>

Send == /\ pc = "idle"
        /\ SendStart \/ SendSymbol \/ SendTargeted \/ BeginTail \/ SendTail \/ SendEnd
        /\ UNCHANGED <<decoderVars, network, covers, arrived, inbox, n_symbols, recvVars,
                       sources, final_coded>>

----------------------------------------------------------------------------
(* A datagram leaves the network: those sent before it are lost, or        *)
(* overtaken when the network reorders.                                    *)
MayBeLate(m) ==
  IF network = "fifo" THEN {{}}
  ELSE {late \in SUBSET {x \in sent : x.at < m.at} : Cardinality(late) <= MaxLate}

Take(m) == /\ m \in sent
           /\ \E late \in MayBeLate(m) :
                sent' = late \cup {x \in sent \ {m} : x.at >= m.at}
           /\ UNCHANGED <<encoderVars, network, covers, arrived, inbox, sendVars>>

Vanish == /\ pc = "idle" /\ sent # {}
          /\ sent' = {}
          /\ UNCHANGED <<encoderVars, decoderVars, network, covers, arrived, inbox, sendVars,
                         recvVars, sources, final_coded>>

(* recv::run.  Before START everything else is discarded. *)
WaitStart(m) == /\ receiver = "wait_start"
                /\ IF m.packet.kind = "START"
                     THEN receiver' = "receive" /\ session' = m.packet.n_symbols
                     ELSE UNCHANGED <<receiver, session>>
                /\ UNCHANGED <<decoderVars, file, result, sources, final_coded>>

(* The symbols in the encoder's window after the last submission. *)
FinalWindowOf(n) == {i \in 0..(n - 1) : i + Capacity >= n}
FinalWindow == FinalWindowOf(n_symbols)

(* The transfers in which equations over the final window are recorded. *)
TailCounts == network = "fifo" /\ covers # "recent"

(* One turn of the receive loop.  symbols is what has been delivered. *)
ReceiveData(m) ==
  /\ receiver = "receive" /\ m.packet.kind \in {"source", "coded"}
  /\ Handle(m.packet)
  /\ sources' = IF network = "fifo" /\ m.packet.kind = "source"
                  THEN sources \cup {m.packet.id} ELSE sources
  /\ final_coded' = IF TailCounts /\ m.packet.kind = "coded" /\ m.packet.ids = FinalWindow
                      THEN final_coded \cup {CoefVector(m.packet)} ELSE final_coded
  /\ UNCHANGED recvVars

ReceiveEnd(m) == /\ receiver = "receive" /\ m.packet.kind = "END"
                 /\ receiver' = "stitch"
                 /\ UNCHANGED <<decoderVars, session, file, result, sources, final_coded>>

Receiving(m) == WaitStart(m) \/ ReceiveData(m) \/ ReceiveEnd(m)

ReceiveDatagram == pc = "idle" /\ \E m \in sent : Take(m) /\ Receiving(m)

Decode == /\ D!Step
          /\ UNCHANGED <<encoderVars, netVars, sendVars, recvVars, sources, final_coded>>

----------------------------------------------------------------------------
(* The inactivity timer. *)
Expires == /\ pc = "idle"
           /\ network = "fifo" => sender = "done" /\ sent = {}
           /\ UNCHANGED <<encoderVars, decoderVars, netVars, sendVars, session, file,
                          sources, final_coded>>

(* A mutation: the first recv_from has no timeout. *)
NoStartTimeout == FALSE

StartTimeout == /\ receiver = "wait_start"
                /\ receiver' = "done" /\ result' = "no_start"
                /\ Expires

(* A mutation: the timeout is an error whatever has been received. *)
NeverEnough == FALSE

AllSymbols == Cardinality(D!Keys(delivered)) >= session

ReceiveTimeout == /\ receiver = "receive"
                  /\ IF AllSymbols
                       THEN receiver' = "stitch" /\ UNCHANGED result
                       ELSE receiver' = "done" /\ result' = "inactive"
                  /\ Expires

(* The loop also ends when it has all symbols and the packet at hand took   *)
(* longer than 150 ms: last_progress is set when the packet arrives.        *)
SlowPacket == /\ receiver = "receive" /\ pc = "idle"
              /\ session > 0 /\ AllSymbols
              /\ receiver' = "stitch"
              /\ UNCHANGED <<encoderVars, decoderVars, netVars, sendVars, session, file,
                             result, sources, final_coded>>

(* The file is written before its digest is compared, and stays on disk    *)
(* when the digests differ.                                                *)
Stitch == /\ receiver = "stitch" /\ pc = "idle"
          /\ IF \E id \in 0..(session - 1) : delivered[id] = Absent
               THEN receiver' = "done" /\ result' = "missing" /\ UNCHANGED file
               ELSE /\ receiver' = "verify" /\ UNCHANGED result
                    /\ file' = [id \in 0..(session - 1) |-> delivered[id]]
          /\ UNCHANGED <<encoderVars, decoderVars, netVars, sendVars, session, sources,
                         final_coded>>

Original == [id \in 0..(n_symbols - 1) |-> D!Unit(id)]

(* Files with the same SHA-256 are taken to be the same. *)
Verify == /\ receiver = "verify"
          /\ receiver' = "done"
          /\ result' = IF file = Original THEN "verified" ELSE "mismatch"
          /\ UNCHANGED <<encoderVars, decoderVars, netVars, sendVars, session, file,
                         sources, final_coded>>

TransferNext == \/ Send \/ ReceiveDatagram \/ Vanish \/ Decode
                \/ StartTimeout \/ ReceiveTimeout \/ SlowPacket \/ Stitch \/ Verify

(* The runtime polls the tasks, the timer expires when nothing comes, and  *)
(* what is on its way arrives or is lost: as long as one of these can      *)
(* happen, one of them does.  Which one is left open.                      *)
TransferFairness ==
  WF_transferVars(\/ Send \/ Vanish \/ ReceiveDatagram \/ Decode
                  \/ StartTimeout \/ ReceiveTimeout \/ Stitch \/ Verify)

TransferSpec == TransferInit /\ [][TransferNext]_transferVars /\ TransferFairness

----------------------------------------------------------------------------
(* Every receiver ends, whichever of START, END and the data is lost, late *)
(* or early, and for the empty file too.                                   *)
ReceiverEnds == <>(receiver = "done")

(* A wrong file reaches the disk only on a network that reorders, through  *)
(* a source packet that met the key of a matrix row: what loss, eviction   *)
(* and gaps leave out is reported missing and never filled with something  *)
(* else.  recv.rs leaves the wrong file there, but a run that reports      *)
(* success has recovered every byte.                                       *)
WrongFileReported ==
  /\ file \notin {Absent, Original} => network # "fifo" /\ late_pivot
  /\ result = "verified" => file = Original

(* Once START and every source packet have arrived in order the transfer   *)
(* succeeds, with END or without it and whatever coded packets came along. *)
AllSourcesSuffice ==
  network = "fifo" /\ sources = 0..(n_symbols - 1) /\ receiver = "done" /\ session # Absent
    => result = "verified"

(* The coefficients of the packets over the symbols ids, for a strategy. *)
PacketVectors(strategy, ids) ==
  LET CodedIds == IF strategy = "Cauchy" THEN 0..(CauchyCycle - 1) ELSE 1..VandermondeCycle
  IN  {[i \in D!SrcIds |-> IF i \in ids THEN Coef(strategy, i, id, gen) ELSE Zero] :
         id \in CodedIds, gen \in 0..(GenSpace - 1)}

(* What the tail flush needs of the generators: packets over the final     *)
(* window that differ are independent equations.  Of a solution with k     *)
(* non-zero values fewer than k of them hold.                              *)
SeparatingOn(strategy, ids) ==
  LET V == PacketVectors(strategy, ids)
  IN  \A x \in D!Vectors : D!Support(x) # {} /\ D!Support(x) \subseteq ids =>
        Cardinality({v \in V : D!Dot(v, x) = Zero}) < Cardinality(D!Support(x))

Separating == \A c \in Configs, ids \in {FinalWindowOf(t.n_symbols) : t \in Transfers} :
                SeparatingOn(c.strategy, ids)

(* The tail flush does what the comment in send.rs claims: if the symbols  *)
(* before the final window have arrived, as many different equations over  *)
(* the final window as symbols are lost in it complete the file.  Packets  *)
(* are not always different equations: Cauchy generations repeat them.     *)
(* Targeted packets over recent symbols only are excepted: they make the   *)
(* decoder give up what the tail would have recovered.                     *)
TailRecovers ==
  /\ TailCounts
  /\ receiver = "done" /\ session # Absent
  /\ (0..(n_symbols - 1)) \ FinalWindow \subseteq sources
  /\ Cardinality(FinalWindow \ sources) <= Cardinality(final_coded)
  => result = "verified"
=============================================================================

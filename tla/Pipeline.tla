------------------------------ MODULE Pipeline ------------------------------
(***************************************************************************)
(* A SinkSender (transport/sender.rs) whose packets a FecReceiver reads as *)
(* a Stream (transport/receiver.rs), each driven by an asynchronous task.  *)
(* A task that a poll leaves pending sleeps until its waker is called; the *)
(* wakers are called by tasks that the polls spawn.                        *)
(*                                                                         *)
(* The application uses the sink as SinkExt::send does (flush after every  *)
(* item) or as SinkExt::feed and send_all do (flush after the last item).  *)
(* The socket's buffer is filled by sending and drained by the system; the *)
(* sink offers no way to read feedback, so none is sent here.              *)
(*                                                                         *)
(* sent holds the datagrams on their way; none is duplicated.              *)
(***************************************************************************)
EXTENDS Codec, Sequences

CONSTANTS Usages,     \* subset of {"send", "feed"}
          MaxPending, \* MAX_PENDING: 512
          MaxGap      \* LossTracker's limit on one gap: 1000

ASSUME PipelineAssumption == MaxPending \in Nat \ {0} /\ MaxGap \in Nat

VARIABLES usage,
          pending,    \* SinkSender's queue
          task,       \* what the sending task does next
          asleep,     \* a poll of it has returned Pending
          waker,      \* a spawned task will wake it when the socket is writable
          writable,
          ready,      \* FecReceiver's queue: identifiers
          consumed,   \* identifiers the stream has yielded
          rasleep, rwaker,
          loss,       \* LossTracker
          \* History, read by no action: the packets handed to the socket, in
          \* order, and the source packets the decoder has handled.
          transmitted, sources

sinkVars == <<usage, pending, task, asleep, waker, writable, transmitted>>
streamVars == <<ready, consumed, rasleep, rwaker, loss, sources>>
pipelineVars == <<codecVars, sinkVars, streamVars>>

PipelineInit ==
  /\ Init
  /\ usage \in Usages /\ pending = <<>> /\ task = "ready" /\ asleep = FALSE
  /\ waker = FALSE /\ writable = TRUE /\ transmitted = <<>>
  /\ ready = <<>> /\ consumed = <<>> /\ rasleep = FALSE /\ rwaker = FALSE
  /\ loss = [received |-> 0, expected |-> 0, last_seen |-> 0] /\ sources = {}

----------------------------------------------------------------------------
(* The sink.  poll_ready refuses a long queue and registers no waker. *)
PollReady ==
  /\ task = "ready" /\ ~asleep
  /\ IF Len(pending) >= MaxPending THEN asleep' = TRUE /\ UNCHANGED task
                                   ELSE task' = "start" /\ UNCHANGED asleep
  /\ UNCHANGED <<encoderVars, sent, pending, waker, writable, transmitted>>

(* What the application does after an item: n items have been submitted. *)
AfterItem(n) == IF usage = "feed" /\ n < MaxSource THEN "ready" ELSE "flush"

(* What submit_source returns: the source packet and then the coded ones;  *)
(* nothing if it panics.                                                   *)
Returned ==
  {s \in [1..(IF panicked' THEN 0 ELSE 1 + coded_ids_used' - coded_ids_used) -> output'] :
     /\ \A i \in DOMAIN s : s[i].kind = "source" <=> i = 1
     /\ \A p \in output' : \E i \in DOMAIN s : s[i] = p}

(* The packets s of a call, numbered in the order of all calls. *)
Numbered(s) == [i \in DOMAIN s |-> [at |-> window.next_id + coded_ids_used + i,
                                   packet |-> s[i]]]

StartSend ==
  /\ task = "start"
  /\ E!SubmitSource
  /\ \E s \in Returned : pending' = pending \o Numbered(s)
  /\ task' = AfterItem(window'.next_id)
  /\ UNCHANGED <<sent, asleep, waker, writable, transmitted>>

(* A full window is an error, not a wait. *)
StartSendFails ==
  /\ task = "start" /\ E!IsFull(window) /\ config.backpressure = "Reject"
  /\ task' = "failed"
  /\ UNCHANGED <<encoderVars, sent, pending, asleep, waker, writable, transmitted>>

(* A mutation: the packet leaves the queue before the socket takes it. *)
PoppedFirst == Tail(pending)

AfterBlock == pending

(* A mutation: poll_flush returns Pending without the spawned task. *)
NoWaker == FALSE

WakerSpawned == TRUE

(* One turn of the loop of poll_flush.  The datagram may fill the buffer. *)
PollFlush ==
  /\ task = "flush" /\ ~asleep /\ pending # <<>>
  /\ IF writable
       THEN /\ sent' = sent \cup {Head(pending)}
            /\ transmitted' = Append(transmitted, Head(pending))
            /\ pending' = Tail(pending)
            /\ writable' \in BOOLEAN
            /\ UNCHANGED <<asleep, waker>>
       ELSE /\ asleep' = TRUE /\ waker' = WakerSpawned
            /\ pending' = AfterBlock
            /\ UNCHANGED <<sent, transmitted, writable>>
  /\ UNCHANGED <<encoderVars, task>>

(* Any other error of the socket ends poll_flush with the packet still in  *)
(* front: the application gives up, or flushes again, which is a stutter.  *)
FlushFails ==
  /\ task = "flush" /\ ~asleep /\ pending # <<>>
  /\ task' = "io_error"
  /\ UNCHANGED <<encoderVars, sent, pending, asleep, waker, writable, transmitted>>

(* poll_flush is ready; poll_close is poll_flush. *)
FlushDone ==
  /\ task = "flush" /\ pending = <<>>
  /\ task' = IF window.next_id < MaxSource THEN "ready" ELSE "done"
  /\ UNCHANGED <<encoderVars, sent, pending, asleep, waker, writable, transmitted>>

WakeSender ==
  /\ waker /\ writable
  /\ asleep' = FALSE /\ waker' = FALSE
  /\ UNCHANGED <<encoderVars, sent, pending, task, writable, transmitted>>

SenderTask == /\ pc = "idle"
              /\ \/ PollReady \/ StartSend \/ StartSendFails \/ PollFlush \/ FlushFails
                 \/ FlushDone \/ WakeSender
              /\ UNCHANGED <<decoderVars, network, covers, arrived, inbox, streamVars, usage>>

SocketDrains == /\ pc = "idle" /\ ~writable
                /\ writable' = TRUE
                /\ UNCHANGED <<codecVars, usage, pending, task, asleep, waker, transmitted,
                               streamVars>>

----------------------------------------------------------------------------
(* LossTracker.  A mutation: the packet itself is counted with its gap. *)
GapInclusive(id) == ((id - loss.last_seen) % IdSpace) + 1

Gap(id) == (id - loss.last_seen) % IdSpace

on_source(id) == [received |-> loss.received + 1,
                  expected |-> loss.expected + (IF Gap(id) < MaxGap THEN Gap(id) ELSE MaxGap),
                  last_seen |-> id]

on_coded == [loss EXCEPT !.received = @ + 1, !.expected = @ + 1]

Lost == IF loss.expected > loss.received THEN loss.expected - loss.received ELSE 0

(* poll_next: a decoded symbol first, else a datagram, else sleep. *)
PollQueue ==
  /\ ~rasleep /\ ready # <<>>
  /\ consumed' = Append(consumed, Head(ready)) /\ ready' = Tail(ready)
  /\ UNCHANGED <<decoderVars, sent, rasleep, rwaker, loss, sources>>

(* On a fifo network the datagrams before the one received are lost.  An   *)
(* error of the socket becomes an item of the stream and changes nothing;  *)
(* the decoder's errors are for packets of another symbol size.            *)
PollDatagram(m) ==
  /\ ~rasleep /\ ready = <<>>
  /\ sent' = IF network = "fifo" THEN {x \in sent : x.at > m.at} ELSE sent \ {m}
  /\ Handle(m.packet)
  /\ IF m.packet.kind = "source"
       THEN loss' = on_source(m.packet.id) /\ sources' = sources \cup {m.packet.id}
       ELSE loss' = on_coded /\ UNCHANGED sources
  /\ UNCHANGED <<ready, consumed, rasleep, rwaker>>

PollBlocked ==
  /\ ~rasleep /\ ready = <<>> /\ sent = {}
  /\ rasleep' = TRUE /\ rwaker' = TRUE
  /\ UNCHANGED <<decoderVars, sent, ready, consumed, loss, sources>>

WakeReader ==
  /\ rwaker /\ sent # {}
  /\ rasleep' = FALSE /\ rwaker' = FALSE
  /\ UNCHANGED <<decoderVars, sent, ready, consumed, loss, sources>>

ReaderTask ==
  /\ pc = "idle"
  /\ \/ PollQueue \/ PollBlocked \/ WakeReader
     \/ \E m \in sent : PollDatagram(m)
  /\ UNCHANGED <<encoderVars, network, covers, arrived, inbox, sinkVars>>

(* A mutation: a datagram that yields nothing leaves the task asleep. *)
SleepsOnNothing(out) == out = <<>>

StaysPending(out) == FALSE

(* A mutation: only the first symbol of a call is queued. *)
QueueFirst(new) == IF new = <<>> THEN ready ELSE Append(ready, Head(new))

QueueAll(new) == ready \o new

(* What a call has delivered, as drain_deliverable walks the buffer. *)
Drained ==
  [k \in 1..Cardinality(D!Keys(delivered') \ D!Keys(delivered)) |-> next_delivery_id + k - 1]

(* dispatch_datagram after the decoder has returned: its symbols join the  *)
(* queue and the first is yielded; with none the task wakes itself.        *)
Decode ==
  /\ D!Step
  /\ IF pc' = "idle"
       THEN LET out == QueueAll(Drained)
            IN  /\ ready' = IF out = <<>> THEN out ELSE Tail(out)
                /\ consumed' = IF out = <<>> THEN consumed ELSE Append(consumed, Head(out))
                /\ rasleep' = StaysPending(out)
       ELSE UNCHANGED <<ready, consumed, rasleep>>
  /\ UNCHANGED <<encoderVars, netVars, sinkVars, rwaker, loss, sources>>

PipelineNext == SenderTask \/ SocketDrains \/ ReaderTask \/ Decode

(* The runtime polls the tasks that are awake and those spawned to wake    *)
(* them, a call of the decoder goes on, and the system drains the socket.  *)
PipelineSpec ==
  /\ PipelineInit /\ [][PipelineNext]_pipelineVars
  /\ WF_pipelineVars(SenderTask) /\ WF_pipelineVars(SocketDrains)
  /\ WF_pipelineVars(ReaderTask) /\ WF_pipelineVars(Decode)

----------------------------------------------------------------------------
(* A sender that flushes after every item gets all items out, or learns    *)
(* that the window is full or that the socket is broken, with the packets  *)
(* that are left still queued: no order of blocking and waking loses a     *)
(* wake-up.                                                                *)
SendCompletes ==
  usage = "send" =>
    <>(\/ task = "done" /\ pending = <<>>
       \/ task = "failed" /\ config.backpressure = "Reject"
       \/ task = "io_error" /\ pending # <<>>)

(* The only sleep nobody ends is that of poll_ready on a full queue, which *)
(* an application that flushes after every item cannot reach.              *)
OnlyFullQueueStalls ==
  asleep /\ ~waker => usage = "feed" /\ task = "ready" /\ Len(pending) >= MaxPending

(* The queue and the socket neither lose, repeat nor reorder a packet of   *)
(* the encoder, however often the socket blocks between two of them.       *)
QueueKeepsOrder ==
  LET all == transmitted \o pending
  IN  /\ Len(all) = window.next_id + coded_ids_used
      /\ \A i \in 1..Len(all) : all[i].at = i

(* The stream yields what the decoder delivers, in ascending order,        *)
(* without a symbol lost between the queue and the caller.                 *)
StreamYieldsDelivered ==
  LET all == consumed \o ready
  IN  /\ \A i \in 1..(Len(all) - 1) : all[i] < all[i + 1]
      /\ {all[i] : i \in 1..Len(all)} = D!Keys(delivered)

(* The reading task never sleeps on a datagram or on a decoded symbol.     *)
StreamKeepsUp ==
  (sent # {} \/ ready # <<>>) ~> (sent = {} /\ ready = <<>>)

(* Without reordering the losses reported to the encoder are never more    *)
(* than happened, and, while no gap can exceed MaxGap, at most one less    *)
(* (the first packet is not expected by the tracker).  A packet that is    *)
(* overtaken counts as up to MaxGap losses.                                *)
LossNotOverstated ==
  network = "fifo" /\ sources # {} =>
    LET missed == (0..loss.last_seen) \ sources
    IN  /\ Lost <= Cardinality(missed)
        /\ loss.last_seen <= MaxGap => Cardinality(missed) <= Lost + 1
=============================================================================

# A TLA+ model of delp

delp is a Rust library for forward error correction over lossy datagram
networks.  A sender keeps a sliding window of source symbols and sends, besides
the symbols themselves, coded packets: linear combinations of window symbols
over GF(2^4) or GF(2^8).  A receiver solves for the symbols it has lost,
delivers in order, and reports what it has; the reports let the sender slide
its window.

This directory holds TLA+ modules of the library's core, the TLC
configurations that check them, and TLAPS proofs.

## 1. Inventory

| Part | State | Operations | What makes it correct |
|---|---|---|---|
| Encoding window (`codec/encoder/window.rs`) | symbols, `next_id`, `is_contiguous` | `push`, `evict_oldest`, `remove_ids`, `get` | lookup finds exactly the symbols of the window, although it trusts a cached flag |
| Encoder (`codec/encoder/mod.rs`) | window, acknowledgement state, coded identifier, generation | `submit_source`, `generate_coded` and three targeted forms, `handle_feedback` | a coded packet combines what its vector says; no (identifier, generation) pair repeats early; symbols leave the window only for a reason |
| Acknowledgements and window policies (`policy/`) | per receiver: cumulative ACK and SACK set | `update`, `is_acked`; AnyAck, AllAck, Quorum | exact whatever order feedback arrives in |
| FEC rate (`policy/defaults.rs`) | current rate, accumulator | `coded_packets_to_generate`, `on_feedback` | no fraction is lost, whatever the rate does between two packets |
| Loss estimate (`codec/decoder/mod.rs`, LossTracker) | received, expected, last identifier | `on_source`, `on_coded` | the losses it reports have happened |
| Decoding matrix (`codec/decoder/matrix.rs`) | rows keyed by pivot | `add_coded`, `add_known_source` | rows stay true equations in reduced form; what is determined is recovered; calls end |
| Decoder and buffer (`codec/decoder/mod.rs`, `buffer.rs`) | known symbols, buffer, delivery pointer, window minimum | `handle_source`, `handle_coded` | correct data, in order, each symbol decided once; truthful feedback; gaps only where symbols are gone |
| Fields and coefficients (`gf/`, `wire/ev/coef_gen.rs`) | constant tables | `mul`, `inv`, Vandermonde, Cauchy | the tables compute the field; packets are independent enough to solve |
| Bulk kernels (`gf/simd.rs`) | none | `mul_acc`, `mul_scale` for each instruction set | every byte is multiplied once, whatever the length |
| Wire formats (`wire/`) | none | serialise, parse | round trip within the field widths |
| Transport (`transport/`) | sockets, send queue, ready queue | `send_source`, `recv_feedback`, `recv_source`, Sink, Stream | no lost wake-up, no stolen datagram |
| Command line (`delp-cli/`) | transfer session | `send`, `recv` | the file that is written is the file that was sent |

The codec is synchronous and single-threaded (`&mut self`): concurrency is
between the two ends, through a network that loses, duplicates and reorders,
between the halves of a session, which share one socket, and between the
asynchronous tasks around the codec, which sleep and are woken.  The hard
behaviours are therefore orders of arrival (a source packet after the coded
packet that covers it, old feedback after new, END before data), values cached
across calls (`is_contiguous`, the row keys, `encoder_win_min`), wrap-around of
identifiers, fields of a packet that are narrower than what they hold, loops
whose length depends on the data, limits (window capacity, matrix rows, the
sink's queue), wake-ups and time-outs.  `PROJECT.json` lists each with its line.

## 2. Modules

    EncodingWindow  ReceiverAcks      DecodingMatrix   Delivery
             \        /                      \          /
              Encoder                         Decoder
             /       \                       /       \
       MCEncoder      \---- Codec ----------/      MCDecoder
                          /   |   \  \                 |
                 Transfer  MCCodec Pipeline \-- Wire   |
                       \   /    \   /            \     |
                    MCTransfer MCPipeline         \  GaloisField
                                                   \   |
                                                    \ Kernels
                                                     \ |
                                                  Coefficients

    NatLemmas --+-- Encoder_proofs --------------\
                |                                 Codec_proofs --+-- Pipeline_proofs
                +-- Decoder_proofs               /               +-- Transfer_proofs
                       |                        /
                 DecoderMatrix_proofs -- DecoderFeedback_proofs

* **EncodingWindow** models `window.rs` operation by operation.  Symbols are
  named by submission number n and carry the identifier `n % IdSpace`, so that
  wrap-around is visible.  The deque only grows at the back, so a set of
  numbers has its order.
* **ReceiverAcks** models `ReceiverAckState` and the three window policies.
* **Encoder** has one action per public operation.  A submission is one action:
  backpressure, push, the source packet and all coded packets that the FEC rate
  asks for.  A coded packet records for each identifier of its cover which
  symbol `get` returned.  The rate is constant or adaptive: `AdaptiveFecRate`
  doubles it when the reported loss is above the target and halves it when the
  loss is below half of the target, between its limits; the model's rates are
  whole multiples of a unit for which these steps are exact.  `panicked` is the failed
  `expect` of `compute_coded_payload_targeted`.  `reported`, `evicted`,
  `auto_coded` and `owed` are history that no action reads.
* **DecodingMatrix** holds rows and their arithmetic over a field given by
  CONSTANT operators and the few laws in `FieldAssumption`.  Payloads are
  formal: the payload of symbol i is the unit vector i, and any other payload
  is the vector of the coefficients with which it combines the submitted ones.
  A row is a true equation iff its two vectors are equal.  A dense row of
  `base_id` and coefficients is a total function that is zero outside the
  stored range.
* **Decoder** models a call as a sequence of steps.  `HandleSource` and
  `HandleCoded` start it; `SubstituteKnown`, `EliminateRow`, `HarvestRow`,
  `Rescan` and `Cascade` are each one turn of a loop of `matrix.rs`; `Finish`
  is the rest of the handler: absorb, drain, feedback, gap check.  `late_pivot`
  is history: a source packet has arrived for the key of a row.  `Cascade`
  takes the work queue in any order, which includes the program's.
* **Delivery** is the abstract specification of what the application sees.
* **Wire** has the formats of `wire/` as operators on bit and byte sequences:
  the four storage formats of identifier lists and the choice between them, the
  encoding vector with its optional coefficients, source, coded and feedback
  packets with their optional fields, and the SACK bit vector.  Every field has
  the width it has in the program, and every parser its early returns.
* **Kernels** has the split tables and the four loops of `simd.rs` (scalar,
  SSSE3, AVX2, NEON) with their chunks and tails.
* **GaloisField** has the tables, the operations and the coefficient
  generators as functions of the field's constants; **Coefficients** walks
  through pairs of symbols and pairs of packets and asks at each place about
  the coefficients, the vector on the wire and the kernels.
* **Codec** joins one encoder and one decoder.  All packets ever sent stay in
  the network.  A "reordering" network may deliver any of them next (loss,
  duplication, reordering); a "fifo" network only loses and repeats the latest
  packet.  Feedback is lost, repeated and reordered on both, and travels in its
  byte format.  The sender's socket also receives the data packets of the peer
  (`PeerData`) when a session is used in both directions.
* **Pipeline** puts `SinkSender` before the encoder and the `Stream` of
  `FecReceiver` behind the decoder.  Each is a task: a poll either makes
  progress or returns Pending and the task sleeps until a spawned task calls
  its waker.  The socket may block at any packet, and may fail at any, which
  ends the call with the packet still in front (`FlushFails`).  The application uses the
  sink as `SinkExt::send` (flush after every item) or as `feed` and `send_all`
  (flush after the last).  Packets are numbered in the order of the encoder's
  results: each call returns its source packet and then its coded packets.
  LossTracker is modelled here.
* **Transfer** is the file transfer of `delp-cli`: START, the symbols with
  their coded and `--altc` packets, the tail flush and END on one side; waiting
  for START, the receive loop with its time-outs, stitching, writing and the
  digest on the other.  The digest is equality with the original.  Datagrams are
  taken from the network in order, those before the one taken being lost; on a
  "reordering" network up to `MaxLate` of them at a time are overtaken instead,
  and arrive later or never.  The history variables `sources` and `final_coded`
  are kept on fifo networks only, for the properties that speak of them.

The operators commented as mutations are used by no specification.  Each is a
plausible slip in the definition that follows it; replacing the definition by
it breaks the property named in `PROJECT.json`, which shows that the property
depends on the code it is about.

## 3. Runs

| Run | Result | Shows |
|---|---|---|
| `encoder` | passes, 57,281 states | Lookup, coded packets, acknowledgement state, removals, FEC rate and coded identifiers are exact for every order of calls |
| `encoder_wrap` | violation | When identifiers wrap inside the window, `get` misses symbols that are there |
| `encoder_points` | violation | Two symbols of one window can share a Cauchy point after selective removal |
| `decoder` | passes, 264,675 states | Elimination, recovery, delivery, feedback and termination for every order, loss and duplication of the packets |
| `decoder_reorder` | violation | A source packet that arrives after a coded packet with its pivot can lead to wrong data being delivered |
| `decoder_gap` | violation | A gap can swallow symbols that were received |
| `codec` | passes, 796,560 states | End to end: the encoder never believes more than the decoder has; Reject loses nothing; without reordering all data is right |
| `codec_recent` | violation | A coded packet over the recent part of the window makes the decoder give up symbols still in the window |
| `session_duplex` | violation | A coded packet of the peer is read as feedback, and an unacknowledged symbol leaves the window |
| `transfer` | passes, 107,442 states | The receiver always ends; a wrong file is written only after reordering and is never reported as verified; the tail flush repairs what it is meant to repair |
| `pipeline` | passes, 34,024 states | No wake-up, packet or symbol is lost or reordered by the sink and the stream; the loss estimate is right without reordering |
| `coefficients` | passes, 24,255 states | Exactly which pairs of packets solve for which pairs of symbols; tables and kernels are right; vectors and acknowledgements survive the wire up to exact limits |

The six violations are disagreements between the code and its own comments.
In `decoder_reorder` the row left under a stale key becomes solved for another
symbol; the lookup under that symbol (`matrix.rs:421`) misses it, and a later
harvest takes its payload without dividing by its coefficient, which only the old
pivot had made one.

Five more findings belong to passing runs, whose properties state exactly where
the limit lies.  `src/README.md:51` says that the receiver verifies the digest
before it writes the output; `recv.rs` writes at line 211, compares at line 213
and leaves a wrong file on disk.  `WrongFileReported` says what is true instead:
a wrong file needs reordering and the stale key, and success means the exact
file.  The run reaches such a file and its "mismatch": START, a coded packet over
the first two symbols, the late source packet of the first, and a packet over
the third.  The others: a Cauchy packet of a later generation repeats an equation
of an earlier one (`CauchyPairSolvable`); Vandermonde packets are dependent over
symbols at certain distances, where `gf/mod.rs:249-250` says that any k packets
recover k sources (`VandermondePairSolvable`); a coded packet over 256 identifiers, the
default window, says that it covers none (`VectorSurvives`); and a task that
feeds the sink until its queue is full sleeps for ever (`OnlyFullQueueStalls`,
whose exception is reached).  `PROJECT.json` quotes the lines under "findings".

Four remarks that are not properties.  `config.rs:230-231` calls
`max_matrix_rows` the number of equations held; the builder accepts zero, and
the matrix then holds one row, because room is made before the new row is
inserted (`RowsBounded` has this exception).  Under Reject a full window is an error
of the sink's `start_send` and not a reason to wait in `poll_ready`
(`StartSendFails`).  The 150 ms that `recv.rs` waits for END are measured from
the arrival of the packet at hand, so they only pass when handling that packet
took so long (`SlowPacket`); the ordinary way out without END is the time-out.
And the tail flush combines only the final window, so a symbol that was evicted
before it arrived is not recovered by it: `TailRecovers` has this as its
condition.

**Bounds.**  `encoder`: a window of 3 and 4 submissions, so that it fills,
evicts, and has holes at every place; cycles of 2 coded identifiers and 2
generations and 4 coded packets, so that both wrap; two interchangeable
receivers (symmetry), which tells the three policies apart; loss reports below,
just under and above the target, so that the adaptive rate rises to its upper limit
and falls to its lower one; identifiers do not wrap (`IdSpace` 8) except in
`encoder_wrap` (`IdSpace` 4).  `decoder`: four symbols, five Vandermonde packets
of a growing and sliding window over the program's GF(2^4), two matrix rows so
that the limit acts, feedback every second packet with one SACK entry so that
truncation acts.  Three unknowns and two rows are enough for cascades, stale
keys, evicted rows and gaps over buffered symbols.  `codec`: a window of 2, four
submissions and two coded packets, both backpressure modes, both strategies,
three kinds of cover, both networks; a VIEW leaves out what the latest calls
returned, which is already in the network.  The peer of `codec` sends source
packets too short for the feedback parser, that of `session_duplex` also a coded
packet.  `transfer`: a window of 2 and files of 0, 2 and 3 symbols, so that the
empty file and eviction happen, every `--altc` mode for the longest, and a tail
of twice the window; on the reordering network a file of 2 symbols, and one of 3
with `--altc recent`, whose decoder can go wrong, each with one overtaken datagram at
a time (`MaxLate` 1).
`pipeline`: four symbols, two coded packets and a queue of 4 (512 in the
program), so that feeding fills it and sending does not; identifiers modulo
2048, so that an overtaken packet's gap reaches the tracker's limit of 1000.
`coefficients`: one period (15) of source identifiers, three generations, all
pairs of symbols up to 7 apart, where the source points collide for the first
time; covers whose length and distance move across 255
identifiers, a delta of 65535 and 2040 SACK bits; buffers of up to 34 bytes with
lanes of 2 bytes (16 in the program), so that every kernel has whole vectors
and every length of tail, with the coefficients 0 and 1 that the kernels treat
apart and a generated one.

`CHECK_DEADLOCK FALSE` is set in `coefficients`, where the walk ends at its
bounds, and in `transfer` and `pipeline`, where the program ends or waits for
datagrams that nobody sends any more; liveness properties say there what must
have happened by then.

**Fairness.**  `Decoder`: weak fairness of `Step`.  A call is synchronous code,
so a step that can be taken is taken.  `Pipeline`: weak fairness of the sending
task, the reading task and the decoder's steps, because the runtime polls every
task that is awake, and of `SocketDrains`, because the system empties a send
buffer; nothing makes a sleeping task continue but its waker.  `Transfer`: weak
fairness of one action, the union of the sender's and the decoder's steps, the
network (a datagram arrives or is lost), the timers and the end of the receiver:
while one of them can go on, one does.  That is less than the runtime gives each
task, and enough because a transfer has finitely many steps.  None is assumed of
`SlowPacket`, nor of packets and feedback in `Codec`.

**Preconditions.**  `NoCorruption` and `NothingLeftSolved` assume that no
source packet has arrived for the key of a row; `decoder_reorder` shows that
they fail otherwise, and `FifoIsSafe` that loss alone cannot cause it.
`LookupExact` and `CodedSound` assume that identifiers have not wrapped;
`encoder_wrap` shows why.  `NoGapWithoutEviction` and `TailRecovers` exclude
packets over recent symbols only; `codec_recent` shows why, and without the
exception TLC finds a transfer whose tail could have recovered a symbol that
such a packet made the decoder give up.  `AllSourcesSuffice`,
`TailRecovers` and `LossNotOverstated` are about networks that lose and do not
reorder: with reordering END may overtake the data, a symbol may be
recovered wrongly, and an overtaken packet counts as many losses.  `SendCompletes` is
about an application that flushes after every item, and excepts a socket that fails.

## 4. Proofs

Every theorem is for all values of the constants that meet the named
assumptions.  `NatLemmas` holds lemmas only.

**Decoder** (`Decoder_proofs`, `DecoderMatrix_proofs`,
`DecoderFeedback_proofs`): every number of symbols, every field that meets
`FieldAssumption`, every row limit, feedback period and set of encoding vectors.

* `TypeCorrect`.  TypeOK is not inductive: the loops of `add_coded` read
  `known[k]` and `rows[k]` for the keys of a worklist, and nothing in TypeOK
  says that these entries exist.  `TypeInv` adds `LoopOK`: the worklist of the
  substitution lies within the known symbols, that of the elimination within the
  rows, and the work queue is empty outside a cascade.
* `DecoderNoCorruption`.  The inductive invariant is `IInv`, TypeInv with
  `DataInv`, which says the following unless `late_pivot` holds.  Every row is a
  true equation, has coefficient one at its own key and zero at the key of every
  other row (`RowsOK`); the row under construction is a true equation and is
  already clear of the keys that elimination has visited (`CurOK`); every known,
  buffered, recovered and delivered payload is the unit vector of its symbol
  (`PayloadsOK`), and so is every queued one, whose symbol is not the key of a
  row (`QueueOK`).  The form of the matrix is needed for the data: a row that is
  found by the identifier it solves is that very row only because its own key is
  the one coefficient it never loses, and it yields the plain payload only
  because this coefficient is one.  A source packet for the key of a row
  violates exactly `QueueOK`, which is why the theorem excludes it.
* `DecoderFateDecided`, and `DecoderImplementsDelivery` by the refinement
  mapping in `Decoder` (`Fate`): only `Finish` is not a stuttering step, and it
  maps to `Advance` with the end of the drain and the new delivery pointer.
* `DecoderRowsBounded`: insertion into a full matrix evicts a row first, and no
  other step adds a key.
* `DecoderMatrixReduced`, with late source packets.  `ReducedInv` follows the
  reduction through the loops: a row mentions no key of another row and no symbol
  that is held, except those that still wait in the work queue (`RowsReduced`);
  what waits is held (`QueueHeld`); the row under construction is clear of
  what its loop has visited (`CurReduced`).
* `DecoderNothingLeftSolved`: `SolvedInv` allows solved rows only inside the
  harvest and its cascade, and the steps that leave these loops find none.  It
  needs `IInv`, because a row of one coefficient must carry it at its own key.
* `DecoderFeedbackTruthful` and `DecoderNoStallWithoutGap`.  `ReportInv` adds to
  FateDecided that what waits in the buffer or was delivered is known
  (`BufferKnown`, `DeliveredKnown`) and that what is known waits in the buffer
  until the delivery pointer passes it (`KnownKept`); a report then stays true
  because nothing known or delivered is forgotten.

**Encoder** (`Encoder_proofs`): every capacity, identifier space, set of
receivers, configuration (both strategies, three window policies, both
backpressure modes, every FEC rate) and every order of calls.

* `EncoderTypeCorrect`, `EncoderLookupExact`, `EncoderCodedSound`,
  `EncoderAckStateExact` and `EncoderRemovalJustified` follow from `EncInv`:
  TypeOK, `GoodWindow` and `AckInv`.  `GoodWindow` is what the lookup trusts: the
  cached flag `is_contiguous` implies that the window is an interval until
  identifiers wrap, so the index computed from the oldest symbol is right;
  a removal recomputes the flag.  `AckInv` says of
  every natural number what AckStateExact says of identifiers in use:
  a cumulative ACK and a SACK set together hold exactly what was reported.
* `EncoderNoReleasedSymbolKept`, for every window policy: the same invariant with
  the property itself.  A submission adds a symbol that nobody can have reported,
  and after feedback the policy's test, which reads the ack state, says exactly
  what the reports say (`MayRemoveReleased`).
* `EncoderRateExact` and `EncoderCodedIdsFresh` are inductive up to arithmetic:
  division with remainder for the accumulator, and `FreshInv` (Vandermonde
  never leaves generation zero) for the two nested counters, by the lemmas on
  `%` in `NatLemmas`.

**Both ends** (`Codec_proofs`).  The lemmas about the ends are used through
instances of their proof modules (`EP`, `DP`).  The steps of the decoder are
those of `Decoder_proofs` with packets from the network in place of a fixed set
of inputs.

* `CodecFifoIsSafe`: on a network that loses and repeats but does not reorder,
  no source packet meets the key of a row and all delivered data is what was
  submitted.  `CodecInv` joins the two ends' invariants with the network: every
  packet is what it says (`PacketsSound`), a source packet is sent before every
  coded packet over its symbol (`SourcesFirst`), and whatever row, queue entry
  or packet under construction mentions a symbol, the source packet of that
  symbol has passed (`FifoInv`): it has arrived or can arrive no more.
* `CodecAckedMeansHeld`, under the hypothesis `FeedbackOnly`: no data packet of
  the peer parses as feedback.  Without it the property is false; that is what
  the run `session_duplex` shows.  `HeldInv` adds to `ReportInv` that every
  datagram for the sender says only what the decoder has (`InboxTruthful`), and
  so does the sender's ack state (`AcksTrue`).  The lemma `FeedbackArrives`
  carries a report through its bytes: the four bytes of the cumulative part are
  read back as the identifier, or as zero when it is the one after the last
  (`IdentifierArrives`), and a bit of the SACK that is read was written
  (`OctetBits`, `SackSound`); a bit vector of 256 bytes or more, whose length
  byte wraps, loses acknowledgements and invents none.
* `CodecNothingVanishes`, with the further hypothesis `QuorumPositive`: no
  configuration asks for a quorum of zero receivers, with which the first
  feedback of any content empties the window.  A symbol leaves the window by
  eviction, or because the policy lets it go, and then the sender has noted an
  acknowledgement that AckedMeansHeld makes true.
* `CodecNoGapWithoutEviction`, under the same two hypotheses.  `NoGapInv`: while
  nothing is evicted, every coded packet ever sent starts at a symbol below
  which the decoder knows everything, because what the packet leaves out is
  acknowledged or gone from the window, so the decoder has it by the two theorems
  before; then `encoder_win_min` stays at or below the end of every drain, by
  `KnownKept`.

**Sink and stream** (`Pipeline_proofs`).

* `PipelineOnlyFullQueueStalls`: `SinkInv` says why a task sleeps, and that a
  task that flushes after every item asks for the next with an empty queue.
* `PipelineQueueKeepsOrder`: `FlowInv` says that the packets transmitted and
  pending are, in this order, all packets of the encoder, each sound, with
  ascending source identifiers; what is in the network was transmitted.
* `PipelineStreamYieldsDelivered`: `StreamInv` joins the stream's queue to the
  decoder's FateDecided: what is consumed and ready ends at the delivery
  pointer, so what a drain appends is larger than all of it.
* `PipelineLossNotOverstated`: `LossInv` bounds the tracker's counters by the
  set of source packets it has seen (`LossCounts`); `SourcesPassed` is the
  reason why on a fifo network each first arrival is above the last one.

**File transfer** (`Transfer_proofs`): every length of file, `--altc` mode,
configuration and pattern of loss, eviction and time-outs.

* `TransferWrongFileReported`.  `TransferInv` repeats the argument of `CodecInv`
  for a network from which datagrams leave: every datagram on its way is a frame
  of this transfer or a sound packet (`Datagram`), a coded packet is behind the
  source packets of what it covers and of what is older (`SourcesBefore`), and
  the matrix speaks only of symbols whose source packets were sent and are on
  their way no more (`FifoDecoder`, `Gone`).  `ReceiverOK` carries the decoder's
  data through the loop: the length comes from START, the file is written
  only when every symbol of that length has been delivered, and success is
  reported only after the comparison.  On any network the decoder's own
  invariant `DataInv` keeps the data right until a source packet meets the key
  of a row (`StepKeepsData`); on a fifo network none does.
* `TransferAllSourcesSuffice`.  `ProgressInv` is about transfers that have lost
  no source packet so far (`Intact`; what is lost stays lost, `IntactBack`).
  When a coded packet arrives, the source packets below its first symbol have
  left the network, so the decoder knows these symbols, and the window minimum
  never overtakes what it knows (`NothingGivenUp`).  A decoder that gives up
  nothing has delivered, between calls, what it knows from the first symbol on
  (`KnownAreDelivered`), so neither the time-out nor the stitching finds a
  symbol missing (`SourcesDelivered`).
* `TransferTailRecovers`, under two hypotheses.  `Separating`: of the equations
  of different packets over the final window, fewer than k hold for values of
  which k are not zero, so k of them determine k symbols.
  `Capacity <= MaxRows`: the matrix has a row for every symbol of the window
  (the command line's receiver has 512).  The rank of the matrix is never
  counted: the argument is about solutions.  `Has(Kernel(x))` says that the
  values x solve everything that the decoder holds, and every step of a call is
  undone by an operation that keeps solutions, so values that solve what
  is held after the step solve what was held before it (`StepBack`, one lemma
  per loop of `matrix.rs`).  `TailHeld` follows from this: while no source
  packet before the final window is lost (`OldKept`), whatever x solves the matrix
  solves every equation over the final window that has arrived.  It needs
  that no row is evicted, since the keys and the new pivot are unknown symbols of the
  final window (`UnknownInTail`, `RoomForRow`), and that no packet makes the
  decoder give up a symbol of the final window, since the sender, which hears no
  feedback, combines its whole window (`TailSender`).  Between calls, a symbol
  that is neither known nor the key of a row is free: the reduced form gives
  values of the lost symbols, not all zero, that solve the matrix
  (`FreeSymbol`), and a row left in the matrix mentions such a symbol because it
  is not solved (`RowNeedsMore`).  So with a symbol missing, as many different
  equations as symbols are lost would hold for these values, against
  `Separating` (`TooManyEquations`).

Assumptions: `WindowAssumption`, `ReceiverAssumption`, `EncoderAssumption`,
`NumIdsAssumption`, `FieldAssumption`, `AbsentAssumption`, `DecoderAssumption`,
`CodecAssumption` (those of both ends, identifiers of at most 32 bits, and
sessions that end before they wrap), `CoefAssumption` (no generated coefficient is zero),
`PipelineAssumption`, `TransferAssumption` (files within the identifiers of
the decoder) and `FieldLawsAssumption` (sums and products commute, associate and
distribute), all evaluated by TLC in the runs.

`Separating` is a hypothesis and no assumption, because it depends on the
generators.  TLC evaluates it for both strategies and all files of the run
`transfer`.  For Cauchy it says what `coef_gen.rs` claims, that every square
submatrix is regular; within the points this is a theorem of algebra that is not
proved here.  For Vandermonde it is false for windows of four
symbols and more: two packets are dependent over two symbols when the distance of the
packets times that of the symbols is a multiple of the order of the generator
(15 or 255), as for symbols three apart.  With such losses the tail may fail
although as many different packets arrived, so the theorem does not cover these
windows; `VandermondePairSolvable` says for which pairs it happens.

**Only model-checked.**  That the generators separate, which TLC computes for
the windows of the run `transfer`.  The field tables, coefficients, formats and kernels, which are computed by recursion over data and
by `Bitwise`.  `EveryCallReturns`, `SendCompletes`, `StreamKeepsUp` and
`ReceiverEnds`, because liveness is outside the prover's reach.

## 5. Not modelled, and the plan

Not modelled: floating point as such (the adaptive rate moves on exact
multiples, and the division of the loss estimate is left out: its two counters
are compared with the packets themselves); the semantics of the SIMD
instructions, which are taken to do what their names say; the overflow checks of
a debug build; `SessionBuilder` and the configuration builders, which bind
sockets and pass values on (what they enforce appears as the ASSUMEs on
configurations); error values; the demo, the benchmarks, the examples and the
argument parsing of the command line; the byte layout of its START frame, which
is a record here.  GF(2^8) is the same definitions with other constants; TLC
evaluates GF(2^4), and the wire formats of both.  Payload lengths are always
right in the models: a call with the wrong length returns an error and changes
nothing.

Three hazards have no property.  A reordered source packet makes the LossTracker
count up to 1000 packets as expected: its estimate is wrong then by construction,
and `LossNotOverstated` is about networks that keep the order.  `DefaultDecoder::with_defaults` reports every 16
packets whatever `feedback_every` says; the models take the period as a
parameter.  A stream polled for other reasons than its waker spawns one waking
task per poll; the models poll a task only when it is awake.

Every invariant that the runs of the encoder, the decoder, the codec, the
pipeline and the transfer check is stated by a theorem.  What is left is the algebra behind `Separating` for Cauchy
coefficients, an induction over the size of a matrix.  Kernels and the field
tables stay with TLC: they are computed by recursive functions over data and by
`Bitwise`.

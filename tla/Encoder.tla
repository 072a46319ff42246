------------------------------ MODULE Encoder -------------------------------
(***************************************************************************)
(* The encoder state machine (codec/encoder/mod.rs) over its window        *)
(* (EncodingWindow) and its acknowledgement state (ReceiverAcks), with the *)
(* FEC rate controllers of policy/defaults.rs.                             *)
(*                                                                         *)
(* Every public operation is one action: submit_source (with the eviction, *)
(* the push and the coded packets it triggers), generate_coded and its     *)
(* three targeted forms, and handle_feedback.  A call that returns an      *)
(* error or Ok(None) changes nothing and is a stuttering step.  output is  *)
(* the set of packets the latest call returned to its caller.              *)
(*                                                                         *)
(* The configuration an Encoder is constructed with is a variable that     *)
(* never changes after Init, so that one run covers several of them.       *)
(***************************************************************************)
EXTENDS EncodingWindow, ReceiverAcks

CONSTANTS Configs,          \* encoder configurations Init chooses from
          CauchyCycle,      \* coded_id_cycle(): 128 or 7
          VandermondeCycle, \* coded_id_cycle(): 254 or 14
          GenSpace,         \* values of the generation counter (2^8)
          MaxSource,        \* bound: source symbols submitted
          MaxCoded,         \* bound: coded packets generated
          LossReports       \* loss rates feedback may report, in 1/256

Policies == {[kind |-> "any"], [kind |-> "all"]}
              \cup [kind : {"quorum"}, quorum : Nat]

(* Rates are numbers of coded packets per fec_denom source packets.  The   *)
(* adaptive controller moves between min_rate and max_rate, starting from  *)
(* fec_numer; the constant one is the case in which the three are equal.   *)
(* fec_denom is such that halving a rate above min_rate is exact.          *)
ConfigType == [policy       : Policies,
               backpressure : {"Reject", "EvictOldest"},
               strategy     : {"Cauchy", "Vandermonde"},
               fec_numer    : Nat,
               fec_denom    : Nat \ {0},
               min_rate     : Nat,
               max_rate     : Nat,
               target_loss  : Nat]

ASSUME EncoderAssumption ==
         /\ Configs \subseteq ConfigType
         /\ \A c \in Configs : c.min_rate <= c.fec_numer /\ c.fec_numer <= c.max_rate
         /\ LossReports \subseteq Nat
         /\ CauchyCycle \in Nat \ {0} /\ VandermondeCycle \in Nat \ {0}
         /\ GenSpace \in Nat \ {0}
         /\ MaxSource \in Nat /\ MaxCoded \in Nat

VARIABLES config,
          window,
          acks,           \* ack_state
          next_coded_id,
          generation,
          coded_ids_used,
          current_rate,
          acc,            \* the rate controller's accumulator
          panicked,       \* expect("cover_id must be in window") failed
          output,         \* packets returned by the latest call
          \* History, read by no action: what each receiver has reported, what
          \* backpressure has evicted, coded packets that submit_source emitted
          \* and the sum of the rates at the times of its calls.
          reported, evicted, auto_coded, owed

coder   == <<next_coded_id, generation, coded_ids_used, panicked>>
history == <<reported, evicted, auto_coded, owed>>
encVars == <<config, window, acks, next_coded_id, generation, coded_ids_used,
             current_rate, acc, panicked, output, reported, evicted, auto_coded, owed>>

Ids == 0..(IdSpace - 1)

----------------------------------------------------------------------------
(* Coded identifiers: Vandermonde uses 1..cycle, Cauchy 0..cycle-1 and a   *)
(* generation that advances when the identifier wraps.                     *)
FirstCodedId == IF config.strategy = "Cauchy" THEN 0 ELSE 1

coded_id_cycle ==
  IF config.strategy = "Cauchy" THEN CauchyCycle ELSE VandermondeCycle

(* The values of next_coded_id and generation after k more packets. *)
CodedIdAfter(k) ==
  FirstCodedId + ((next_coded_id - FirstCodedId + k) % coded_id_cycle)

(* A mutation: the generation does not advance when the identifier wraps. *)
GenerationStuck(k) == generation

GenerationAfter(k) ==
  IF config.strategy = "Cauchy"
    THEN (generation + ((next_coded_id - FirstCodedId + k) \div coded_id_cycle))
           % GenSpace
    ELSE generation

SourcePacket(n) == [kind |-> "source", id |-> Id(n), data |-> n]

(* The packet generate_coded_inner builds k calls from now: its encoding   *)
(* vector lists cover, and data[id] is the symbol window.get(id) returned  *)
(* for the term of id.                                                     *)
CodedPacket(w, cover, k) ==
  [kind |-> "coded", coded_id |-> CodedIdAfter(k), generation |-> GenerationAfter(k),
   ids |-> cover, data |-> [id \in cover |-> Get(w, id)]]

(* n calls of generate_coded_inner for the same cover, after which the     *)
(* call returns `first` together with the coded packets; a symbol missing  *)
(* from the window is a panic and nothing is returned.                     *)
GenerateCodedInner(w, cover, n, first) ==
  /\ coded_ids_used + n <= MaxCoded
  /\ coded_ids_used' = coded_ids_used + n
  /\ next_coded_id' = CodedIdAfter(n)
  /\ generation' = GenerationAfter(n)
  /\ panicked' = (n > 0 /\ \E id \in cover : Get(w, id) = None)
  /\ output' = IF panicked' THEN {}
               ELSE first \cup {CodedPacket(w, cover, k) : k \in 0..(n-1)}

----------------------------------------------------------------------------
Init == /\ config \in Configs
        /\ window = NewWindow
        /\ acks = NoAcks
        /\ next_coded_id = FirstCodedId
        /\ generation = 0
        /\ coded_ids_used = 0
        /\ current_rate = config.fec_numer /\ acc = 0
        /\ panicked = FALSE
        /\ output = {}
        /\ reported = [r \in Receivers |-> {}]
        /\ evicted = {}
        /\ auto_coded = 0 /\ owed = 0

(* coded_packets_to_generate, of both controllers. *)
PacketsDue == (acc + current_rate) \div config.fec_denom

(* A mutation: the remainder is thrown away after each submission. *)
AccReset == IF PacketsDue > 0 THEN 0 ELSE acc + current_rate

AccAfter == (acc + current_rate) % config.fec_denom

(* AdaptiveFecRate::on_feedback. *)
RateAfter(loss) ==
  IF loss > config.target_loss
    THEN IF 2 * current_rate < config.max_rate THEN 2 * current_rate ELSE config.max_rate
  ELSE IF 2 * loss < config.target_loss
    THEN IF current_rate \div 2 > config.min_rate THEN current_rate \div 2 ELSE config.min_rate
  ELSE current_rate

SubmitSource ==
  /\ ~panicked
  /\ window.next_id < MaxSource
  /\ IsFull(window) => config.backpressure = "EvictOldest"
  /\ LET room == IF IsFull(window) THEN EvictOldest(window) ELSE window
         w    == Push(room)
     IN  /\ window' = w
         /\ evicted' = evicted \cup (window.symbols \ room.symbols)
         /\ GenerateCodedInner(w, WindowIds(w), PacketsDue, {SourcePacket(window.next_id)})
  /\ acc' = AccAfter
  /\ auto_coded' = auto_coded + PacketsDue
  /\ owed' = owed + current_rate
  /\ UNCHANGED <<config, acks, current_rate, reported>>

(* The common part of the calls that emit one coded packet over a cover;   *)
(* they return Ok(None) when it is empty.                                  *)
GenerateOne(cover) ==
  /\ ~panicked
  /\ cover # {}
  /\ GenerateCodedInner(window, cover, 1, {})
  /\ UNCHANGED <<config, window, acks, current_rate, acc, history>>

GenerateCoded == GenerateOne(WindowIds(window))

(* cover_ids is an ascending slice without repetitions. *)
GenerateCodedTargeted(cover_ids) == GenerateOne(cover_ids \cap WindowIds(window))

(* The m most recent symbols: those with fewer than m symbols after them. *)
GenerateCodedRecent(m) ==
  GenerateOne({Id(n) : n \in {n \in window.symbols :
                 Cardinality({k \in window.symbols : k > n}) < m}})

GenerateCodedForReceiver(r) ==
  GenerateOne({id \in WindowIds(window) : ~IsAcked(acks, r, id)})

(* handle_feedback: update the ack state, let the window policy remove     *)
(* symbols, then tell the rate controller.  NoCongestionControl ignores    *)
(* the statistics.                                                         *)
HandleFeedback(r, f, loss) ==
  /\ ~panicked
  /\ acks' = [acks EXCEPT ![r] = Update(EntryOf(acks, r), f)]
  /\ window' = RemoveIds(window, {id \in WindowIds(window) :
                                    MayRemove(config.policy, acks', id)})
  /\ reported' = [reported EXCEPT ![r] = @ \cup (0..(f.first_src_id - 1)) \cup f.acked]
  /\ output' = {}
  /\ current_rate' = RateAfter(loss)
  /\ UNCHANGED <<config, coder, acc, evicted, auto_coded, owed>>

(* A receiver reports only identifiers that have been submitted, and not   *)
(* the one it waits for.                                                   *)
FeedbackInputs == {f \in Feedbacks(0..window.next_id) :
                     window.next_id \notin f.acked /\ f.first_src_id \notin f.acked}

(* One report stands for all when the rate cannot move. *)
LossInputs == IF config.min_rate < config.max_rate THEN LossReports ELSE {0}

Next == \/ SubmitSource
        \/ GenerateCoded
        \/ \E S \in SUBSET WindowIds(window) : GenerateCodedTargeted(S)
        \/ \E m \in 1..Capacity : GenerateCodedRecent(m)
        \/ \E r \in Receivers : GenerateCodedForReceiver(r)
        \/ \E r \in Receivers, f \in FeedbackInputs, loss \in LossInputs :
             HandleFeedback(r, f, loss)

Spec == Init /\ [][Next]_encVars

----------------------------------------------------------------------------
(* The encoder's state has its type and the window never exceeds its       *)
(* capacity (window.rs, is_full and push's debug_assert).                  *)
TypeOK ==
  /\ config \in Configs
  /\ window \in Windows
  /\ IsFiniteSet(window.symbols) /\ Cardinality(window.symbols) <= Capacity
  /\ acks \in [Receivers -> Entries \cup {NoEntry}]
  /\ next_coded_id \in FirstCodedId..(FirstCodedId + coded_id_cycle - 1)
  /\ generation \in 0..(GenSpace - 1)
  /\ coded_ids_used \in Nat /\ auto_coded \in Nat
  /\ current_rate \in config.min_rate..config.max_rate /\ owed \in Nat
  /\ acc \in 0..(config.fec_denom - 1)
  /\ panicked \in BOOLEAN
  /\ reported \in [Receivers -> SUBSET Nat]
  /\ evicted \in SUBSET Nat

(* Window lookup by index agrees with the window's contents as long as the *)
(* identifiers have not wrapped: get(id) finds exactly the symbol with     *)
(* that identifier, whatever mix of pushes, evictions and selective        *)
(* removals has set or cleared is_contiguous.                              *)
LookupExact ==
  window.next_id <= IdSpace =>
    /\ \A n \in window.symbols : Get(window, Id(n)) = n
    /\ \A id \in Ids \ WindowIds(window) : Get(window, id) = None

(* The same claim for sessions of any length: get returns the payload of   *)
(* every symbol that is still in the window (window.rs, get).              *)
LookupNeverFails == \A n \in window.symbols : Get(window, Id(n)) = n

(* With a window capacity within the number of Cauchy source points, no    *)
(* two symbols of the window share a point, so their columns differ        *)
(* (coef_gen.rs, "cannot collide within the active window").               *)
CauchyPointsDistinct ==
  config.strategy = "Cauchy" /\ Capacity <= CauchyCycle =>
    \A m, n \in window.symbols :
      m # n => Id(m) % CauchyCycle # Id(n) % CauchyCycle

(* Every coded packet combines exactly the symbols its encoding vector     *)
(* names, and computing it never panics, until the identifiers wrap.       *)
CodedSound ==
  window.next_id <= IdSpace =>
    /\ ~panicked
    /\ \A p \in output : p.kind = "coded" => \A id \in p.ids : p.data[id] = id

(* ReceiverAckState is an exact summary of the feedback processed so far,  *)
(* in whatever order stale and fresh feedback arrived: a symbol counts as  *)
(* acknowledged by a receiver iff some feedback of it reported the symbol. *)
AckStateExact ==
  \A r \in Receivers : \A id \in 0..window.next_id :
    IsAcked(acks, r, id) <=> id \in reported[r]

ReportedBy(id) == {r \in Receivers : id \in reported[r]}

(* Backpressure may evict symbol n: the oldest of a full window. *)
Evictable(n) == /\ config.backpressure = "EvictOldest"
                /\ Cardinality(window.symbols) = Capacity
                /\ \A m \in window.symbols : n <= m

(* The receivers' reports satisfy the policy for symbol n. *)
Released(n) ==
  CASE config.policy.kind = "any"    -> ReportedBy(Id(n)) # {}
    [] config.policy.kind = "all"    ->
         /\ ReportedBy(Id(n)) # {}
         /\ \A r \in Receivers : acks[r] # NoEntry => Id(n) \in reported[r]
    [] config.policy.kind = "quorum" ->
         Cardinality(ReportedBy(Id(n))) >= config.policy.quorum

(* A symbol leaves the window only by backpressure eviction, as the oldest *)
(* of a full window, or because the receivers' reports satisfy the policy. *)
RemovalJustified ==
  [][\A n \in window.symbols \ window'.symbols : Evictable(n) \/ Released(n)']_encVars

(* Conversely nothing the policy lets go stays behind, in whatever order   *)
(* receivers become known and report: the window holds no symbol that the  *)
(* reports release.  (A quorum of none releases symbols nobody reported.)  *)
NoReleasedSymbolKept ==
  window.next_id <= IdSpace =>
    \A n \in window.symbols : ReportedBy(Id(n)) # {} => ~Released(n)

(* Over any number of submissions no fraction of a coded packet is lost:   *)
(* fec_numer packets for every fec_denom source packets at a constant      *)
(* rate, and the sum of the rates in force when feedback has moved it.     *)
RateExact ==
  /\ config.fec_denom * auto_coded + acc = owed
  /\ config.min_rate = config.max_rate => owed = config.fec_numer * window.next_id

(* The pair (coded identifier, generation) of the next packet counts the   *)
(* packets generated so far, through every wrap of either counter: no pair *)
(* is used again before all coded_id_cycle identifiers of Vandermonde, or  *)
(* all GenSpace generations of them for Cauchy, have been used.            *)
CodedIdsFresh ==
  LET position == next_coded_id - FirstCodedId + coded_id_cycle * generation
      period   == IF config.strategy = "Cauchy" THEN coded_id_cycle * GenSpace
                                                ELSE coded_id_cycle
  IN  position = coded_ids_used % period
=============================================================================

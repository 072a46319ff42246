------------------------------ MODULE Decoder -------------------------------
(***************************************************************************)
(* The decoder state machine (codec/decoder/mod.rs) with its decoding      *)
(* matrix (codec/decoder/matrix.rs), its in-order buffer (buffer.rs) and   *)
(* ConstantFeedbackPolicy (policy/defaults.rs).                            *)
(*                                                                         *)
(* handle_source and handle_coded run loops over the matrix whose length   *)
(* depends on the data.  A call is a sequence of steps, one per turn of a  *)
(* loop: the call starts in HandleSource or HandleCoded, pc says which     *)
(* loop it is in, and Finish is its last step.  No packet is accepted      *)
(* while a call is under way (&mut self), so the steps of different calls  *)
(* never interleave; the properties that speak of the state a caller sees  *)
(* are about pc = "idle".                                                  *)
(*                                                                         *)
(* A call that is refused for its symbol size changes nothing.             *)
(***************************************************************************)
EXTENDS DecodingMatrix

CONSTANTS MaxRows,     \* max_matrix_rows
          Period,      \* feedback period
          MaxSack,     \* identifiers listed in one feedback: 256
          CodedInputs  \* encoding vectors that may arrive, as functions to F

ASSUME DecoderAssumption ==
         /\ MaxRows \in Nat /\ Period \in Nat \ {0} /\ MaxSack \in Nat
         /\ CodedInputs \subseteq {v \in Vectors : Support(v) # {}}

VARIABLES rows,             \* matrix.rows: key -> row
          known,            \* identifier -> payload
          buffer,           \* buffer.symbols: identifier -> payload
          next_delivery_id,
          encoder_win_min,
          counter,          \* ConstantFeedbackPolicy's counter
          \* The call under way: the loop it is in and its locals.
          pc, cur, todo, queue, recovered, local_known,
          \* What the calls returned: SourceReady and UnrecoverableGap so far,
          \* the feedback and the gap of the latest call.
          delivered, skipped, feedback, gap,
          \* History, read by no action: a source packet has arrived for the
          \* identifier of a row's key.
          late_pivot

matrix  == <<rows, cur, todo, queue, recovered, local_known>>
stored  == <<known, buffer, next_delivery_id, encoder_win_min, counter>>
emitted == <<delivered, skipped, feedback, gap>>
decVars == <<matrix, stored, emitted, pc, late_pivot>>

NoRow == [coefs |-> [i \in SrcIds |-> Zero], payload |-> [i \in SrcIds |-> Zero]]

Init == /\ rows = EmptyMap /\ known = EmptyMap /\ buffer = EmptyMap
        /\ next_delivery_id = 0 /\ encoder_win_min = 0 /\ counter = 0
        /\ pc = "idle" /\ cur = NoRow /\ todo = {} /\ queue = {}
        /\ recovered = EmptyMap /\ local_known = {}
        /\ delivered = EmptyMap /\ skipped = {}
        /\ feedback = Absent /\ gap = {}
        /\ late_pivot = FALSE

(* entry(id).or_insert(data). *)
OrInsert(m, id, data) == IF m[id] = Absent THEN [m EXCEPT ![id] = data] ELSE m

(* SymbolBuffer::insert. *)
BufferInsert(buf, next, id, data) ==
  IF id >= next THEN OrInsert(buf, id, data) ELSE buf

----------------------------------------------------------------------------
(* handle_source up to the call of add_known_source. *)
HandleSource(id, data) ==
  /\ pc = "idle"
  /\ known' = OrInsert(known, id, data)
  /\ buffer' = BufferInsert(buffer, next_delivery_id, id, data)
  /\ queue' = {[id |-> id, data |-> data]}
  /\ local_known' = Keys(known')
  /\ late_pivot' = (late_pivot \/ rows[id] # Absent)
  /\ pc' = "cascade_source"
  /\ UNCHANGED <<rows, cur, todo, recovered, next_delivery_id, encoder_win_min,
                 counter, emitted>>

(* handle_coded up to the loop of add_coded over the known symbols.  The   *)
(* window minimum is raised to the first identifier of the encoding vector.*)
HandleCoded(coefs, payload) ==
  /\ pc = "idle"
  /\ encoder_win_min' = IF pivot_id(coefs) > encoder_win_min
                          THEN pivot_id(coefs) ELSE encoder_win_min
  /\ cur' = [coefs |-> coefs, payload |-> payload]
  /\ todo' = Keys(known)
  /\ local_known' = Keys(known)
  /\ pc' = "substitute"
  /\ UNCHANGED <<rows, known, buffer, next_delivery_id, counter, queue,
                 recovered, emitted, late_pivot>>

(* Loops over a BTreeMap visit its keys in ascending order. *)
IsFirst(k) == k \in todo /\ \A j \in todo : k <= j

SubstituteKnown(k) ==
  /\ pc = "substitute" /\ IsFirst(k)
  /\ cur' = Substitute(cur, k, known[k])
  /\ todo' = todo \ {k}
  /\ UNCHANGED <<rows, queue, recovered, local_known, stored, emitted, pc, late_pivot>>

(* A redundant equation is dropped; the others are eliminated against the  *)
(* rows of the matrix.                                                     *)
StartElimination ==
  /\ pc = "substitute" /\ todo = {}
  /\ IF is_zero(cur.coefs) THEN pc' = "finish" /\ todo' = {}
                           ELSE pc' = "eliminate" /\ todo' = Keys(rows)
  /\ UNCHANGED <<rows, cur, queue, recovered, local_known, stored, emitted, late_pivot>>

(* One turn of the loop of forward_eliminate. *)
EliminateRow(k) ==
  /\ pc = "eliminate" /\ IsFirst(k)
  /\ cur' = IF cur.coefs[k] = Zero THEN cur
            ELSE subtract_scaled(cur, rows[k], cur.coefs[k])
  /\ todo' = todo \ {k}
  /\ UNCHANGED <<rows, queue, recovered, local_known, stored, emitted, pc, late_pivot>>

(* The mutation that keeps a full matrix growing. *)
MakeRoomNever(m) == m

(* The row limit: a full matrix loses its first row. *)
MakeRoom(m) ==
  IF Cardinality(Keys(m)) >= MaxRows /\ Keys(m) # {}
    THEN [m EXCEPT ![FirstKey(Keys(m))] = Absent]
    ELSE m

InsertRow ==
  /\ pc = "eliminate" /\ todo = {}
  /\ IF is_zero(cur.coefs)
       THEN pc' = "finish" /\ UNCHANGED rows
       ELSE LET row   == normalize(cur)
                pivot == pivot_id(row.coefs)
            IN  /\ rows' = [MakeRoom(back_substitute(rows, pivot, row))
                              EXCEPT ![pivot] = row]
                /\ pc' = "harvest"
  /\ UNCHANGED <<cur, todo, queue, recovered, local_known, stored, emitted, late_pivot>>

(* One turn of the inner loop of add_coded: the row leaves the matrix,     *)
(* and if it is still solved its symbol is recovered and substituted into  *)
(* the others.                                                             *)
HarvestRow(k) ==
  /\ pc = "harvest" /\ IsFirst(k)
  /\ todo' = todo \ {k}
  /\ rows' = [rows EXCEPT ![k] = Absent]
  /\ IF rows[k] # Absent /\ is_solved(rows[k].coefs)
       THEN LET id == SolvedId(rows[k].coefs)
            IN  /\ recovered' = OrInsert(recovered, id, rows[k].payload)
                /\ local_known' = local_known \cup {id}
                /\ queue' = {[id |-> id, data |-> rows[k].payload]}
                /\ pc' = "cascade_coded"
       ELSE UNCHANGED <<recovered, local_known, queue, pc>>
  /\ UNCHANGED <<cur, stored, emitted, late_pivot>>

(* The mutation that looks for solved rows only once per packet. *)
RescanOnce == {}

SolvedNow == SolvedKeys(rows)

(* The outer loop of add_coded. *)
Rescan ==
  /\ pc = "harvest" /\ todo = {}
  /\ IF SolvedNow = {} THEN pc' = "finish" ELSE pc' = pc
  /\ todo' = SolvedNow
  /\ UNCHANGED <<rows, cur, queue, recovered, local_known, stored, emitted, late_pivot>>

(* The mutation that reads the front of the queue and leaves it there. *)
QueuePeeked(q, more) == queue \cup more

QueueAfter(q, more) == (queue \ {q}) \cup more

(* One turn of the loop of add_known_source: substitute one symbol of the  *)
(* work queue into every row; the rows this solves are looked up by the    *)
(* identifier they solve, removed, and queued unless already known.  The   *)
(* queue is taken in any order, the program's FIFO order among them.       *)
Cascade(q) ==
  /\ pc \in {"cascade_source", "cascade_coded"} /\ q \in queue
  /\ LET after  == [k \in SrcIds |-> IF rows[k] = Absent THEN Absent
                                     ELSE Substitute(rows[k], q.id, q.data)]
         touched == {k \in Keys(rows) : rows[k].coefs[q.id] # Zero}
         solved == {SolvedId(after[k].coefs) :
                      k \in {k \in touched : is_solved(after[k].coefs)}}
         hit    == solved \cap Keys(after)
     IN  /\ rows' = [k \in SrcIds |-> IF k \in hit THEN Absent ELSE after[k]]
         /\ recovered' = [i \in SrcIds |-> IF i \in hit /\ recovered[i] = Absent
                                           THEN after[i].payload ELSE recovered[i]]
         /\ local_known' = local_known \cup {q.id}
         /\ queue' = QueueAfter(q, {[id |-> i, data |-> after[i].payload] :
                                     i \in hit \ local_known'})
  /\ pc' = IF queue' # {} THEN pc
           ELSE IF pc = "cascade_source" THEN "finish" ELSE "harvest"
  /\ UNCHANGED <<cur, todo, stored, emitted, late_pivot>>

----------------------------------------------------------------------------
(* Mutations of drain_deliverable: at most one symbol per call, or up to   *)
(* the last buffered symbol.                                               *)
DrainOne(buf, n) == IF n < NumIds /\ buf[n] # Absent THEN n + 1 ELSE n
DrainPastHole(buf, n) ==
  CHOOSE m \in n..NumIds : \A j \in n..(NumIds - 1) : buf[j] # Absent => j < m

(* drain_deliverable stops at the first identifier without a symbol. *)
DrainEnd(buf, n) ==
  CHOOSE m \in n..NumIds : /\ m = NumIds \/ (m < NumIds /\ buf[m] = Absent)
                           /\ \A j \in n..(m-1) : buf[j] # Absent

(* A mutation: everything up to the highest buffered symbol is reported. *)
AckedUpToHighest(buf) == {i \in SrcIds : \E j \in Keys(buf) : i <= j}

(* The first MaxSack buffered identifiers. *)
AckedIds(buf) == {i \in Keys(buf) : Cardinality({j \in Keys(buf) : j < i}) < MaxSack}

(* A mutation: the floor of a gap is applied to the pointer alone. *)
PruneNothing(buf, floor) == buf

(* prune_below, on the symbols. *)
PruneBelow(buf, floor) == [i \in SrcIds |-> IF i < floor THEN Absent ELSE buf[i]]

(* A mutation of the feedback policy: the counter is not reset. *)
CounterNotReset == counter + 1

(* ConstantFeedbackPolicy::should_send_feedback. *)
FeedbackDue  == counter + 1 >= Period
CounterAfter == IF FeedbackDue THEN 0 ELSE counter + 1

(* The rest of both handlers: absorb_recovered, drain_to_events,           *)
(* maybe_send_feedback and check_gap, in this order.                       *)
Finish ==
  /\ pc = "finish"
  /\ known' = [i \in SrcIds |-> IF known[i] = Absent THEN recovered[i] ELSE known[i]]
  /\ LET filled == [i \in SrcIds |->
                      IF recovered[i] = Absent THEN buffer[i]
                      ELSE BufferInsert(buffer, next_delivery_id, i, recovered[i])[i]]
         end    == DrainEnd(filled, next_delivery_id)
         kept   == [i \in SrcIds |-> IF i \in next_delivery_id..(end-1)
                                       THEN Absent ELSE filled[i]]
     IN  /\ delivered' = [i \in SrcIds |-> IF i \in next_delivery_id..(end-1)
                                             THEN filled[i] ELSE delivered[i]]
         /\ feedback' = IF FeedbackDue
                          THEN [first_src_id |-> end, acked |-> AckedIds(kept)]
                          ELSE Absent
         /\ gap' = end..(encoder_win_min - 1)
         /\ skipped' = skipped \cup gap'
         /\ IF encoder_win_min > end
              THEN buffer' = PruneBelow(kept, encoder_win_min)
                   /\ next_delivery_id' = encoder_win_min
              ELSE buffer' = kept /\ next_delivery_id' = end
  /\ counter' = CounterAfter
  /\ recovered' = EmptyMap /\ local_known' = {} /\ cur' = NoRow
  /\ pc' = "idle"
  /\ UNCHANGED <<rows, todo, queue, encoder_win_min, late_pivot>>

(* The steps a call takes once it has started. *)
Step == \/ \E k \in SrcIds : SubstituteKnown(k) \/ EliminateRow(k) \/ HarvestRow(k)
        \/ StartElimination \/ InsertRow \/ Rescan \/ Finish
        \/ \E q \in queue : Cascade(q)

(* Packets are truthful and arrive in any order, any number of times or    *)
(* not at all.                                                             *)
Next == \/ \E id \in SrcIds : HandleSource(id, Unit(id))
        \/ \E v \in CodedInputs : HandleCoded(v, v)
        \/ Step

Spec == Init /\ [][Next]_decVars /\ WF_decVars(Step)

----------------------------------------------------------------------------
PcValues == {"idle", "substitute", "eliminate", "harvest", "cascade_source",
             "cascade_coded", "finish"}

Feedbacks == [first_src_id : 0..NumIds, acked : SUBSET SrcIds]

(* Every variable of the decoder has its type; a counter of feedback that  *)
(* is due is reset (ConstantFeedbackPolicy).                               *)
TypeOK ==
  /\ rows \in [SrcIds -> MatrixRows \cup {Absent}]
  /\ known \in [SrcIds -> Vectors \cup {Absent}]
  /\ buffer \in [SrcIds -> Vectors \cup {Absent}]
  /\ next_delivery_id \in 0..NumIds /\ encoder_win_min \in 0..NumIds
  /\ counter \in 0..(Period - 1)
  /\ pc \in PcValues /\ cur \in MatrixRows /\ todo \subseteq SrcIds
  /\ queue \subseteq [id : SrcIds, data : Vectors]
  /\ recovered \in [SrcIds -> Vectors \cup {Absent}]
  /\ local_known \subseteq SrcIds
  /\ delivered \in [SrcIds -> Vectors \cup {Absent}]
  /\ skipped \subseteq SrcIds /\ gap \subseteq SrcIds
  /\ feedback \in Feedbacks \cup {Absent}
  /\ late_pivot \in BOOLEAN

(* The matrix never holds more than max_matrix_rows rows, through the      *)
(* insertion of a row into a full matrix.  config.rs calls the limit the   *)
(* number of equations held; the builder accepts zero, and add_coded then  *)
(* still keeps the one row that it has just inserted.                      *)
RowsBounded == Cardinality(Keys(rows)) <= (IF MaxRows = 0 THEN 1 ELSE MaxRows)

(* Every payload handed to the application is the payload the symbol was   *)
(* submitted with.                                                         *)
DeliveredDataCorrect == \A i \in SrcIds : delivered[i] \in {Absent, Unit(i)}

(* The same, and for the buffer and the known symbols, as long as no source*)
(* packet has arrived for the key of a matrix row.  Every order of the     *)
(* other packets, every duplicate and every loss is allowed.               *)
NoCorruption ==
  ~late_pivot =>
    \A i \in SrcIds : /\ delivered[i] \in {Absent, Unit(i)}
                      /\ buffer[i] \in {Absent, Unit(i)}
                      /\ known[i] \in {Absent, Unit(i)}

(* Reduced row-echelon form between calls, late sources included: no row   *)
(* mentions the key of another row or a symbol the decoder knows.          *)
MatrixReduced ==
  pc = "idle" =>
    \A j \in Keys(rows) : \A k \in SrcIds :
      rows[j].coefs[k] # Zero => k = j \/ k \notin Keys(rows) \cup Keys(known)

(* Between calls no row is solved: what the equations in the matrix        *)
(* determine has been recovered (matrix.rs, "recovered as soon as          *)
(* mathematically possible"), unless a late source hit the key of a row.   *)
NothingLeftSolved ==
  pc = "idle" /\ ~late_pivot => SolvedKeys(rows) = {}

(* Each symbol below the delivery pointer was delivered once or declared   *)
(* missing, never both; none at or above it has been; the buffer only      *)
(* holds symbols that are still to come.                                   *)
FateDecided ==
  /\ \A i \in SrcIds : i < next_delivery_id <=> (delivered[i] # Absent \/ i \in skipped)
  /\ \A i \in skipped : delivered[i] = Absent
  /\ \A i \in Keys(buffer) : i >= next_delivery_id

(* What the application has been told of symbol i. *)
Fate(i) == IF delivered[i] # Absent THEN "ready"
           ELSE IF i \in skipped THEN "missing" ELSE "pending"

App == INSTANCE Delivery WITH fate <- [i \in SrcIds |-> Fate(i)],
                              next <- next_delivery_id

(* The decoder implements Delivery: the application sees ascending         *)
(* identifiers without holes other than the declared gaps, and what it was *)
(* told of a symbol never changes.                                         *)
ImplementsDelivery == App!Spec

(* Feedback never acknowledges a symbol that the decoder neither holds nor *)
(* has given up: its cumulative part is delivered or skipped and its SACK  *)
(* part is buffered, even when the same call then declares a gap.          *)
FeedbackTruthful ==
  feedback # Absent =>
    /\ \A i \in 0..(feedback.first_src_id - 1) : delivered[i] # Absent \/ i \in skipped
    /\ \A i \in feedback.acked : known[i] # Absent

(* A deliverable symbol waits in the buffer between calls only if the call *)
(* before declared a gap: check_gap moves the pointer after the drain.     *)
NoStallWithoutGap ==
  pc = "idle" /\ next_delivery_id < NumIds /\ buffer[next_delivery_id] # Absent
    => gap # {}

(* A symbol declared missing is one the decoder does not have.             *)
GapIsMissing == pc = "idle" => \A i \in gap : known[i] = Absent

(* Every call returns: no packet sends the work queue, the harvest or the  *)
(* elimination into an endless loop.                                       *)
EveryCallReturns == []<>(pc = "idle")
=============================================================================

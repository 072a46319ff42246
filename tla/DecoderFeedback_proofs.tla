----------------------- MODULE DecoderFeedback_proofs -----------------------
(***************************************************************************)
(* Proofs about what the decoder reports: its feedback to the encoder and  *)
(* the symbols it keeps waiting in the buffer.                             *)
(***************************************************************************)
EXTENDS DecoderMatrix_proofs

(* What waits in the buffer is known. *)
BufferKnown == Keys(buffer) \subseteq Keys(known)

(* What the application has is known, and a known symbol waits in the      *)
(* buffer until the delivery pointer passes it.                            *)
DeliveredKnown == Keys(delivered) \subseteq Keys(known)
KnownKept == \A i \in Keys(known) : i < next_delivery_id \/ buffer[i] # Absent

(* Nothing that is known is forgotten, and nothing told to the application *)
(* is taken back.                                                          *)
NothingLost == /\ Keys(known) \subseteq Keys(known)'
               /\ Keys(delivered) \subseteq Keys(delivered)'
               /\ skipped \subseteq skipped'

ReportInv == /\ FateDecided /\ BufferKnown /\ DeliveredKnown /\ KnownKept
             /\ FeedbackTruthful

(* The symbols that the drain leaves in the buffer are known after Finish. *)
LEMMA KeptKnown ==
  ASSUME TypeInv, BufferKnown, Finish
  PROVE  Keys(Kept) \subseteq Keys(known)' /\ Keys(buffer)' \subseteq Keys(Kept)
<1>1. \A i \in SrcIds : Filled[i] # Absent => Filled[i] \in {buffer[i], recovered[i]}
  BY FilledType DEF TypeInv
<1>2. \A i \in SrcIds : Kept[i] # Absent => known'[i] # Absent
  BY <1>1, FinishForm DEF Kept, BufferKnown, Keys
<1>3. \A i \in SrcIds : buffer'[i] # Absent => Kept[i] # Absent
  BY FinishForm DEF PruneBelow
<1>. QED  BY <1>2, <1>3 DEF Keys

(* No step forgets a symbol or takes back what the application was told. *)
LEMMA NothingLostStep ==
  ASSUME TypeInv, FateDecided, [Next]_decVars
  PROVE  NothingLost
<1>1. CASE \E id \in SrcIds : HandleSource(id, Unit(id))
  <2>1. PICK id \in SrcIds : HandleSource(id, Unit(id))  BY <1>1
  <2>2. Unit(id) # Absent  BY UnitType, AbsentAssumption
  <2>3. Keys(known) \subseteq Keys(known)'
    BY <2>1, <2>2 DEF HandleSource, OrInsert, Keys, TypeInv, TypeOK
  <2>4. UNCHANGED <<delivered, skipped>>  BY <2>1 DEF HandleSource, emitted
  <2>. QED  BY <2>3, <2>4 DEF NothingLost, Keys
<1>2. CASE Finish
  <2>1. Keys(known) \subseteq Keys(known)' /\ skipped \subseteq skipped'
    BY <1>2, FinishForm DEF Keys
  <2>2. \A i \in next_delivery_id..(End-1) : Filled[i] # Absent
    BY FilledType DEF TypeInv
  <2>3. Keys(delivered) \subseteq Keys(delivered)'
    BY <1>2, <2>2, FinishForm DEF Keys
  <2>. QED  BY <2>1, <2>3 DEF NothingLost
<1>3. CASE UNCHANGED <<known, delivered, skipped>>
  BY <1>3 DEF NothingLost, Keys
<1>. QED
  BY <1>1, <1>2, <1>3
  DEF Next, Step, HandleCoded, SubstituteKnown, EliminateRow, HarvestRow,
      StartElimination, InsertRow, Rescan, Cascade, decVars, stored, emitted

(* Every step keeps the buffer within the known symbols. *)
LEMMA BufferKnownStep == TypeInv /\ BufferKnown /\ [Next]_decVars => BufferKnown'
<1>. SUFFICES ASSUME TypeInv, BufferKnown, [Next]_decVars PROVE BufferKnown'  OBVIOUS
<1>1. CASE \E id \in SrcIds : HandleSource(id, Unit(id))
  <2>1. PICK id \in SrcIds : HandleSource(id, Unit(id))  BY <1>1
  <2>2. Unit(id) # Absent  BY UnitType, AbsentAssumption
  <2>. QED
    BY <2>1, <2>2 DEF HandleSource, OrInsert, BufferInsert, BufferKnown, Keys, TypeInv, TypeOK
<1>2. CASE Finish
  BY <1>2, KeptKnown DEF BufferKnown
<1>3. CASE UNCHANGED <<known, buffer>>
  BY <1>3 DEF BufferKnown, Keys
<1>. QED
  BY <1>1, <1>2, <1>3
  DEF Next, Step, HandleCoded, SubstituteKnown, EliminateRow, HarvestRow,
      StartElimination, InsertRow, Rescan, Cascade, decVars, stored

(* What Finish knows of the symbols of the buffer. *)
LEMMA FinishKnown ==
  ASSUME TypeInv, FateDecided, BufferKnown, DeliveredKnown, KnownKept, Finish
  PROVE  /\ DeliveredKnown' /\ KnownKept'
         /\ \A i \in SrcIds : i >= End => known[i] = Absent \/ Filled[i] # Absent
<1>1. /\ known \in [SrcIds -> Vectors \cup {Absent}] /\ next_delivery_id \in 0..NumIds
      /\ buffer \in [SrcIds -> Vectors \cup {Absent}]
      /\ recovered \in [SrcIds -> Vectors \cup {Absent}]
      /\ delivered \in [SrcIds -> Vectors \cup {Absent}]
  BY DEF TypeInv, TypeOK
<1>2. /\ End \in next_delivery_id..NumIds
      /\ \A i \in SrcIds : Filled[i] # Absent => Filled[i] \in {buffer[i], recovered[i]}
  BY FilledType DEF TypeInv
<1>3. known' = [i \in SrcIds |-> IF known[i] = Absent THEN recovered[i] ELSE known[i]]
  BY FinishForm
<1>4. \A i \in SrcIds : Filled[i] # Absent => known'[i] # Absent
  BY <1>2, <1>3 DEF BufferKnown, Keys
<1>5. DeliveredKnown'
  BY <1>3, <1>4, FinishForm DEF DeliveredKnown, Keys
<1>6. ASSUME NEW i \in SrcIds, i >= End, known'[i] # Absent
      PROVE  Filled[i] # Absent
  <2>1. i >= next_delivery_id /\ ~(i < next_delivery_id)
    BY <1>1, <1>2, <1>6, NumIdsAssumption DEF SrcIds
  <2>2. CASE recovered[i] = Absent
    <3>1. known[i] # Absent  BY <1>3, <1>6, <2>2
    <3>. QED  BY <2>1, <2>2, <3>1 DEF KnownKept, Keys, Filled
  <2>3. CASE recovered[i] # Absent
    BY <1>1, <2>1, <2>3 DEF Filled, BufferInsert, OrInsert
  <2>. QED  BY <2>2, <2>3
<1>7. KnownKept'
  <2>. SUFFICES ASSUME NEW i \in SrcIds, known'[i] # Absent, ~(i < next_delivery_id')
                PROVE  buffer'[i] # Absent
    BY DEF KnownKept, Keys
  <2>1. /\ next_delivery_id' = IF encoder_win_min > End THEN encoder_win_min ELSE End
        /\ next_delivery_id' \in End..NumIds
    BY FinishFate
  <2>2. i >= End /\ i \notin next_delivery_id..(End-1)
    BY <1>1, <1>2, <2>1, NumIdsAssumption DEF SrcIds
  <2>3. Kept[i] # Absent  BY <1>6, <2>2 DEF Kept
  <2>. QED  BY <2>1, <2>3, FinishForm DEF PruneBelow
<1>8. \A i \in SrcIds : known[i] # Absent => known'[i] # Absent  BY <1>3
<1>. QED  BY <1>5, <1>6, <1>7, <1>8

(* Every step keeps what is delivered known, and what is known within      *)
(* reach of the drain.                                                     *)
LEMMA KnownStep ==
  ASSUME TypeInv, FateDecided, BufferKnown, DeliveredKnown, KnownKept, [Next]_decVars
  PROVE  DeliveredKnown' /\ KnownKept'
<1>1. CASE \E id \in SrcIds : HandleSource(id, Unit(id))
  <2>1. PICK id \in SrcIds : HandleSource(id, Unit(id))  BY <1>1
  <2>2. Unit(id) # Absent  BY UnitType, AbsentAssumption
  <2>3. DeliveredKnown'
    BY <2>1, <2>2 DEF HandleSource, OrInsert, emitted, DeliveredKnown, Keys, TypeInv, TypeOK
  <2>4. KnownKept'
    <3>1. next_delivery_id \in 0..NumIds /\ id \in 0..(NumIds - 1) /\ NumIds \in Nat
      BY NumIdsAssumption DEF TypeInv, TypeOK, SrcIds
    <3>2. id >= next_delivery_id \/ id < next_delivery_id  BY <3>1
    <3>. QED
      BY <2>1, <2>2, <3>2
      DEF HandleSource, OrInsert, BufferInsert, KnownKept, Keys, TypeInv, TypeOK
  <2>. QED  BY <2>3, <2>4
<1>2. CASE Finish
  BY <1>2, FinishKnown
<1>3. CASE UNCHANGED <<known, buffer, delivered, next_delivery_id>>
  BY <1>3 DEF DeliveredKnown, KnownKept, Keys
<1>. QED
  BY <1>1, <1>2, <1>3
  DEF Next, Step, HandleCoded, SubstituteKnown, EliminateRow, HarvestRow,
      StartElimination, InsertRow, Rescan, Cascade, decVars, stored, emitted

(* A report that is true stays true. *)
LEMMA FeedbackStays ==
  ASSUME TypeInv, FeedbackTruthful, NothingLost, feedback' = feedback
  PROVE  FeedbackTruthful'
<1>. SUFFICES ASSUME feedback # Absent
              PROVE  /\ \A i \in 0..(feedback.first_src_id - 1) :
                          delivered'[i] # Absent \/ i \in skipped'
                     /\ \A i \in feedback.acked : known'[i] # Absent
  BY DEF FeedbackTruthful
<1>1. feedback.first_src_id \in 0..NumIds /\ feedback.acked \subseteq SrcIds
  BY DEF TypeInv, TypeOK, Feedbacks
<1>2. 0..(feedback.first_src_id - 1) \subseteq SrcIds
  BY <1>1, NumIdsAssumption DEF SrcIds
<1>. QED  BY <1>1, <1>2 DEF FeedbackTruthful, NothingLost, Keys

(* The report that Finish makes: its cumulative part ends where the drain  *)
(* ended, and what it lists besides is what the drain left.                *)
LEMMA FinishFeedback ==
  ASSUME TypeInv, FateDecided, BufferKnown, Finish
  PROVE  FeedbackTruthful'
<1>1. feedback' \in {[first_src_id |-> End, acked |-> AckedIds(Kept)], Absent}
  BY FinishForm
<1>2. \A i \in AckedIds(Kept) : known'[i] # Absent
  BY KeptKnown DEF AckedIds, Keys
<1>3. FateDecided'  BY FateStep DEF Next, Step
<1>4. next_delivery_id \in 0..NumIds /\ End \in next_delivery_id..NumIds
      /\ next_delivery_id' \in End..NumIds
  BY FinishFate DEF TypeInv, TypeOK
<1>5. \A i \in 0..(End-1) : i \in SrcIds /\ i < next_delivery_id'
  BY <1>4, NumIdsAssumption DEF SrcIds
<1>6. \A i \in 0..(End-1) : delivered'[i] # Absent \/ i \in skipped'
  BY <1>3, <1>5 DEF FateDecided
<1>. QED  BY <1>1, <1>2, <1>6 DEF FeedbackTruthful

(* Every step preserves the invariant. *)
LEMMA ReportStep == TypeInv /\ ReportInv /\ [Next]_decVars => ReportInv' /\ NothingLost
<1>. SUFFICES ASSUME TypeInv, ReportInv, [Next]_decVars PROVE ReportInv' /\ NothingLost
  OBVIOUS
<1>1. FateDecided' /\ BufferKnown' /\ DeliveredKnown' /\ KnownKept' /\ NothingLost
  BY FateStep, BufferKnownStep, KnownStep, NothingLostStep DEF ReportInv
<1>2. FeedbackTruthful'
  <2>1. CASE Finish  BY <2>1, FinishFeedback DEF ReportInv
  <2>2. CASE feedback' = feedback
    BY <1>1, <2>2, FeedbackStays DEF ReportInv
  <2>. QED
    BY <2>1, <2>2
    DEF Next, Step, HandleSource, HandleCoded, SubstituteKnown, EliminateRow, HarvestRow,
        StartElimination, InsertRow, Rescan, Cascade, decVars, emitted
<1>. QED  BY <1>1, <1>2 DEF ReportInv

LEMMA ReportInit == Init => ReportInv
<1>1. Init => BufferKnown /\ DeliveredKnown /\ KnownKept /\ FeedbackTruthful
  BY DEF Init, BufferKnown, DeliveredKnown, KnownKept, FeedbackTruthful, EmptyMap, Keys
<1>. QED  BY <1>1, FateInit DEF ReportInv

(* So does a call that starts on a coded packet, whatever it holds. *)
LEMMA ReportRests ==
  ASSUME ReportInv, UNCHANGED <<known, buffer, next_delivery_id, emitted>>
  PROVE  ReportInv' /\ NothingLost
BY DEF ReportInv, FateDecided, BufferKnown, DeliveredKnown, KnownKept, FeedbackTruthful,
       NothingLost, Keys, emitted

(* Finish declares no gap when everything below the encoder's window is    *)
(* known.                                                                  *)
LEMMA FinishNoGap ==
  ASSUME TypeInv, ReportInv, Finish,
         \A i \in SrcIds : i < encoder_win_min => known[i] # Absent
  PROVE  skipped' = skipped
<1>1. End \in next_delivery_id..NumIds /\ (End = NumIds \/ Filled[End] = Absent)
  BY FilledType DEF TypeInv
<1>2. encoder_win_min \in 0..NumIds /\ next_delivery_id \in 0..NumIds
  BY DEF TypeInv, TypeOK
<1>3. \A i \in SrcIds : i >= End => known[i] = Absent \/ Filled[i] # Absent
  BY FinishKnown DEF ReportInv
<1>4. ASSUME encoder_win_min > End PROVE FALSE
  <2>1. End \in SrcIds /\ End < NumIds  BY <1>1, <1>2, <1>4, NumIdsAssumption DEF SrcIds
  <2>2. Filled[End] # Absent /\ Filled[End] = Absent
    BY <1>1, <1>2, <1>3, <1>4, <2>1, NumIdsAssumption
  <2>. QED  BY <2>2
<1>5. End..(encoder_win_min - 1) = {}  BY <1>1, <1>2, <1>4, NumIdsAssumption
<1>. QED  BY <1>5, FinishForm

(* For every feedback period, SACK limit and window: a report never        *)
(* acknowledges a symbol that was neither delivered, nor given up, nor     *)
(* held, whatever the call that made it went on to discard.                *)
THEOREM DecoderFeedbackTruthful == Spec => []FeedbackTruthful
<1>1. Init => TypeInv /\ ReportInv  BY InitType, ReportInit
<1>2. TypeInv /\ ReportInv /\ [Next]_decVars => (TypeInv /\ ReportInv)'
  BY TypeStep, ReportStep
<1>3. ReportInv => FeedbackTruthful  BY DEF ReportInv
<1>. QED  BY <1>1, <1>2, <1>3, PTL DEF Spec

(* The drain leaves a hole at the pointer, and only check_gap moves the    *)
(* pointer after it.                                                       *)
LEMMA StallStep ==
  TypeInv /\ NoStallWithoutGap /\ [Next]_decVars => NoStallWithoutGap'
<1>. SUFFICES ASSUME TypeInv, NoStallWithoutGap, [Next]_decVars PROVE NoStallWithoutGap'
  OBVIOUS
<1>1. CASE Finish
  <2>1. /\ End \in next_delivery_id..NumIds /\ next_delivery_id \in 0..NumIds
        /\ encoder_win_min \in 0..NumIds
        /\ End = NumIds \/ Filled[End] = Absent
    BY FilledType DEF TypeInv, TypeOK
  <2>2. CASE encoder_win_min > End
    <3>1. End \in gap'  BY <1>1, <2>1, <2>2, FinishForm, NumIdsAssumption
    <3>. QED  BY <3>1 DEF NoStallWithoutGap
  <2>3. CASE ~(encoder_win_min > End)
    <3>1. buffer' = Kept /\ next_delivery_id' = End  BY <1>1, <2>3, FinishForm
    <3>2. End < NumIds => Kept[End] = Absent
      BY <2>1, NumIdsAssumption DEF Kept, SrcIds
    <3>. QED  BY <3>1, <3>2 DEF NoStallWithoutGap
  <2>. QED  BY <2>2, <2>3
<1>2. CASE pc' # "idle"
  BY <1>2 DEF NoStallWithoutGap
<1>3. CASE UNCHANGED decVars
  BY <1>3 DEF NoStallWithoutGap, decVars, stored, emitted
<1>4. CASE \E q \in queue : Cascade(q)
  <2>1. pc' # "idle"  BY <1>4, CascadeForm
  <2>. QED  BY <2>1, <1>2
<1>. QED
  BY <1>1, <1>2, <1>3, <1>4
  DEF Next, Step, HandleSource, HandleCoded, SubstituteKnown, EliminateRow, HarvestRow,
      StartElimination, InsertRow, Rescan

LEMMA StallInit == Init => NoStallWithoutGap
BY NumIdsAssumption DEF Init, NoStallWithoutGap, EmptyMap, SrcIds

(* The gap of the latest call is among what was given up. *)
LEMMA GapSkippedStep ==
  ASSUME gap \subseteq skipped, [Next]_decVars
  PROVE  gap' \subseteq skipped'
<1>1. CASE Finish  BY <1>1, FinishForm
<1>2. CASE UNCHANGED <<gap, skipped>>  BY <1>2
<1>. QED
  BY <1>1, <1>2
  DEF Next, Step, HandleSource, HandleCoded, SubstituteKnown, EliminateRow, HarvestRow,
      StartElimination, InsertRow, Rescan, Cascade, decVars, emitted

(* A decoder that has given up nothing has delivered, between calls, the   *)
(* symbols it knows from the first on.                                     *)
LEMMA KnownAreDelivered ==
  ASSUME TypeInv, ReportInv, NoStallWithoutGap, pc = "idle", gap = {}, skipped = {},
         NEW n \in 0..NumIds, \A i \in 0..(n-1) : known[i] # Absent
  PROVE  \A i \in 0..(n-1) : i \in SrcIds /\ delivered[i] # Absent
<1>1. next_delivery_id \in 0..NumIds  BY DEF TypeInv, TypeOK
<1>2. ASSUME next_delivery_id < n PROVE FALSE
  <2>1. next_delivery_id \in 0..(n-1) /\ next_delivery_id \in SrcIds
        /\ next_delivery_id < NumIds /\ ~(next_delivery_id < next_delivery_id)
    BY <1>1, <1>2, NumIdsAssumption DEF SrcIds
  <2>2. next_delivery_id \in Keys(known)  BY <2>1 DEF Keys
  <2>3. buffer[next_delivery_id] # Absent  BY <2>1, <2>2 DEF ReportInv, KnownKept
  <2>. QED  BY <2>1, <2>3 DEF NoStallWithoutGap
<1>3. \A i \in 0..(n-1) : i \in SrcIds /\ i < next_delivery_id
  BY <1>1, <1>2, NumIdsAssumption DEF SrcIds
<1>. QED  BY <1>3 DEF ReportInv, FateDecided

(* Between calls the symbol at the delivery pointer waits in the buffer    *)
(* only if the call before declared a gap: the drain leaves a hole at the  *)
(* pointer, and only check_gap moves the pointer after it.                 *)
THEOREM DecoderNoStallWithoutGap == Spec => []NoStallWithoutGap
BY InitType, StallInit, TypeStep, StallStep, PTL DEF Spec
=============================================================================

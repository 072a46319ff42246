--------------------------- MODULE Decoder_proofs ---------------------------
(***************************************************************************)
(* Proofs about Decoder.                                                   *)
(***************************************************************************)
EXTENDS Decoder, NatLemmas

(* A loop visits only keys its map has; the work queue is empty outside    *)
(* the loop that empties it.                                               *)
LoopOK == /\ pc = "substitute" => todo \subseteq Keys(known)
          /\ pc = "eliminate" => todo \subseteq Keys(rows)
          /\ pc \notin {"cascade_source", "cascade_coded"} => queue = {}

(* A truthful row: its payload is the combination its coefficients say. *)
Truthful(row) == row.payload = row.coefs

(* The matrix in reduced row-echelon form with truthful rows. *)
RowsOK == \A k \in Keys(rows) :
            /\ Truthful(rows[k])
            /\ rows[k].coefs[k] = One
            /\ \A j \in Keys(rows) : j # k => rows[k].coefs[j] = Zero

PayloadsOK == \A i \in SrcIds : /\ delivered[i] \in {Absent, Unit(i)}
                                /\ buffer[i] \in {Absent, Unit(i)}
                                /\ known[i] \in {Absent, Unit(i)}
                                /\ recovered[i] \in {Absent, Unit(i)}

QueueOK == \A q \in queue : q.data = Unit(q.id) /\ q.id \notin Keys(rows)

(* The row being added, and what elimination has done to it so far. *)
CurOK == /\ pc \in {"substitute", "eliminate"} => Truthful(cur)
         /\ pc = "eliminate" => \A k \in Keys(rows) \ todo : cur.coefs[k] = Zero

DataInv == ~late_pivot => RowsOK /\ PayloadsOK /\ QueueOK /\ CurOK

TypeInv == TypeOK /\ LoopOK
IInv == TypeInv /\ DataInv

----------------------------------------------------------------------------
(* The pivot of a row that is not zero is its first non-zero coefficient. *)
LEMMA PivotIsFirst ==
  ASSUME NEW v \in Vectors, Support(v) # {}
  PROVE  /\ pivot_id(v) \in Support(v)
         /\ pivot_id(v) \in SrcIds
         /\ \A j \in Support(v) : pivot_id(v) <= j
<1>1. Support(v) \subseteq SrcIds  BY DEF Support
<1>2. Support(v) \subseteq Nat  BY <1>1 DEF SrcIds
<1>3. \E i \in Support(v) : \A j \in Support(v) : i <= j
  BY <1>2, LeastElement
<1>. QED  BY <1>1, <1>3 DEF pivot_id

(* A solved row has one identifier with a non-zero coefficient. *)
LEMMA SolvedIdOnly ==
  ASSUME NEW v \in Vectors, is_solved(v)
  PROVE  SolvedId(v) \in SrcIds /\ Support(v) = {SolvedId(v)}
BY DEF is_solved, SolvedId

(* The payload a symbol is submitted with is a vector. *)
LEMMA UnitType == \A i \in SrcIds : Unit(i) \in Vectors
BY FieldAssumption DEF Unit, Vectors

(* mul_acc returns a vector. *)
LEMMA MulAccType ==
  \A v, w \in Vectors : \A c \in F : MulAcc(v, w, c) \in Vectors
BY FieldAssumption DEF MulAcc, Vectors

(* mul_scale returns a vector. *)
LEMMA MulScaleType == \A v \in Vectors : \A c \in F : MulScale(v, c) \in Vectors
BY FieldAssumption DEF MulScale, Vectors

(* MatrixRow::subtract_scaled returns a row. *)
LEMMA SubtractType ==
  ASSUME NEW row \in MatrixRows, NEW other \in MatrixRows, NEW c \in F
  PROVE  subtract_scaled(row, other, c) \in MatrixRows
BY MulAccType DEF subtract_scaled, MatrixRows

(* Substituting a known symbol into a row returns a row. *)
LEMMA SubstituteType ==
  ASSUME NEW row \in MatrixRows, NEW id \in SrcIds, NEW data \in Vectors
  PROVE  Substitute(row, id, data) \in MatrixRows
<1>1. row.coefs \in Vectors /\ row.payload \in Vectors  BY DEF MatrixRows
<1>2. row.coefs[id] \in F  BY <1>1 DEF Vectors
<1>3. [row.coefs EXCEPT ![id] = Zero] \in Vectors
  BY <1>1, FieldAssumption DEF Vectors
<1>4. MulAcc(row.payload, data, row.coefs[id]) \in Vectors
  BY <1>1, <1>2, MulAccType
<1>. QED  BY <1>3, <1>4 DEF Substitute, MatrixRows

(* MatrixRow::normalize returns a row when the row is not zero. *)
LEMMA NormalizeType ==
  ASSUME NEW row \in MatrixRows, Support(row.coefs) # {}
  PROVE  /\ normalize(row) \in MatrixRows
         /\ normalize(row).coefs[pivot_id(row.coefs)] = One
         /\ \A i \in SrcIds : row.coefs[i] = Zero => normalize(row).coefs[i] = Zero
         /\ Truthful(row) => Truthful(normalize(row))
<1>. DEFINE p == pivot_id(row.coefs)
            c == row.coefs[p]
<1>1. row.coefs \in Vectors /\ row.payload \in Vectors  BY DEF MatrixRows
<1>2. p \in SrcIds /\ c # Zero  BY <1>1, PivotIsFirst DEF Support
<1>3. c \in F \ {Zero}  BY <1>1, <1>2 DEF Vectors
<1>4. FInv(c) \in F /\ FMul(FInv(c), c) = One  BY <1>3, FieldAssumption
<1>5. CASE c = One
  BY <1>5 DEF normalize
<1>6. CASE c # One
  <2>1. normalize(row) = [coefs   |-> MulScale(row.coefs, FInv(c)),
                          payload |-> MulScale(row.payload, FInv(c))]
    BY <1>6 DEF normalize
  <2>2. normalize(row) \in MatrixRows
    BY <2>1, <1>1, <1>4, MulScaleType DEF MatrixRows
  <2>3. \A i \in SrcIds : normalize(row).coefs[i] = FMul(FInv(c), row.coefs[i])
    BY <2>1 DEF MulScale
  <2>4. \A i \in SrcIds : row.coefs[i] = Zero => normalize(row).coefs[i] = Zero
    BY <2>3, <1>4, FieldAssumption
  <2>5. Truthful(row) => Truthful(normalize(row))
    BY <2>1 DEF Truthful
  <2>. QED  BY <2>2, <2>3, <2>4, <2>5, <1>2, <1>4
<1>. QED  BY <1>5, <1>6

(* Subtracting a multiple of a truthful row leaves a truthful row. *)
LEMMA SubtractData ==
  ASSUME NEW row \in MatrixRows, NEW other \in MatrixRows, NEW c \in F
  PROVE  /\ \A i \in SrcIds : subtract_scaled(row, other, c).coefs[i] =
                              FAdd(row.coefs[i], FMul(c, other.coefs[i]))
         /\ Truthful(row) /\ Truthful(other) => Truthful(subtract_scaled(row, other, c))
BY DEF subtract_scaled, MulAcc, Truthful

(* Substituting a symbol by its own payload leaves a truthful row, with    *)
(* the coefficient of the symbol cleared and the others as they were.      *)
LEMMA SubstituteData ==
  ASSUME NEW row \in MatrixRows, NEW id \in SrcIds, NEW data \in Vectors
  PROVE  /\ \A i \in SrcIds : Substitute(row, id, data).coefs[i] =
                              IF i = id THEN Zero ELSE row.coefs[i]
         /\ Truthful(row) /\ data = Unit(id) => Truthful(Substitute(row, id, data))
<1>1. row.coefs \in Vectors /\ row.payload \in Vectors  BY DEF MatrixRows
<1>2. CASE row.coefs[id] = Zero
  BY <1>2 DEF Substitute
<1>3. CASE row.coefs[id] # Zero
  <2>. DEFINE c == row.coefs[id]
  <2>1. c \in F  BY <1>1 DEF Vectors
  <2>2. Substitute(row, id, data) =
          [coefs   |-> [row.coefs EXCEPT ![id] = Zero],
           payload |-> MulAcc(row.payload, data, c)]
    BY <1>3 DEF Substitute
  <2>3. \A i \in SrcIds : Substitute(row, id, data).coefs[i] =
                              IF i = id THEN Zero ELSE row.coefs[i]
    BY <2>2, <1>1 DEF Vectors
  <2>4. ASSUME Truthful(row), data = Unit(id)
        PROVE  MulAcc(row.payload, data, c) = [row.coefs EXCEPT ![id] = Zero]
    <3>1. \A i \in SrcIds : FAdd(row.coefs[i], FMul(c, Unit(id)[i])) =
                              IF i = id THEN Zero ELSE row.coefs[i]
      <4>. TAKE i \in SrcIds
      <4>1. row.coefs[i] \in F  BY <1>1 DEF Vectors
      <4>2. CASE i = id
        BY <4>2, <2>1, FieldAssumption DEF Unit
      <4>3. CASE i # id
        <5>1. Unit(id)[i] = Zero  BY <4>3 DEF Unit
        <5>. QED  BY <5>1, <4>1, <4>3, <2>1, FieldAssumption
      <4>. QED  BY <4>2, <4>3
    <3>2. row.coefs \in [SrcIds -> F]  BY <1>1 DEF Vectors
    <3>. QED  BY <2>4, <3>1, <3>2 DEF MulAcc, Truthful
  <2>. QED  BY <2>2, <2>3, <2>4 DEF Truthful
<1>. QED  BY <1>2, <1>3

(* The drain stops at the first hole at or after the delivery pointer. *)
LEMMA DrainEndIsFirstHole ==
  ASSUME NEW buf, NEW n \in 0..NumIds
  PROVE  /\ DrainEnd(buf, n) \in n..NumIds
         /\ DrainEnd(buf, n) = NumIds \/ buf[DrainEnd(buf, n)] = Absent
         /\ \A j \in n..(DrainEnd(buf, n) - 1) : buf[j] # Absent
<1>. DEFINE Holes == {m \in n..NumIds : m = NumIds \/ (m < NumIds /\ buf[m] = Absent)}
<1>1. Holes \subseteq Nat /\ NumIds \in Holes  BY NumIdsAssumption
<1>2. \E m \in Holes : \A k \in Holes : m <= k
  <2>. HIDE DEF Holes
  <2>. QED  BY <1>1, LeastElement
<1>3. PICK m \in Holes : \A k \in Holes : m <= k  BY <1>2
<1>4. \A j \in n..(m-1) : buf[j] # Absent
  BY <1>3, NumIdsAssumption
<1>5. \E m1 \in n..NumIds : /\ m1 = NumIds \/ (m1 < NumIds /\ buf[m1] = Absent)
                            /\ \A j \in n..(m1-1) : buf[j] # Absent
  BY <1>3, <1>4
<1>. QED  BY <1>5 DEF DrainEnd

----------------------------------------------------------------------------
(* Type correctness, with the ranges of the loops. *)

(* Decoder::new establishes the type invariant. *)
LEMMA InitType == Init => TypeInv
<1>. SUFFICES ASSUME Init PROVE TypeInv  OBVIOUS
<1>1. NoRow \in MatrixRows
  BY FieldAssumption DEF NoRow, MatrixRows, Vectors
<1>2. EmptyMap \in [SrcIds -> MatrixRows \cup {Absent}]
      /\ EmptyMap \in [SrcIds -> Vectors \cup {Absent}]
  BY DEF EmptyMap
<1>3. /\ next_delivery_id \in 0..NumIds /\ encoder_win_min \in 0..NumIds
      /\ counter \in 0..(Period - 1)
  BY DecoderAssumption, NumIdsAssumption DEF Init
<1>4. /\ pc \in PcValues /\ late_pivot \in BOOLEAN /\ LoopOK
      /\ feedback \in Feedbacks \cup {Absent}
  BY Zenon DEF Init, PcValues, LoopOK
<1>. QED
  BY <1>1, <1>2, <1>3, <1>4 DEF Init, TypeInv, TypeOK

(* entry(id).or_insert keeps the type of a map. *)
LEMMA OrInsertType ==
  ASSUME NEW m \in [SrcIds -> Vectors \cup {Absent}], NEW id \in SrcIds, NEW data \in Vectors
  PROVE  OrInsert(m, id, data) \in [SrcIds -> Vectors \cup {Absent}]
BY DEF OrInsert

(* HandleSource preserves the type invariant. *)
LEMMA HandleSourceType ==
  ASSUME TypeInv, NEW id \in SrcIds, NEW data \in Vectors, HandleSource(id, data)
  PROVE  TypeInv'
<1>1. known' \in [SrcIds -> Vectors \cup {Absent}]
  BY OrInsertType DEF TypeInv, TypeOK, HandleSource
<1>2. buffer' \in [SrcIds -> Vectors \cup {Absent}]
  BY OrInsertType DEF TypeInv, TypeOK, HandleSource, BufferInsert
<1>3. queue' \subseteq [id : SrcIds, data : Vectors] /\ local_known' \subseteq SrcIds
  BY DEF HandleSource, Keys
<1>. QED
  BY <1>1, <1>2, <1>3 DEF TypeInv, TypeOK, LoopOK, HandleSource, emitted, PcValues

(* HandleCoded preserves the type invariant. *)
LEMMA HandleCodedType ==
  ASSUME TypeInv, NEW v \in Vectors, Support(v) # {}, HandleCoded(v, v)
  PROVE  TypeInv'
<1>1. pivot_id(v) \in SrcIds  BY PivotIsFirst
<1>2. encoder_win_min' \in 0..NumIds
  BY <1>1, NumIdsAssumption DEF TypeInv, TypeOK, HandleCoded, SrcIds
<1>3. cur' \in MatrixRows  BY <1>1 DEF HandleCoded, MatrixRows
<1>4. todo' \subseteq SrcIds /\ local_known' \subseteq SrcIds /\ todo' \subseteq Keys(known)'
  BY DEF HandleCoded, Keys
<1>. QED
  BY <1>2, <1>3, <1>4 DEF TypeInv, TypeOK, LoopOK, HandleCoded, emitted, PcValues

(* SubstituteKnown preserves the type invariant. *)
LEMMA SubstituteKnownType ==
  ASSUME TypeInv, NEW k \in SrcIds, SubstituteKnown(k)
  PROVE  TypeInv'
<1>1. k \in Keys(known)  BY DEF TypeInv, LoopOK, SubstituteKnown, IsFirst
<1>2. known[k] \in Vectors  BY <1>1 DEF TypeInv, TypeOK, Keys
<1>3. cur' \in MatrixRows
  BY <1>2, SubstituteType DEF TypeInv, TypeOK, SubstituteKnown
<1>. QED
  BY <1>3 DEF TypeInv, TypeOK, LoopOK, SubstituteKnown, emitted, stored, Keys

(* StartElimination preserves the type invariant. *)
LEMMA StartEliminationType ==
  ASSUME TypeInv, StartElimination
  PROVE  TypeInv'
<1>1. Keys(rows) \subseteq SrcIds  BY DEF Keys
<1>. QED
  BY <1>1 DEF TypeInv, TypeOK, LoopOK, StartElimination, emitted, stored, Keys, PcValues

(* EliminateRow preserves the type invariant. *)
LEMMA EliminateRowType ==
  ASSUME TypeInv, NEW k \in SrcIds, EliminateRow(k)
  PROVE  TypeInv'
<1>1. k \in Keys(rows)  BY DEF TypeInv, LoopOK, EliminateRow, IsFirst
<1>2. rows[k] \in MatrixRows  BY <1>1 DEF TypeInv, TypeOK, Keys
<1>3. cur.coefs[k] \in F  BY DEF TypeInv, TypeOK, MatrixRows, Vectors
<1>4. cur' \in MatrixRows
  BY <1>2, <1>3, SubtractType DEF TypeInv, TypeOK, EliminateRow
<1>. QED
  BY <1>4 DEF TypeInv, TypeOK, LoopOK, EliminateRow, emitted, stored, Keys

(* back_substitute keeps the type of the rows. *)
LEMMA BackSubstituteType ==
  ASSUME TypeOK, NEW pivot \in SrcIds, NEW row \in MatrixRows
  PROVE  back_substitute(rows, pivot, row) \in [SrcIds -> MatrixRows \cup {Absent}]
<1>1. ASSUME NEW k \in SrcIds, rows[k] # Absent
      PROVE  rows[k] \in MatrixRows /\ rows[k].coefs[pivot] \in F
  BY <1>1 DEF TypeOK, MatrixRows, Vectors
<1>2. ASSUME NEW k \in SrcIds, rows[k] # Absent
      PROVE  subtract_scaled(rows[k], row, rows[k].coefs[pivot]) \in MatrixRows
  BY <1>1, <1>2, SubtractType
<1>. QED  BY <1>1, <1>2 DEF back_substitute

(* InsertRow preserves the type invariant. *)
LEMMA InsertRowType ==
  ASSUME TypeInv, InsertRow
  PROVE  TypeInv'
<1>1. CASE is_zero(cur.coefs)
  BY <1>1 DEF TypeInv, TypeOK, LoopOK, InsertRow, emitted, stored, PcValues
<1>2. CASE ~is_zero(cur.coefs)
  <2>. DEFINE row == normalize(cur)
              p == pivot_id(row.coefs)
  <2>1. cur \in MatrixRows /\ Support(cur.coefs) # {}
    BY <1>2 DEF TypeInv, TypeOK, is_zero
  <2>2. row \in MatrixRows /\ row.coefs[pivot_id(cur.coefs)] = One
    BY <2>1, NormalizeType
  <2>3. pivot_id(cur.coefs) \in SrcIds
    BY <2>1, PivotIsFirst DEF MatrixRows
  <2>4. Support(row.coefs) # {}
    BY <2>2, <2>3, FieldAssumption DEF Support
  <2>5. p \in SrcIds
    BY <2>2, <2>4, PivotIsFirst DEF MatrixRows
  <2>6. back_substitute(rows, p, row) \in [SrcIds -> MatrixRows \cup {Absent}]
    BY <2>2, <2>5, BackSubstituteType DEF TypeInv
  <2>7. MakeRoom(back_substitute(rows, p, row)) \in [SrcIds -> MatrixRows \cup {Absent}]
    BY <2>6 DEF MakeRoom
  <2>8. rows' = [MakeRoom(back_substitute(rows, p, row)) EXCEPT ![p] = row] /\ pc' = "harvest"
    BY <1>2 DEF InsertRow
  <2>9. rows' \in [SrcIds -> MatrixRows \cup {Absent}]
    BY <2>2, <2>7, <2>8
  <2>. QED
    BY <2>8, <2>9 DEF TypeInv, TypeOK, LoopOK, InsertRow, emitted, stored, PcValues
<1>. QED  BY <1>1, <1>2

(* HarvestRow preserves the type invariant. *)
LEMMA HarvestRowType ==
  ASSUME TypeInv, NEW k \in SrcIds, HarvestRow(k)
  PROVE  TypeInv'
<1>1. rows' \in [SrcIds -> MatrixRows \cup {Absent}]
  BY DEF TypeInv, TypeOK, HarvestRow
<1>2. CASE rows[k] # Absent /\ is_solved(rows[k].coefs)
  <2>. DEFINE id == SolvedId(rows[k].coefs)
  <2>1. rows[k].coefs \in Vectors /\ rows[k].payload \in Vectors
    BY <1>2 DEF TypeInv, TypeOK, MatrixRows
  <2>2. id \in SrcIds  BY <1>2, <2>1, SolvedIdOnly
  <2>3. recovered' \in [SrcIds -> Vectors \cup {Absent}]
    BY <1>2, <2>1, <2>2, OrInsertType DEF TypeInv, TypeOK, HarvestRow
  <2>4. queue' \subseteq [id : SrcIds, data : Vectors] /\ local_known' \subseteq SrcIds
        /\ pc' = "cascade_coded"
    BY <1>2, <2>1, <2>2 DEF TypeInv, TypeOK, HarvestRow
  <2>. QED
    BY <1>1, <2>3, <2>4 DEF TypeInv, TypeOK, LoopOK, HarvestRow, emitted, stored, PcValues
<1>3. CASE ~(rows[k] # Absent /\ is_solved(rows[k].coefs))
  BY <1>1, <1>3 DEF TypeInv, TypeOK, LoopOK, HarvestRow, emitted, stored, PcValues
<1>. QED  BY <1>2, <1>3

(* Rescan preserves the type invariant. *)
LEMMA RescanType ==
  ASSUME TypeInv, Rescan
  PROVE  TypeInv'
BY DEF TypeInv, TypeOK, LoopOK, Rescan, SolvedNow, SolvedKeys, Keys, emitted, stored, PcValues

(* The rows of the matrix after one symbol was substituted into them. *)
After(q) == [k \in SrcIds |-> IF rows[k] = Absent THEN Absent
                              ELSE Substitute(rows[k], q.id, q.data)]

(* The identifiers whose rows the substitution solved, found by key. *)
Hit(q) == {SolvedId(After(q)[k].coefs) :
             k \in {k \in {k \in Keys(rows) : rows[k].coefs[q.id] # Zero} :
                      is_solved(After(q)[k].coefs)}} \cap Keys(After(q))

(* Cascade in terms of After and Hit. *)
LEMMA CascadeForm ==
  ASSUME NEW q, Cascade(q)
  PROVE  /\ q \in queue
         /\ rows' = [k \in SrcIds |-> IF k \in Hit(q) THEN Absent ELSE After(q)[k]]
         /\ recovered' = [i \in SrcIds |-> IF i \in Hit(q) /\ recovered[i] = Absent
                                           THEN After(q)[i].payload ELSE recovered[i]]
         /\ local_known' = local_known \cup {q.id}
         /\ queue' = (queue \ {q}) \cup {[id |-> i, data |-> After(q)[i].payload] :
                                          i \in Hit(q) \ local_known'}
         /\ pc \in {"cascade_source", "cascade_coded"}
         /\ pc' \in {"cascade_source", "cascade_coded", "finish", "harvest"}
         /\ pc' \notin {"cascade_source", "cascade_coded"} => queue' = {}
         /\ UNCHANGED <<cur, todo, stored, emitted, late_pivot>>
<1>1. q \in queue /\ pc \in {"cascade_source", "cascade_coded"}
      /\ UNCHANGED <<cur, todo, stored, emitted, late_pivot>>
  BY DEF Cascade
<1>2. rows' = [k \in SrcIds |-> IF k \in Hit(q) THEN Absent ELSE After(q)[k]]
  BY Zenon DEF Cascade, After, Hit
<1>3. recovered' = [i \in SrcIds |-> IF i \in Hit(q) /\ recovered[i] = Absent
                                     THEN After(q)[i].payload ELSE recovered[i]]
  BY Zenon DEF Cascade, After, Hit
<1>4. /\ local_known' = local_known \cup {q.id}
      /\ queue' = (queue \ {q}) \cup {[id |-> i, data |-> After(q)[i].payload] :
                                       i \in Hit(q) \ local_known'}
  BY Zenon DEF Cascade, After, Hit, QueueAfter
<1>5. /\ pc' \in {"cascade_source", "cascade_coded", "finish", "harvest"}
      /\ pc' \notin {"cascade_source", "cascade_coded"} => queue' = {}
  BY <1>1 DEF Cascade
<1>. QED  BY <1>1, <1>2, <1>3, <1>4, <1>5

(* The rows after one substitution of the cascade, and those it solves. *)
LEMMA AfterType ==
  ASSUME TypeOK, NEW q \in queue
  PROVE  /\ After(q) \in [SrcIds -> MatrixRows \cup {Absent}]
         /\ Keys(After(q)) = Keys(rows)
         /\ Hit(q) \subseteq Keys(rows)
<1>1. q.id \in SrcIds /\ q.data \in Vectors  BY DEF TypeOK
<1>2. ASSUME NEW k \in SrcIds, rows[k] # Absent
      PROVE  Substitute(rows[k], q.id, q.data) \in MatrixRows
  <2>1. rows[k] \in MatrixRows  BY <1>2 DEF TypeOK
  <2>. QED  BY <2>1, <1>1, SubstituteType
<1>3. After(q) \in [SrcIds -> MatrixRows \cup {Absent}]  BY <1>2 DEF After
<1>4. Keys(After(q)) = Keys(rows)
  BY <1>2, AbsentAssumption DEF After, Keys
<1>. QED  BY <1>3, <1>4 DEF Hit

(* Cascade preserves the type invariant. *)
LEMMA CascadeType ==
  ASSUME TypeInv, NEW q, Cascade(q)
  PROVE  TypeInv'
<1>1. /\ After(q) \in [SrcIds -> MatrixRows \cup {Absent}]
      /\ Keys(After(q)) = Keys(rows)
      /\ Hit(q) \subseteq Keys(rows)
  BY CascadeForm, AfterType DEF TypeInv
<1>2. rows' \in [SrcIds -> MatrixRows \cup {Absent}]  BY <1>1, CascadeForm
<1>3. \A i \in Hit(q) : i \in SrcIds /\ After(q)[i].payload \in Vectors
  BY <1>1 DEF Keys, MatrixRows
<1>4. recovered' \in [SrcIds -> Vectors \cup {Absent}]
  BY <1>3, CascadeForm DEF TypeInv, TypeOK
<1>5. queue' \subseteq [id : SrcIds, data : Vectors]
  BY <1>3, CascadeForm DEF TypeInv, TypeOK
<1>6. local_known' \subseteq SrcIds
  BY CascadeForm DEF TypeInv, TypeOK
<1>7. pc' \in PcValues /\ LoopOK'
  BY CascadeForm DEF PcValues, LoopOK
<1>8. UNCHANGED <<cur, todo, stored, emitted, late_pivot>>  BY CascadeForm
<1>. QED
  BY <1>2, <1>4, <1>5, <1>6, <1>7, <1>8 DEF TypeInv, TypeOK, stored, emitted

(* The buffer with the recovered symbols, and where its drain ends. *)
Filled == [i \in SrcIds |-> IF recovered[i] = Absent THEN buffer[i]
                            ELSE BufferInsert(buffer, next_delivery_id, i, recovered[i])[i]]
End  == DrainEnd(Filled, next_delivery_id)
Kept == [i \in SrcIds |-> IF i \in next_delivery_id..(End-1) THEN Absent ELSE Filled[i]]

(* Finish in terms of Filled, End and Kept. *)
LEMMA FinishForm ==
  ASSUME Finish
  PROVE  /\ known' = [i \in SrcIds |-> IF known[i] = Absent THEN recovered[i] ELSE known[i]]
         /\ delivered' = [i \in SrcIds |-> IF i \in next_delivery_id..(End-1)
                                             THEN Filled[i] ELSE delivered[i]]
         /\ feedback' = IF FeedbackDue
                          THEN [first_src_id |-> End, acked |-> AckedIds(Kept)]
                          ELSE Absent
         /\ gap' = End..(encoder_win_min - 1)
         /\ skipped' = skipped \cup gap'
         /\ IF encoder_win_min > End
              THEN buffer' = PruneBelow(Kept, encoder_win_min)
                   /\ next_delivery_id' = encoder_win_min
              ELSE buffer' = Kept /\ next_delivery_id' = End
BY Zenon DEF Finish, Filled, End, Kept

(* The buffer with the recovered symbols, and what the drain leaves of it. *)
LEMMA FilledType ==
  ASSUME TypeOK
  PROVE  /\ Filled \in [SrcIds -> Vectors \cup {Absent}]
         /\ End \in next_delivery_id..NumIds
         /\ Kept \in [SrcIds -> Vectors \cup {Absent}]
         /\ \A i \in SrcIds : Filled[i] # Absent => Filled[i] \in {buffer[i], recovered[i]}
         /\ \A i \in next_delivery_id..(End-1) : i \in SrcIds /\ Filled[i] # Absent
         /\ End = NumIds \/ Filled[End] = Absent
<1>1. ASSUME NEW i \in SrcIds
      PROVE  BufferInsert(buffer, next_delivery_id, i, recovered[i])[i] \in
               {buffer[i], recovered[i]}
  BY DEF TypeOK, BufferInsert, OrInsert
<1>2. Filled \in [SrcIds -> Vectors \cup {Absent}]
  BY <1>1 DEF TypeOK, Filled
<1>3. \A i \in SrcIds : Filled[i] # Absent => Filled[i] \in {buffer[i], recovered[i]}
  BY <1>1 DEF Filled
<1>4. next_delivery_id \in 0..NumIds  BY DEF TypeOK
<1>5. /\ End \in next_delivery_id..NumIds
      /\ End = NumIds \/ Filled[End] = Absent
      /\ \A i \in next_delivery_id..(End-1) : Filled[i] # Absent
  BY <1>4, DrainEndIsFirstHole DEF End
<1>6. \A i \in next_delivery_id..(End-1) : i \in SrcIds
  BY <1>4, <1>5, NumIdsAssumption DEF SrcIds
<1>. QED  BY <1>2, <1>3, <1>5, <1>6 DEF Kept

(* Finish preserves the type invariant. *)
LEMMA FinishType ==
  ASSUME TypeInv, Finish
  PROVE  TypeInv'
<1>. USE FinishForm DEF TypeInv
<1>1. known' \in [SrcIds -> Vectors \cup {Absent}]  BY DEF TypeOK
<1>2. /\ Filled \in [SrcIds -> Vectors \cup {Absent}]
      /\ Kept \in [SrcIds -> Vectors \cup {Absent}]
      /\ End \in next_delivery_id..NumIds
  BY FilledType
<1>3. End \in 0..NumIds  BY <1>2, NumIdsAssumption DEF TypeOK
<1>4. delivered' \in [SrcIds -> Vectors \cup {Absent}]  BY <1>2 DEF TypeOK
<1>5. gap' \subseteq SrcIds /\ skipped' \subseteq SrcIds
  <2>1. encoder_win_min \in 0..NumIds /\ skipped \subseteq SrcIds  BY DEF TypeOK
  <2>2. gap' = End..(encoder_win_min - 1) /\ skipped' = skipped \cup gap'  OBVIOUS
  <2>. HIDE FinishForm
  <2>3. gap' \subseteq SrcIds  BY <1>3, <2>1, <2>2, NumIdsAssumption DEF SrcIds
  <2>. QED  BY <2>1, <2>2, <2>3
<1>6. buffer' \in [SrcIds -> Vectors \cup {Absent}] /\ next_delivery_id' \in 0..NumIds
  BY <1>2, <1>3 DEF TypeOK, PruneBelow
<1>7. feedback' \in Feedbacks \cup {Absent}
  <2>1. AckedIds(Kept) \subseteq SrcIds  BY DEF AckedIds, Keys
  <2>2. feedback' \in {[first_src_id |-> End, acked |-> AckedIds(Kept)], Absent}
    OBVIOUS
  <2>. HIDE FinishForm
  <2>. QED  BY <1>3, <2>1, <2>2 DEF Feedbacks
<1>8. counter' \in 0..(Period - 1)
  BY DecoderAssumption DEF Finish, CounterAfter, FeedbackDue, TypeOK
<1>9. recovered' = EmptyMap /\ cur' = NoRow /\ local_known' = {} /\ pc' = "idle"
      /\ UNCHANGED <<rows, todo, queue, encoder_win_min, late_pivot>> /\ queue = {}
  BY DEF Finish, LoopOK
<1>10. NoRow \in MatrixRows /\ EmptyMap \in [SrcIds -> Vectors \cup {Absent}]
  BY FieldAssumption DEF NoRow, EmptyMap, MatrixRows, Vectors
<1>. HIDE FinishForm
<1>. QED
  BY <1>1, <1>4, <1>5, <1>6, <1>7, <1>8, <1>9, <1>10 DEF TypeOK, LoopOK, PcValues

(* Every step preserves the type invariant. *)
LEMMA TypeStep == TypeInv /\ [Next]_decVars => TypeInv'
<1>. SUFFICES ASSUME TypeInv, [Next]_decVars PROVE TypeInv'  OBVIOUS
<1>1. CASE \E id \in SrcIds : HandleSource(id, Unit(id))
  BY <1>1, HandleSourceType, UnitType
<1>2. CASE \E v \in CodedInputs : HandleCoded(v, v)
  BY <1>2, HandleCodedType, DecoderAssumption
<1>3. CASE \E k \in SrcIds : SubstituteKnown(k) \/ EliminateRow(k) \/ HarvestRow(k)
  BY <1>3, SubstituteKnownType, EliminateRowType, HarvestRowType
<1>4. CASE StartElimination \/ InsertRow \/ Rescan \/ Finish
  BY <1>4, StartEliminationType, InsertRowType, RescanType, FinishType
<1>5. CASE \E q \in queue : Cascade(q)
  BY <1>5, CascadeType
<1>6. CASE UNCHANGED decVars
  BY <1>6 DEF TypeInv, TypeOK, LoopOK, Keys, decVars, matrix, stored, emitted
<1>. QED  BY <1>1, <1>2, <1>3, <1>4, <1>5, <1>6 DEF Next, Step

(* The decoder's state keeps its type through every call: in particular    *)
(* the loops of add_coded read only entries that exist, the pivot of a row *)
(* and the end of the drain are defined, and the delivery pointer and the  *)
(* window minimum stay within the identifiers.                             *)
THEOREM TypeCorrect == Spec => []TypeOK
<1>1. Init => TypeInv  BY InitType
<1>2. TypeInv /\ [Next]_decVars => TypeInv'  BY TypeStep
<1>3. TypeInv => TypeOK  BY DEF TypeInv
<1>. QED  BY <1>1, <1>2, <1>3, PTL DEF Spec

----------------------------------------------------------------------------
(* No corruption.  The invariant says that, as long as no source packet    *)
(* has hit the key of a row, every row is truthful, has coefficient one at *)
(* its key and zero at the other keys; that is what makes a solved row the *)
(* payload of its own key, and what elimination needs to find a new pivot. *)

DataOK == RowsOK /\ PayloadsOK /\ QueueOK /\ CurOK

(* The empty matrix and maps are truthful. *)
LEMMA InitData == Init => DataInv
BY DEF Init, DataInv, RowsOK, PayloadsOK, QueueOK, CurOK, EmptyMap, Keys

(* HandleSource preserves DataOK. *)
LEMMA HandleSourceData ==
  ASSUME TypeInv, DataOK, NEW id \in SrcIds, HandleSource(id, Unit(id)), ~late_pivot'
  PROVE  DataOK'
<1>1. id \notin Keys(rows)  BY DEF HandleSource, Keys
<1>2. PayloadsOK'
  BY DEF DataOK, PayloadsOK, HandleSource, OrInsert, BufferInsert, TypeInv, TypeOK, emitted
<1>3. QueueOK' /\ RowsOK' /\ CurOK'
  BY <1>1 DEF DataOK, RowsOK, QueueOK, CurOK, HandleSource, Keys
<1>. QED  BY <1>2, <1>3 DEF DataOK

(* HandleCoded preserves DataOK. *)
LEMMA HandleCodedData ==
  ASSUME TypeInv, DataOK, NEW v \in Vectors, HandleCoded(v, v)
  PROVE  DataOK'
BY DEF DataOK, RowsOK, PayloadsOK, QueueOK, CurOK, HandleCoded, Keys, Truthful, emitted

(* SubstituteKnown preserves DataOK. *)
LEMMA SubstituteKnownData ==
  ASSUME TypeInv, DataOK, NEW k \in SrcIds, SubstituteKnown(k)
  PROVE  DataOK'
<1>1. k \in Keys(known)  BY DEF TypeInv, LoopOK, SubstituteKnown, IsFirst
<1>2. known[k] = Unit(k) /\ known[k] \in Vectors
  BY <1>1, UnitType DEF DataOK, PayloadsOK, Keys
<1>3. Truthful(cur)  BY DEF DataOK, CurOK, SubstituteKnown
<1>4. cur \in MatrixRows  BY DEF TypeInv, TypeOK
<1>5. Truthful(Substitute(cur, k, known[k]))  BY <1>2, <1>3, <1>4, SubstituteData
<1>6. CurOK'  BY <1>5 DEF CurOK, SubstituteKnown
<1>7. UNCHANGED <<rows, queue, recovered, known, buffer, delivered>>
  BY DEF SubstituteKnown, stored, emitted
<1>. QED
  BY <1>6, <1>7 DEF DataOK, RowsOK, PayloadsOK, QueueOK, Keys

(* StartElimination preserves DataOK. *)
LEMMA StartEliminationData ==
  ASSUME TypeInv, DataOK, StartElimination
  PROVE  DataOK'
BY DEF DataOK, RowsOK, PayloadsOK, QueueOK, CurOK, StartElimination, Keys, stored, emitted

(* EliminateRow preserves DataOK. *)
LEMMA EliminateRowData ==
  ASSUME TypeInv, DataOK, NEW k \in SrcIds, EliminateRow(k)
  PROVE  DataOK'
<1>1. k \in Keys(rows)  BY DEF TypeInv, LoopOK, EliminateRow, IsFirst
<1>2. rows[k] \in MatrixRows /\ cur \in MatrixRows  BY <1>1 DEF TypeInv, TypeOK, Keys
<1>3. cur.coefs[k] \in F  BY <1>2 DEF MatrixRows, Vectors
<1>4. /\ Truthful(cur)
      /\ \A j \in Keys(rows) \ todo : cur.coefs[j] = Zero
  BY DEF DataOK, CurOK, EliminateRow
<1>5. /\ Truthful(rows[k]) /\ rows[k].coefs[k] = One
      /\ \A j \in Keys(rows) : j # k => rows[k].coefs[j] = Zero
  BY <1>1 DEF DataOK, RowsOK
<1>6. UNCHANGED <<rows, queue, recovered, known, buffer, delivered, pc>> /\ todo' = todo \ {k}
  BY DEF EliminateRow, stored, emitted
<1>7. CurOK'
  <2>1. CASE cur.coefs[k] = Zero
    BY <2>1, <1>4, <1>6 DEF CurOK, EliminateRow, Keys
  <2>2. CASE cur.coefs[k] # Zero
    <3>1. cur' = subtract_scaled(cur, rows[k], cur.coefs[k])
      BY <2>2 DEF EliminateRow
    <3>2. Truthful(cur')
      BY <3>1, <1>2, <1>3, <1>4, <1>5, SubtractData
    <3>3. \A j \in SrcIds : cur'.coefs[j] =
                              FAdd(cur.coefs[j], FMul(cur.coefs[k], rows[k].coefs[j]))
      BY <3>1, <1>2, <1>3, SubtractData
    <3>4. cur'.coefs[k] = Zero
      BY <3>3, <1>3, <1>5, FieldAssumption
    <3>5. \A j \in Keys(rows) \ todo : j # k => cur'.coefs[j] = Zero
      BY <3>3, <1>3, <1>4, <1>5, FieldAssumption DEF Keys
    <3>6. \A j \in Keys(rows) \ todo' : cur'.coefs[j] = Zero
      BY <3>4, <3>5, <1>6
    <3>. QED  BY <3>2, <3>6, <1>6 DEF CurOK, Keys
  <2>. QED  BY <2>1, <2>2
<1>. QED
  BY <1>6, <1>7 DEF DataOK, RowsOK, PayloadsOK, QueueOK, Keys

(* HarvestRow preserves DataOK. *)
LEMMA HarvestRowData ==
  ASSUME TypeInv, DataOK, NEW k \in SrcIds, HarvestRow(k)
  PROVE  DataOK'
<1>1. /\ rows' = [rows EXCEPT ![k] = Absent]
      /\ UNCHANGED <<known, buffer, delivered>>
      /\ pc' \in {"harvest", "cascade_coded"}
  BY DEF HarvestRow, stored, emitted
<1>2. Keys(rows)' = Keys(rows) \ {k} /\ \A j \in Keys(rows)' : rows'[j] = rows[j]
  BY <1>1 DEF TypeInv, TypeOK, Keys
<1>3. RowsOK' /\ CurOK'
  <2>1. RowsOK'  BY <1>2 DEF DataOK, RowsOK, Truthful
  <2>2. CurOK'  BY <1>1 DEF CurOK
  <2>. QED  BY <2>1, <2>2
<1>4. CASE rows[k] # Absent /\ is_solved(rows[k].coefs)
  <2>. DEFINE id == SolvedId(rows[k].coefs)
  <2>1. k \in Keys(rows) /\ rows[k] \in MatrixRows
    BY <1>4 DEF Keys, TypeInv, TypeOK
  <2>2. Truthful(rows[k]) /\ rows[k].coefs[k] = One
    BY <2>1 DEF DataOK, RowsOK
  <2>3. Support(rows[k].coefs) = {id}
    BY <1>4, <2>1, SolvedIdOnly DEF MatrixRows
  <2>4. id = k  BY <2>2, <2>3, FieldAssumption DEF Support
  <2>5. rows[k].payload = Unit(k)
    <3>1. rows[k].coefs \in [SrcIds -> F]  BY <2>1 DEF MatrixRows, Vectors
    <3>2. \A j \in SrcIds : rows[k].coefs[j] = IF j = k THEN One ELSE Zero
      BY <2>2, <2>3, <2>4 DEF Support
    <3>. QED  BY <3>1, <3>2, <2>2 DEF Unit, Truthful
  <2>6. recovered' = OrInsert(recovered, k, Unit(k)) /\ queue' = {[id |-> k, data |-> Unit(k)]}
    BY <1>4, <2>4, <2>5 DEF HarvestRow
  <2>7. PayloadsOK'
    BY <1>1, <2>6 DEF DataOK, PayloadsOK, OrInsert, TypeInv, TypeOK
  <2>8. QueueOK'  BY <1>2, <2>6 DEF QueueOK
  <2>. QED  BY <1>3, <2>7, <2>8 DEF DataOK
<1>5. CASE ~(rows[k] # Absent /\ is_solved(rows[k].coefs))
  <2>1. UNCHANGED <<recovered, queue>>  BY <1>5 DEF HarvestRow
  <2>. QED
    BY <1>1, <1>2, <1>3, <2>1 DEF DataOK, PayloadsOK, QueueOK
<1>. QED  BY <1>4, <1>5

(* Rescan preserves DataOK. *)
LEMMA RescanData ==
  ASSUME TypeInv, DataOK, Rescan
  PROVE  DataOK'
BY DEF DataOK, RowsOK, PayloadsOK, QueueOK, CurOK, Rescan, Keys, stored, emitted

(* Cascade preserves DataOK. *)
LEMMA CascadeData ==
  ASSUME TypeInv, DataOK, NEW q, Cascade(q)
  PROVE  DataOK'
<1>. DEFINE S == After(q)
<1>1. q \in queue /\ q.id \in SrcIds /\ q.data \in Vectors
  BY CascadeForm DEF TypeInv, TypeOK
<1>2. q.data = Unit(q.id) /\ q.id \notin Keys(rows)
  BY <1>1 DEF DataOK, QueueOK
<1>3. /\ S \in [SrcIds -> MatrixRows \cup {Absent}]
      /\ Keys(S) = Keys(rows)
      /\ Hit(q) \subseteq Keys(rows)
  BY <1>1, AfterType DEF TypeInv
<1>4. ASSUME NEW k \in Keys(rows)
      PROVE  /\ Truthful(S[k]) /\ S[k].coefs[k] = One
             /\ \A j \in Keys(rows) : j # k => S[k].coefs[j] = Zero
  <2>1. k \in SrcIds /\ rows[k] \in MatrixRows  BY DEF Keys, TypeInv, TypeOK
  <2>2. S[k] = Substitute(rows[k], q.id, q.data)
    BY <2>1 DEF After, Keys
  <2>3. /\ Truthful(rows[k]) /\ rows[k].coefs[k] = One
        /\ \A j \in Keys(rows) : j # k => rows[k].coefs[j] = Zero
    BY DEF DataOK, RowsOK
  <2>4. Truthful(S[k])
    BY <1>1, <1>2, <2>1, <2>2, <2>3, SubstituteData
  <2>5. \A j \in SrcIds : S[k].coefs[j] = IF j = q.id THEN Zero ELSE rows[k].coefs[j]
    BY <1>1, <2>1, <2>2, SubstituteData
  <2>. QED  BY <1>2, <2>1, <2>3, <2>4, <2>5 DEF Keys
<1>5. ASSUME NEW i \in Hit(q)
      PROVE  S[i].payload = Unit(i)
  <2>1. PICK k \in Keys(rows) : is_solved(S[k].coefs) /\ i = SolvedId(S[k].coefs)
    BY DEF Hit
  <2>2. S[k] \in MatrixRows /\ k \in SrcIds
    BY <1>3 DEF Keys
  <2>3. Support(S[k].coefs) = {i}
    BY <2>1, <2>2, SolvedIdOnly DEF MatrixRows
  <2>4. i = k
    BY <1>4, <2>2, <2>3, FieldAssumption DEF Support
  <2>5. S[k].coefs \in [SrcIds -> F]  BY <2>2 DEF MatrixRows, Vectors
  <2>6. \A j \in SrcIds : S[k].coefs[j] = IF j = k THEN One ELSE Zero
    BY <1>4, <2>3, <2>4 DEF Support
  <2>. QED  BY <1>4, <2>4, <2>5, <2>6 DEF Unit, Truthful
<1>6. Keys(rows)' = Keys(rows) \ Hit(q) /\ \A k \in Keys(rows)' : rows'[k] = S[k]
  BY <1>3, CascadeForm DEF Keys
<1>7. RowsOK'
  BY <1>4, <1>6 DEF RowsOK
<1>8. UNCHANGED <<known, buffer, delivered>>
  BY CascadeForm DEF stored, emitted
<1>9. PayloadsOK'
  <2>1. \A i \in SrcIds : recovered'[i] = IF i \in Hit(q) /\ recovered[i] = Absent
                                          THEN Unit(i) ELSE recovered[i]
    BY <1>5, CascadeForm
  <2>. QED  BY <1>8, <2>1 DEF DataOK, PayloadsOK
<1>10. QueueOK'
  <2>1. \A p \in queue' : p \in queue \/ \E i \in Hit(q) : p = [id |-> i, data |-> Unit(i)]
    BY <1>5, CascadeForm
  <2>. QED  BY <1>6, <2>1 DEF DataOK, QueueOK
<1>11. CurOK'  BY CascadeForm DEF CurOK
<1>. QED  BY <1>7, <1>9, <1>10, <1>11 DEF DataOK

(* Finish preserves DataOK. *)
LEMMA FinishData ==
  ASSUME TypeInv, DataOK, Finish
  PROVE  DataOK'
<1>1. /\ \A i \in SrcIds : Filled[i] # Absent => Filled[i] \in {buffer[i], recovered[i]}
      /\ Kept \in [SrcIds -> Vectors \cup {Absent}]
  BY FilledType DEF TypeInv
<1>2. \A i \in SrcIds : Filled[i] \in {Absent, Unit(i)} /\ Kept[i] \in {Absent, Unit(i)}
  BY <1>1 DEF DataOK, PayloadsOK, Kept
<1>3. \A i \in SrcIds : delivered'[i] \in {Absent, Unit(i)}
  BY <1>2, FinishForm DEF DataOK, PayloadsOK
<1>4. \A i \in SrcIds : known'[i] \in {Absent, Unit(i)}
  BY FinishForm DEF DataOK, PayloadsOK
<1>5. \A i \in SrcIds : buffer'[i] \in {Absent, Unit(i)}
  BY <1>2, FinishForm DEF PruneBelow
<1>6. /\ recovered' = EmptyMap /\ pc' = "idle"
      /\ UNCHANGED <<rows, queue>>
  BY DEF Finish
<1>7. PayloadsOK'  BY <1>3, <1>4, <1>5, <1>6 DEF PayloadsOK, EmptyMap
<1>. QED  BY <1>6, <1>7 DEF DataOK, RowsOK, QueueOK, CurOK, Keys

(* Inserting the eliminated row: its pivot is no key yet, the rows that    *)
(* mention the pivot lose it, and nothing else about the keys changes.     *)
LEMMA InsertRowData ==
  ASSUME TypeInv, DataOK, InsertRow
  PROVE  DataOK'
<1>1. UNCHANGED <<cur, todo, queue, recovered, known, buffer, delivered>>
  BY DEF InsertRow, stored, emitted
<1>2. CASE is_zero(cur.coefs)
  <2>1. rows' = rows /\ pc' = "finish"  BY <1>2 DEF InsertRow
  <2>. QED
    BY <1>1, <2>1 DEF DataOK, RowsOK, PayloadsOK, QueueOK, CurOK, Keys
<1>3. CASE ~is_zero(cur.coefs)
  <2>. DEFINE row == normalize(cur)
              p == pivot_id(row.coefs)
              B == back_substitute(rows, p, row)
  <2>1. cur \in MatrixRows /\ Support(cur.coefs) # {} /\ cur.coefs \in Vectors
    BY <1>3 DEF TypeInv, TypeOK, is_zero, MatrixRows
  <2>2. Truthful(cur) /\ \A k \in Keys(rows) : cur.coefs[k] = Zero
    BY DEF DataOK, CurOK, InsertRow
  <2>3. /\ row \in MatrixRows /\ Truthful(row)
        /\ row.coefs[pivot_id(cur.coefs)] = One
        /\ \A i \in SrcIds : cur.coefs[i] = Zero => row.coefs[i] = Zero
    BY <2>1, <2>2, NormalizeType
  <2>4. /\ pivot_id(cur.coefs) \in SrcIds
        /\ \A j \in Support(cur.coefs) : pivot_id(cur.coefs) <= j
    BY <2>1, PivotIsFirst
  <2>5. pivot_id(cur.coefs) \in Support(row.coefs) /\ row.coefs \in Vectors
    BY <2>3, <2>4, FieldAssumption DEF Support, MatrixRows
  <2>6. /\ p \in Support(row.coefs) /\ p \in SrcIds
        /\ \A j \in Support(row.coefs) : p <= j
    BY <2>5, PivotIsFirst
  <2>7. p = pivot_id(cur.coefs)
    <3>1. p \in Support(cur.coefs)  BY <2>3, <2>6 DEF Support
    <3>2. pivot_id(cur.coefs) <= p /\ p <= pivot_id(cur.coefs)
      BY <3>1, <2>4, <2>5, <2>6
    <3>. QED  BY <3>2, <2>4, <2>6 DEF SrcIds
  <2>8. row.coefs[p] = One  BY <2>3, <2>7
  <2>9. \A k \in Keys(rows) : row.coefs[k] = Zero  BY <2>2, <2>3 DEF Keys
  <2>10. p \notin Keys(rows)  BY <2>8, <2>9, FieldAssumption
  <2>11. B \in [SrcIds -> MatrixRows \cup {Absent}]
    BY <2>3, <2>6, BackSubstituteType DEF TypeInv
  <2>12. ASSUME NEW k \in Keys(rows)
         PROVE  /\ B[k] # Absent /\ Truthful(B[k])
                /\ B[k].coefs[k] = One /\ B[k].coefs[p] = Zero
                /\ \A j \in Keys(rows) : j # k => B[k].coefs[j] = Zero
    <3>1. k \in SrcIds /\ rows[k] # Absent /\ rows[k] \in MatrixRows
      BY DEF Keys, TypeInv, TypeOK
    <3>2. rows[k].coefs \in Vectors  BY <3>1 DEF MatrixRows
    <3>3. /\ Truthful(rows[k]) /\ rows[k].coefs[k] = One
          /\ \A j \in Keys(rows) : j # k => rows[k].coefs[j] = Zero
      BY DEF DataOK, RowsOK
    <3>4. CASE rows[k].coefs[p] = Zero
      <4>1. B[k] = rows[k]  BY <3>1, <3>4 DEF back_substitute
      <4>. QED  BY <4>1, <3>1, <3>3, <3>4
    <3>5. CASE rows[k].coefs[p] # Zero
      <4>. DEFINE c == rows[k].coefs[p]
      <4>1. c \in F  BY <3>2, <2>6 DEF Vectors
      <4>2. B[k] = subtract_scaled(rows[k], row, c)
        BY <3>1, <3>5 DEF back_substitute
      <4>3. \A j \in SrcIds : B[k].coefs[j] = FAdd(rows[k].coefs[j], FMul(c, row.coefs[j]))
        BY <4>1, <4>2, <3>1, <2>3, SubtractData
      <4>4. Truthful(B[k])  BY <4>1, <4>2, <3>1, <3>3, <2>3, SubtractData
      <4>5. B[k].coefs[p] = Zero
        BY <4>1, <4>3, <2>6, <2>8, FieldAssumption
      <4>6. \A j \in Keys(rows) : B[k].coefs[j] = rows[k].coefs[j]
        <5>. TAKE j \in Keys(rows)
        <5>1. j \in SrcIds /\ rows[k].coefs[j] \in F  BY <3>2 DEF Keys, Vectors
        <5>2. row.coefs[j] = Zero  BY <2>9
        <5>. QED  BY <4>1, <4>3, <5>1, <5>2, FieldAssumption
      <4>7. B[k] # Absent
        BY <4>1, <4>2, <3>1, <2>3, SubtractType, AbsentAssumption
      <4>. QED  BY <4>4, <4>5, <4>6, <4>7, <3>3
    <3>. QED  BY <3>4, <3>5
  <2>13. Keys(B) = Keys(rows)
    BY <2>12 DEF back_substitute, Keys
  <2>14. rows' = [MakeRoom(B) EXCEPT ![p] = row] /\ pc' = "harvest"
    BY <1>3 DEF InsertRow
  <2>15. \A k \in SrcIds : MakeRoom(B)[k] \in {B[k], Absent}
    BY <2>11 DEF MakeRoom
  <2>16. MakeRoom(B) \in [SrcIds -> MatrixRows \cup {Absent}]
    BY <2>11 DEF MakeRoom
  <2>17. /\ rows'[p] = row
         /\ \A k \in Keys(rows)' : k # p => k \in Keys(rows) /\ rows'[k] = B[k]
         /\ Keys(rows)' \subseteq Keys(rows) \cup {p}
    BY <2>13, <2>14, <2>15, <2>16, <2>6 DEF Keys
  <2>18. RowsOK'
    <3>. SUFFICES ASSUME NEW k \in Keys(rows)'
                  PROVE  /\ Truthful(rows'[k]) /\ rows'[k].coefs[k] = One
                         /\ \A j \in Keys(rows)' : j # k => rows'[k].coefs[j] = Zero
      BY DEF RowsOK, Truthful
    <3>1. CASE k = p
      BY <3>1, <2>3, <2>8, <2>9, <2>17
    <3>2. CASE k # p
      BY <3>2, <2>12, <2>17
    <3>. QED  BY <3>1, <3>2
  <2>19. PayloadsOK' /\ CurOK'
    BY <1>1, <2>14 DEF DataOK, PayloadsOK, CurOK
  <2>20. QueueOK'
    <3>1. queue = {}  BY DEF TypeInv, LoopOK, InsertRow
    <3>. QED  BY <3>1, <1>1 DEF QueueOK
  <2>. QED  BY <2>18, <2>19, <2>20 DEF DataOK
<1>. QED  BY <1>2, <1>3

(* Every step preserves DataInv; a late pivot makes it vacuous for good. *)
LEMMA DataStep == TypeInv /\ DataInv /\ [Next]_decVars => DataInv'
<1>. SUFFICES ASSUME TypeInv, DataInv, [Next]_decVars, ~late_pivot' PROVE DataOK'
  BY DEF DataInv, DataOK
<1>1. ~late_pivot
  BY DEF Next, Step, HandleSource, HandleCoded, SubstituteKnown, EliminateRow,
         HarvestRow, StartElimination, InsertRow, Rescan, Finish, Cascade, decVars
<1>2. DataOK  BY <1>1 DEF DataInv, DataOK
<1>3. CASE \E id \in SrcIds : HandleSource(id, Unit(id))
  BY <1>2, <1>3, HandleSourceData
<1>4. CASE \E v \in CodedInputs : HandleCoded(v, v)
  BY <1>2, <1>4, HandleCodedData, DecoderAssumption
<1>5. CASE \E k \in SrcIds : SubstituteKnown(k) \/ EliminateRow(k) \/ HarvestRow(k)
  BY <1>2, <1>5, SubstituteKnownData, EliminateRowData, HarvestRowData
<1>6. CASE StartElimination \/ InsertRow \/ Rescan \/ Finish
  BY <1>2, <1>6, StartEliminationData, InsertRowData, RescanData, FinishData
<1>7. CASE \E q \in queue : Cascade(q)
  BY <1>2, <1>7, CascadeData
<1>8. CASE UNCHANGED decVars
  BY <1>2, <1>8 DEF DataOK, RowsOK, PayloadsOK, QueueOK, CurOK, Keys,
                    decVars, matrix, stored, emitted
<1>. QED  BY <1>3, <1>4, <1>5, <1>6, <1>7, <1>8 DEF Next, Step

(* The steps of a call alone. *)
LEMMA StepData ==
  ASSUME TypeInv, DataOK, ~late_pivot, Step
  PROVE  TypeInv' /\ DataOK' /\ ~late_pivot'
<1>1. Next  BY DEF Next
<1>2. TypeInv' /\ DataInv'  BY <1>1, TypeStep, DataStep DEF DataInv, DataOK
<1>3. ~late_pivot'
  BY DEF Step, SubstituteKnown, EliminateRow, HarvestRow, StartElimination, InsertRow,
         Rescan, Finish, Cascade
<1>. QED  BY <1>2, <1>3 DEF DataInv, DataOK

(* For every field, every number of symbols and every row limit: as long   *)
(* as no source packet arrives for the key of a matrix row, whatever the   *)
(* decoder delivers, buffers or knows of a symbol is the payload that was  *)
(* submitted, however packets are lost, duplicated or reordered.           *)
THEOREM DecoderNoCorruption == Spec => []NoCorruption
<1>1. Init => TypeInv /\ DataInv  BY InitType, InitData
<1>2. TypeInv /\ DataInv /\ [Next]_decVars => (TypeInv /\ DataInv)'
  BY TypeStep, DataStep
<1>3. TypeInv /\ DataInv => NoCorruption
  BY DEF DataInv, PayloadsOK, NoCorruption
<1>. QED  BY <1>1, <1>2, <1>3, PTL DEF Spec

----------------------------------------------------------------------------
(* What the application is told. *)

(* Finish preserves FateDecided. *)
LEMMA FinishFate ==
  ASSUME TypeInv, FateDecided, Finish
  PROVE  /\ End \in next_delivery_id..NumIds
         /\ next_delivery_id' = IF encoder_win_min > End THEN encoder_win_min ELSE End
         /\ next_delivery_id' \in End..NumIds
         /\ \A i \in SrcIds : next_delivery_id <= i /\ i < End =>
              delivered'[i] # Absent /\ i \notin skipped'
         /\ \A i \in SrcIds : End <= i /\ i < next_delivery_id' =>
              delivered'[i] = Absent /\ i \in skipped'
         /\ \A i \in SrcIds : i < next_delivery_id \/ next_delivery_id' <= i =>
              delivered'[i] = delivered[i] /\ (i \in skipped' <=> i \in skipped)
         /\ \A i \in SrcIds : buffer'[i] # Absent => i >= next_delivery_id'
<1>1. /\ next_delivery_id \in 0..NumIds /\ encoder_win_min \in 0..NumIds
      /\ skipped \subseteq SrcIds
  BY DEF TypeInv, TypeOK
<1>2. /\ End \in next_delivery_id..NumIds
      /\ \A i \in next_delivery_id..(End-1) : i \in SrcIds /\ Filled[i] # Absent
  BY FilledType DEF TypeInv
<1>3. next_delivery_id' = IF encoder_win_min > End THEN encoder_win_min ELSE End
  BY FinishForm
<1>4. next_delivery_id' \in End..NumIds
  BY <1>1, <1>2, <1>3, NumIdsAssumption
<1>5. \A i \in SrcIds : delivered'[i] = IF i \in next_delivery_id..(End-1)
                                          THEN Filled[i] ELSE delivered[i]
  BY FinishForm
<1>6. \A i \in SrcIds : i \in skipped' <=>
         i \in skipped \/ (End <= i /\ i < encoder_win_min)
  <2>1. skipped' = skipped \cup (End..(encoder_win_min - 1))  BY FinishForm
  <2>. QED  BY <1>1, <1>2, <2>1, NumIdsAssumption DEF SrcIds
<1>7. \A i \in SrcIds : i >= next_delivery_id =>
         delivered[i] = Absent /\ i \notin skipped
  BY <1>1, NumIdsAssumption DEF FateDecided, SrcIds
<1>8. \A i \in SrcIds : next_delivery_id <= i /\ i < End =>
         delivered'[i] # Absent /\ i \notin skipped'
  BY <1>1, <1>2, <1>5, <1>6, <1>7, NumIdsAssumption DEF SrcIds
<1>9. \A i \in SrcIds : End <= i /\ i < next_delivery_id' =>
         delivered'[i] = Absent /\ i \in skipped'
  BY <1>1, <1>2, <1>3, <1>5, <1>6, <1>7, NumIdsAssumption DEF SrcIds
<1>10. \A i \in SrcIds : i < next_delivery_id \/ next_delivery_id' <= i =>
          delivered'[i] = delivered[i] /\ (i \in skipped' <=> i \in skipped)
  BY <1>1, <1>2, <1>3, <1>5, <1>6, NumIdsAssumption DEF SrcIds
<1>11. \A i \in SrcIds : Filled[i] # Absent => i >= next_delivery_id
  <2>. SUFFICES ASSUME NEW i \in SrcIds, Filled[i] # Absent, ~(i >= next_delivery_id)
                PROVE FALSE
    OBVIOUS
  <2>1. Filled[i] = buffer[i]  BY DEF Filled, BufferInsert
  <2>. QED  BY <2>1 DEF FateDecided, Keys
<1>12. \A i \in SrcIds : Kept[i] # Absent => i >= End
  BY <1>1, <1>2, <1>11, NumIdsAssumption DEF Kept, SrcIds
<1>13. \A i \in SrcIds : buffer'[i] # Absent => i >= next_delivery_id'
  <2>1. CASE encoder_win_min > End
    <3>1. buffer' = PruneBelow(Kept, encoder_win_min) /\ next_delivery_id' = encoder_win_min
      BY <2>1, FinishForm
    <3>2. \A i \in SrcIds : buffer'[i] # Absent => ~(i < encoder_win_min)
      BY <3>1 DEF PruneBelow
    <3>. QED  BY <3>1, <3>2, <1>1, NumIdsAssumption DEF SrcIds
  <2>2. CASE ~(encoder_win_min > End)
    BY <2>2, <1>12, FinishForm
  <2>. QED  BY <2>1, <2>2
<1>. QED  BY <1>2, <1>3, <1>4, <1>8, <1>9, <1>10, <1>13

(* Every step preserves FateDecided. *)
LEMMA FateStep == TypeInv /\ FateDecided /\ [Next]_decVars => FateDecided'
<1>. SUFFICES ASSUME TypeInv, FateDecided, [Next]_decVars PROVE FateDecided'  OBVIOUS
<1>1. CASE \E id \in SrcIds : HandleSource(id, Unit(id))
  <2>1. PICK id \in SrcIds : HandleSource(id, Unit(id))  BY <1>1
  <2>2. UNCHANGED <<delivered, skipped, next_delivery_id>>
    BY <2>1 DEF HandleSource, emitted
  <2>3. \A i \in SrcIds : buffer'[i] # Absent => i >= next_delivery_id
    BY <2>1 DEF HandleSource, BufferInsert, OrInsert, FateDecided, Keys, TypeInv, TypeOK
  <2>. QED  BY <2>2, <2>3 DEF FateDecided, Keys
<1>2. CASE Finish
  <2>1. next_delivery_id \in 0..NumIds /\ skipped' \subseteq SrcIds
    BY <1>2, FinishType DEF TypeInv, TypeOK
  <2>2. \A i \in SrcIds : i < next_delivery_id' <=> (delivered'[i] # Absent \/ i \in skipped')
    BY <1>2, <2>1, FinishFate, NumIdsAssumption DEF FateDecided, SrcIds
  <2>3. \A i \in SrcIds : i \in skipped' => delivered'[i] = Absent
    BY <1>2, <2>1, FinishFate, NumIdsAssumption DEF FateDecided, SrcIds
  <2>4. \A i \in SrcIds : buffer'[i] # Absent => i >= next_delivery_id'
    BY <1>2, FinishFate
  <2>. QED  BY <2>1, <2>2, <2>3, <2>4 DEF FateDecided, Keys
<1>3. CASE UNCHANGED <<delivered, skipped, buffer, next_delivery_id>>
  BY <1>3 DEF FateDecided, Keys
<1>. QED
  BY <1>1, <1>2, <1>3
  DEF Next, Step, HandleCoded, SubstituteKnown, EliminateRow, HarvestRow,
      StartElimination, InsertRow, Rescan, Cascade, decVars, stored, emitted

(* At the start nothing is decided. *)
LEMMA FateInit == Init => FateDecided
BY NumIdsAssumption DEF Init, FateDecided, EmptyMap, Keys, SrcIds

(* Through any mix of drains, recoveries and gaps, each symbol below the   *)
(* delivery pointer was handed out or declared missing, never both, and    *)
(* the buffer holds only symbols that are still to come.                   *)
THEOREM DecoderFateDecided == Spec => []FateDecided
<1>1. Init => TypeInv /\ FateDecided  BY InitType, FateInit
<1>2. TypeInv /\ FateDecided /\ [Next]_decVars => (TypeInv /\ FateDecided)'
  BY TypeStep, FateStep
<1>. QED  BY <1>1, <1>2, PTL DEF Spec

(* The decoder implements Delivery: Finish is one Advance, every other     *)
(* step is invisible to the application.                                   *)
THEOREM DecoderImplementsDelivery == Spec => ImplementsDelivery
<1>1. Init => App!Init
  BY DEF Init, App!Init, Fate, EmptyMap, SrcIds
<1>2. TypeInv /\ FateDecided /\ [Next]_decVars =>
        [App!Next]_<<[i \in SrcIds |-> Fate(i)], next_delivery_id>>
  <2>. SUFFICES ASSUME TypeInv, FateDecided, [Next]_decVars
                PROVE  [App!Next]_<<[i \in SrcIds |-> Fate(i)], next_delivery_id>>
    OBVIOUS
  <2>1. CASE Finish
    <3>1. next_delivery_id \in 0..NumIds  BY DEF TypeInv, TypeOK
    <3>2. \A i \in SrcIds : Fate(i)' =
            IF next_delivery_id <= i /\ i < End THEN "ready"
            ELSE IF End <= i /\ i < next_delivery_id' THEN "missing"
            ELSE Fate(i)
      BY <2>1, <3>1, FinishFate, NumIdsAssumption DEF Fate, SrcIds
    <3>3. [i \in SrcIds |-> Fate(i)]' =
            [i \in 0..(NumIds - 1) |->
               IF next_delivery_id <= i /\ i < End THEN "ready"
               ELSE IF End <= i /\ i < next_delivery_id' THEN "missing"
               ELSE [j \in SrcIds |-> Fate(j)][i]]
      BY <3>2 DEF SrcIds
    <3>4. /\ End \in 0..NumIds /\ next_delivery_id' \in 0..NumIds
          /\ next_delivery_id <= End /\ End <= next_delivery_id'
      BY <2>1, <3>1, FinishFate, NumIdsAssumption
    <3>5. App!Advance(End, next_delivery_id')
      BY <3>3, <3>4 DEF App!Advance
    <3>. QED  BY <3>4, <3>5 DEF App!Next
  <2>2. CASE UNCHANGED <<delivered, skipped, next_delivery_id>>
    BY <2>2 DEF Fate
  <2>. QED
    BY <2>1, <2>2
    DEF Next, Step, HandleSource, HandleCoded, SubstituteKnown, EliminateRow, HarvestRow,
        StartElimination, InsertRow, Rescan, Cascade, decVars, stored, emitted
<1>3. Init => TypeInv /\ FateDecided  BY InitType, FateInit
<1>4. TypeInv /\ FateDecided /\ [Next]_decVars => (TypeInv /\ FateDecided)'
  BY TypeStep, FateStep
<1>. QED  BY <1>1, <1>2, <1>3, <1>4, PTL DEF Spec, ImplementsDelivery, App!Spec

----------------------------------------------------------------------------
(* The symbols that the matrix or the row under construction speak of.     *)
(* Elimination and substitution combine rows and name no symbol anew.      *)
Mentions(i) == \/ cur.coefs[i] # Zero
               \/ \E k \in Keys(rows) : rows[k].coefs[i] # Zero

(* Substituting a known symbol names no symbol anew. *)
LEMMA SubstituteMentions ==
  ASSUME NEW row \in MatrixRows, NEW id \in SrcIds, NEW data, NEW i \in SrcIds,
         Substitute(row, id, data).coefs[i] # Zero
  PROVE  row.coefs[i] # Zero
BY DEF Substitute, MatrixRows, Vectors

(* Subtracting a row names the symbols of the two rows. *)
LEMMA SubtractMentions ==
  ASSUME NEW row \in MatrixRows, NEW other \in MatrixRows, NEW c \in F, NEW i \in SrcIds,
         subtract_scaled(row, other, c).coefs[i] # Zero
  PROVE  row.coefs[i] # Zero \/ other.coefs[i] # Zero
<1>1. subtract_scaled(row, other, c).coefs[i] = FAdd(row.coefs[i], FMul(c, other.coefs[i]))
  BY SubtractData
<1>. QED  BY <1>1, FieldAssumption

(* The insertion of a row, which is eliminated from the others. *)
LEMMA InsertRowMentions ==
  ASSUME TypeInv, InsertRow, NEW i \in SrcIds, Mentions(i)'
  PROVE  Mentions(i)
<1>1. CASE is_zero(cur.coefs)
  BY <1>1 DEF InsertRow, Mentions, Keys
<1>2. CASE ~is_zero(cur.coefs)
  <2>. DEFINE row == normalize(cur)
              p == pivot_id(row.coefs)
              back == back_substitute(rows, p, row)
  <2>1. cur \in MatrixRows /\ Support(cur.coefs) # {}
    BY <1>2 DEF TypeInv, TypeOK, is_zero
  <2>2. /\ row \in MatrixRows /\ row.coefs[pivot_id(cur.coefs)] = One
        /\ row.coefs[i] # Zero => cur.coefs[i] # Zero
    BY <2>1, NormalizeType
  <2>3. pivot_id(cur.coefs) \in SrcIds
    BY <2>1, PivotIsFirst DEF MatrixRows
  <2>4. Support(row.coefs) # {}
    BY <2>2, <2>3, FieldAssumption DEF Support
  <2>5. p \in SrcIds
    BY <2>2, <2>4, PivotIsFirst DEF MatrixRows
  <2>6. rows' = [MakeRoom(back) EXCEPT ![p] = row] /\ cur' = cur
    BY <1>2 DEF InsertRow
  <2>. HIDE DEF row, p
  <2>7. back \in [SrcIds -> MatrixRows \cup {Absent}]
    BY <2>2, <2>5, BackSubstituteType DEF TypeInv
  <2>8. \A k \in SrcIds : /\ back[k] # Absent => rows[k] # Absent
                          /\ back[k] # Absent /\ back[k].coefs[i] # Zero =>
                               rows[k].coefs[i] # Zero \/ row.coefs[i] # Zero
    <3>. SUFFICES ASSUME NEW k \in SrcIds, back[k] # Absent
                  PROVE  /\ rows[k] # Absent
                         /\ back[k].coefs[i] # Zero =>
                              rows[k].coefs[i] # Zero \/ row.coefs[i] # Zero
      OBVIOUS
    <3>1. rows[k] # Absent  BY DEF back_substitute
    <3>2. rows[k] \in MatrixRows /\ rows[k].coefs[p] \in F
      BY <3>1, <2>5 DEF TypeInv, TypeOK, MatrixRows, Vectors
    <3>3. back[k] \in {rows[k], subtract_scaled(rows[k], row, rows[k].coefs[p])}
      BY DEF back_substitute
    <3>. QED  BY <2>2, <3>1, <3>2, <3>3, SubtractMentions
  <2>. HIDE DEF back
  <2>9. \A k \in SrcIds : MakeRoom(back)[k] # Absent => MakeRoom(back)[k] = back[k]
    BY <2>7 DEF MakeRoom
  <2>10. MakeRoom(back) \in [SrcIds -> MatrixRows \cup {Absent}]
    BY <2>7 DEF MakeRoom
  <2>11. \A k \in SrcIds : rows'[k] = IF k = p THEN row ELSE MakeRoom(back)[k]
    BY <2>6, <2>10
  <2>12. CASE cur.coefs[i] # Zero
    BY <2>12 DEF Mentions
  <2>13. CASE cur.coefs[i] = Zero
    <3>1. PICK k \in SrcIds : rows'[k] # Absent /\ rows'[k].coefs[i] # Zero
      BY <2>6, <2>13 DEF Mentions, Keys
    <3>2. k # p /\ row.coefs[i] = Zero  BY <2>2, <2>11, <2>13, <3>1
    <3>3. back[k] # Absent /\ back[k].coefs[i] # Zero  BY <2>9, <2>11, <3>1, <3>2
    <3>. QED  BY <2>8, <3>2, <3>3 DEF Mentions, Keys
  <2>. QED  BY <2>12, <2>13
<1>. QED  BY <1>1, <1>2

(* No step of a call mentions a symbol that was not mentioned before it. *)
LEMMA MentionStep ==
  ASSUME TypeInv, Step, NEW i \in SrcIds, Mentions(i)'
  PROVE  Mentions(i)
<1>1. ASSUME NEW k \in SrcIds, SubstituteKnown(k)
      PROVE  Mentions(i)
  <2>1. cur' = Substitute(cur, k, known[k]) /\ rows' = rows  BY <1>1 DEF SubstituteKnown
  <2>2. cur \in MatrixRows  BY DEF TypeInv, TypeOK
  <2>. QED  BY <2>1, <2>2, SubstituteMentions DEF Mentions, Keys
<1>2. ASSUME NEW k \in SrcIds, EliminateRow(k)
      PROVE  Mentions(i)
  <2>1. k \in Keys(rows)  BY <1>2 DEF TypeInv, LoopOK, EliminateRow, IsFirst
  <2>2. cur \in MatrixRows /\ rows[k] \in MatrixRows /\ cur.coefs[k] \in F
    BY <2>1 DEF TypeInv, TypeOK, Keys, MatrixRows, Vectors
  <2>3. cur' \in {cur, subtract_scaled(cur, rows[k], cur.coefs[k])} /\ rows' = rows
    BY <1>2 DEF EliminateRow
  <2>. QED  BY <2>1, <2>2, <2>3, SubtractMentions DEF Mentions, Keys
<1>3. ASSUME NEW k \in SrcIds, HarvestRow(k)
      PROVE  Mentions(i)
  BY <1>3 DEF HarvestRow, Mentions, Keys, TypeInv, TypeOK
<1>4. CASE StartElimination \/ Rescan
  BY <1>4 DEF StartElimination, Rescan, Mentions, Keys
<1>5. CASE InsertRow
  BY <1>5, InsertRowMentions
<1>6. CASE Finish
  <2>1. rows' = rows /\ cur' = NoRow  BY <1>6 DEF Finish
  <2>. QED  BY <2>1 DEF Mentions, Keys, NoRow
<1>7. ASSUME NEW q \in queue, Cascade(q)
      PROVE  Mentions(i)
  <2>1. /\ rows' = [k \in SrcIds |-> IF k \in Hit(q) THEN Absent ELSE After(q)[k]]
        /\ cur' = cur
    BY <1>7, CascadeForm
  <2>2. q.id \in SrcIds  BY DEF TypeInv, TypeOK
  <2>3. ASSUME NEW k \in SrcIds, rows'[k] # Absent, rows'[k].coefs[i] # Zero
        PROVE  rows[k] # Absent /\ rows[k].coefs[i] # Zero
    <3>1. rows'[k] = After(q)[k]  BY <2>1, <2>3
    <3>2. rows[k] # Absent /\ rows'[k] = Substitute(rows[k], q.id, q.data)
      BY <2>3, <3>1 DEF After
    <3>3. rows[k] \in MatrixRows  BY <3>2 DEF TypeInv, TypeOK
    <3>. QED  BY <2>2, <2>3, <3>2, <3>3, SubstituteMentions
  <2>. QED  BY <2>1, <2>3 DEF Mentions, Keys
<1>. QED  BY <1>1, <1>2, <1>3, <1>4, <1>5, <1>6, <1>7 DEF Step
=============================================================================

------------------------ MODULE DecoderMatrix_proofs ------------------------
(***************************************************************************)
(* Proofs about the form of the decoding matrix: its size, reduced row-    *)
(* echelon form in every order of arrival (late source packets included),  *)
(* that nothing it determines is left in it, and that no equation the      *)
(* decoder has been given is lost.                                         *)
(***************************************************************************)
EXTENDS Decoder_proofs

(* The symbols the decoder has, or has just recovered. *)
Held == Keys(known) \cup Keys(recovered)

(* The symbols that are still to be substituted into the rows. *)
Queued == {q.id : q \in queue}

(* A row mentions no key of another row, and of the symbols the decoder    *)
(* holds only those that are queued.  At its own key it has one, or zero   *)
(* once a source packet has arrived for the key.                           *)
RowsReduced ==
  \A j \in Keys(rows) :
    /\ rows[j].coefs[j] = One \/ (rows[j].coefs[j] = Zero /\ j \in Keys(known))
    /\ \A k \in SrcIds : rows[j].coefs[k] # Zero =>
         /\ k = j \/ k \notin Keys(rows)
         /\ k \in Held => k \in Queued

(* Only a source packet can be queued for the key of a row. *)
QueueHeld == \A q \in queue : /\ q.id \in Held
                              /\ q.id \in Keys(rows) => q.id \in Keys(known)

(* The loops of add_coded clear the known symbols, then the keys, from the *)
(* new row; recovery starts after them.                                    *)
CurReduced ==
  /\ pc = "substitute" => \A k \in Keys(known) \ todo : cur.coefs[k] = Zero
  /\ pc = "eliminate" => /\ \A k \in Keys(known) : cur.coefs[k] = Zero
                         /\ \A k \in Keys(rows) \ todo : cur.coefs[k] = Zero
  /\ pc \in {"idle", "substitute", "eliminate"} => recovered = EmptyMap

ReducedInv == RowsReduced /\ QueueHeld /\ CurReduced

----------------------------------------------------------------------------
(* The row limit. *)

(* Every set of identifiers is finite. *)
LEMMA KeysFinite ==
  ASSUME NEW S, S \subseteq SrcIds
  PROVE  IsFiniteSet(S) /\ Cardinality(S) \in Nat
<1>1. IsFiniteSet(SrcIds)  BY FS_Interval, NumIdsAssumption DEF SrcIds
<1>. QED  BY <1>1, FS_Subset, FS_CardinalityType

(* Clearing a pivot from the rows neither adds nor removes one. *)
LEMMA BackSubstituteKeys ==
  ASSUME TypeOK, NEW pivot \in SrcIds, NEW row \in MatrixRows
  PROVE  Keys(back_substitute(rows, pivot, row)) = Keys(rows)
<1>. SUFFICES ASSUME NEW k \in SrcIds
              PROVE  back_substitute(rows, pivot, row)[k] = Absent <=> rows[k] = Absent
  BY DEF Keys
<1>1. CASE rows[k] = Absent  BY <1>1 DEF back_substitute
<1>2. CASE rows[k] # Absent
  <2>1. rows[k] \in MatrixRows /\ rows[k].coefs[pivot] \in F
    BY <1>2 DEF TypeOK, MatrixRows, Vectors
  <2>2. subtract_scaled(rows[k], row, rows[k].coefs[pivot]) # Absent
    BY <2>1, SubtractType, AbsentAssumption
  <2>. QED  BY <1>2, <2>2 DEF back_substitute
<1>. QED  BY <1>1, <1>2

(* The pivot of the row that InsertRow adds. *)
NewRow == normalize(cur)
NewPivot == pivot_id(NewRow.coefs)

(* The row that InsertRow adds: scaling keeps the pivot where it was. *)
LEMMA NewRowForm ==
  ASSUME TypeOK, ~is_zero(cur.coefs)
  PROVE  /\ NewRow \in MatrixRows /\ NewPivot \in SrcIds
         /\ NewRow.coefs[NewPivot] = One /\ cur.coefs[NewPivot] # Zero
         /\ \A i \in SrcIds : cur.coefs[i] = Zero => NewRow.coefs[i] = Zero
<1>1. cur \in MatrixRows /\ Support(cur.coefs) # {} /\ cur.coefs \in Vectors
  BY DEF TypeOK, is_zero, MatrixRows
<1>2. /\ NewRow \in MatrixRows /\ NewRow.coefs \in Vectors
      /\ NewRow.coefs[pivot_id(cur.coefs)] = One
      /\ \A i \in SrcIds : cur.coefs[i] = Zero => NewRow.coefs[i] = Zero
  BY <1>1, NormalizeType DEF NewRow, MatrixRows
<1>3. /\ pivot_id(cur.coefs) \in SrcIds /\ pivot_id(cur.coefs) \in Support(cur.coefs)
      /\ \A j \in Support(cur.coefs) : pivot_id(cur.coefs) <= j
  BY <1>1, PivotIsFirst
<1>4. pivot_id(cur.coefs) \in Support(NewRow.coefs)
  BY <1>2, <1>3, FieldAssumption DEF Support
<1>5. /\ NewPivot \in Support(NewRow.coefs) /\ NewPivot \in SrcIds
      /\ \A j \in Support(NewRow.coefs) : NewPivot <= j
  BY <1>2, <1>4, PivotIsFirst DEF NewPivot
<1>6. NewPivot \in Support(cur.coefs)  BY <1>2, <1>5 DEF Support
<1>7. NewPivot <= pivot_id(cur.coefs) /\ pivot_id(cur.coefs) <= NewPivot
  BY <1>3, <1>4, <1>5, <1>6
<1>8. NewPivot = pivot_id(cur.coefs)  BY <1>3, <1>5, <1>7 DEF SrcIds
<1>. QED  BY <1>2, <1>3, <1>5, <1>8 DEF Support

(* The rows after InsertRow: the new one, and those that were there, with  *)
(* the pivot cleared, but for the one that may have made room.             *)
LEMMA InsertRowForm ==
  ASSUME TypeOK, InsertRow, ~is_zero(cur.coefs)
  PROVE  LET B == back_substitute(rows, NewPivot, NewRow)
         IN  /\ pc' = "harvest"
             /\ B \in [SrcIds -> MatrixRows \cup {Absent}]
             /\ Keys(B) = Keys(rows)
             /\ rows' = [MakeRoom(B) EXCEPT ![NewPivot] = NewRow]
             /\ rows'[NewPivot] = NewRow
             /\ Keys(rows)' = Keys(MakeRoom(B)) \cup {NewPivot}
             /\ Keys(MakeRoom(B)) \subseteq Keys(rows)
             /\ \A k \in Keys(rows)' : k # NewPivot => k \in Keys(rows) /\ rows'[k] = B[k]
<1>. DEFINE B == back_substitute(rows, NewPivot, NewRow)
<1>1. NewRow \in MatrixRows /\ NewPivot \in SrcIds  BY NewRowForm
<1>2. B \in [SrcIds -> MatrixRows \cup {Absent}] /\ Keys(B) = Keys(rows)
  BY <1>1, BackSubstituteType, BackSubstituteKeys
<1>3. rows' = [MakeRoom(B) EXCEPT ![NewPivot] = NewRow] /\ pc' = "harvest"
  BY DEF InsertRow, NewRow, NewPivot
<1>. HIDE DEF B
<1>4. /\ MakeRoom(B) \in [SrcIds -> MatrixRows \cup {Absent}]
      /\ \A k \in SrcIds : MakeRoom(B)[k] \in {B[k], Absent}
  BY <1>2 DEF MakeRoom
<1>5. NewRow # Absent  BY <1>1, AbsentAssumption
<1>6. Keys(rows)' = Keys(MakeRoom(B)) \cup {NewPivot} /\ rows'[NewPivot] = NewRow
  BY <1>1, <1>3, <1>4, <1>5 DEF Keys
<1>7. Keys(MakeRoom(B)) \subseteq Keys(rows)  BY <1>2, <1>4 DEF Keys
<1>8. \A k \in Keys(rows)' : k # NewPivot => k \in Keys(rows) /\ rows'[k] = B[k]
  BY <1>2, <1>3, <1>4 DEF Keys
<1>. QED  BY <1>2, <1>3, <1>6, <1>7, <1>8 DEF B

(* Apart from InsertRow no step adds a row. *)
LEMMA NoOtherRow ==
  ASSUME TypeInv, [Next]_decVars
  PROVE  (InsertRow /\ ~is_zero(cur.coefs)) \/ Keys(rows)' \subseteq Keys(rows)
<1>1. CASE InsertRow /\ is_zero(cur.coefs)
  BY <1>1 DEF InsertRow, Keys
<1>2. CASE \E k \in SrcIds : HarvestRow(k)
  BY <1>2 DEF HarvestRow, Keys, TypeInv, TypeOK
<1>3. CASE \E q \in queue : Cascade(q)
  <2>1. PICK q \in queue : Cascade(q)  BY <1>3
  <2>2. Keys(After(q)) = Keys(rows)  BY AfterType DEF TypeInv
  <2>. QED  BY <2>1, <2>2, CascadeForm DEF Keys
<1>4. CASE UNCHANGED rows  BY <1>4 DEF Keys
<1>. QED
  BY <1>1, <1>2, <1>3, <1>4
  DEF Next, Step, HandleSource, HandleCoded, SubstituteKnown, EliminateRow,
      StartElimination, Rescan, Finish, decVars, matrix

(* For every limit: a full matrix gives up a row before it takes another,  *)
(* so it never holds more than max_matrix_rows (one when that is zero).    *)
THEOREM DecoderRowsBounded == Spec => []RowsBounded
<1>1. Init => RowsBounded
  <2>. SUFFICES ASSUME Init PROVE RowsBounded  OBVIOUS
  <2>1. Keys(rows) = {}  BY DEF Init, EmptyMap, Keys
  <2>. QED  BY <2>1, FS_EmptySet, DecoderAssumption DEF RowsBounded
<1>2. TypeInv /\ RowsBounded /\ [Next]_decVars => RowsBounded'
  <2>. SUFFICES ASSUME TypeInv, RowsBounded, [Next]_decVars PROVE RowsBounded'  OBVIOUS
  <2>1. IsFiniteSet(Keys(rows)) /\ Cardinality(Keys(rows)) \in Nat
    BY KeysFinite DEF Keys
  <2>2. CASE Keys(rows)' \subseteq Keys(rows)
    <3>1. Cardinality(Keys(rows)') <= Cardinality(Keys(rows))  BY <2>1, <2>2, FS_Subset
    <3>2. Cardinality(Keys(rows)') \in Nat  BY KeysFinite DEF Keys
    <3>. QED  BY <2>1, <3>1, <3>2, DecoderAssumption DEF RowsBounded
  <2>3. CASE InsertRow /\ ~is_zero(cur.coefs)
    <3>. DEFINE B == back_substitute(rows, NewPivot, NewRow)
                K == Keys(MakeRoom(B))
    <3>1. /\ Keys(rows)' = K \cup {NewPivot}
          /\ K \subseteq Keys(rows) /\ Keys(B) = Keys(rows)
          /\ B \in [SrcIds -> MatrixRows \cup {Absent}]
      BY <2>3, InsertRowForm DEF TypeInv
    <3>. HIDE DEF B
    <3>2. IsFiniteSet(K) /\ Cardinality(K) \in Nat /\ Cardinality(K) <= Cardinality(Keys(rows))
      BY <2>1, <3>1, FS_Subset, FS_CardinalityType
    <3>3. Cardinality(Keys(rows)') <= Cardinality(K) + 1
      <4>. HIDE DEF K
      <4>1. Cardinality(K \cup {NewPivot}) =
              IF NewPivot \in K THEN Cardinality(K) ELSE Cardinality(K) + 1
        BY <3>2, FS_AddElement
      <4>. QED  BY <3>1, <3>2, <4>1
    <3>4. CASE Cardinality(Keys(rows)) >= MaxRows /\ Keys(rows) # {}
      <4>. DEFINE f == FirstKey(Keys(rows))
      <4>1. f \in Keys(rows)
        <5>1. Keys(rows) \subseteq Nat  BY DEF Keys, SrcIds
        <5>. QED  BY <3>4, <5>1, LeastElement DEF FirstKey
      <4>2. K = Keys(rows) \ {f}
        BY <3>1, <3>4, <4>1 DEF MakeRoom, Keys
      <4>3. Cardinality(K) = Cardinality(Keys(rows)) - 1
        BY <2>1, <4>1, <4>2, FS_RemoveElement
      <4>4. Cardinality(Keys(rows)') \in Nat  BY KeysFinite DEF Keys
      <4>. QED  BY <2>1, <3>3, <4>3, <4>4, DecoderAssumption DEF RowsBounded
    <3>5. CASE ~(Cardinality(Keys(rows)) >= MaxRows /\ Keys(rows) # {})
      <4>1. Cardinality(Keys(rows)) + 1 <= (IF MaxRows = 0 THEN 1 ELSE MaxRows)
        BY <2>1, <3>5, FS_EmptySet, DecoderAssumption
      <4>2. Cardinality(Keys(rows)') \in Nat  BY KeysFinite DEF Keys
      <4>. QED  BY <2>1, <3>2, <3>3, <4>1, <4>2, DecoderAssumption DEF RowsBounded
    <3>. QED  BY <3>4, <3>5
  <2>. QED  BY <2>2, <2>3, NoOtherRow
<1>3. Init => TypeInv  BY InitType
<1>4. TypeInv /\ [Next]_decVars => TypeInv'  BY TypeStep
<1>. QED  BY <1>1, <1>2, <1>3, <1>4, PTL DEF Spec

----------------------------------------------------------------------------
(* Reduced row-echelon form. *)

(* The empty matrix is reduced. *)
LEMMA InitReduced == Init => ReducedInv
BY DEF Init, ReducedInv, RowsReduced, QueueHeld, CurReduced, EmptyMap, Keys

(* A source packet may be for a symbol that rows mention, or for the key   *)
(* of a row: it is queued for substitution.                                *)
LEMMA HandleSourceReduced ==
  ASSUME TypeInv, ReducedInv, NEW id \in SrcIds, NEW data \in Vectors, HandleSource(id, data)
  PROVE  ReducedInv'
<1>1. /\ queue = {} /\ queue' = {[id |-> id, data |-> data]}
      /\ UNCHANGED <<rows, recovered>> /\ pc' = "cascade_source"
  BY DEF HandleSource, TypeInv, LoopOK
<1>2. Queued = {} /\ Queued' = {id}  BY <1>1 DEF Queued
<1>3. Keys(known)' = Keys(known) \cup {id}
  BY AbsentAssumption DEF HandleSource, OrInsert, Keys, TypeInv, TypeOK
<1>4. Held' = Held \cup {id}  BY <1>1, <1>3 DEF Held, Keys
<1>5. Keys(rows)' = Keys(rows)  BY <1>1 DEF Keys
<1>6. RowsReduced'
  BY <1>1, <1>2, <1>3, <1>4, <1>5 DEF ReducedInv, RowsReduced
<1>7. QueueHeld'  BY <1>1, <1>3, <1>4 DEF QueueHeld
<1>. QED  BY <1>1, <1>6, <1>7 DEF ReducedInv, CurReduced

(* An action that leaves the rows, the queue and the symbols held alone    *)
(* has only the row being added to answer for.                             *)
LEMMA FrameReduced ==
  ASSUME ReducedInv, UNCHANGED <<rows, queue, known, recovered>>, CurReduced'
  PROVE  ReducedInv'
BY DEF ReducedInv, RowsReduced, QueueHeld, Held, Queued, Keys

(* A new equation starts with every known symbol still to be substituted. *)
LEMMA HandleCodedReduced ==
  ASSUME TypeInv, ReducedInv, NEW v \in Vectors, HandleCoded(v, v)
  PROVE  ReducedInv'
<1>1. UNCHANGED <<rows, queue, known, recovered>>  BY DEF HandleCoded
<1>2. CurReduced'
  BY DEF HandleCoded, ReducedInv, CurReduced, Keys
<1>. QED  BY <1>1, <1>2, FrameReduced

(* SubstituteKnown clears one more known symbol. *)
LEMMA SubstituteKnownReduced ==
  ASSUME TypeInv, ReducedInv, NEW k \in SrcIds, SubstituteKnown(k)
  PROVE  ReducedInv'
<1>1. /\ UNCHANGED <<rows, queue, known, recovered, pc>>
      /\ pc = "substitute" /\ todo' = todo \ {k}
  BY DEF SubstituteKnown, stored
<1>2. k \in Keys(known)  BY DEF TypeInv, LoopOK, SubstituteKnown, IsFirst
<1>3. known[k] \in Vectors /\ cur \in MatrixRows  BY <1>2 DEF TypeInv, TypeOK, Keys
<1>4. \A i \in SrcIds : cur'.coefs[i] = IF i = k THEN Zero ELSE cur.coefs[i]
  BY <1>3, SubstituteData DEF SubstituteKnown
<1>5. CurReduced'
  BY <1>1, <1>4 DEF ReducedInv, CurReduced, Keys
<1>. QED  BY <1>1, <1>5, FrameReduced

(* Elimination starts with no known symbol left in the equation. *)
LEMMA StartEliminationReduced ==
  ASSUME TypeInv, ReducedInv, StartElimination
  PROVE  ReducedInv'
<1>1. UNCHANGED <<rows, queue, known, recovered>>  BY DEF StartElimination, stored
<1>2. CurReduced'
  BY DEF StartElimination, ReducedInv, CurReduced, Keys, stored
<1>. QED  BY <1>1, <1>2, FrameReduced

(* EliminateRow clears one more key and brings back none, and no known     *)
(* symbol.  A row that lost its own key is not used: its key is known, so  *)
(* it is gone from the equation.                                           *)
LEMMA EliminateRowReduced ==
  ASSUME TypeInv, ReducedInv, NEW k \in SrcIds, EliminateRow(k)
  PROVE  ReducedInv'
<1>1. /\ UNCHANGED <<rows, queue, known, recovered, pc>>
      /\ pc = "eliminate" /\ todo' = todo \ {k} /\ queue = {}
  BY DEF EliminateRow, stored, TypeInv, LoopOK
<1>2. k \in Keys(rows)  BY DEF TypeInv, LoopOK, EliminateRow, IsFirst
<1>3. rows[k] \in MatrixRows /\ cur \in MatrixRows  BY <1>2 DEF TypeInv, TypeOK, Keys
<1>4. \A i \in SrcIds : cur.coefs[i] \in F /\ rows[k].coefs[i] \in F
  BY <1>3 DEF MatrixRows, Vectors
<1>5. /\ \A j \in Keys(known) : cur.coefs[j] = Zero
      /\ \A j \in Keys(rows) \ todo : cur.coefs[j] = Zero
      /\ recovered = EmptyMap
  BY <1>1 DEF ReducedInv, CurReduced
<1>6. CASE cur.coefs[k] = Zero
  <2>1. cur' = cur  BY <1>6 DEF EliminateRow
  <2>2. CurReduced'  BY <1>1, <1>5, <1>6, <2>1 DEF CurReduced, Keys
  <2>. QED  BY <1>1, <2>2, FrameReduced
<1>7. CASE cur.coefs[k] # Zero
  <2>1. \A j \in SrcIds : cur'.coefs[j] =
                            FAdd(cur.coefs[j], FMul(cur.coefs[k], rows[k].coefs[j]))
    BY <1>3, <1>4, <1>7, SubtractData DEF EliminateRow
  <2>2. k \notin Keys(known)  BY <1>5, <1>7
  <2>3. rows[k].coefs[k] = One  BY <1>2, <2>2 DEF ReducedInv, RowsReduced
  <2>4. \A j \in Keys(known) \cup Keys(rows) : j # k => rows[k].coefs[j] = Zero
    BY <1>1, <1>2 DEF ReducedInv, RowsReduced, Held, Queued, Keys
  <2>5. cur'.coefs[k] = Zero  BY <2>1, <2>3, <1>4, FieldAssumption
  <2>6. \A j \in Keys(known) \cup Keys(rows) :
          j # k /\ cur.coefs[j] = Zero => cur'.coefs[j] = Zero
    BY <2>1, <2>4, <1>4, FieldAssumption DEF Keys
  <2>7. CurReduced'
    BY <1>1, <1>5, <2>2, <2>5, <2>6 DEF CurReduced, Keys
  <2>. QED  BY <1>1, <2>7, FrameReduced
<1>. QED  BY <1>6, <1>7

(* The new row mentions neither a key nor a known symbol, so clearing its  *)
(* pivot from the other rows brings back neither.                          *)
LEMMA InsertRowReduced ==
  ASSUME TypeInv, ReducedInv, InsertRow
  PROVE  ReducedInv'
<1>1. /\ UNCHANGED <<queue, known, recovered>>
      /\ pc = "eliminate" /\ todo = {} /\ queue = {}
  BY DEF InsertRow, stored, TypeInv, LoopOK
<1>2. CASE is_zero(cur.coefs)
  <2>1. rows' = rows /\ pc' = "finish"  BY <1>2 DEF InsertRow
  <2>. QED  BY <1>1, <2>1, FrameReduced DEF CurReduced
<1>3. CASE ~is_zero(cur.coefs)
  <2>. DEFINE B == back_substitute(rows, NewPivot, NewRow)
  <2>1. /\ NewRow \in MatrixRows /\ NewPivot \in SrcIds
        /\ NewRow.coefs[NewPivot] = One /\ cur.coefs[NewPivot] # Zero
        /\ \A i \in SrcIds : cur.coefs[i] = Zero => NewRow.coefs[i] = Zero
    BY <1>3, NewRowForm DEF TypeInv
  <2>2. /\ pc' = "harvest"
        /\ rows'[NewPivot] = NewRow
        /\ Keys(rows)' \subseteq Keys(rows) \cup {NewPivot}
        /\ \A k \in Keys(rows)' : k # NewPivot => k \in Keys(rows) /\ rows'[k] = B[k]
    BY <1>3, InsertRowForm DEF TypeInv
  <2>3. \A j \in Keys(rows) \cup Keys(known) : NewRow.coefs[j] = Zero
    BY <1>1, <2>1 DEF ReducedInv, CurReduced, Keys
  <2>4. NewPivot \notin Keys(rows) \cup Keys(known)
    BY <2>1, <2>3, FieldAssumption
  <2>5. Held' = Keys(known) /\ Held = Keys(known) /\ Queued = {} /\ Keys(known)' = Keys(known)
    BY <1>1 DEF ReducedInv, CurReduced, Held, Queued, Keys, EmptyMap
  <2>6. ASSUME NEW k \in Keys(rows)
        PROVE  /\ B[k].coefs[NewPivot] = Zero
               /\ \A j \in Keys(rows) \cup Keys(known) : B[k].coefs[j] = rows[k].coefs[j]
    <3>1. k \in SrcIds /\ rows[k] # Absent /\ rows[k] \in MatrixRows
      BY DEF Keys, TypeInv, TypeOK
    <3>2. \A i \in SrcIds : rows[k].coefs[i] \in F  BY <3>1 DEF MatrixRows, Vectors
    <3>3. CASE rows[k].coefs[NewPivot] = Zero
      BY <3>1, <3>3 DEF back_substitute
    <3>4. CASE rows[k].coefs[NewPivot] # Zero
      <4>. DEFINE c == rows[k].coefs[NewPivot]
      <4>1. c \in F  BY <2>1, <3>2
      <4>2. B[k] = subtract_scaled(rows[k], NewRow, c)
        BY <3>1, <3>4 DEF back_substitute
      <4>3. \A j \in SrcIds : B[k].coefs[j] = FAdd(rows[k].coefs[j], FMul(c, NewRow.coefs[j]))
        BY <2>1, <3>1, <4>1, <4>2, SubtractData
      <4>4. B[k].coefs[NewPivot] = Zero
        BY <2>1, <4>1, <4>3, FieldAssumption
      <4>5. \A j \in Keys(rows) \cup Keys(known) : B[k].coefs[j] = rows[k].coefs[j]
        <5>. TAKE j \in Keys(rows) \cup Keys(known)
        <5>1. j \in SrcIds /\ rows[k].coefs[j] \in F  BY <3>2 DEF Keys
        <5>. QED  BY <2>3, <4>1, <4>3, <5>1, FieldAssumption
      <4>. QED  BY <4>4, <4>5
    <3>. QED  BY <3>3, <3>4
  <2>. HIDE DEF B
  <2>7. ASSUME NEW j \in Keys(rows)'
        PROVE  /\ rows'[j].coefs[j] = One \/ (rows'[j].coefs[j] = Zero /\ j \in Keys(known)')
               /\ \A k \in SrcIds : rows'[j].coefs[k] # Zero =>
                    /\ k = j \/ k \notin Keys(rows)'
                    /\ k \notin Held'
    <3>1. CASE j = NewPivot
      BY <2>1, <2>2, <2>3, <2>5, <3>1
    <3>2. CASE j # NewPivot
      <4>1. j \in Keys(rows) /\ rows'[j] = B[j]  BY <2>2, <3>2
      <4>2. /\ rows[j].coefs[j] = One \/ (rows[j].coefs[j] = Zero /\ j \in Keys(known))
            /\ \A k \in SrcIds : rows[j].coefs[k] # Zero =>
                 (k = j \/ k \notin Keys(rows)) /\ k \notin Keys(known)
        BY <2>5, <4>1 DEF ReducedInv, RowsReduced
      <4>. QED  BY <2>2, <2>5, <2>6, <4>1, <4>2
    <3>. QED  BY <3>1, <3>2
  <2>8. RowsReduced'  BY <2>7 DEF RowsReduced
  <2>9. QueueHeld' /\ CurReduced'
    BY <1>1, <2>2 DEF QueueHeld, CurReduced
  <2>. QED  BY <2>8, <2>9 DEF ReducedInv
<1>. QED  BY <1>2, <1>3

(* A row that leaves the matrix solved is solved for its own key or for a  *)
(* symbol that is no key; its symbol is queued as it becomes held.         *)
LEMMA HarvestRowReduced ==
  ASSUME TypeInv, ReducedInv, NEW k \in SrcIds, HarvestRow(k)
  PROVE  ReducedInv'
<1>1. /\ rows' = [rows EXCEPT ![k] = Absent] /\ known' = known
      /\ pc = "harvest" /\ pc' \in {"harvest", "cascade_coded"} /\ queue = {}
  BY DEF HarvestRow, stored, TypeInv, LoopOK
<1>2. Keys(rows)' = Keys(rows) \ {k} /\ \A j \in Keys(rows)' : rows'[j] = rows[j]
  BY <1>1 DEF TypeInv, TypeOK, Keys
<1>3. CurReduced'  BY <1>1 DEF CurReduced
<1>4. Queued = {} /\ Keys(known)' = Keys(known)  BY <1>1 DEF Queued, Keys
<1>5. CASE rows[k] # Absent /\ is_solved(rows[k].coefs)
  <2>. DEFINE id == SolvedId(rows[k].coefs)
  <2>1. k \in Keys(rows) /\ rows[k] \in MatrixRows
    BY <1>5 DEF Keys, TypeInv, TypeOK
  <2>2. id \in SrcIds /\ Support(rows[k].coefs) = {id}
    BY <1>5, <2>1, SolvedIdOnly DEF MatrixRows
  <2>3. id \notin Keys(rows)'
    <3>1. rows[k].coefs[id] # Zero  BY <2>2 DEF Support
    <3>. QED  BY <1>2, <2>1, <2>2, <3>1 DEF ReducedInv, RowsReduced
  <2>4. /\ recovered' = OrInsert(recovered, id, rows[k].payload)
        /\ queue' = {[id |-> id, data |-> rows[k].payload]}
    BY <1>5 DEF HarvestRow
  <2>5. rows[k].payload # Absent  BY <2>1, AbsentAssumption DEF MatrixRows
  <2>. HIDE DEF id
  <2>6. Keys(recovered)' = Keys(recovered) \cup {id}
    BY <2>2, <2>4, <2>5 DEF OrInsert, Keys, TypeInv, TypeOK
  <2>7. Held' = Held \cup {id} /\ Queued' = {id}
    BY <1>4, <2>4, <2>6 DEF Held, Queued
  <2>8. RowsReduced'
    BY <1>2, <1>4, <2>7 DEF ReducedInv, RowsReduced
  <2>9. QueueHeld'  BY <2>3, <2>4, <2>7 DEF QueueHeld
  <2>. QED  BY <1>3, <2>8, <2>9 DEF ReducedInv
<1>6. CASE ~(rows[k] # Absent /\ is_solved(rows[k].coefs))
  <2>1. UNCHANGED <<recovered, queue>>  BY <1>6 DEF HarvestRow
  <2>2. Held' = Held /\ Queued' = {}  BY <1>1, <1>4, <2>1 DEF Held, Queued, Keys
  <2>3. RowsReduced'
    BY <1>2, <1>4, <2>2 DEF ReducedInv, RowsReduced
  <2>4. QueueHeld'  BY <1>1, <2>1 DEF QueueHeld
  <2>. QED  BY <1>3, <2>3, <2>4 DEF ReducedInv
<1>. QED  BY <1>5, <1>6

(* Rescan only reads the rows. *)
LEMMA RescanReduced ==
  ASSUME TypeInv, ReducedInv, Rescan
  PROVE  ReducedInv'
<1>1. UNCHANGED <<rows, queue, known, recovered>> /\ pc' \in {"harvest", "finish"}
  BY DEF Rescan, stored
<1>. QED  BY <1>1, FrameReduced DEF CurReduced

(* A substitution of the cascade clears the symbol it takes off the queue. *)
(* A symbol it recovers was the key of a row: no other row mentions it,    *)
(* and its own row leaves the matrix.                                      *)
LEMMA CascadeReduced ==
  ASSUME TypeInv, ReducedInv, NEW q, Cascade(q)
  PROVE  ReducedInv'
<1>. DEFINE S == After(q)
<1>1. q \in queue /\ q.id \in SrcIds /\ q.data \in Vectors
  BY CascadeForm DEF TypeInv, TypeOK
<1>2. /\ S \in [SrcIds -> MatrixRows \cup {Absent}]
      /\ Keys(S) = Keys(rows)
      /\ Hit(q) \subseteq Keys(rows)
  BY <1>1, AfterType DEF TypeInv
<1>3. Keys(rows)' = Keys(rows) \ Hit(q) /\ \A k \in Keys(rows)' : rows'[k] = S[k]
  BY <1>2, CascadeForm DEF Keys
<1>4. ASSUME NEW k \in Keys(rows)
      PROVE  \A j \in SrcIds : S[k].coefs[j] = IF j = q.id THEN Zero ELSE rows[k].coefs[j]
  <2>1. k \in SrcIds /\ rows[k] \in MatrixRows /\ S[k] = Substitute(rows[k], q.id, q.data)
    BY DEF Keys, TypeInv, TypeOK, After
  <2>. QED  BY <1>1, <2>1, SubstituteData
<1>5. \A i \in Hit(q) : S[i].payload # Absent
  BY <1>2, AbsentAssumption DEF Keys, MatrixRows
<1>6. Keys(known)' = Keys(known) /\ Keys(recovered)' = Keys(recovered) \cup Hit(q)
  BY <1>2, <1>5, CascadeForm DEF Keys, stored
<1>7. Held' = Held \cup Hit(q)  BY <1>6 DEF Held
<1>8. queue \ {q} \subseteq queue'  BY CascadeForm
<1>9. \A i \in Queued : i = q.id \/ i \in Queued'  BY <1>8 DEF Queued
<1>. HIDE DEF S
<1>10. RowsReduced'
  <2>. SUFFICES ASSUME NEW j \in Keys(rows)'
                PROVE  /\ \/ rows'[j].coefs[j] = One
                          \/ rows'[j].coefs[j] = Zero /\ j \in Keys(known)'
                       /\ \A k \in SrcIds : rows'[j].coefs[k] # Zero =>
                            /\ k = j \/ k \notin Keys(rows)'
                            /\ k \in Held' => k \in Queued'
    BY DEF RowsReduced
  <2>1. j \in Keys(rows) /\ j \notin Hit(q) /\ j \in SrcIds /\ rows'[j] = S[j]
    BY <1>3 DEF Keys
  <2>2. rows'[j].coefs[j] = One \/ (rows'[j].coefs[j] = Zero /\ j \in Keys(known)')
    <3>1. CASE j = q.id
      BY <1>1, <1>4, <1>6, <2>1, <3>1 DEF ReducedInv, QueueHeld
    <3>2. CASE j # q.id
      BY <1>4, <1>6, <2>1, <3>2 DEF ReducedInv, RowsReduced
    <3>. QED  BY <3>1, <3>2
  <2>3. ASSUME NEW k \in SrcIds, rows'[j].coefs[k] # Zero
        PROVE  (k = j \/ k \notin Keys(rows)') /\ (k \in Held' => k \in Queued')
    <3>1. k # q.id /\ rows[j].coefs[k] # Zero  BY <1>4, <2>1, <2>3
    <3>2. (k = j \/ k \notin Keys(rows)) /\ (k \in Held => k \in Queued)
      BY <2>1, <3>1 DEF ReducedInv, RowsReduced
    <3>3. k \notin Hit(q)  BY <1>2, <2>1, <3>2
    <3>. QED  BY <1>3, <1>7, <1>9, <3>1, <3>2, <3>3
  <2>. QED  BY <2>2, <2>3
<1>11. QueueHeld'
  <2>1. \A p \in queue' : p \in queue \/ p.id \in Hit(q)  BY CascadeForm
  <2>. QED  BY <1>3, <1>6, <1>7, <2>1 DEF ReducedInv, QueueHeld
<1>12. CurReduced'  BY CascadeForm DEF CurReduced
<1>. QED  BY <1>10, <1>11, <1>12 DEF ReducedInv

(* Finish turns what was recovered into known symbols. *)
LEMMA FinishReduced ==
  ASSUME TypeInv, ReducedInv, Finish
  PROVE  ReducedInv'
<1>1. UNCHANGED <<rows, queue>> /\ recovered' = EmptyMap /\ pc' = "idle" /\ queue = {}
  BY DEF Finish, TypeInv, LoopOK
<1>2. Keys(known)' = Held /\ Held' = Held /\ Queued' = {} /\ Queued = {}
  BY <1>1, FinishForm DEF Held, Queued, Keys, EmptyMap
<1>3. RowsReduced' /\ QueueHeld'
  <2>1. Keys(known) \subseteq Held /\ Keys(rows)' = Keys(rows)  BY <1>1 DEF Held, Keys
  <2>. QED  BY <1>1, <1>2, <2>1 DEF ReducedInv, RowsReduced, QueueHeld
<1>4. CurReduced'  BY <1>1 DEF CurReduced
<1>. QED  BY <1>3, <1>4 DEF ReducedInv

(* Every step preserves ReducedInv. *)
LEMMA ReducedStep == TypeInv /\ ReducedInv /\ [Next]_decVars => ReducedInv'
<1>. SUFFICES ASSUME TypeInv, ReducedInv, [Next]_decVars PROVE ReducedInv'  OBVIOUS
<1>1. CASE \E id \in SrcIds : HandleSource(id, Unit(id))
  BY <1>1, HandleSourceReduced, UnitType
<1>2. CASE \E v \in CodedInputs : HandleCoded(v, v)
  BY <1>2, HandleCodedReduced, DecoderAssumption
<1>3. CASE \E k \in SrcIds : SubstituteKnown(k) \/ EliminateRow(k) \/ HarvestRow(k)
  BY <1>3, SubstituteKnownReduced, EliminateRowReduced, HarvestRowReduced
<1>4. CASE StartElimination \/ InsertRow \/ Rescan \/ Finish
  BY <1>4, StartEliminationReduced, InsertRowReduced, RescanReduced, FinishReduced
<1>5. CASE \E q \in queue : Cascade(q)
  BY <1>5, CascadeReduced
<1>6. CASE UNCHANGED decVars
  <2>1. UNCHANGED <<rows, queue, known, recovered, cur, todo, pc>>
    BY <1>6 DEF decVars, matrix, stored
  <2>2. CurReduced'  BY <2>1 DEF ReducedInv, CurReduced, Keys
  <2>. QED  BY <2>1, <2>2, FrameReduced
<1>. QED  BY <1>1, <1>2, <1>3, <1>4, <1>5, <1>6 DEF Next, Step

(* For every field, window and row limit, and for every order of arrival,  *)
(* source packets for the key of a row included: between calls no row      *)
(* mentions the key of another row or a symbol the decoder knows.          *)
THEOREM DecoderMatrixReduced == Spec => []MatrixReduced
<1>1. Init => TypeInv /\ ReducedInv  BY InitType, InitReduced
<1>2. TypeInv /\ ReducedInv /\ [Next]_decVars => (TypeInv /\ ReducedInv)'
  BY TypeStep, ReducedStep
<1>3. TypeInv /\ ReducedInv => MatrixReduced
  BY DEF TypeInv, LoopOK, ReducedInv, RowsReduced, Held, Queued, MatrixReduced
<1>. QED  BY <1>1, <1>2, <1>3, PTL DEF Spec

----------------------------------------------------------------------------
(* Nothing is left solved. *)

(* A solved row exists only while add_coded harvests. *)
SolvedInv ==
  ~late_pivot /\ pc \notin {"harvest", "cascade_coded"} => SolvedKeys(rows) = {}

(* Through the cascade of a source packet: a row that the substitution     *)
(* solves is solved for its own key, so the look-up by key removes it.     *)
LEMMA CascadeSolved ==
  ASSUME TypeInv, DataInv, SolvedInv, NEW q, Cascade(q)
  PROVE  SolvedInv'
<1>. SUFFICES ASSUME ~late_pivot', pc' \notin {"harvest", "cascade_coded"},
                     NEW k \in Keys(rows)', is_solved(rows'[k].coefs)
              PROVE  FALSE
  BY DEF SolvedInv, SolvedKeys
<1>. DEFINE S == After(q)
<1>1. pc = "cascade_source" /\ ~late_pivot
  BY DEF Cascade
<1>2. RowsOK /\ QueueOK /\ SolvedKeys(rows) = {}
  BY <1>1 DEF DataInv, SolvedInv
<1>3. q \in queue /\ q.id \in SrcIds /\ q.data \in Vectors /\ q.id \notin Keys(rows)
  BY <1>2, CascadeForm DEF TypeInv, TypeOK, QueueOK
<1>4. /\ S \in [SrcIds -> MatrixRows \cup {Absent}]
      /\ Keys(S) = Keys(rows)
  BY <1>3, AfterType DEF TypeInv
<1>5. k \in Keys(rows) /\ k \in SrcIds /\ k \notin Hit(q) /\ rows'[k] = S[k]
  BY <1>4, CascadeForm DEF Keys
<1>6. rows[k] \in MatrixRows /\ S[k] \in MatrixRows /\ S[k] = Substitute(rows[k], q.id, q.data)
  BY <1>4, <1>5 DEF Keys, TypeInv, TypeOK, After
<1>7. CASE rows[k].coefs[q.id] = Zero
  BY <1>2, <1>5, <1>6, <1>7 DEF Substitute, SolvedKeys
<1>8. CASE rows[k].coefs[q.id] # Zero
  <2>1. S[k].coefs[k] = One
    BY <1>2, <1>3, <1>5, <1>6, SubstituteData DEF RowsOK
  <2>2. Support(S[k].coefs) = {SolvedId(S[k].coefs)}
    BY <1>5, <1>6, SolvedIdOnly DEF MatrixRows
  <2>3. SolvedId(S[k].coefs) = k
    BY <1>5, <2>1, <2>2, FieldAssumption DEF Support
  <2>. QED  BY <1>4, <1>5, <1>8, <2>3 DEF Hit
<1>. QED  BY <1>7, <1>8

(* Every step preserves SolvedInv. *)
LEMMA SolvedStep == TypeInv /\ DataInv /\ SolvedInv /\ [Next]_decVars => SolvedInv'
<1>. SUFFICES ASSUME TypeInv, DataInv, SolvedInv, [Next]_decVars PROVE SolvedInv'  OBVIOUS
<1>1. CASE \E q \in queue : Cascade(q)
  BY <1>1, CascadeSolved
<1>2. CASE \E k \in SrcIds : HarvestRow(k)
  BY <1>2 DEF HarvestRow, SolvedInv
<1>3. CASE InsertRow
  BY <1>3 DEF InsertRow, SolvedInv
<1>4. CASE Rescan
  BY <1>4 DEF Rescan, SolvedNow, SolvedInv
<1>5. CASE \E id \in SrcIds : HandleSource(id, Unit(id))
  BY <1>5 DEF HandleSource, SolvedInv
<1>6. CASE UNCHANGED <<rows, late_pivot>> /\ pc \notin {"harvest", "cascade_coded"}
  BY <1>6 DEF SolvedInv
<1>7. CASE UNCHANGED decVars
  BY <1>7 DEF decVars, matrix, SolvedInv
<1>. QED
  BY <1>1, <1>2, <1>3, <1>4, <1>5, <1>6, <1>7
  DEF Next, Step, HandleCoded, SubstituteKnown, EliminateRow, StartElimination, Finish

(* Between calls the matrix holds no solved row, however long the chains   *)
(* of recoveries that a packet sets off: what its equations determine has  *)
(* been recovered, unless a source packet has hit the key of a row.        *)
THEOREM DecoderNothingLeftSolved == Spec => []NothingLeftSolved
<1>1. Init => TypeInv /\ DataInv /\ SolvedInv
  <2>1. Init => SolvedInv  BY DEF Init, SolvedInv, SolvedKeys, EmptyMap, Keys
  <2>. QED  BY <2>1, InitType, InitData
<1>2. TypeInv /\ DataInv /\ SolvedInv /\ [Next]_decVars => (TypeInv /\ DataInv /\ SolvedInv)'
  BY TypeStep, DataStep, SolvedStep
<1>3. SolvedInv => NothingLeftSolved
  BY DEF SolvedInv, NothingLeftSolved
<1>. QED  BY <1>1, <1>2, <1>3, PTL DEF Spec

----------------------------------------------------------------------------
(* Solutions of the equations in the matrix. *)

(* The partial sums of Dot. *)
LEMMA DotSums ==
  ASSUME NEW v \in Vectors, NEW x \in Vectors
  PROVE  \E s \in [0..NumIds -> F] :
           /\ s[0] = Zero /\ Dot(v, x) = s[NumIds]
           /\ \A n \in 0..(NumIds - 1) : s[n + 1] = FAdd(s[n], FMul(v[n], x[n]))
<1>. DEFINE Sums(g, m) == g = [n \in 0..m |-> IF n = 0 THEN Zero
                                              ELSE FAdd(g[n - 1], FMul(v[n - 1], x[n - 1]))]
            Bad == {m \in 0..NumIds : ~\E g : Sums(g, m)}
<1>1. Bad = {}
  <2>. SUFFICES ASSUME Bad # {} PROVE FALSE  OBVIOUS
  <2>1. PICK m \in Bad : \A k \in Bad : m <= k
    <3>1. Bad \subseteq Nat  BY NumIdsAssumption
    <3>. HIDE DEF Bad
    <3>. QED  BY <3>1, LeastElement
  <2>2. m \in Nat /\ m # 0
    <3>1. Sums([n \in 0..0 |-> Zero], 0)  OBVIOUS
    <3>. HIDE DEF Sums
    <3>. QED  BY <2>1, <3>1, NumIdsAssumption
  <2>3. m - 1 \in 0..NumIds /\ m - 1 \notin Bad  BY <2>1, <2>2, NumIdsAssumption
  <2>4. PICK g : Sums(g, m - 1)  BY <2>3
  <2>. DEFINE h == [n \in 0..m |-> IF n < m THEN g[n]
                                   ELSE FAdd(g[m - 1], FMul(v[m - 1], x[m - 1]))]
  <2>5. \A n \in 0..m : h[n] = IF n = 0 THEN Zero
                                 ELSE FAdd(h[n - 1], FMul(v[n - 1], x[n - 1]))
    <3>. TAKE n \in 0..m
    <3>1. CASE n = m
      BY <2>2, <3>1
    <3>2. CASE n # m
      <4>1. n \in 0..(m - 1) /\ n < m  BY <2>2, <3>2
      <4>2. g[n] = IF n = 0 THEN Zero ELSE FAdd(g[n - 1], FMul(v[n - 1], x[n - 1]))
        BY <2>4, <4>1
      <4>3. h[n] = g[n] /\ (n # 0 => h[n - 1] = g[n - 1])  BY <2>2, <4>1
      <4>. QED  BY <4>2, <4>3
    <3>. QED  BY <3>1, <3>2
  <2>6. Sums(h, m)
    <3>1. h = [n \in 0..m |-> h[n]]  OBVIOUS
    <3>. HIDE DEF h
    <3>. QED  BY <2>5, <3>1
  <2>. QED  BY <2>1, <2>6
<1>2. \E g : Sums(g, NumIds)
  <2>. HIDE DEF Sums
  <2>. QED  BY <1>1, NumIdsAssumption
<1>. DEFINE s == CHOOSE g : Sums(g, NumIds)
<1>3. Sums(s, NumIds)  BY <1>2
<1>4. Dot(v, x) = s[NumIds]  BY DEF Dot
<1>. HIDE DEF s
<1>5. DOMAIN s = 0..NumIds /\ s = [n \in 0..NumIds |-> s[n]]  BY <1>3
<1>6. /\ s[0] = Zero
      /\ \A n \in 0..(NumIds - 1) : s[n + 1] = FAdd(s[n], FMul(v[n], x[n]))
  <2>1. s[0] = Zero  BY <1>3, NumIdsAssumption
  <2>2. ASSUME NEW n \in 0..(NumIds - 1) PROVE s[n + 1] = FAdd(s[n], FMul(v[n], x[n]))
    <3>1. n + 1 \in 0..NumIds /\ n + 1 # 0 /\ (n + 1) - 1 = n  BY NumIdsAssumption
    <3>. QED  BY <1>3, <3>1
  <2>. QED  BY <2>1, <2>2
<1>7. \A n \in 0..NumIds : s[n] \in F
  <2>. DEFINE Out == {n \in 0..NumIds : s[n] \notin F}
  <2>. SUFFICES ASSUME Out # {} PROVE FALSE  OBVIOUS
  <2>1. PICK m \in Out : \A k \in Out : m <= k
    <3>1. Out \subseteq Nat  BY NumIdsAssumption
    <3>. HIDE DEF Out
    <3>. QED  BY <3>1, LeastElement
  <2>2. m # 0  BY <1>6, <2>1, FieldAssumption
  <2>3. m - 1 \in 0..(NumIds - 1) /\ m - 1 \notin Out  BY <2>1, <2>2, NumIdsAssumption
  <2>4. s[m - 1] \in F /\ v[m - 1] \in F /\ x[m - 1] \in F
    BY <2>3, NumIdsAssumption DEF Vectors, SrcIds
  <2>5. s[(m - 1) + 1] = FAdd(s[m - 1], FMul(v[m - 1], x[m - 1]))  BY <1>6, <2>3
  <2>6. (m - 1) + 1 = m  BY <2>1
  <2>7. s[m] \in F
    <3>1. FMul(v[m - 1], x[m - 1]) \in F  BY <2>4, FieldAssumption
    <3>2. FAdd(s[m - 1], FMul(v[m - 1], x[m - 1])) \in F  BY <2>4, <3>1, FieldAssumption
    <3>. QED  BY <2>5, <2>6, <3>2
  <2>. QED  BY <2>1, <2>7
<1>8. s \in [0..NumIds -> F]  BY <1>5, <1>7
<1>. QED  BY <1>4, <1>6, <1>8

(* Dot is linear in the equation: through mul_acc ... *)
LEMMA DotMulAcc ==
  ASSUME FieldLaws, NEW v \in Vectors, NEW w \in Vectors, NEW c \in F, NEW x \in Vectors
  PROVE  /\ Dot(MulAcc(v, w, c), x) = FAdd(Dot(v, x), FMul(c, Dot(w, x)))
         /\ Dot(v, x) \in F /\ Dot(w, x) \in F
<1>. DEFINE u == MulAcc(v, w, c)
<1>1. u \in Vectors /\ \A i \in SrcIds : u[i] = FAdd(v[i], FMul(c, w[i]))
  BY MulAccType DEF MulAcc
<1>. HIDE DEF u
<1>2. PICK r \in [0..NumIds -> F] :
           /\ r[0] = Zero /\ Dot(v, x) = r[NumIds]
           /\ \A n \in 0..(NumIds - 1) : r[n + 1] = FAdd(r[n], FMul(v[n], x[n]))
  BY DotSums
<1>3. PICK s \in [0..NumIds -> F] :
           /\ s[0] = Zero /\ Dot(w, x) = s[NumIds]
           /\ \A n \in 0..(NumIds - 1) : s[n + 1] = FAdd(s[n], FMul(w[n], x[n]))
  BY DotSums
<1>4. PICK t \in [0..NumIds -> F] :
           /\ t[0] = Zero /\ Dot(u, x) = t[NumIds]
           /\ \A n \in 0..(NumIds - 1) : t[n + 1] = FAdd(t[n], FMul(u[n], x[n]))
  BY <1>1, DotSums
<1>. DEFINE Bad == {n \in 0..NumIds : t[n] # FAdd(r[n], FMul(c, s[n]))}
<1>5. Bad = {}
  <2>. SUFFICES ASSUME Bad # {} PROVE FALSE  OBVIOUS
  <2>1. PICK m \in Bad : \A k \in Bad : m <= k
    <3>1. Bad \subseteq Nat  BY NumIdsAssumption
    <3>. HIDE DEF Bad
    <3>. QED  BY <3>1, LeastElement
  <2>2. m # 0  BY <1>2, <1>3, <1>4, <2>1, FieldAssumption
  <2>. DEFINE n == m - 1
  <2>3. n \in 0..(NumIds - 1) /\ n \notin Bad /\ n \in 0..NumIds /\ n \in SrcIds /\ n + 1 = m
    BY <2>1, <2>2, NumIdsAssumption DEF SrcIds
  <2>. HIDE DEF n
  <2>4. /\ v[n] \in F /\ w[n] \in F /\ u[n] \in F /\ x[n] \in F
        /\ r[n] \in F /\ s[n] \in F /\ t[n] \in F
    BY <1>1, <2>3 DEF Vectors
  <2>5. /\ r[m] = FAdd(r[n], FMul(v[n], x[n])) /\ s[m] = FAdd(s[n], FMul(w[n], x[n]))
        /\ t[m] = FAdd(t[n], FMul(u[n], x[n])) /\ t[n] = FAdd(r[n], FMul(c, s[n]))
        /\ u[n] = FAdd(v[n], FMul(c, w[n]))
    BY <1>1, <1>2, <1>3, <1>4, <2>3
  <2>. DEFINE a == FMul(v[n], x[n])
              b == FMul(w[n], x[n])
              cs == FMul(c, s[n])
  <2>6. a \in F /\ b \in F /\ FMul(c, b) \in F /\ cs \in F  BY <2>4, FieldAssumption
  <2>7. FMul(u[n], x[n]) = FAdd(a, FMul(c, b))
    <3>1. FMul(c, w[n]) \in F  BY <2>4, FieldAssumption
    <3>2. FMul(u[n], x[n]) = FMul(x[n], FAdd(v[n], FMul(c, w[n])))
      BY <2>4, <2>5 DEF FieldLaws
    <3>3. FMul(x[n], FAdd(v[n], FMul(c, w[n]))) =
            FAdd(FMul(x[n], v[n]), FMul(x[n], FMul(c, w[n])))
      <4>1. \A p, q, y \in F : FMul(p, FAdd(q, y)) = FAdd(FMul(p, q), FMul(p, y))
        BY DEF FieldLaws
      <4>. QED  BY <2>4, <3>1, <4>1
    <3>4. FMul(x[n], v[n]) = a /\ FMul(x[n], FMul(c, w[n])) = FMul(FMul(c, w[n]), x[n])
      BY <2>4, <3>1 DEF FieldLaws
    <3>5. FMul(FMul(c, w[n]), x[n]) = FMul(c, b)  BY <2>4 DEF FieldLaws
    <3>. QED  BY <3>2, <3>3, <3>4, <3>5
  <2>8. FMul(c, s[m]) = FAdd(cs, FMul(c, b))  BY <2>4, <2>5, <2>6 DEF FieldLaws
  <2>. HIDE DEF a, b, cs
  <2>9. t[m] = FAdd(FAdd(r[n], cs), FAdd(a, FMul(c, b)))  BY <2>5, <2>7 DEF cs
  <2>10. FAdd(r[m], FMul(c, s[m])) = FAdd(FAdd(r[n], a), FAdd(cs, FMul(c, b)))
    BY <2>5, <2>8 DEF a
  <2>11. ASSUME NEW p \in F, NEW q \in F, NEW y \in F, NEW z \in F
         PROVE  FAdd(FAdd(p, q), FAdd(y, z)) = FAdd(FAdd(p, y), FAdd(q, z))
    <3>1. /\ FAdd(q, FAdd(y, z)) = FAdd(FAdd(q, y), z)
          /\ FAdd(q, y) = FAdd(y, q)
          /\ FAdd(FAdd(y, q), z) = FAdd(y, FAdd(q, z))
          /\ FAdd(y, z) \in F /\ FAdd(q, z) \in F
      BY FieldAssumption DEF FieldLaws
    <3>2. /\ FAdd(FAdd(p, q), FAdd(y, z)) = FAdd(p, FAdd(q, FAdd(y, z)))
          /\ FAdd(FAdd(p, y), FAdd(q, z)) = FAdd(p, FAdd(y, FAdd(q, z)))
      BY <3>1 DEF FieldLaws
    <3>. QED  BY <3>1, <3>2
  <2>12. t[m] = FAdd(r[m], FMul(c, s[m]))
    <3>1. FAdd(FAdd(r[n], cs), FAdd(a, FMul(c, b))) = FAdd(FAdd(r[n], a), FAdd(cs, FMul(c, b)))
      <4>. DEFINE p == r[n]
                  z == FMul(c, b)
      <4>1. p \in F /\ cs \in F /\ a \in F /\ z \in F  BY <2>4, <2>6
      <4>. HIDE DEF p, z
      <4>2. FAdd(FAdd(p, cs), FAdd(a, z)) = FAdd(FAdd(p, a), FAdd(cs, z))  BY <2>11, <4>1
      <4>. QED  BY <4>2 DEF p, z
    <3>. QED  BY <2>9, <2>10, <3>1
  <2>. QED  BY <2>1, <2>12
<1>6. t[NumIds] = FAdd(r[NumIds], FMul(c, s[NumIds]))  BY <1>5, NumIdsAssumption
<1>. QED  BY <1>2, <1>3, <1>4, <1>6, NumIdsAssumption DEF u

(* ... and through mul_scale. *)
LEMMA DotMulScale ==
  ASSUME FieldLaws, NEW v \in Vectors, NEW c \in F, NEW x \in Vectors
  PROVE  Dot(MulScale(v, c), x) = FMul(c, Dot(v, x)) /\ Dot(v, x) \in F
<1>. DEFINE u == MulScale(v, c)
<1>1. u \in Vectors /\ \A i \in SrcIds : u[i] = FMul(c, v[i])
  BY MulScaleType DEF MulScale
<1>. HIDE DEF u
<1>2. PICK r \in [0..NumIds -> F] :
           /\ r[0] = Zero /\ Dot(v, x) = r[NumIds]
           /\ \A n \in 0..(NumIds - 1) : r[n + 1] = FAdd(r[n], FMul(v[n], x[n]))
  BY DotSums
<1>3. PICK t \in [0..NumIds -> F] :
           /\ t[0] = Zero /\ Dot(u, x) = t[NumIds]
           /\ \A n \in 0..(NumIds - 1) : t[n + 1] = FAdd(t[n], FMul(u[n], x[n]))
  BY <1>1, DotSums
<1>. DEFINE Bad == {n \in 0..NumIds : t[n] # FMul(c, r[n])}
<1>4. Bad = {}
  <2>. SUFFICES ASSUME Bad # {} PROVE FALSE  OBVIOUS
  <2>1. PICK m \in Bad : \A k \in Bad : m <= k
    <3>1. Bad \subseteq Nat  BY NumIdsAssumption
    <3>. HIDE DEF Bad
    <3>. QED  BY <3>1, LeastElement
  <2>2. m # 0  BY <1>2, <1>3, <2>1, FieldAssumption
  <2>. DEFINE n == m - 1
  <2>3. n \in 0..(NumIds - 1) /\ n \notin Bad /\ n \in 0..NumIds /\ n \in SrcIds /\ n + 1 = m
    BY <2>1, <2>2, NumIdsAssumption DEF SrcIds
  <2>. HIDE DEF n
  <2>4. v[n] \in F /\ u[n] \in F /\ x[n] \in F /\ r[n] \in F /\ t[n] \in F
    BY <1>1, <2>3 DEF Vectors
  <2>5. /\ r[m] = FAdd(r[n], FMul(v[n], x[n])) /\ t[m] = FAdd(t[n], FMul(u[n], x[n]))
        /\ t[n] = FMul(c, r[n]) /\ u[n] = FMul(c, v[n])
    BY <1>1, <1>2, <1>3, <2>3
  <2>6. FMul(v[n], x[n]) \in F  BY <2>4, FieldAssumption
  <2>7. FMul(u[n], x[n]) = FMul(c, FMul(v[n], x[n]))  BY <2>4, <2>5 DEF FieldLaws
  <2>8. FMul(c, r[m]) = FAdd(FMul(c, r[n]), FMul(c, FMul(v[n], x[n])))
    BY <2>4, <2>5, <2>6 DEF FieldLaws
  <2>. QED  BY <2>1, <2>5, <2>7, <2>8
<1>5. t[NumIds] = FMul(c, r[NumIds])  BY <1>4, NumIdsAssumption
<1>. QED  BY <1>2, <1>3, <1>5, NumIdsAssumption DEF u

(* A sum of which at most two terms, equal to each other, are not zero. *)
LEMMA DotTwoTerms ==
  ASSUME NEW v \in Vectors, NEW x \in Vectors, NEW a \in SrcIds, NEW b \in SrcIds, a < b,
         FMul(v[a], x[a]) = FMul(v[b], x[b]),
         \A i \in SrcIds : i \notin {a, b} => FMul(v[i], x[i]) = Zero
  PROVE  Dot(v, x) = Zero
<1>. DEFINE p == FMul(v[a], x[a])
<1>1. p \in F  BY FieldAssumption DEF Vectors
<1>2. PICK s \in [0..NumIds -> F] :
           /\ s[0] = Zero /\ Dot(v, x) = s[NumIds]
           /\ \A n \in 0..(NumIds - 1) : s[n + 1] = FAdd(s[n], FMul(v[n], x[n]))
  BY DotSums
<1>. DEFINE Bad == {n \in 0..NumIds : s[n] # IF a < n /\ n <= b THEN p ELSE Zero}
<1>3. Bad = {}
  <2>. SUFFICES ASSUME Bad # {} PROVE FALSE  OBVIOUS
  <2>1. PICK m \in Bad : \A k \in Bad : m <= k
    <3>1. Bad \subseteq Nat  BY NumIdsAssumption
    <3>. HIDE DEF Bad
    <3>. QED  BY <3>1, LeastElement
  <2>2. m # 0  BY <1>2, <2>1 DEF SrcIds
  <2>. DEFINE n == m - 1
  <2>3. n \in 0..(NumIds - 1) /\ n \notin Bad /\ n \in 0..NumIds /\ n \in SrcIds /\ n + 1 = m
    BY <2>1, <2>2, NumIdsAssumption DEF SrcIds
  <2>. HIDE DEF n
  <2>4. /\ s[m] = FAdd(s[n], FMul(v[n], x[n])) /\ s[n] \in F
        /\ s[n] = IF a < n /\ n <= b THEN p ELSE Zero
        /\ n \in Int /\ m \in Int /\ a \in Int /\ b \in Int
    BY <1>2, <2>3 DEF SrcIds
  <2>5. FMul(v[n], x[n]) = IF n \in {a, b} THEN p ELSE Zero  BY <2>3
  <2>6. s[m] # IF a < m /\ m <= b THEN p ELSE Zero  BY <2>1
  <2>. HIDE DEF p, Bad
  <2>7. CASE n = a
    BY <1>1, <2>3, <2>4, <2>5, <2>6, <2>7, FieldAssumption
  <2>8. CASE n = b
    BY <1>1, <2>3, <2>4, <2>5, <2>6, <2>8, FieldAssumption
  <2>9. CASE n \notin {a, b}
    <3>1. s[m] = s[n]  BY <2>4, <2>5, <2>9, FieldAssumption
    <3>2. (a < m /\ m <= b) <=> (a < n /\ n <= b)  BY <2>3, <2>4, <2>9
    <3>. QED  BY <2>4, <2>6, <3>1, <3>2
  <2>. QED  BY <2>7, <2>8, <2>9
<1>4. s[NumIds] = Zero  BY <1>3, NumIdsAssumption DEF SrcIds
<1>. QED  BY <1>2, <1>4

(* A sum of zeros. *)
LEMMA DotNoTerm ==
  ASSUME NEW v \in Vectors, NEW x \in Vectors,
         \A i \in SrcIds : FMul(v[i], x[i]) = Zero
  PROVE  Dot(v, x) = Zero
<1>1. PICK s \in [0..NumIds -> F] :
           /\ s[0] = Zero /\ Dot(v, x) = s[NumIds]
           /\ \A n \in 0..(NumIds - 1) : s[n + 1] = FAdd(s[n], FMul(v[n], x[n]))
  BY DotSums
<1>. DEFINE Bad == {n \in 0..NumIds : s[n] # Zero}
<1>2. Bad = {}
  <2>. SUFFICES ASSUME Bad # {} PROVE FALSE  OBVIOUS
  <2>1. PICK m \in Bad : \A k \in Bad : m <= k
    <3>1. Bad \subseteq Nat  BY NumIdsAssumption
    <3>. HIDE DEF Bad
    <3>. QED  BY <3>1, LeastElement
  <2>2. m # 0  BY <1>1, <2>1
  <2>. DEFINE n == m - 1
  <2>3. n \in 0..(NumIds - 1) /\ n \notin Bad /\ n \in 0..NumIds /\ n \in SrcIds /\ n + 1 = m
    BY <2>1, <2>2, NumIdsAssumption DEF SrcIds
  <2>. HIDE DEF n
  <2>4. s[m] = FAdd(s[n], FMul(v[n], x[n])) /\ s[n] = Zero  BY <1>1, <2>3
  <2>. QED  BY <2>1, <2>3, <2>4, FieldAssumption
<1>. QED  BY <1>1, <1>2, NumIdsAssumption

----------------------------------------------------------------------------
(* What the decoder has been told, it can still say. *)

(* The equations that hold, with zero on the other side, for the values x. *)
Kernel(x) == {v \in Vectors : Dot(v, x) = Zero}

(* A set of equations that elimination does not lead into from outside:    *)
(* undoing one of its operations stays in the set.                         *)
Closed(S) ==
  /\ S \subseteq Vectors /\ [i \in SrcIds |-> Zero] \in S
  /\ \A v \in Vectors, w \in S, c \in F : MulAcc(v, w, c) \in S => v \in S
  /\ \A v \in Vectors, c \in F \ {Zero} : MulScale(v, FInv(c)) \in S => v \in S

(* The set has the symbols that the decoder holds and its equations. *)
Has(S) == /\ \A i \in Held : Unit(i) \in S
          /\ \A k \in Keys(rows) : rows[k].coefs \in S
          /\ pc \in {"substitute", "eliminate"} => cur.coefs \in S

(* A row that add_coded is about to take out is solved. *)
TodoSolved ==
  pc \in {"harvest", "cascade_coded"} =>
    \A k \in todo : rows[k] # Absent => is_solved(rows[k].coefs)

(* The equations that hold of a solution are such a set. *)
LEMMA KernelClosed ==
  ASSUME FieldLaws, NEW x \in Vectors
  PROVE  Closed(Kernel(x))
<1>1. [i \in SrcIds |-> Zero] \in Kernel(x)
  <2>. DEFINE z == [i \in SrcIds |-> Zero]
  <2>1. z \in Vectors  BY FieldAssumption DEF Vectors
  <2>2. \A i \in SrcIds : FMul(z[i], x[i]) = Zero
    <3>. TAKE i \in SrcIds
    <3>1. x[i] \in F /\ z[i] = Zero  BY DEF Vectors
    <3>. HIDE DEF z
    <3>2. FMul(Zero, x[i]) = FMul(x[i], Zero)  BY <3>1, FieldAssumption DEF FieldLaws
    <3>. QED  BY <3>1, <3>2, FieldAssumption
  <2>. HIDE DEF z
  <2>3. Dot(z, x) = Zero  BY <2>1, <2>2, DotNoTerm
  <2>. QED  BY <2>1, <2>3 DEF Kernel, z
<1>2. ASSUME NEW v \in Vectors, NEW w \in Kernel(x), NEW c \in F, MulAcc(v, w, c) \in Kernel(x)
      PROVE  v \in Kernel(x)
  <2>1. w \in Vectors /\ Dot(w, x) = Zero /\ Dot(MulAcc(v, w, c), x) = Zero
    BY <1>2 DEF Kernel
  <2>2. /\ Dot(MulAcc(v, w, c), x) = FAdd(Dot(v, x), FMul(c, Dot(w, x)))
        /\ Dot(v, x) \in F
    BY <2>1, DotMulAcc
  <2>3. Dot(v, x) = Zero  BY <2>1, <2>2, FieldAssumption
  <2>. QED  BY <2>3 DEF Kernel
<1>3. ASSUME NEW v \in Vectors, NEW c \in F \ {Zero}, MulScale(v, FInv(c)) \in Kernel(x)
      PROVE  v \in Kernel(x)
  <2>1. FInv(c) \in F /\ FMul(FInv(c), c) = One  BY FieldAssumption
  <2>2. Dot(MulScale(v, FInv(c)), x) = Zero  BY <1>3 DEF Kernel
  <2>3. Dot(MulScale(v, FInv(c)), x) = FMul(FInv(c), Dot(v, x)) /\ Dot(v, x) \in F
    BY <2>1, DotMulScale
  <2>. DEFINE d == Dot(v, x)
              e == FInv(c)
  <2>4. d \in F /\ e \in F /\ FMul(e, c) = One /\ FMul(e, d) = Zero
    BY <2>1, <2>2, <2>3
  <2>. HIDE DEF d, e
  <2>5. FMul(c, FMul(e, d)) = FMul(FMul(c, e), d)  BY <2>4 DEF FieldLaws
  <2>6. FMul(c, e) = One  BY <2>4 DEF FieldLaws
  <2>7. FMul(One, d) = d
    <3>1. FMul(One, d) = FMul(d, One)  BY <2>4, FieldAssumption DEF FieldLaws
    <3>. QED  BY <2>4, <3>1, FieldAssumption
  <2>8. d = Zero  BY <2>4, <2>5, <2>6, <2>7, FieldAssumption
  <2>. QED  BY <2>8 DEF Kernel, d
<1>4. Kernel(x) \subseteq Vectors  BY DEF Kernel
<1>. QED  BY <1>1, <1>2, <1>3, <1>4 DEF Closed

(* Clearing a symbol whose value is known, undone. *)
LEMMA SubstituteBack ==
  ASSUME NEW S, Closed(S), NEW row \in MatrixRows, NEW id \in SrcIds, NEW data \in Vectors,
         Unit(id) \in S, Substitute(row, id, data).coefs \in S
  PROVE  row.coefs \in S
<1>1. row.coefs \in Vectors /\ row.coefs[id] \in F  BY DEF MatrixRows, Vectors
<1>. DEFINE u == Unit(id)
            c == row.coefs[id]
            w == Substitute(row, id, data).coefs
<1>2. \A i \in SrcIds : w[i] = IF i = id THEN Zero ELSE row.coefs[i]
  BY SubstituteData
<1>3. w \in Vectors  BY SubstituteType DEF MatrixRows
<1>4. \A i \in SrcIds : FAdd(row.coefs[i], FMul(c, u[i])) = w[i]
  <2>. TAKE i \in SrcIds
  <2>1. row.coefs[i] \in F  BY <1>1 DEF Vectors
  <2>2. CASE i = id
    BY <1>1, <1>2, <2>2, FieldAssumption DEF Unit
  <2>3. CASE i # id
    <3>1. u[i] = Zero  BY <2>3 DEF Unit
    <3>. HIDE DEF u, w
    <3>. QED  BY <1>1, <1>2, <2>1, <2>3, <3>1, FieldAssumption
  <2>. QED  BY <2>2, <2>3
<1>. HIDE DEF w, u
<1>5. MulAcc(row.coefs, u, c) = w
  <2>1. w = [i \in SrcIds |-> w[i]]  BY <1>3 DEF Vectors
  <2>. QED  BY <1>4, <2>1 DEF MulAcc
<1>6. w \in S /\ u \in S  BY DEF w, u
<1>. QED  BY <1>1, <1>5, <1>6 DEF Closed

(* Subtracting a multiple of an equation of the set, undone. *)
LEMMA SubtractBack ==
  ASSUME NEW S, Closed(S), NEW row \in MatrixRows, NEW other \in MatrixRows, NEW c \in F,
         other.coefs \in S, subtract_scaled(row, other, c).coefs \in S
  PROVE  row.coefs \in S
<1>1. row.coefs \in Vectors /\ subtract_scaled(row, other, c).coefs = MulAcc(row.coefs, other.coefs, c)
  BY DEF MatrixRows, subtract_scaled
<1>. QED  BY <1>1 DEF Closed

(* A row that is solved for its own key, where it has one, is its symbol. *)
LEMMA SolvedIsUnit ==
  ASSUME NEW row \in MatrixRows, NEW k \in SrcIds, row.coefs[k] = One, is_solved(row.coefs)
  PROVE  row.coefs = Unit(k) /\ SolvedId(row.coefs) = k
<1>1. row.coefs \in [SrcIds -> F]  BY DEF MatrixRows, Vectors
<1>2. Support(row.coefs) = {SolvedId(row.coefs)}  BY SolvedIdOnly DEF MatrixRows
<1>3. k \in Support(row.coefs)  BY FieldAssumption DEF Support
<1>4. SolvedId(row.coefs) = k  BY <1>2, <1>3
<1>5. \A i \in SrcIds : i # k => row.coefs[i] = Zero  BY <1>2, <1>4 DEF Support
<1>. QED  BY <1>1, <1>4, <1>5 DEF Unit

(* One lemma per step: a set that has what the decoder holds after the     *)
(* step had it before.                                                     *)
LEMMA SubstituteKnownBack ==
  ASSUME TypeInv, NEW S, Closed(S), NEW k \in SrcIds, SubstituteKnown(k), Has(S)'
  PROVE  Has(S)
<1>1. /\ UNCHANGED <<rows, known, recovered, pc>> /\ pc = "substitute" /\ k \in Keys(known)
      /\ cur' = Substitute(cur, k, known[k])
  BY DEF SubstituteKnown, IsFirst, stored, TypeInv, LoopOK
<1>2. Held' = Held /\ Keys(rows)' = Keys(rows)  BY <1>1 DEF Held, Keys
<1>3. Unit(k) \in S /\ Substitute(cur, k, known[k]).coefs \in S
  BY <1>1, <1>2 DEF Has, Held
<1>4. cur \in MatrixRows /\ known[k] \in Vectors  BY <1>1 DEF TypeInv, TypeOK, Keys
<1>5. cur.coefs \in S  BY <1>3, <1>4, SubstituteBack
<1>. QED  BY <1>1, <1>2, <1>5 DEF Has

(* The zero equation is in every such set. *)
LEMMA ZeroCoefs ==
  ASSUME NEW S, Closed(S), NEW v \in Vectors, is_zero(v)
  PROVE  v \in S
<1>1. \A i \in SrcIds : v[i] = Zero  BY DEF is_zero, Support
<1>2. v = [i \in SrcIds |-> v[i]]  BY DEF Vectors
<1>3. v = [i \in SrcIds |-> Zero]  BY <1>1, <1>2
<1>. QED  BY <1>3 DEF Closed

(* A packet that says nothing new is dropped. *)
LEMMA StartEliminationBack ==
  ASSUME TypeInv, NEW S, Closed(S), StartElimination, Has(S)'
  PROVE  Has(S)
<1>1. /\ UNCHANGED <<rows, known, recovered, cur>>
      /\ ~is_zero(cur.coefs) => pc' = "eliminate"
  BY DEF StartElimination, stored
<1>2. Held' = Held /\ Keys(rows)' = Keys(rows)  BY <1>1 DEF Held, Keys
<1>3. cur.coefs \in S
  <2>1. cur.coefs \in Vectors  BY DEF TypeInv, TypeOK, MatrixRows
  <2>2. CASE is_zero(cur.coefs)  BY <2>1, <2>2, ZeroCoefs
  <2>3. CASE ~is_zero(cur.coefs)  BY <1>1, <2>3 DEF Has
  <2>. QED  BY <2>2, <2>3
<1>. QED  BY <1>1, <1>2, <1>3 DEF Has

(* A row is subtracted from the packet. *)
LEMMA EliminateRowBack ==
  ASSUME TypeInv, NEW S, Closed(S), NEW k \in SrcIds, EliminateRow(k), Has(S)'
  PROVE  Has(S)
<1>1. /\ UNCHANGED <<rows, known, recovered, pc>> /\ pc = "eliminate" /\ k \in Keys(rows)
      /\ cur' = IF cur.coefs[k] = Zero THEN cur ELSE subtract_scaled(cur, rows[k], cur.coefs[k])
  BY DEF EliminateRow, IsFirst, stored, TypeInv, LoopOK
<1>2. Held' = Held /\ Keys(rows)' = Keys(rows)  BY <1>1 DEF Held, Keys
<1>3. rows[k].coefs \in S /\ cur'.coefs \in S
  BY <1>1, <1>2 DEF Has
<1>4. cur \in MatrixRows /\ rows[k] \in MatrixRows /\ cur.coefs[k] \in F
  BY <1>1 DEF TypeInv, TypeOK, Keys, MatrixRows, Vectors
<1>5. cur.coefs \in S
  <2>1. CASE cur.coefs[k] = Zero  BY <1>1, <1>3, <2>1
  <2>2. CASE cur.coefs[k] # Zero
    <3>1. subtract_scaled(cur, rows[k], cur.coefs[k]).coefs \in S  BY <1>1, <1>3, <2>2
    <3>. QED  BY <1>3, <1>4, <3>1, SubtractBack
  <2>. QED  BY <2>1, <2>2
<1>. QED  BY <1>1, <1>2, <1>5 DEF Has

(* A matrix with room takes the new row without losing one. *)
LEMMA InsertRowBack ==
  ASSUME TypeInv, ReducedInv, NEW S, Closed(S), InsertRow,
         ~is_zero(cur.coefs) => Cardinality(Keys(rows)) < MaxRows \/ Keys(rows) = {}, Has(S)'
  PROVE  Has(S)
<1>1. UNCHANGED <<known, recovered, cur>> /\ pc = "eliminate" /\ todo = {}
  BY DEF InsertRow, stored
<1>2. Held' = Held  BY <1>1 DEF Held, Keys
<1>3. cur \in MatrixRows /\ cur.coefs \in Vectors  BY DEF TypeInv, TypeOK, MatrixRows
<1>4. CASE is_zero(cur.coefs)
  <2>1. rows' = rows  BY <1>4 DEF InsertRow
  <2>2. Keys(rows)' = Keys(rows)  BY <2>1 DEF Keys
  <2>3. cur.coefs \in S  BY <1>3, <1>4, ZeroCoefs
  <2>. QED  BY <1>2, <2>1, <2>2, <2>3 DEF Has
<1>5. CASE ~is_zero(cur.coefs)
  <2>. DEFINE B == back_substitute(rows, NewPivot, NewRow)
  <2>1. /\ NewRow \in MatrixRows /\ NewPivot \in SrcIds /\ cur.coefs[NewPivot] # Zero
    BY <1>5, NewRowForm DEF TypeInv
  <2>2. /\ B \in [SrcIds -> MatrixRows \cup {Absent}] /\ Keys(B) = Keys(rows)
        /\ rows' = [MakeRoom(B) EXCEPT ![NewPivot] = NewRow]
        /\ rows'[NewPivot] = NewRow
        /\ Keys(rows)' = Keys(MakeRoom(B)) \cup {NewPivot}
    BY <1>5, InsertRowForm DEF TypeInv
  <2>3. \A k \in Keys(rows) : B[k] = IF rows[k].coefs[NewPivot] = Zero THEN rows[k]
                                     ELSE subtract_scaled(rows[k], NewRow, rows[k].coefs[NewPivot])
    BY DEF back_substitute, Keys
  <2>. HIDE DEF B
  <2>4. MakeRoom(B) = B
    <3>1. Cardinality(Keys(rows)) \in Nat  BY KeysFinite DEF Keys
    <3>. QED  BY <1>5, <2>2, <3>1, DecoderAssumption DEF MakeRoom
  <2>5. NewPivot \notin Keys(rows)  BY <1>1, <2>1 DEF ReducedInv, CurReduced
  <2>6. NewRow.coefs \in S  BY <2>2 DEF Has
  <2>7. ASSUME NEW k \in Keys(rows) PROVE rows[k].coefs \in S
    <3>1. k \in Keys(rows)' /\ rows'[k] = B[k]  BY <2>2, <2>4, <2>5 DEF Keys
    <3>2. B[k].coefs \in S  BY <3>1 DEF Has
    <3>3. rows[k] \in MatrixRows /\ rows[k].coefs[NewPivot] \in F
      BY <2>1 DEF TypeInv, TypeOK, Keys, MatrixRows, Vectors
    <3>4. CASE rows[k].coefs[NewPivot] = Zero  BY <2>3, <3>2, <3>4
    <3>5. CASE rows[k].coefs[NewPivot] # Zero
      <4>1. subtract_scaled(rows[k], NewRow, rows[k].coefs[NewPivot]).coefs \in S
        BY <2>3, <3>2, <3>5
      <4>. QED  BY <2>1, <2>6, <3>3, <4>1, SubtractBack
    <3>. QED  BY <3>4, <3>5
  <2>8. cur.coefs \in S
    <3>. DEFINE c == cur.coefs[pivot_id(cur.coefs)]
    <3>1. c \in F \ {Zero}
      BY <1>3, <1>5, PivotIsFirst DEF is_zero, Support, Vectors
    <3>2. NewRow = cur \/ NewRow.coefs = MulScale(cur.coefs, FInv(c))
      BY DEF NewRow, normalize
    <3>. HIDE DEF c
    <3>. QED  BY <1>3, <2>6, <3>1, <3>2 DEF Closed
  <2>. QED  BY <1>1, <1>2, <2>7, <2>8 DEF Has
<1>. QED  BY <1>4, <1>5

(* The row that leaves the matrix is the symbol that is recovered. *)
LEMMA HarvestRowBack ==
  ASSUME TypeInv, DataOK, TodoSolved, NEW S, Closed(S), NEW k \in SrcIds, HarvestRow(k), Has(S)'
  PROVE  Has(S)
<1>1. /\ rows' = [rows EXCEPT ![k] = Absent] /\ known' = known
      /\ pc = "harvest" /\ k \in todo
  BY DEF HarvestRow, stored, IsFirst
<1>2. Keys(rows)' = Keys(rows) \ {k} /\ \A j \in Keys(rows)' : rows'[j] = rows[j]
  BY <1>1 DEF TypeInv, TypeOK, Keys
<1>3. CASE rows[k] # Absent
  <2>1. is_solved(rows[k].coefs)  BY <1>1, <1>3 DEF TodoSolved
  <2>2. rows[k] \in MatrixRows /\ k \in Keys(rows) /\ rows[k].coefs[k] = One
    BY <1>3 DEF TypeInv, TypeOK, Keys, DataOK, RowsOK
  <2>3. rows[k].coefs = Unit(k) /\ SolvedId(rows[k].coefs) = k
    BY <2>1, <2>2, SolvedIsUnit
  <2>4. recovered' = OrInsert(recovered, k, rows[k].payload)
    BY <1>3, <2>1, <2>3 DEF HarvestRow
  <2>5. rows[k].payload # Absent  BY <2>2, AbsentAssumption DEF MatrixRows
  <2>6. Keys(recovered)' = Keys(recovered) \cup {k}
    BY <2>4, <2>5 DEF OrInsert, Keys, TypeInv, TypeOK
  <2>7. Held' = Held \cup {k}  BY <1>1, <2>6 DEF Held, Keys
  <2>8. rows[k].coefs \in S  BY <2>3, <2>7 DEF Has
  <2>. QED  BY <1>1, <1>2, <2>7, <2>8 DEF Has
<1>4. CASE rows[k] = Absent
  <2>1. recovered' = recovered  BY <1>4 DEF HarvestRow
  <2>2. Held' = Held /\ k \notin Keys(rows)  BY <1>1, <1>4, <2>1 DEF Held, Keys
  <2>. QED  BY <1>1, <1>2, <2>2 DEF Has
<1>. QED  BY <1>3, <1>4

(* A row that the cascade takes out is its own symbol, now recovered; from *)
(* the others a symbol is cleared that the decoder holds.                  *)
LEMMA CascadeBack ==
  ASSUME TypeInv, ReducedInv, DataOK, NEW S, Closed(S), NEW q, Cascade(q), Has(S)'
  PROVE  Has(S)
<1>. DEFINE T == After(q)
<1>1. /\ q \in queue /\ q.id \in SrcIds /\ q.data \in Vectors /\ q.id \notin Keys(rows)
      /\ q.id \in Held /\ pc \notin {"substitute", "eliminate"}
  BY CascadeForm DEF TypeInv, TypeOK, DataOK, QueueOK, ReducedInv, QueueHeld
<1>2. /\ T \in [SrcIds -> MatrixRows \cup {Absent}]
      /\ Keys(T) = Keys(rows)
      /\ Hit(q) \subseteq Keys(rows)
  BY <1>1, AfterType DEF TypeInv
<1>3. Keys(rows)' = Keys(rows) \ Hit(q) /\ \A k \in Keys(rows)' : rows'[k] = T[k]
  BY <1>2, CascadeForm DEF Keys
<1>4. \A i \in Hit(q) : T[i].payload # Absent
  BY <1>2, AbsentAssumption DEF Keys, MatrixRows
<1>5. Keys(known)' = Keys(known) /\ Keys(recovered)' = Keys(recovered) \cup Hit(q)
  BY <1>2, <1>4, CascadeForm DEF Keys, stored
<1>6. Held' = Held \cup Hit(q)  BY <1>5 DEF Held
<1>7. Unit(q.id) \in S  BY <1>1, <1>6 DEF Has
<1>8. ASSUME NEW k \in Keys(rows) PROVE rows[k].coefs \in S
  <2>1. k \in SrcIds /\ rows[k] \in MatrixRows /\ T[k] = Substitute(rows[k], q.id, q.data)
    BY DEF Keys, TypeInv, TypeOK, After
  <2>2. T[k].coefs \in S
    <3>1. CASE k \notin Hit(q)  BY <1>3, <3>1 DEF Has
    <3>2. CASE k \in Hit(q)
      <4>1. PICK j \in Keys(rows) : is_solved(T[j].coefs) /\ SolvedId(T[j].coefs) = k
        BY <3>2 DEF Hit
      <4>2. /\ j \in SrcIds /\ rows[j] \in MatrixRows /\ T[j] \in MatrixRows
            /\ T[j] = Substitute(rows[j], q.id, q.data)
        BY <1>2, <4>1 DEF Keys, TypeInv, TypeOK, After
      <4>3. T[j].coefs[j] = One
        BY <1>1, <4>1, <4>2, SubstituteData DEF DataOK, RowsOK
      <4>4. T[j].coefs = Unit(j) /\ SolvedId(T[j].coefs) = j
        BY <4>1, <4>2, <4>3, SolvedIsUnit
      <4>5. Unit(k) \in S  BY <1>6, <3>2 DEF Has
      <4>. QED  BY <4>1, <4>4, <4>5
    <3>. QED  BY <3>1, <3>2
  <2>. QED  BY <1>1, <1>7, <2>1, <2>2, SubstituteBack
<1>. QED  BY <1>1, <1>6, <1>8 DEF Has

(* What was recovered becomes known. *)
LEMMA FinishBack ==
  ASSUME TypeInv, NEW S, Finish, Has(S)'
  PROVE  Has(S)
<1>1. rows' = rows /\ recovered' = EmptyMap /\ pc = "finish"
  BY DEF Finish
<1>2. Keys(known)' = Held  BY <1>1, FinishForm DEF Held, Keys, EmptyMap
<1>3. Keys(recovered)' = {} /\ Keys(rows)' = Keys(rows)  BY <1>1 DEF Keys, EmptyMap
<1>4. Held' = Held  BY <1>2, <1>3 DEF Held
<1>. QED  BY <1>1, <1>3, <1>4 DEF Has

(* The whole call. *)
LEMMA StepBack ==
  ASSUME TypeInv, ReducedInv, DataOK, TodoSolved, NEW S, Closed(S), Step,
         InsertRow /\ ~is_zero(cur.coefs) =>
           Cardinality(Keys(rows)) < MaxRows \/ Keys(rows) = {},
         Has(S)'
  PROVE  Has(S)
<1>1. CASE \E k \in SrcIds : SubstituteKnown(k) \/ EliminateRow(k) \/ HarvestRow(k)
  BY <1>1, SubstituteKnownBack, EliminateRowBack, HarvestRowBack
<1>2. CASE StartElimination \/ InsertRow \/ Finish
  BY <1>2, StartEliminationBack, InsertRowBack, FinishBack
<1>3. CASE Rescan
  <2>1. UNCHANGED <<rows, known, recovered>> /\ pc = "harvest"  BY <1>3 DEF Rescan, stored
  <2>2. Held' = Held /\ Keys(rows)' = Keys(rows)  BY <2>1 DEF Held, Keys
  <2>. QED  BY <2>1, <2>2 DEF Has
<1>4. CASE \E q \in queue : Cascade(q)
  BY <1>4, CascadeBack
<1>. QED  BY <1>1, <1>2, <1>3, <1>4 DEF Step

(* A coded packet starts a call. *)
LEMMA HandleCodedBack ==
  ASSUME NEW v, HandleCoded(v, v), NEW S, Has(S)'
  PROVE  v \in S /\ Has(S)
<1>1. /\ UNCHANGED <<rows, known, recovered>> /\ pc = "idle" /\ pc' = "substitute"
      /\ cur'.coefs = v
  BY DEF HandleCoded
<1>2. Held' = Held /\ Keys(rows)' = Keys(rows)  BY <1>1 DEF Held, Keys
<1>. QED  BY <1>1, <1>2 DEF Has

(* A source packet starts a call. *)
LEMMA HandleSourceBack ==
  ASSUME TypeInv, NEW id \in SrcIds, HandleSource(id, Unit(id)), NEW S, Has(S)'
  PROVE  Has(S)
<1>1. /\ UNCHANGED <<rows, recovered>> /\ pc = "idle"
      /\ known' = OrInsert(known, id, Unit(id))
  BY DEF HandleSource
<1>2. Unit(id) # Absent  BY UnitType, AbsentAssumption
<1>3. Keys(known) \subseteq Keys(known)'
  BY <1>1, <1>2 DEF OrInsert, Keys, TypeInv, TypeOK
<1>4. Held \subseteq Held' /\ Keys(rows)' = Keys(rows)  BY <1>1, <1>3 DEF Held, Keys
<1>. QED  BY <1>1, <1>4 DEF Has

----------------------------------------------------------------------------
(* Every step of a call preserves TodoSolved. *)
LEMMA TodoSolvedStep ==
  ASSUME TypeInv, DataOK, TodoSolved, Step
  PROVE  TodoSolved'
<1>1. CASE \E k \in SrcIds : SubstituteKnown(k) \/ EliminateRow(k)
  BY <1>1 DEF SubstituteKnown, EliminateRow, TodoSolved
<1>2. CASE \E k \in SrcIds : HarvestRow(k)
  <2>1. PICK k \in SrcIds : HarvestRow(k)  BY <1>2
  <2>2. rows' = [rows EXCEPT ![k] = Absent] /\ todo' \subseteq todo /\ pc = "harvest"
    BY <2>1 DEF HarvestRow
  <2>3. \A j \in todo' : rows'[j] # Absent => rows'[j] = rows[j]
    BY <2>2 DEF TypeInv, TypeOK
  <2>. QED  BY <2>2, <2>3 DEF TodoSolved
<1>3. CASE StartElimination \/ Finish
  BY <1>3 DEF StartElimination, Finish, TodoSolved
<1>4. CASE InsertRow
  BY <1>4 DEF InsertRow, TodoSolved
<1>5. CASE Rescan
  BY <1>5 DEF Rescan, SolvedNow, SolvedKeys, TodoSolved
<1>6. CASE \E q \in queue : Cascade(q)
  <2>1. PICK q \in queue : Cascade(q)  BY <1>6
  <2>. SUFFICES ASSUME pc' \in {"harvest", "cascade_coded"}, NEW k \in todo', rows'[k] # Absent
                PROVE  is_solved(rows'[k].coefs)
    BY DEF TodoSolved
  <2>2. pc = "cascade_coded" /\ k \in todo /\ k \in SrcIds
    BY <2>1 DEF Cascade, TypeInv, TypeOK
  <2>3. q.id \in SrcIds /\ q.data \in Vectors /\ q.id \notin Keys(rows)
    BY <2>1 DEF TypeInv, TypeOK, DataOK, QueueOK
  <2>4. rows'[k] = After(q)[k]  BY <2>1, <2>2, CascadeForm
  <2>5. rows[k] # Absent /\ After(q)[k] = Substitute(rows[k], q.id, q.data)
    BY <2>2, <2>4 DEF After
  <2>6. is_solved(rows[k].coefs)  BY <2>2, <2>5 DEF TodoSolved
  <2>7. rows[k] \in MatrixRows /\ rows[k].coefs[k] = One /\ k # q.id
    BY <2>2, <2>3, <2>5 DEF Keys, TypeInv, TypeOK, DataOK, RowsOK
  <2>8. rows[k].coefs = Unit(k)  BY <2>2, <2>6, <2>7, SolvedIsUnit
  <2>9. rows[k].coefs[q.id] = Zero  BY <2>3, <2>7, <2>8 DEF Unit
  <2>. QED  BY <2>4, <2>5, <2>6, <2>9 DEF Substitute
<1>. QED  BY <1>1, <1>2, <1>3, <1>4, <1>5, <1>6 DEF Step
----------------------------------------------------------------------------
(* Between calls a symbol that is neither known nor the key of a row is    *)
(* free: there are values for it and the keys, its own not zero, for which *)
(* every equation of the matrix holds.                                     *)
LEMMA FreeSymbol ==
  ASSUME FieldLaws, TypeInv, ReducedInv, DataOK, pc = "idle",
         NEW u \in SrcIds, u \notin Keys(known), u \notin Keys(rows)
  PROVE  \E x \in Vectors : /\ u \in Support(x) /\ Support(x) \subseteq {u} \cup Keys(rows)
                            /\ Has(Kernel(x))
<1>. DEFINE x == [i \in SrcIds |-> IF i = u THEN One
                                   ELSE IF i \in Keys(rows) THEN rows[i].coefs[u] ELSE Zero]
<1>1. queue = {} /\ Held = Keys(known)
  BY DEF TypeInv, LoopOK, ReducedInv, CurReduced, Held, Keys, EmptyMap
<1>2. \A k \in Keys(rows) : k \in SrcIds /\ rows[k].coefs \in Vectors /\ rows[k].coefs[u] \in F
  BY DEF Keys, TypeInv, TypeOK, MatrixRows, Vectors
<1>3. x \in Vectors  BY <1>2, FieldAssumption DEF Vectors
<1>4. /\ x[u] = One /\ \A k \in Keys(rows) : x[k] = rows[k].coefs[u]
      /\ \A i \in SrcIds : i # u /\ i \notin Keys(rows) => x[i] = Zero
      /\ \A i \in SrcIds : x[i] \in F
  BY <1>2, <1>3 DEF Vectors
<1>. HIDE DEF x
<1>5. \A y \in F : FMul(Zero, y) = Zero /\ FMul(y, Zero) = Zero /\ FMul(One, y) = y /\ FMul(y, One) = y
  <2>. TAKE y \in F
  <2>1. FMul(Zero, y) = FMul(y, Zero) /\ FMul(One, y) = FMul(y, One)
    BY FieldAssumption DEF FieldLaws
  <2>. QED  BY <2>1, FieldAssumption
<1>6. ASSUME NEW i \in Held PROVE Unit(i) \in Kernel(x)
  <2>1. i \in SrcIds /\ i # u /\ i \notin Keys(rows)
    <3>1. i \in SrcIds /\ i # u  BY <1>1 DEF Keys
    <3>2. i \in Keys(rows) => rows[i].coefs[i] # Zero
      BY FieldAssumption DEF DataOK, RowsOK
    <3>3. Queued = {}  BY <1>1 DEF Queued
    <3>. QED  BY <3>1, <3>2, <3>3 DEF ReducedInv, RowsReduced
  <2>2. Unit(i) \in Vectors  BY <2>1, UnitType
  <2>3. \A j \in SrcIds : FMul(Unit(i)[j], x[j]) = Zero
    <3>. TAKE j \in SrcIds
    <3>1. CASE j = i
      <4>1. x[j] = Zero /\ Unit(i)[j] = One  BY <1>4, <2>1, <3>1 DEF Unit
      <4>. QED  BY <1>5, <4>1, FieldAssumption
    <3>2. CASE j # i
      <4>1. x[j] \in F /\ Unit(i)[j] = Zero  BY <1>4, <2>1, <3>2 DEF Unit
      <4>. QED  BY <1>5, <4>1
    <3>. QED  BY <3>1, <3>2
  <2>4. Dot(Unit(i), x) = Zero  BY <1>3, <2>2, <2>3, DotNoTerm
  <2>. QED  BY <2>2, <2>4 DEF Kernel
<1>7. ASSUME NEW k \in Keys(rows) PROVE rows[k].coefs \in Kernel(x)
  <2>. DEFINE v == rows[k].coefs
  <2>1. k \in SrcIds /\ v \in Vectors /\ v[u] \in F /\ k # u  BY <1>2
  <2>2. v[k] = One /\ \A j \in Keys(rows) : j # k => v[j] = Zero
    BY DEF DataOK, RowsOK
  <2>3. x[k] = v[u] /\ x[u] = One  BY <1>4
  <2>. HIDE DEF v
  <2>4. FMul(v[k], x[k]) = FMul(v[u], x[u])  BY <1>5, <2>1, <2>2, <2>3
  <2>5. \A i \in SrcIds : i \notin {k, u} => FMul(v[i], x[i]) = Zero
    <3>. SUFFICES ASSUME NEW i \in SrcIds, i \notin {k, u} PROVE FMul(v[i], x[i]) = Zero
      OBVIOUS
    <3>1. v[i] \in F /\ x[i] \in F  BY <1>4, <2>1 DEF Vectors
    <3>2. v[i] = Zero \/ x[i] = Zero  BY <1>4, <2>2
    <3>. QED  BY <1>5, <3>1, <3>2
  <2>6. Dot(v, x) = Zero
    <3>1. CASE k < u  BY <1>3, <2>1, <2>4, <2>5, <3>1, DotTwoTerms
    <3>2. CASE u < k
      <4>1. FMul(v[u], x[u]) = FMul(v[k], x[k])  BY <2>4
      <4>2. \A i \in SrcIds : i \notin {u, k} => FMul(v[i], x[i]) = Zero  BY <2>5
      <4>. QED  BY <1>3, <2>1, <4>1, <4>2, <3>2, DotTwoTerms
    <3>. QED  BY <2>1, <3>1, <3>2 DEF SrcIds
  <2>. QED  BY <2>1, <2>6 DEF Kernel, v
<1>8. Has(Kernel(x))  BY <1>6, <1>7 DEF Has
<1>9. u \in Support(x) /\ Support(x) \subseteq {u} \cup Keys(rows)
  BY <1>4, FieldAssumption DEF Support
<1>. QED  BY <1>3, <1>8, <1>9

(* Between calls the key of a row is not known, and its row mentions       *)
(* another symbol that is neither known nor a key.                         *)
LEMMA RowNeedsMore ==
  ASSUME TypeInv, ReducedInv, DataOK, pc = "idle", SolvedKeys(rows) = {}, NEW k \in Keys(rows)
  PROVE  /\ k \notin Keys(known)
         /\ \E u \in SrcIds : u \notin Keys(known) /\ u \notin Keys(rows)
                              /\ rows[k].coefs[u] # Zero
<1>1. k \in SrcIds /\ rows[k].coefs[k] = One  BY DEF Keys, DataOK, RowsOK
<1>2. Queued = {} /\ Keys(known) \subseteq Held  BY DEF TypeInv, LoopOK, Queued, Held
<1>3. k \notin Keys(known)
  BY <1>1, <1>2, FieldAssumption DEF ReducedInv, RowsReduced
<1>4. Support(rows[k].coefs) # {k}  BY <1>1 DEF SolvedKeys, is_solved
<1>5. k \in Support(rows[k].coefs)  BY <1>1, FieldAssumption DEF Support
<1>6. PICK u \in SrcIds : u # k /\ rows[k].coefs[u] # Zero  BY <1>4, <1>5 DEF Support
<1>7. u \notin Keys(known) /\ u \notin Keys(rows)
  BY <1>2, <1>6 DEF ReducedInv, RowsReduced
<1>. QED  BY <1>3, <1>6, <1>7
=============================================================================

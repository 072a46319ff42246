--------------------------- MODULE DecodingMatrix ---------------------------
(***************************************************************************)
(* The rows of the decoding matrix and their arithmetic                    *)
(* (codec/decoder/matrix.rs: DenseCoefs, MatrixRow, and the two            *)
(* elimination helpers).                                                   *)
(*                                                                         *)
(* Payloads are formal: the payload that source symbol i was submitted     *)
(* with is the unit vector Unit(i), and every other payload is the vector  *)
(* of the coefficients with which it combines the submitted ones.  The     *)
(* program applies the same field operations to coefficients and payload   *)
(* bytes, so a row is truthful exactly when its two vectors are equal.     *)
(*                                                                         *)
(* A dense row of base_id and coefs is a function on all source            *)
(* identifiers, zero outside the stored range.  A BTreeMap keyed by source *)
(* identifiers is a function with the value Absent where it has no entry.  *)
(***************************************************************************)
EXTENDS Integers, FiniteSets

CONSTANTS NumIds,     \* bound: source identifiers are 0..NumIds-1
          F,          \* the elements of the field, GF(2^4) or GF(2^8)
          Zero, One,
          FAdd(_, _), FMul(_, _), FInv(_),
          Absent      \* no entry under a key

ASSUME NumIdsAssumption == NumIds \in Nat

(* What elimination needs of a field of characteristic 2. *)
ASSUME FieldAssumption ==
  /\ Zero \in F /\ One \in F /\ Zero # One
  /\ \A x, y \in F : FAdd(x, y) \in F /\ FMul(x, y) \in F
  /\ \A x \in F : /\ FAdd(x, x) = Zero
                  /\ FAdd(x, Zero) = x
                  /\ FAdd(Zero, x) = x
                  /\ FMul(x, Zero) = Zero
                  /\ FMul(x, One) = x
  /\ \A x \in F \ {Zero} : FInv(x) \in F /\ FMul(FInv(x), x) = One

SrcIds  == 0..(NumIds - 1)
Vectors == [SrcIds -> F]
MatrixRows == [coefs : Vectors, payload : Vectors]

ASSUME AbsentAssumption == Absent \notin Vectors /\ Absent \notin MatrixRows

Unit(i) == [j \in SrcIds |-> IF j = i THEN One ELSE Zero]

EmptyMap == [i \in SrcIds |-> Absent]

(* The keys of a BTreeMap. *)
Keys(m) == {i \in SrcIds : m[i] # Absent}

(* mul_acc: v += c * w, element by element. *)
MulAcc(v, w, c) == [i \in SrcIds |-> FAdd(v[i], FMul(c, w[i]))]

(* mul_scale: v *= c. *)
MulScale(v, c) == [i \in SrcIds |-> FMul(c, v[i])]

Support(v) == {i \in SrcIds : v[i] # Zero}

is_zero(v) == Support(v) = {}

(* is_solved: exactly one coefficient is non-zero; any value will do. *)
is_solved(v) == \E i \in SrcIds : Support(v) = {i}

SolvedId(v) == CHOOSE i \in SrcIds : Support(v) = {i}

pivot_id(v) == CHOOSE i \in Support(v) : \A j \in Support(v) : i <= j

(* MatrixRow::subtract_scaled, a no-op when the factor is zero. *)
subtract_scaled(row, other, c) ==
  [coefs   |-> MulAcc(row.coefs, other.coefs, c),
   payload |-> MulAcc(row.payload, other.payload, c)]

(* A mutation of normalize: the payload is not scaled with the row. *)
NormalizeCoefsOnly(row) ==
  LET c == row.coefs[pivot_id(row.coefs)]
  IN  IF c = One THEN row
      ELSE [row EXCEPT !.coefs = MulScale(@, FInv(c))]

(* MatrixRow::normalize: scale the pivot coefficient to one. *)
normalize(row) ==
  LET c == row.coefs[pivot_id(row.coefs)]
  IN  IF c = One THEN row
      ELSE [coefs   |-> MulScale(row.coefs, FInv(c)),
            payload |-> MulScale(row.payload, FInv(c))]

(* Replace symbol id by its payload in one row. *)
Substitute(row, id, data) ==
  IF row.coefs[id] = Zero THEN row
  ELSE [coefs   |-> [row.coefs EXCEPT ![id] = Zero],
        payload |-> MulAcc(row.payload, data, row.coefs[id])]

(* A mutation of back_substitute: rows already there are left as they are. *)
BackSubstituteNothing(rows, pivot, new_row) == rows

(* back_substitute: clear the new pivot from every row already there. *)
back_substitute(rows, pivot, new_row) ==
  [k \in SrcIds |->
     IF rows[k] = Absent \/ (rows[k] # Absent /\ rows[k].coefs[pivot] = Zero)
       THEN rows[k]
       ELSE subtract_scaled(rows[k], new_row, rows[k].coefs[pivot])]

(* The first entry of a map: keys().next(). *)
FirstKey(S) == CHOOSE k \in S : \A j \in S : k <= j

SolvedKeys(rows) == {k \in Keys(rows) : is_solved(rows[k].coefs)}

----------------------------------------------------------------------------
(* What is said about solutions, read by no action. *)

(* The laws of the field that elimination itself does not need. *)
FieldLaws ==
  /\ \A x, y \in F : FAdd(x, y) = FAdd(y, x) /\ FMul(x, y) = FMul(y, x)
  /\ \A x, y, z \in F : /\ FAdd(FAdd(x, y), z) = FAdd(x, FAdd(y, z))
                        /\ FMul(FMul(x, y), z) = FMul(x, FMul(y, z))
                        /\ FMul(x, FAdd(y, z)) = FAdd(FMul(x, y), FMul(x, z))

(* The value of equation v when symbol i has the value x[i]. *)
Dot(v, x) ==
  LET sum[n \in 0..NumIds] ==
        IF n = 0 THEN Zero ELSE FAdd(sum[n - 1], FMul(v[n - 1], x[n - 1]))
  IN  sum[NumIds]
=============================================================================

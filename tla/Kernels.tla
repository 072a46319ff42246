------------------------------ MODULE Kernels -------------------------------
(***************************************************************************)
(* The bulk kernels of gf/simd.rs: products by split-table lookup, over    *)
(* whole vectors first and the remaining bytes one at a time.              *)
(*                                                                         *)
(* GF(2^8) splits an element into halves; GF(2^4) has two elements in a    *)
(* byte and splits the byte.  Lane is the number of bytes of a vector (16  *)
(* in the program); the AVX2 loop takes four lanes at a time.              *)
(***************************************************************************)
EXTENDS GaloisField, Sequences

CONSTANT Lane

Paths == {"Avx2", "Ssse3", "Neon", "Scalar"}

Half == CHOOSE h \in 1..Order : h * h = Order

for_gf2_8(coef) == [size |-> Half,
                    lo |-> [x \in 0..(Half - 1) |-> GfMul(x, coef)],
                    hi |-> [x \in 0..(Half - 1) |-> GfMul(x * Half, coef)]]

(* The coefficient is in both halves of the packed byte. *)
for_gf2_4(coef) == [size |-> Order,
                    lo |-> [x \in Elements |-> GfMul(x, coef)],
                    hi |-> [x \in Elements |-> Order * GfMul(x, coef)]]

Lookup(tbl, b) == tbl.lo[b % tbl.size] ^^ tbl.hi[b \div tbl.size]

(* What happens to one byte d with the byte x of the source at its place:  *)
(* a kernel accumulates or scales.                                         *)
Accumulate(tbl) == [tbl |-> tbl, accumulates |-> TRUE]
Scale(tbl) == [tbl |-> tbl, accumulates |-> FALSE]

Product(op, d, x) == IF op.accumulates THEN d ^^ Lookup(op.tbl, x) ELSE Lookup(op.tbl, d)

(* The bytes base + 1 .. base + len. *)
Apply(op, dst, src, base, len) ==
  [i \in DOMAIN dst |-> IF base < i /\ i <= base + len THEN Product(op, dst[i], src[i])
                                                      ELSE dst[i]]

(* A mutation: the tail starts after the number of chunks, not of bytes. *)
TailAfterChunks(base, len) == base + len \div Lane

TailStart(base, len) == base + Lane * (len \div Lane)

ssse3(op, dst, src, base, len) ==
  Apply(op, Apply(op, dst, src, base, Lane * (len \div Lane)), src,
        TailStart(base, len), len % Lane)

avx2(op, dst, src) ==
  LET unrolled == 4 * Lane * (Len(dst) \div (4 * Lane))
  IN  ssse3(op, Apply(op, dst, src, 0, unrolled), src, unrolled, Len(dst) % (4 * Lane))

(* The SSSE3 kernel with other instructions. *)
neon(op, dst, src) == ssse3(op, dst, src, 0, Len(dst))

Run(path, op, dst, src) ==
  CASE path = "Avx2" -> avx2(op, dst, src)
    [] path = "Ssse3" -> ssse3(op, dst, src, 0, Len(dst))
    [] path = "Neon" -> neon(op, dst, src)
    [] path = "Scalar" -> Apply(op, dst, src, 0, Len(dst))

mul_acc(path, tbl, coef, dst, src) ==
  IF coef = 0 THEN dst ELSE Run(path, Accumulate(tbl), dst, src)

mul_scale(path, tbl, coef, buf) ==
  IF coef = 0 THEN [i \in DOMAIN buf |-> 0]
  ELSE IF coef = 1 /\ tbl.size = Half THEN buf
  ELSE Run(path, Scale(tbl), buf, buf)
=============================================================================

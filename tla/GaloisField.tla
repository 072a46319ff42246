---------------------------- MODULE GaloisField -----------------------------
(***************************************************************************)
(* GF(2^4) and GF(2^8) as the program computes in them (gf/tables.rs,      *)
(* gf/gf2_4.rs, gf/gf2_8.rs) and the coefficient generators (gf/mod.rs,    *)
(* wire/ev/coef_gen.rs).                                                   *)
(*                                                                         *)
(*             Order  Poly   CauchyPoints  CauchyStep                      *)
(*   GF(2^4)      16    19              7           3                      *)
(*   GF(2^8)     256   285            128           7                      *)
(***************************************************************************)
EXTENDS Integers, Bitwise

CONSTANTS Order, Poly, CauchyPoints, CauchyStep

Elements == 0..(Order - 1)

(* One turn of the loop that fills the table: shift, then reduce by the    *)
(* polynomial when the bit above the field's is set.                       *)
TimesAlpha == [x \in Elements |-> IF 2 * x < Order THEN 2 * x ELSE ((2 * x) ^^ Poly) % Order]

ExpTable[i \in 0..(Order - 2)] == IF i = 0 THEN 1 ELSE TimesAlpha[ExpTable[i - 1]]

LogTable == [x \in Elements \ {0} |->
               CHOOSE i \in 0..(Order - 2) : ExpTable[i] = x]

GfAdd(a, b) == a ^^ b

(* A mutation of mul: the sum of the logarithms is reduced by ORDER. *)
GfMulModOrder(a, b) ==
  IF a = 0 \/ b = 0 THEN 0
  ELSE ExpTable[((LogTable[a] + LogTable[b]) % Order) % (Order - 1)]

GfMul(a, b) ==
  IF a = 0 \/ b = 0 THEN 0
  ELSE ExpTable[(LogTable[a] + LogTable[b]) % (Order - 1)]

(* A mutation of inv: the exponent is taken from ORDER, not ORDER - 1. *)
GfInvOffByOne(a) == ExpTable[(Order - LogTable[a]) % (Order - 1)]

GfInv(a) == ExpTable[(Order - 1 - LogTable[a]) % (Order - 1)]

(* A mutation: the exponent is reduced by ORDER before the lookup. *)
VandermondeModOrder(src_id, coded_id) ==
  ExpTable[((src_id * coded_id) % Order) % (Order - 1)]

vandermonde(src_id, coded_id) == ExpTable[(src_id * coded_id) % (Order - 1)]

(* A mutation: the source points are one too few, so that a full window    *)
(* uses one of them twice.                                                 *)
CauchyPointReused(src_id, coded_id, generation) ==
  GfInv((src_id % (CauchyPoints - 1)) ^^
        ((Order \div 2) + ((coded_id + CauchyStep * generation) % CauchyPoints)))

(* cauchy_coef_gf2_4 and cauchy_coef_gf2_8: 1 / (x + y), the points of the *)
(* sources in the lower half of the field and those of the coded symbols   *)
(* in the upper half.                                                      *)
cauchy_coef(src_id, coded_id, generation) ==
  GfInv((src_id % CauchyPoints) ^^
        ((Order \div 2) + ((coded_id + CauchyStep * generation) % CauchyPoints)))
=============================================================================

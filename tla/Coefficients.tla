---------------------------- MODULE Coefficients ----------------------------
(***************************************************************************)
(* What the coefficient generators must provide for recovery: two missing  *)
(* symbols s < t of one window can be solved for from two coded packets    *)
(* that cover both.  The state walks through the symbol pairs of a sliding *)
(* window, up to the distance at which source points collide, and through  *)
(* pairs of packets in the order the encoder numbers them, with the        *)
(* identifiers of both strategies.  At each place it also asks what        *)
(* becomes of a packet's encoding vector on the wire, and of its products  *)
(* in the bulk kernels.                                                    *)
(***************************************************************************)
EXTENDS Kernels, Wire

CONSTANTS MaxFirst,   \* bound: first source identifier of the pair
          Generations,\* bound: generations walked through
          Far,        \* distance of a far identifier in a cover
          Long        \* length of a long cover

VARIABLES s, t,        \* two source identifiers of one window
          earlier,     \* two coded packets, [coded_id, generation]
          later

vars == <<s, t, earlier, later>>

Init == /\ s = 0 /\ t = 1
        /\ earlier = [coded_id |-> 0, generation |-> 0]
        /\ later = earlier

Slide == s < MaxFirst /\ s' = s + 1 /\ t' = t + 1 /\ UNCHANGED <<earlier, later>>

Widen == t < s + CauchyPoints /\ t' = t + 1 /\ UNCHANGED <<s, earlier, later>>

(* generate_coded_inner's counters for Cauchy. *)
Following(p) == IF p.coded_id + 1 >= CauchyPoints
                  THEN [coded_id |-> 0, generation |-> p.generation + 1]
                  ELSE [p EXCEPT !.coded_id = @ + 1]

Generate == /\ Following(later).generation < Generations
            /\ later' = Following(later)
            /\ UNCHANGED <<s, t, earlier>>

Forget == earlier' = later /\ earlier # later /\ UNCHANGED <<s, t, later>>

Next == Slide \/ Widen \/ Generate \/ Forget

Spec == Init /\ [][Next]_vars

----------------------------------------------------------------------------
Cauchy(src, p) == cauchy_coef(src, p.coded_id, p.generation)

(* The identifier of the same packet under Vandermonde, whose cycle is     *)
(* 1 .. Order - 2 and has no generations.                                  *)
VandermondeId(p) == 1 + ((CauchyPoints * p.generation + p.coded_id) % (Order - 2))
Vander(src, p) == vandermonde(src, VandermondeId(p))

Det(a, b, c, d) == GfAdd(GfMul(a, d), GfMul(b, c))

CodedPoint(p) == (p.coded_id + CauchyStep * p.generation) % CauchyPoints

(* Two Cauchy packets solve for two symbols, however far the identifiers   *)
(* and the generation have advanced (coef_gen.rs, "any square submatrix is *)
(* full rank"), exactly when neither the symbols nor the packets share a   *)
(* point: symbols collide when selective removal has left them CauchyPoints*)
(* apart in the window, and a later generation uses the coded points of an *)
(* earlier one again, under other identifiers.                             *)
CauchyPairSolvable ==
  Det(Cauchy(s, earlier), Cauchy(t, earlier), Cauchy(s, later), Cauchy(t, later)) # 0
    <=> s % CauchyPoints # t % CauchyPoints /\ CodedPoint(earlier) # CodedPoint(later)

(* Two Vandermonde packets solve for two symbols exactly when the distance *)
(* of the symbols times that of the packet identifiers is no multiple of   *)
(* Order - 1, wherever the window and the counter have moved: neighbouring *)
(* symbols are always solved for, symbols 3 apart not by packets 5 apart.  *)
VandermondePairSolvable ==
  Det(Vander(s, earlier), Vander(t, earlier), Vander(s, later), Vander(t, later)) # 0
    <=> ((t - s) * (VandermondeId(later) - VandermondeId(earlier))) % (Order - 1) # 0

(* The product of two polynomials over GF(2), reduced by Poly: the         *)
(* reference for the log/exp tables.                                       *)
Bits == CHOOSE n \in 1..8 : 2^n = Order
Bit(x, k) == (x \div 2^k) % 2
CarryLess(a, b) ==
  LET p[k \in 0..Bits] == IF k = 0 THEN 0
                          ELSE p[k-1] ^^ (Bit(b, k-1) * a * 2^(k-1))
  IN  p[Bits]
Reduced(x) ==
  LET r[k \in (Bits-1)..(2*Bits)] ==
        IF k = 2 * Bits THEN x
        ELSE LET y == r[k+1] IN IF k >= Bits /\ Bit(y, k) = 1
                                  THEN y ^^ (Poly * 2^(k - Bits)) ELSE y
  IN  r[Bits-1]

(* Multiplication by table lookup is multiplication of polynomials, for    *)
(* every coefficient the generators produce.                               *)
ProductIsPolynomial ==
  \A b \in Elements :
    /\ GfMul(Vander(s, later), b) = Reduced(CarryLess(Vander(s, later), b))
    /\ GfMul(Cauchy(s, later), b) = Reduced(CarryLess(Cauchy(s, later), b))

(* Scaling a row by the inverse of its pivot makes the pivot one: the      *)
(* inverse read from the tables is the inverse of every coefficient.       *)
InverseNormalizes ==
  Reduced(CarryLess(GfInv(Vander(t, later)), Vander(t, later))) = 1

----------------------------------------------------------------------------
(* Covers a coded packet may have, as lists in the order of the argument   *)
(* (generate_coded_targeted keeps the caller's order): an interval, a pair *)
(* with a hole, a pair in the wrong order, a list with a far identifier    *)
(* and a whole large window.  Their sizes move with s and t across the     *)
(* limits of the format.                                                   *)
CoverLists == {Interval(s, t + 1), <<s, t>>, <<t, s>>, <<s, t, s + t + Far>>,
               Interval(s, t + Long)}

(* The vectors generate_coded_inner makes for a cover.  Cauchy windows are *)
(* bounded by the number of points.                                        *)
VectorsFor(ids) ==
  {EncodingVector(f, 0, ids, <<>>) : f \in {"Gf2_4", "Gf2_8"}} \cup
  {EncodingVector(f, later.generation, ids, [i \in DOMAIN ids |-> Cauchy(ids[i], later)]) :
     f \in IF Len(ids) <= CauchyPoints THEN {"Gf2_4", "Gf2_8"} ELSE {}}

Payload == <<1, 2, 3>>

Arrives(ev, cci) ==
  ParseCoded(SerialiseCoded(later.coded_id, ev, Payload, cci, <<>>)) =
    [cci |-> cci, tsi |-> <<>>, coded_symbol_id |-> later.coded_id, ev |-> ev,
     payload |-> Payload]

(* A coded packet arrives with the vector and the payload it was sent with *)
(* exactly when its cover has at most 255 identifiers, each at most 65535  *)
(* above the one before it: a full window of 256 and a cover in descending *)
(* order arrive as something else (wire/ev/mod.rs, id_storage.rs).         *)
VectorSurvives ==
  earlier = later =>
    \A ids \in CoverLists : \A ev \in VectorsFor(ids), cci \in {<<>>, <<9, 9, 9, 9>>} :
      Arrives(ev, cci) <=>
        /\ Len(ids) <= 255
        /\ \A i \in 1..(Len(ids) - 1) : Delta(ids[i + 1], ids[i]) <= 65535

(* All storage formats describe the same list, and each decoder consumes   *)
(* what its encoder wrote, so that the coefficients behind it are found    *)
(* (id_storage.rs, decode).  The list does not depend on the packet, and   *)
(* long lists show nothing more here.                                      *)
FormatsAgree ==
  earlier = later /\ later.coded_id = 0 =>
    \A ids \in CoverLists \ {Interval(s, t + Long)} :
      (\A i \in 1..(Len(ids) - 1) : ids[i + 1] - ids[i] \in 1..65535) =>
        \A format \in {UncompressedEdges, CompressedList, CompressedEdges} :
          LET bits == EncodeIds(ids, format)
          IN  DecodeIds(Padded(bits), Len(ids), ids[1], format)
                = [ids |-> ids, consumed |-> Len(bits)]

(* The selective acknowledgement of symbols far above the cumulative one   *)
(* arrives as it was sent up to a distance of 2040; a vector that is       *)
(* longer is cut to the low 8 bits of its length, and loses                *)
(* acknowledgements without inventing any (wire/feedback.rs).              *)
SackSurvives ==
  earlier = later /\ later.coded_id = 0 /\ later.generation = 0 =>
    \A acked \in {{}, {s + 1}, s..t, {t, s + 2 * t + 8 * Long}} :
      LET f == BuildFeedback(s, 1, 2, 3, acked)
          parsed == ParseFeedback(SerialiseFeedback(f))
      IN  /\ acked_ids(parsed) \subseteq acked
          /\ [parsed EXCEPT !.sack = <<>>] = [f EXCEPT !.sack = <<>>]
          /\ acked_ids(parsed) = acked <=> \A id \in acked : id - s < 2040

(* Every kernel multiplies every byte once by the field's product, for     *)
(* buffers of whole vectors, of less than one and with any tail, and the   *)
(* shortcuts for the coefficients 0 and 1 do the same (gf/simd.rs).        *)
KernelsMatchField ==
  earlier = later =>
    LET src == [i \in 1..(s + t) |-> (7 * i + later.coded_id) % Order]
        dst == [i \in 1..(s + t) |-> (5 * i) % Order]
        Packed(v) == [i \in DOMAIN v |-> Order * v[i] + (v[i] ^^ 5)]
        PackedMul(c, b) == Order * GfMul(b \div Order, c) + GfMul(b % Order, c)
    IN  \A path \in Paths, c \in {0, 1, Cauchy(t, later)} :
          /\ mul_acc(path, for_gf2_8(c), c, dst, src)
               = [i \in DOMAIN src |-> dst[i] ^^ GfMul(c, src[i])]
          /\ mul_scale(path, for_gf2_8(c), c, src) = [i \in DOMAIN src |-> GfMul(c, src[i])]
          /\ mul_acc(path, for_gf2_4(c), c, Packed(dst), Packed(src))
               = [i \in DOMAIN src |-> Packed(dst)[i] ^^ PackedMul(c, Packed(src)[i])]
          /\ mul_scale(path, for_gf2_4(c), c, Packed(src))
               = [i \in DOMAIN src |-> PackedMul(c, Packed(src)[i])]
=============================================================================

----------------------------- MODULE MCDecoder ------------------------------
(* Instances of Decoder for TLC, over the program's GF(2^4). *)
EXTENDS Decoder, TLC

GF == INSTANCE GaloisField WITH Order <- 16, Poly <- 19, CauchyPoints <- 7,
                              CauchyStep <- 3

(* The field operations as tables: the CONSTANT operators are evaluated    *)
(* often.                                                                  *)
GfElements == 0..15
AddTable == [a \in GfElements |-> [b \in GfElements |-> GF!GfAdd(a, b)]]
MulTable == [a \in GfElements |-> [b \in GfElements |-> GF!GfMul(a, b)]]
InvTable == [a \in GfElements \ {0} |-> GF!GfInv(a)]
MCAdd(a, b) == AddTable[a][b]
MCMul(a, b) == MulTable[a][b]
MCInv(a) == InvTable[a]

(* The encoding vector of a Vandermonde packet over a cover. *)
CodedOver(cover, coded_id) ==
  [i \in SrcIds |-> IF i \in cover THEN GF!vandermonde(i, coded_id) ELSE 0]

(* Full-window packets of a window that grows and then slides. *)
MCCodedInputs ==
  {CodedOver({0, 1}, 1), CodedOver({0, 1, 2}, 2), CodedOver({0, 1, 2, 3}, 3),
   CodedOver({1, 2, 3}, 4), CodedOver({2, 3}, 5)}
=============================================================================

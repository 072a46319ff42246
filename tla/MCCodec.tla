------------------------------ MODULE MCCodec -------------------------------
(* Instances of Codec for TLC, over the program's GF(2^4). *)
EXTENDS Codec

GF == INSTANCE GaloisField WITH Order <- 16, Poly <- 19, CauchyPoints <- 7,
                              CauchyStep <- 3

GfElements == 0..15
AddTable == [a \in GfElements |-> [b \in GfElements |-> GF!GfAdd(a, b)]]
MulTable == [a \in GfElements |-> [b \in GfElements |-> GF!GfMul(a, b)]]
InvTable == [a \in GfElements \ {0} |-> GF!GfInv(a)]
MCAdd(a, b) == AddTable[a][b]
MCMul(a, b) == MulTable[a][b]
MCInv(a) == InvTable[a]

CauchyTable == [src \in 0..(NumIds - 1) |-> [id \in 0..(CauchyCycle - 1) |->
                  [gen \in 0..(GenSpace - 1) |-> GF!cauchy_coef(src, id, gen)]]]
VandermondeTable == [src \in 0..(NumIds - 1) |-> [id \in 1..VandermondeCycle |->
                       GF!vandermonde(src, id)]]
MCCoef(strategy, src, coded_id, gen) ==
  IF strategy = "Cauchy" THEN CauchyTable[src][coded_id][gen]
                         ELSE VandermondeTable[src][coded_id]

MCConfig(mode, strategy, numer, denom) ==
  [policy |-> [kind |-> "any"], backpressure |-> mode, strategy |-> strategy,
   fec_numer |-> numer, fec_denom |-> denom,
   min_rate |-> numer, max_rate |-> numer, target_loss |-> 0]

(* A sender that codes after every second source packet. *)
MCConfigs == {MCConfig("Reject", "Cauchy", 1, 2), MCConfig("EvictOldest", "Vandermonde", 1, 2)}

MCRejectConfigs == {MCConfig("Reject", "Vandermonde", 0, 1)}

(* Data packets of the peer.  A source packet with a symbol of 8 bytes is  *)
(* too short for the feedback parser; a coded packet over the symbols from *)
(* 1 on is not.                                                            *)
Zeros(n) == [i \in 1..n |-> 0]
MCShortData == {W!SerialiseSource(0, Zeros(8), <<>>, <<>>)}
MCPeerData ==
  MCShortData \cup
  {W!SerialiseCoded(1, W!EncodingVector("Gf2_4", 0, <<1, 2>>, <<>>), Zeros(8), <<>>, <<>>)}

(* The parts of the state the future depends on: what the latest calls     *)
(* returned is already in sent and inbox.                                  *)
View == <<config, window, acks, next_coded_id, generation, coded_ids_used, current_rate, acc,
          panicked, evicted, rows, known, buffer, next_delivery_id,
          encoder_win_min, counter, pc, cur, todo, queue, recovered, local_known,
          delivered, skipped, late_pivot, netVars>>
=============================================================================

----------------------------- MODULE MCEncoder ------------------------------
(* Instances of Encoder for TLC. *)
EXTENDS Encoder, TLC

MCConfig(policy, mode, strategy, numer, denom) ==
  [policy |-> policy, backpressure |-> mode, strategy |-> strategy,
   fec_numer |-> numer, fec_denom |-> denom,
   min_rate |-> numer, max_rate |-> numer, target_loss |-> 0]

(* The rate moves between a third of a packet and two thirds. *)
Adaptive(c) == [c EXCEPT !.max_rate = 2 * c.min_rate, !.target_loss = 26]

(* One configuration for each policy, each mode and each strategy. *)
MCConfigs ==
  {MCConfig([kind |-> "any"], "EvictOldest", "Cauchy", 1, 2),
   MCConfig([kind |-> "all"], "Reject", "Vandermonde", 2, 3),
   MCConfig([kind |-> "quorum", quorum |-> 2], "Reject", "Cauchy", 0, 1),
   Adaptive(MCConfig([kind |-> "any"], "Reject", "Vandermonde", 1, 3))}

(* A single sender with the default policy, for the wrap of the identifiers. *)
MCWrapConfigs == {MCConfig([kind |-> "any"], "EvictOldest", "Vandermonde", 0, 1)}

MCCauchyConfigs == {MCConfig([kind |-> "any"], "Reject", "Cauchy", 0, 1)}

(* The receivers are interchangeable. *)
ReceiverSymmetry == Permutations(Receivers)
=============================================================================

------------------------------ MODULE Delivery ------------------------------
(***************************************************************************)
(* What the decoder promises the application (decoder/mod.rs,              *)
(* DecoderEvent): the symbols in ascending order, each one either ready or *)
(* part of a declared gap, decided once and for all.                       *)
(***************************************************************************)
EXTENDS Integers

CONSTANT NumIds

VARIABLES fate, \* what the application was told of each symbol
          next  \* everything below has been decided

Init == fate = [i \in 0..(NumIds - 1) |-> "pending"] /\ next = 0

(* One call: the symbols up to m are ready, those from m to n are missing. *)
Advance(m, n) ==
  /\ next <= m /\ m <= n
  /\ fate' = [i \in 0..(NumIds - 1) |-> IF next <= i /\ i < m THEN "ready"
                                        ELSE IF m <= i /\ i < n THEN "missing"
                                        ELSE fate[i]]
  /\ next' = n

Next == \E m, n \in 0..NumIds : Advance(m, n)

Spec == Init /\ [][Next]_<<fate, next>>
=============================================================================

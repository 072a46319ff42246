---------------------------- MODULE ReceiverAcks ----------------------------
(***************************************************************************)
(* What the encoder knows of its receivers (policy/mod.rs,                 *)
(* ReceiverAckState) and the policies that decide from it which symbols    *)
(* leave the window (policy/defaults.rs).                                  *)
(*                                                                         *)
(* An ack state maps each receiver to NoEntry (no feedback processed yet,  *)
(* the HashMap has no entry) or to a record                                *)
(*   [cumulative_ack, sack].                                               *)
(* A feedback packet is the record [first_src_id, acked] of its cumulative *)
(* acknowledgement and of the identifiers its SACK bits name, none of them *)
(* below first_src_id.                                                     *)
(***************************************************************************)
EXTENDS Integers, FiniteSets

CONSTANTS Receivers, NoEntry

(* What the HashMap holds for a receiver it knows. *)
Entries == [cumulative_ack : Nat, sack : SUBSET Nat]

ASSUME ReceiverAssumption == IsFiniteSet(Receivers) /\ NoEntry \notin Entries

Feedbacks(Ids) == {f \in [first_src_id : Ids, acked : SUBSET Ids] :
                     \A i \in f.acked : i >= f.first_src_id}

NoAcks == [r \in Receivers |-> NoEntry]

EmptyEntry == [cumulative_ack |-> 0, sack |-> {}]

EntryOf(acks, r) == IF acks[r] = NoEntry THEN EmptyEntry ELSE acks[r]

(* receiver_ids(): the receivers that have an entry. *)
KnownReceivers(acks) == {r \in Receivers : acks[r] # NoEntry}

(* The loop that walks the cumulative ACK through contiguous SACK entries  *)
(* stops at the first identifier, from c on, that is not in the set.       *)
FirstMissing(c, S) ==
  CHOOSE n \in {c} \cup {i + 1 : i \in S} :
    n >= c /\ n \notin S /\ \A m \in c..(n-1) : m \in S

(* A mutation of update: the SACK entries are dropped with the old         *)
(* cumulative ACK instead of being kept above the new one.                 *)
UpdateForgetsSack(e, f) ==
  LET advanced == f.first_src_id > e.cumulative_ack
      c == IF advanced THEN f.first_src_id ELSE e.cumulative_ack
      S == (IF advanced THEN {} ELSE e.sack) \cup f.acked
      n == FirstMissing(c, S)
  IN  [cumulative_ack |-> n, sack |-> S \ (c..(n-1))]

(* ReceiverAckState::update: raise the cumulative ACK, drop the SACK       *)
(* entries below it, add the new SACK bits (whatever their position),      *)
(* walk the cumulative ACK through the entries that follow it.             *)
Update(e, f) ==
  LET advanced == f.first_src_id > e.cumulative_ack
      c == IF advanced THEN f.first_src_id ELSE e.cumulative_ack
      S == (IF advanced THEN {i \in e.sack : i >= c} ELSE e.sack) \cup f.acked
      n == FirstMissing(c, S)
  IN  [cumulative_ack |-> n, sack |-> S \ (c..(n-1))]

EntryAcks(e, id) == id < e.cumulative_ack \/ id \in e.sack

IsAcked(acks, r, id) == acks[r] # NoEntry /\ EntryAcks(acks[r], id)

AckedBy(acks, id) == {r \in Receivers : IsAcked(acks, r, id)}

----------------------------------------------------------------------------
(* A mutation of the policies: the quorum test is off by one. *)
MayRemoveTooEarly(policy, acks, id) ==
  CASE policy.kind = "any"    -> AckedBy(acks, id) # {}
    [] policy.kind = "all"    -> AckedBy(acks, id) # {}
    [] policy.kind = "quorum" -> Cardinality(AckedBy(acks, id)) + 1 >= policy.quorum

(* AnyAckPolicy, AllAckPolicy and QuorumAckPolicy: may id leave the window? *)
MayRemove(policy, acks, id) ==
  CASE policy.kind = "any"    -> AckedBy(acks, id) # {}
    [] policy.kind = "all"    -> /\ KnownReceivers(acks) # {}
                                 /\ AckedBy(acks, id) = KnownReceivers(acks)
    [] policy.kind = "quorum" -> Cardinality(AckedBy(acks, id)) >= policy.quorum
=============================================================================

----------------------------- MODULE MCTransfer -----------------------------
(* Instances of Transfer for TLC, over the program's GF(2^4). *)
EXTENDS Transfer, MCCodec

(* The command line's window policy and backpressure. *)
MCTransferConfigs == {MCConfig("EvictOldest", "Vandermonde", 0, 1),
                      MCConfig("EvictOldest", "Cauchy", 1, 2)}

Strategies == {"Vandermonde", "Cauchy"}

(* Files up to one symbol longer than the window, the longest with every   *)
(* --altc mode.  When datagrams overtake each other, a short file, and a   *)
(* longer one with targeted packets: here a late source packet can leave a *)
(* row under a stale key, and a wrong file is written.                     *)
MCTransfers ==
  [network : {"fifo"}, covers : {"none"}, n_symbols : {0, 2, 3}, strategy : Strategies]
    \cup [network : {"fifo"}, covers : {"receiver"}, n_symbols : {3}, strategy : {"Vandermonde"}]
    \cup [network : {"fifo"}, covers : {"recent"}, n_symbols : {3}, strategy : {"Cauchy"}]
    \cup [network : {"reordering"}, covers : {"none"}, n_symbols : {2}, strategy : {"Vandermonde"}]
    \cup [network : {"reordering"}, covers : {"recent"}, n_symbols : {3}, strategy : {"Cauchy"}]

(* What the theorem about the tail flush assumes holds for these instances. *)
ASSUME Separating /\ Capacity <= MaxRows
=============================================================================

--------------------------- MODULE EncodingWindow ---------------------------
(***************************************************************************)
(* The encoder's sliding window (codec/encoder/window.rs).                 *)
(*                                                                         *)
(* Source symbols are named by their submission number n = 0, 1, 2, ...    *)
(* The program assigns symbol n the 32-bit identifier n % 2^32; IdSpace    *)
(* stands for 2^32.  The VecDeque of symbols only ever grows at the back   *)
(* with the next submission and otherwise loses elements, so its order is  *)
(* the order of the submission numbers and a set of numbers represents it. *)
(* The payload of symbol n is represented by n itself.                     *)
(*                                                                         *)
(* A window is a record                                                    *)
(*   [symbols, next_id, is_contiguous]                                     *)
(* where next_id is kept as a submission number; the 32-bit field of the   *)
(* program is Id(next_id).                                                 *)
(***************************************************************************)
EXTENDS Integers, FiniteSets

CONSTANTS Capacity,  \* window_capacity of the configuration
          IdSpace,   \* number of distinct identifiers (2^32 in the program)
          None       \* Rust's Option::None

ASSUME WindowAssumption == /\ Capacity \in Nat \ {0}
                           /\ IdSpace \in Nat \ {0}
                           /\ None \notin Nat

(* The identifier the program gives to submission n (wrapping_add). *)
Id(n) == n % IdSpace

Windows == [symbols : SUBSET Nat, next_id : Nat, is_contiguous : BOOLEAN]

NewWindow == [symbols |-> {}, next_id |-> 0, is_contiguous |-> TRUE]

IsFull(w) == Cardinality(w.symbols) >= Capacity

(* first_id() / last_id(): the symbols at the two ends of the deque. *)
Front(S) == CHOOSE n \in S : \A m \in S : n <= m
Back(S)  == CHOOSE n \in S : \A m \in S : m <= n

(* Identifiers currently in the window: id_slice(). *)
WindowIds(w) == {Id(n) : n \in w.symbols}

(* Neighbours in the deque. *)
Adjacent(S, a, b) == /\ a \in S /\ b \in S /\ a < b
                     /\ \A c \in S : c <= a \/ b <= c

check_contiguous(S) ==
  \A a, b \in S : Adjacent(S, a, b) => Id(b) = (Id(a) + 1) % IdSpace

----------------------------------------------------------------------------
(* Mutations that a slip in evict_oldest, remove_ids or get could          *)
(* introduce; no specification uses them.                                  *)
EvictNothing(w) == w

RemoveIdsKeepFlag(w, ids) ==
  [w EXCEPT !.symbols = {n \in @ : Id(n) \notin ids}]

RemoveIdsFromFront(w, ids) ==
  [w EXCEPT !.symbols = {n \in @ : \E m \in @ : m <= n /\ Id(m) \notin ids}]

----------------------------------------------------------------------------
(* push: append the next submission, clear the flag when its identifier    *)
(* does not follow the last one in the window.                             *)
Push(w) ==
  [symbols       |-> w.symbols \cup {w.next_id},
   next_id       |-> w.next_id + 1,
   is_contiguous |-> /\ w.is_contiguous
                     /\ \/ w.symbols = {}
                        \/ Id(w.next_id) = (Id(Back(w.symbols)) + 1) % IdSpace]

(* evict_oldest: pop_front, the flag is left alone. *)
EvictOldest(w) == [w EXCEPT !.symbols = @ \ {Front(@)}]

(* remove_ids: retain; the flag is recomputed when something was removed. *)
RemoveIds(w, ids) ==
  LET kept == {n \in w.symbols : Id(n) \notin ids}
  IN  IF kept = w.symbols
        THEN w
        ELSE [w EXCEPT !.symbols = kept, !.is_contiguous = check_contiguous(kept)]

(* VecDeque::get(idx): the symbol with idx symbols before it. *)
AtIndex(S, idx) ==
  IF \E n \in S : Cardinality({m \in S : m < n}) = idx
    THEN CHOOSE n \in S : Cardinality({m \in S : m < n}) = idx
    ELSE None

(* A mutation of get: the index is used whatever the flag says. *)
GetByIndex(w, id) ==
  IF w.symbols = {} THEN None
  ELSE IF id < Id(Front(w.symbols)) THEN None
  ELSE AtIndex(w.symbols, id - Id(Front(w.symbols)))

(* get: by index when the flag says contiguous, by linear search otherwise. *)
Get(w, id) ==
  LET front == Id(Front(w.symbols))
  IN  CASE w.symbols = {}                            -> None
        [] w.symbols # {} /\ w.is_contiguous         ->
             IF id < front THEN None ELSE AtIndex(w.symbols, id - front)
        [] w.symbols # {} /\ ~w.is_contiguous        ->
             IF id \in WindowIds(w)
               THEN Front({n \in w.symbols : Id(n) = id})
               ELSE None
=============================================================================

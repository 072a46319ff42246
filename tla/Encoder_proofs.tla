--------------------------- MODULE Encoder_proofs ---------------------------
(***************************************************************************)
(* Proofs about Encoder, from lemmas about the operations of its window:   *)
(* what push, evict and remove leave of it, and that the lookup by index   *)
(* is exact while the flag is_contiguous is honest.                        *)
(***************************************************************************)
EXTENDS Encoder, NatLemmas

----------------------------------------------------------------------------
(* The window. *)

(* A set of submissions without a hole. *)
IsInterval(S) == \A a, b \in S : \A c \in a..b : c \in S

(* The window holds submissions of the past, and the flag is honest until  *)
(* the identifiers wrap.                                                   *)
GoodWindow(w) ==
  /\ w \in Windows
  /\ \A n \in w.symbols : n < w.next_id
  /\ w.next_id <= IdSpace /\ w.is_contiguous => IsInterval(w.symbols)

(* The ends of the deque. *)
LEMMA FrontIsLeast ==
  ASSUME NEW S, S \subseteq Nat, S # {}
  PROVE  Front(S) \in S /\ \A m \in S : Front(S) <= m
<1>1. \E n \in S : \A m \in S : n <= m  BY LeastElement
<1>. QED  BY <1>1 DEF Front

(* The last symbol of a window is its most recent one. *)
LEMMA BackIsGreatest ==
  ASSUME NEW S, S \subseteq Nat, S # {}, NEW b \in Nat, \A x \in S : x < b
  PROVE  Back(S) \in S /\ \A m \in S : m <= Back(S)
<1>1. \E n \in S : \A m \in S : m <= n  BY GreatestElement
<1>. QED  BY <1>1 DEF Back

(* Until the identifiers wrap, a symbol's identifier is its number. *)
LEMMA IdIsNumber == \A n \in 0..(IdSpace - 1) : Id(n) = n
BY ModSmall, WindowAssumption DEF Id

(* The identifiers of a window, until they wrap. *)
LEMMA WindowIdsExact ==
  ASSUME NEW w, GoodWindow(w), w.next_id <= IdSpace
  PROVE  /\ \A n \in w.symbols : Id(n) = n /\ n \in Nat
         /\ WindowIds(w) = w.symbols
<1>1. \A n \in w.symbols : n \in 0..(IdSpace - 1)
  BY WindowAssumption DEF GoodWindow, Windows
<1>2. \A n \in w.symbols : Id(n) = n /\ n \in Nat  BY <1>1, IdIsNumber
<1>. QED  BY <1>2 DEF WindowIds

(* The symbols before one of an interval. *)
LEMMA BeforeInInterval ==
  ASSUME NEW S, S \subseteq Nat, IsInterval(S), NEW n \in S
  PROVE  Cardinality({m \in S : m < n}) = n - Front(S)
<1>1. Front(S) \in S /\ Front(S) \in Nat /\ \A m \in S : Front(S) <= m
  BY FrontIsLeast
<1>2. {m \in S : m < n} = Front(S)..(n - 1)
  <2>1. \A m \in S : m < n => m \in Front(S)..(n - 1)  BY <1>1
  <2>2. \A m \in Front(S)..(n - 1) : m \in S /\ m < n
    <3>. TAKE m \in Front(S)..(n - 1)
    <3>1. m \in Front(S)..n /\ m < n  BY <1>1
    <3>. QED  BY <1>1, <3>1 DEF IsInterval
  <2>. QED  BY <2>1, <2>2
<1>3. Cardinality(Front(S)..(n - 1)) = n - Front(S)
  BY <1>1, IntervalSize
<1>. QED  BY <1>2, <1>3

(* get finds a symbol by its identifier, and nothing else. *)
LEMMA GetExact ==
  ASSUME NEW w, GoodWindow(w), w.next_id <= IdSpace, NEW id \in Nat
  PROVE  Get(w, id) = IF id \in w.symbols THEN id ELSE None
<1>. DEFINE S == w.symbols
            front == Id(Front(S))
<1>1. /\ S \subseteq Nat /\ WindowIds(w) = S
      /\ \A n \in S : Id(n) = n
  BY WindowIdsExact
<1>2. CASE S = {}
  BY <1>2 DEF Get
<1>3. CASE S # {} /\ w.is_contiguous
  <2>1. IsInterval(S)  BY <1>3 DEF GoodWindow
  <2>2. /\ Front(S) \in S /\ Front(S) \in Nat /\ \A m \in S : Front(S) <= m
        /\ front = Front(S)
    BY <1>1, <1>3, FrontIsLeast
  <2>3. Get(w, id) = IF id < front THEN None ELSE AtIndex(S, id - front)
    BY <1>3 DEF Get
  <2>4. CASE id < front
    BY <2>2, <2>3, <2>4
  <2>5. CASE ~(id < front)
    <3>1. \A n \in S : Cardinality({m \in S : m < n}) = n - front
      BY <1>1, <2>1, <2>2, BeforeInInterval
    <3>2. \A n \in S : Cardinality({m \in S : m < n}) = id - front <=> n = id
      BY <1>1, <2>2, <3>1
    <3>. HIDE DEF S, front
    <3>3. AtIndex(S, id - front) = IF id \in S THEN id ELSE None
      BY <3>2 DEF AtIndex
    <3>. QED  BY <2>3, <2>5, <3>3 DEF S
  <2>. QED  BY <2>4, <2>5
<1>4. CASE S # {} /\ ~w.is_contiguous
  <2>1. Get(w, id) = IF id \in S THEN Front({n \in S : Id(n) = id}) ELSE None
    BY <1>1, <1>4 DEF Get
  <2>2. ASSUME id \in S PROVE Front({n \in S : Id(n) = id}) = id
    <3>1. {n \in S : Id(n) = id} = {id}  BY <1>1, <2>2
    <3>2. Front({id}) \in {id}  BY FrontIsLeast
    <3>. QED  BY <3>1, <3>2
  <2>. QED  BY <2>1, <2>2
<1>. QED  BY <1>2, <1>3, <1>4

----------------------------------------------------------------------------
(* The operations keep the window good. *)

(* A set of submissions is an interval when every two neighbours in it     *)
(* have consecutive identifiers.                                           *)
LEMMA CheckContiguousHonest ==
  ASSUME NEW S, S \subseteq 0..(IdSpace - 1), check_contiguous(S)
  PROVE  IsInterval(S)
<1>. SUFFICES ASSUME NEW a \in S, NEW b \in S, NEW c \in a..b, c \notin S
              PROVE  FALSE
  BY DEF IsInterval
<1>. DEFINE L == {x \in S : x < c}
            G == {x \in S : c < x}
<1>0. S \subseteq Nat /\ a \in Nat /\ b \in Nat /\ c \in Nat  OBVIOUS
<1>. a < c /\ c < b
  <2>1. a # c /\ b # c  OBVIOUS
  <2>. QED  BY <1>0, <2>1
<1>1. a \in L /\ L \subseteq Nat /\ \A x \in L : x < c  BY <1>0
<1>2. b \in G /\ G \subseteq Nat  BY <1>0
<1>3. PICK x \in L : \A y \in L : y <= x
  <2>. HIDE DEF L
  <2>. QED  BY <1>0, <1>1, GreatestElement
<1>4. PICK z \in G : \A y \in G : z <= y
  <2>. HIDE DEF G
  <2>. QED  BY <1>2, LeastElement
<1>5. Adjacent(S, x, z)
  <2>1. x \in S /\ z \in S /\ x < c /\ c < z  BY <1>3, <1>4
  <2>2. \A y \in S : y <= x \/ z <= y  BY <1>0, <1>3, <1>4
  <2>. QED  BY <1>0, <2>1, <2>2 DEF Adjacent
<1>6. Id(z) = (Id(x) + 1) % IdSpace  BY <1>5 DEF check_contiguous, Adjacent
<1>7. /\ x \in 0..(IdSpace - 1) /\ z \in 0..(IdSpace - 1) /\ x < c /\ c < z
      /\ x + 1 \in 0..(IdSpace - 1)
  BY <1>0, <1>3, <1>4, WindowAssumption
<1>8. Id(x) = x /\ Id(z) = z /\ (x + 1) % IdSpace = x + 1
  BY <1>7, IdIsNumber, ModSmall, WindowAssumption
<1>. QED  BY <1>0, <1>6, <1>7, <1>8

(* push keeps the window good. *)
LEMMA PushGood ==
  ASSUME NEW w, GoodWindow(w)
  PROVE  GoodWindow(Push(w))
<1>. DEFINE S == w.symbols
            n == w.next_id
<1>1. /\ S \subseteq Nat /\ n \in Nat /\ w.is_contiguous \in BOOLEAN
      /\ \A m \in S : m < n
  BY DEF GoodWindow, Windows
<1>2. /\ Push(w).symbols = S \cup {n} /\ Push(w).next_id = n + 1
      /\ Push(w).is_contiguous =
           (w.is_contiguous /\ (S = {} \/ Id(n) = (Id(Back(S)) + 1) % IdSpace))
  BY DEF Push
<1>3. Push(w) \in Windows  BY <1>1 DEF Push, Windows
<1>4. \A m \in Push(w).symbols : m < Push(w).next_id  BY <1>1, <1>2
<1>5. ASSUME n + 1 <= IdSpace, Push(w).is_contiguous
      PROVE  IsInterval(S \cup {n})
  <2>1. IsInterval(S)  BY <1>1, <1>2, <1>5, WindowAssumption DEF GoodWindow
  <2>2. CASE S = {}
    BY <1>1, <2>2 DEF IsInterval
  <2>3. CASE S # {}
    <3>1. Back(S) \in S /\ \A m \in S : m <= Back(S)
      BY <1>1, <2>3, BackIsGreatest
    <3>2. /\ n \in 0..(IdSpace - 1) /\ Back(S) \in 0..(IdSpace - 1)
          /\ Back(S) + 1 \in 0..(IdSpace - 1)
      BY <1>1, <1>5, <3>1, WindowAssumption
    <3>3. Id(n) = n /\ Id(Back(S)) = Back(S) /\ (Back(S) + 1) % IdSpace = Back(S) + 1
      BY <3>2, IdIsNumber, ModSmall, WindowAssumption
    <3>4. n = Back(S) + 1  BY <1>2, <1>5, <2>3, <3>3
    <3>. HIDE DEF S, n
    <3>5. ASSUME NEW a \in S \cup {n}, NEW b \in S \cup {n}, NEW c \in a..b
          PROVE  c \in S \cup {n}
      <4>1. CASE b \in S /\ a \in S  BY <2>1, <4>1 DEF IsInterval
      <4>2. CASE b \in S /\ a = n
        <5>1. b < n /\ b \in Nat /\ n \in Nat  BY <1>1, <4>2
        <5>. QED  BY <4>2, <5>1
      <4>3. CASE b = n /\ a = n  BY <1>1, <4>3
      <4>4. CASE b = n /\ a \in S
        <5>1. a \in Nat /\ Back(S) \in Nat /\ n = Back(S) + 1  BY <1>1, <3>1, <3>4, <4>4
        <5>2. c \in a..n  BY <4>4
        <5>3. c = n \/ c \in a..Back(S)  BY <5>1, <5>2
        <5>. QED  BY <2>1, <3>1, <4>4, <5>3 DEF IsInterval
      <4>. QED  BY <4>1, <4>2, <4>3, <4>4
    <3>. QED  BY <3>5 DEF IsInterval
  <2>. QED  BY <2>2, <2>3
<1>. QED  BY <1>2, <1>3, <1>4, <1>5 DEF GoodWindow

(* evict_oldest leaves the flag alone, and may: it takes from the front. *)
LEMMA EvictGood ==
  ASSUME NEW w, GoodWindow(w), w.symbols # {}
  PROVE  /\ GoodWindow(EvictOldest(w))
         /\ EvictOldest(w).symbols = w.symbols \ {Front(w.symbols)}
         /\ EvictOldest(w).next_id = w.next_id
<1>1. w \in Windows /\ w.symbols \subseteq Nat  BY DEF GoodWindow, Windows
<1>2. /\ EvictOldest(w).symbols = w.symbols \ {Front(w.symbols)}
      /\ EvictOldest(w).next_id = w.next_id
      /\ EvictOldest(w).is_contiguous = w.is_contiguous
      /\ EvictOldest(w) \in Windows
  BY <1>1 DEF EvictOldest, Windows
<1>3. Front(w.symbols) \in w.symbols /\ \A m \in w.symbols : Front(w.symbols) <= m
  BY <1>1, FrontIsLeast
<1>4. ASSUME IsInterval(w.symbols) PROVE IsInterval(w.symbols \ {Front(w.symbols)})
  <2>. SUFFICES ASSUME NEW a \in w.symbols \ {Front(w.symbols)},
                       NEW b \in w.symbols \ {Front(w.symbols)}, NEW c \in a..b
                PROVE  c \in w.symbols /\ c # Front(w.symbols)
    BY DEF IsInterval
  <2>1. c \in w.symbols  BY <1>4 DEF IsInterval
  <2>. QED  BY <1>1, <1>3, <2>1
<1>. QED  BY <1>2, <1>4 DEF GoodWindow

(* remove_ids recomputes the flag when it removes something. *)
LEMMA RemoveGood ==
  ASSUME NEW w, GoodWindow(w), NEW ids
  PROVE  /\ GoodWindow(RemoveIds(w, ids))
         /\ RemoveIds(w, ids).symbols = {n \in w.symbols : Id(n) \notin ids}
         /\ RemoveIds(w, ids).next_id = w.next_id
<1>. DEFINE kept == {n \in w.symbols : Id(n) \notin ids}
<1>1. w \in Windows /\ w.symbols \subseteq Nat  BY DEF GoodWindow, Windows
<1>2. CASE kept = w.symbols
  BY <1>2 DEF RemoveIds
<1>3. CASE kept # w.symbols
  <2>1. RemoveIds(w, ids) = [w EXCEPT !.symbols = kept, !.is_contiguous = check_contiguous(kept)]
    BY <1>3 DEF RemoveIds
  <2>2. check_contiguous(kept) \in BOOLEAN  BY DEF check_contiguous
  <2>3. kept \subseteq w.symbols  OBVIOUS
  <2>. HIDE DEF kept
  <2>4. /\ RemoveIds(w, ids).symbols = kept
        /\ RemoveIds(w, ids).next_id = w.next_id
        /\ RemoveIds(w, ids).is_contiguous = check_contiguous(kept)
        /\ RemoveIds(w, ids) \in Windows
    BY <1>1, <2>1, <2>2, <2>3 DEF Windows
  <2>5. ASSUME w.next_id <= IdSpace, check_contiguous(kept) PROVE IsInterval(kept)
    <3>1. kept \subseteq 0..(IdSpace - 1)
      BY <1>1, <2>3, <2>5, WindowAssumption DEF GoodWindow, Windows
    <3>. QED  BY <2>5, <3>1, CheckContiguousHonest
  <2>6. GoodWindow(RemoveIds(w, ids))
    BY <2>3, <2>4, <2>5 DEF GoodWindow
  <2>. QED  BY <2>4, <2>6 DEF kept
<1>. QED  BY <1>2, <1>3

----------------------------------------------------------------------------
(* The encoder. *)

(* Each entry of the ack state is an exact summary of the receiver's       *)
(* reports, for every identifier, and the reports are about submissions of *)
(* the past.                                                               *)
AckInv ==
  \A r \in Receivers :
    /\ \A id \in reported[r] : id < window.next_id
    /\ acks[r] = NoEntry => reported[r] = {}
    /\ acks[r] # NoEntry => \A id \in Nat : EntryAcks(acks[r], id) <=> id \in reported[r]

EncInv == TypeOK /\ GoodWindow(window) /\ AckInv

----------------------------------------------------------------------------
(* Acknowledgements. *)

(* The walk of the cumulative ACK ends when the SACK entries are bounded.  *)
LEMMA FirstMissingExists ==
  ASSUME NEW c \in Nat, NEW S, S \subseteq Nat, NEW b \in Nat, \A i \in S : i < b
  PROVE  LET n == FirstMissing(c, S)
         IN  n \in Nat /\ n >= c /\ n \notin S /\ \A m \in c..(n-1) : m \in S
<1>. DEFINE M == {n \in Nat : n >= c /\ n \notin S}
<1>1. M \subseteq Nat /\ M # {}
  <2>1. b + c \in M  OBVIOUS
  <2>. QED  BY <2>1
<1>2. PICK n \in M : \A k \in M : n <= k
  <2>. HIDE DEF M
  <2>. QED  BY <1>1, LeastElement
<1>3. n \in Nat /\ n >= c /\ n \notin S  BY <1>2
<1>4. \A m \in c..(n-1) : m \in S
  <2>. SUFFICES ASSUME NEW m \in c..(n-1), m \notin S PROVE FALSE  OBVIOUS
  <2>1. m \in M /\ m < n  BY <1>3
  <2>. QED  BY <1>2, <1>3, <2>1
<1>5. n \in {c} \cup {i + 1 : i \in S}
  <2>1. CASE n = c  BY <2>1
  <2>2. CASE n # c
    <3>1. n - 1 \in c..(n-1)  BY <1>3, <2>2
    <3>2. n - 1 \in S /\ n = (n - 1) + 1  BY <1>3, <1>4, <3>1
    <3>. QED  BY <3>2
  <2>. QED  BY <2>1, <2>2
<1>6. \E k \in {c} \cup {i + 1 : i \in S} :
        k >= c /\ k \notin S /\ \A m \in c..(k-1) : m \in S
  BY <1>3, <1>4, <1>5
<1>7. \A k \in {c} \cup {i + 1 : i \in S} : k \in Nat
  <2>. SUFFICES ASSUME NEW k \in {c} \cup {i + 1 : i \in S}, k # c PROVE k \in Nat
    OBVIOUS
  <2>1. PICK i \in S : k = i + 1  OBVIOUS
  <2>2. i \in Nat  OBVIOUS
  <2>. QED  BY <2>1, <2>2
<1>. QED  BY <1>6, <1>7 DEF FirstMissing

(* ReceiverAckState::update adds what the feedback reports and forgets     *)
(* nothing, whether the feedback is fresh, stale or repeated.              *)
LEMMA UpdateExact ==
  ASSUME NEW e \in Entries, NEW f \in [first_src_id : Nat, acked : SUBSET Nat],
         NEW b \in Nat, \A i \in e.sack \cup f.acked : i < b
  PROVE  /\ Update(e, f) \in Entries
         /\ \A id \in Nat : EntryAcks(Update(e, f), id) <=>
              EntryAcks(e, id) \/ id < f.first_src_id \/ id \in f.acked
<1>. DEFINE advanced == f.first_src_id > e.cumulative_ack
            c == IF advanced THEN f.first_src_id ELSE e.cumulative_ack
            S == (IF advanced THEN {i \in e.sack : i >= c} ELSE e.sack) \cup f.acked
            n == FirstMissing(c, S)
<1>1. /\ e.cumulative_ack \in Nat /\ e.sack \subseteq Nat
      /\ f.first_src_id \in Nat /\ f.acked \subseteq Nat
  BY DEF Entries
<1>2. c \in Nat /\ c >= e.cumulative_ack /\ c >= f.first_src_id
      /\ c \in {e.cumulative_ack, f.first_src_id}
  BY <1>1
<1>3. /\ S \subseteq Nat /\ S \subseteq e.sack \cup f.acked /\ f.acked \subseteq S
      /\ \A i \in e.sack : i < c \/ i \in S
  BY <1>1, <1>2
<1>4. \A i \in S : i < b  BY <1>3
<1>5. Update(e, f) = [cumulative_ack |-> n, sack |-> S \ (c..(n-1))]
  BY DEF Update
<1>. HIDE DEF S, c
<1>6. n \in Nat /\ n >= c /\ n \notin S /\ \A m \in c..(n-1) : m \in S
  BY <1>2, <1>3, <1>4, FirstMissingExists
<1>. HIDE DEF n
<1>7. Update(e, f) \in Entries
  <2>1. S \ (c..(n-1)) \in SUBSET Nat  BY <1>3
  <2>. QED  BY <1>5, <1>6, <2>1 DEF Entries
<1>8. ASSUME NEW id \in Nat
      PROVE  EntryAcks(Update(e, f), id) <=>
               EntryAcks(e, id) \/ id < f.first_src_id \/ id \in f.acked
  <2>1. EntryAcks(Update(e, f), id) <=> id < n \/ id \in S
    BY <1>2, <1>5, <1>6 DEF EntryAcks
  <2>2. id < n <=> id < c \/ id \in c..(n-1)  BY <1>2, <1>6
  <2>3. id < n \/ id \in S <=> id < c \/ id \in S  BY <1>6, <2>2
  <2>4. id < c <=> id < e.cumulative_ack \/ id < f.first_src_id  BY <1>1, <1>2
  <2>5. id < c \/ id \in S <=> id < c \/ id \in e.sack \/ id \in f.acked
    BY <1>3
  <2>. QED  BY <2>1, <2>3, <2>4, <2>5 DEF EntryAcks
<1>. QED  BY <1>7, <1>8

(* The policies' view of a symbol is what the receivers have reported. *)
LEMMA AckedByExact ==
  ASSUME AckInv, NEW id \in Nat
  PROVE  \A r \in Receivers : IsAcked(acks, r, id) <=> id \in reported[r]
BY DEF AckInv, IsAcked

----------------------------------------------------------------------------
(* The inductive invariant. *)

(* The configuration and what follows from it. *)
LEMMA ConfigFacts ==
  ASSUME config \in Configs
  PROVE  /\ config.fec_numer \in Nat /\ config.fec_denom \in Nat \ {0}
         /\ config.min_rate \in Nat /\ config.max_rate \in Nat
         /\ config.min_rate <= config.fec_numer /\ config.fec_numer <= config.max_rate
         /\ config.policy \in Policies
         /\ coded_id_cycle \in Nat \ {0} /\ FirstCodedId \in {0, 1}
<1>1. config \in ConfigType  BY EncoderAssumption
<1>. QED  BY <1>1, EncoderAssumption DEF ConfigType, coded_id_cycle, FirstCodedId

(* Encoder::new establishes the invariant. *)
LEMMA InitInv == Init => EncInv
<1>. SUFFICES ASSUME Init PROVE EncInv  OBVIOUS
<1>1. config \in Configs  BY DEF Init
<1>2. /\ window = [symbols |-> {}, next_id |-> 0, is_contiguous |-> TRUE]
      /\ acks = [r \in Receivers |-> NoEntry] /\ reported = [r \in Receivers |-> {}]
  BY DEF Init, NewWindow, NoAcks
<1>3. window \in Windows /\ GoodWindow(window)
  BY <1>2 DEF GoodWindow, Windows, IsInterval
<1>4. IsFiniteSet(window.symbols) /\ Cardinality(window.symbols) <= Capacity
  BY <1>2, FS_EmptySet, WindowAssumption
<1>5. next_coded_id \in FirstCodedId..(FirstCodedId + coded_id_cycle - 1)
  BY <1>1, ConfigFacts DEF Init
<1>6. /\ generation \in 0..(GenSpace - 1) /\ coded_ids_used \in Nat /\ auto_coded \in Nat
      /\ current_rate \in config.min_rate..config.max_rate /\ owed \in Nat
      /\ acc \in 0..(config.fec_denom - 1)
  BY <1>1, ConfigFacts, EncoderAssumption DEF Init
<1>7. panicked \in BOOLEAN /\ evicted \in SUBSET Nat  BY DEF Init
<1>8. AckInv  BY <1>2 DEF AckInv
<1>9. TypeOK  BY <1>1, <1>2, <1>3, <1>4, <1>5, <1>6, <1>7 DEF TypeOK
<1>. QED  BY <1>3, <1>8, <1>9 DEF EncInv

(* The part of the type invariant that does not speak of receivers. *)
CoderOK ==
  /\ config \in Configs
  /\ next_coded_id \in FirstCodedId..(FirstCodedId + coded_id_cycle - 1)
  /\ generation \in 0..(GenSpace - 1)
  /\ coded_ids_used \in Nat
  /\ current_rate \in config.min_rate..config.max_rate
  /\ acc \in 0..(config.fec_denom - 1)

(* The identifier and the generation of every packet are within bounds. *)
LEMMA CodedIdRange ==
  ASSUME CoderOK, NEW k \in Nat
  PROVE  /\ CodedIdAfter(k) \in FirstCodedId..(FirstCodedId + coded_id_cycle - 1)
         /\ GenerationAfter(k) \in 0..(GenSpace - 1)
<1>. DEFINE x == next_coded_id - FirstCodedId + k
<1>1. coded_id_cycle \in Nat \ {0} /\ FirstCodedId \in {0, 1}
  BY ConfigFacts DEF CoderOK
<1>2. x \in Nat  BY <1>1 DEF CoderOK
<1>3. /\ CodedIdAfter(k) = FirstCodedId + (x % coded_id_cycle)
      /\ GenerationAfter(k) = IF config.strategy = "Cauchy"
                                THEN (generation + (x \div coded_id_cycle)) % GenSpace
                                ELSE generation
  BY DEF CodedIdAfter, GenerationAfter
<1>. HIDE DEF x
<1>4. x % coded_id_cycle \in 0..(coded_id_cycle - 1) /\ x \div coded_id_cycle \in Nat
  BY <1>1, <1>2, DivMod
<1>5. CodedIdAfter(k) \in FirstCodedId..(FirstCodedId + coded_id_cycle - 1)
  BY <1>1, <1>3, <1>4
<1>6. GenerationAfter(k) \in 0..(GenSpace - 1)
  <2>1. generation + (x \div coded_id_cycle) \in Nat  BY <1>4, EncoderAssumption DEF CoderOK
  <2>2. (generation + (x \div coded_id_cycle)) % GenSpace \in 0..(GenSpace - 1)
    BY <2>1, DivMod, EncoderAssumption
  <2>. QED  BY <1>3, <2>2 DEF CoderOK
<1>. QED  BY <1>5, <1>6

(* The counters of the coded packets after any number of packets. *)
LEMMA CoderType ==
  ASSUME CoderOK, config' = config, NEW w, NEW cover, NEW n \in Nat, NEW first,
         GenerateCodedInner(w, cover, n, first)
  PROVE  /\ next_coded_id' \in FirstCodedId'..(FirstCodedId' + coded_id_cycle' - 1)
         /\ generation' \in 0..(GenSpace - 1)
         /\ coded_ids_used' \in Nat
         /\ panicked' \in BOOLEAN
<1>1. FirstCodedId' = FirstCodedId /\ coded_id_cycle' = coded_id_cycle
  BY DEF FirstCodedId, coded_id_cycle
<1>2. /\ next_coded_id' \in FirstCodedId'..(FirstCodedId' + coded_id_cycle' - 1)
      /\ generation' \in 0..(GenSpace - 1)
  BY <1>1, CodedIdRange DEF GenerateCodedInner
<1>3. coded_ids_used' \in Nat  BY DEF GenerateCodedInner, CoderOK
<1>4. panicked' \in BOOLEAN  BY Zenon DEF GenerateCodedInner
<1>. QED  BY <1>2, <1>3, <1>4

(* A step that emits coded packets and leaves the rest alone. *)
LEMMA GenerateOneInv ==
  ASSUME EncInv, NEW cover, GenerateOne(cover)
  PROVE  EncInv'
<1>1. /\ UNCHANGED <<config, window, acks, current_rate, acc, reported, evicted, auto_coded, owed>>
      /\ GenerateCodedInner(window, cover, 1, {})
  BY DEF GenerateOne, history
<1>2. /\ next_coded_id' \in FirstCodedId'..(FirstCodedId' + coded_id_cycle' - 1)
      /\ generation' \in 0..(GenSpace - 1) /\ coded_ids_used' \in Nat /\ panicked' \in BOOLEAN
  BY <1>1, CoderType DEF EncInv, TypeOK, CoderOK
<1>3. TypeOK'  BY <1>1, <1>2 DEF EncInv, TypeOK
<1>4. GoodWindow(window)' /\ AckInv'
  BY <1>1 DEF EncInv, AckInv
<1>. QED  BY <1>3, <1>4 DEF EncInv

(* The window that SubmitSource pushes into. *)
Room == IF IsFull(window) THEN EvictOldest(window) ELSE window

(* SubmitSource in terms of Room: only a full window loses a symbol, its   *)
(* oldest, and the window stays within its capacity.                       *)
LEMMA SubmitForm ==
  ASSUME EncInv, SubmitSource
  PROVE  /\ window' = Push(Room) /\ GoodWindow(Push(Room))
         /\ Push(Room).next_id = window.next_id + 1
         /\ Push(Room).symbols = Room.symbols \cup {window.next_id}
         /\ Room.symbols \subseteq window.symbols
         /\ \A n \in window.symbols \ Room.symbols :
              /\ config.backpressure = "EvictOldest"
              /\ Cardinality(window.symbols) = Capacity
              /\ \A m \in window.symbols : n <= m
         /\ IsFiniteSet(Push(Room).symbols) /\ Cardinality(Push(Room).symbols) <= Capacity
         /\ evicted' = evicted \cup (window.symbols \ Room.symbols)
         /\ GenerateCodedInner(Push(Room), WindowIds(Push(Room)), PacketsDue,
                               {SourcePacket(window.next_id)})
<1>1. /\ window' = Push(Room)
      /\ evicted' = evicted \cup (window.symbols \ Room.symbols)
      /\ GenerateCodedInner(Push(Room), WindowIds(Push(Room)), PacketsDue,
                            {SourcePacket(window.next_id)})
      /\ IsFull(window) => config.backpressure = "EvictOldest"
  BY Zenon DEF SubmitSource, Room
<1>2. /\ GoodWindow(window) /\ window.symbols \subseteq Nat /\ IsFiniteSet(window.symbols)
      /\ Cardinality(window.symbols) \in Nat /\ Cardinality(window.symbols) <= Capacity
  BY FS_CardinalityType DEF EncInv, TypeOK, Windows
<1>3. /\ GoodWindow(Room) /\ Room.next_id = window.next_id
      /\ Room.symbols \subseteq window.symbols
      /\ IsFiniteSet(Room.symbols) /\ Cardinality(Room.symbols) + 1 <= Capacity
      /\ Cardinality(Room.symbols) \in Nat
      /\ \A n \in window.symbols \ Room.symbols :
           IsFull(window) /\ \A m \in window.symbols : n <= m
  <2>1. CASE IsFull(window)
    <3>. DEFINE f == Front(window.symbols)
    <3>1. window.symbols # {}  BY <2>1, FS_EmptySet, WindowAssumption DEF IsFull
    <3>2. f \in window.symbols /\ \A m \in window.symbols : f <= m
      BY <1>2, <3>1, FrontIsLeast
    <3>3. Room = EvictOldest(window)  BY <2>1 DEF Room
    <3>4. /\ GoodWindow(Room) /\ Room.symbols = window.symbols \ {f}
          /\ Room.next_id = window.next_id
      BY <1>2, <3>1, <3>3, EvictGood
    <3>. HIDE DEF f
    <3>5. /\ IsFiniteSet(window.symbols \ {f})
          /\ Cardinality(window.symbols \ {f}) = Cardinality(window.symbols) - 1
      BY <1>2, <3>2, FS_RemoveElement
    <3>6. Cardinality(window.symbols \ {f}) \in Nat  BY <3>5, FS_CardinalityType
    <3>. QED  BY <1>2, <2>1, <3>2, <3>4, <3>5, <3>6, WindowAssumption
  <2>2. CASE ~IsFull(window)
    <3>1. Room = window  BY <2>2 DEF Room
    <3>. QED  BY <1>2, <2>2, <3>1, WindowAssumption DEF IsFull
  <2>. QED  BY <2>1, <2>2
<1>4. GoodWindow(Push(Room))  BY <1>3, PushGood
<1>5. Push(Room).next_id = window.next_id + 1 /\ Push(Room).symbols = Room.symbols \cup {window.next_id}
  BY <1>3 DEF Push
<1>6. IsFiniteSet(Push(Room).symbols) /\ Cardinality(Push(Room).symbols) <= Capacity
  <2>1. /\ IsFiniteSet(Room.symbols \cup {window.next_id})
        /\ Cardinality(Room.symbols \cup {window.next_id}) =
             IF window.next_id \in Room.symbols THEN Cardinality(Room.symbols)
                                                ELSE Cardinality(Room.symbols) + 1
    BY <1>3, FS_AddElement
  <2>. QED  BY <1>3, <1>5, <2>1, WindowAssumption
<1>7. \A n \in window.symbols \ Room.symbols :
        /\ config.backpressure = "EvictOldest"
        /\ Cardinality(window.symbols) = Capacity
        /\ \A m \in window.symbols : n <= m
  BY <1>1, <1>2, <1>3, WindowAssumption DEF IsFull
<1>. QED  BY <1>1, <1>3, <1>4, <1>5, <1>6, <1>7

(* What the rate controller does on a submission: whole packets go out,    *)
(* the remainder is kept.                                                  *)
LEMMA RateStep ==
  ASSUME CoderOK
  PROVE  /\ PacketsDue \in Nat /\ AccAfter \in 0..(config.fec_denom - 1)
         /\ acc + current_rate = config.fec_denom * PacketsDue + AccAfter
<1>1. config.fec_denom \in Nat \ {0} /\ config.min_rate \in Nat /\ config.max_rate \in Nat
  BY ConfigFacts DEF CoderOK
<1>2. acc + current_rate \in Nat  BY <1>1 DEF CoderOK
<1>. QED  BY <1>1, <1>2, DivMod DEF PacketsDue, AccAfter

(* SubmitSource preserves the invariant. *)
LEMMA SubmitSourceInv ==
  ASSUME EncInv, SubmitSource
  PROVE  EncInv'
<1>1. /\ UNCHANGED <<config, acks, current_rate, reported>>
      /\ acc' = AccAfter /\ auto_coded' = auto_coded + PacketsDue /\ owed' = owed + current_rate
  BY DEF SubmitSource
<1>2. PacketsDue \in Nat /\ AccAfter \in 0..(config.fec_denom - 1)
  BY RateStep DEF EncInv, TypeOK, CoderOK
<1>3. /\ next_coded_id' \in FirstCodedId'..(FirstCodedId' + coded_id_cycle' - 1)
      /\ generation' \in 0..(GenSpace - 1) /\ coded_ids_used' \in Nat /\ panicked' \in BOOLEAN
  BY <1>1, <1>2, SubmitForm, CoderType DEF EncInv, TypeOK, CoderOK
<1>4. /\ GoodWindow(window)' /\ IsFiniteSet(window'.symbols)
      /\ Cardinality(window'.symbols) <= Capacity
      /\ window'.next_id = window.next_id + 1
  BY SubmitForm
<1>5. current_rate' \in config'.min_rate..config'.max_rate /\ owed' \in Nat /\ auto_coded' \in Nat
  BY <1>1, <1>2, ConfigFacts DEF EncInv, TypeOK
<1>6. evicted' \in SUBSET Nat
  BY SubmitForm DEF EncInv, TypeOK, Windows
<1>7. window' \in Windows  BY <1>4 DEF GoodWindow
<1>8. TypeOK'
  BY <1>1, <1>2, <1>3, <1>4, <1>5, <1>6, <1>7 DEF EncInv, TypeOK
<1>9. AckInv'
  <2>1. \A r \in Receivers : \A id \in reported[r] : id \in Nat /\ id < window.next_id + 1
    BY DEF EncInv, AckInv, TypeOK, Windows
  <2>. QED  BY <1>1, <1>4, <2>1 DEF EncInv, AckInv
<1>. QED  BY <1>4, <1>8, <1>9 DEF EncInv

(* AdaptiveFecRate::on_feedback stays between its limits. *)
LEMMA RateAfterType ==
  ASSUME CoderOK, NEW loss
  PROVE  RateAfter(loss) \in config.min_rate..config.max_rate
<1>1. /\ config.min_rate \in Nat /\ config.max_rate \in Nat
      /\ config.min_rate <= config.max_rate
      /\ current_rate \in config.min_rate..config.max_rate
  BY ConfigFacts DEF CoderOK
<1>2. 2 * current_rate \in Nat /\ current_rate \div 2 \in Nat
      /\ current_rate \div 2 <= current_rate /\ current_rate <= 2 * current_rate
  BY <1>1
<1>. QED  BY <1>1, <1>2 DEF RateAfter

(* A report lists submissions of the past. *)
LEMMA FeedbackInputsType ==
  ASSUME EncInv, NEW f \in FeedbackInputs
  PROVE  /\ f \in [first_src_id : Nat, acked : SUBSET Nat]
         /\ f.first_src_id <= window.next_id
         /\ \A i \in f.acked : i < window.next_id
         /\ window.next_id \in Nat
<1>1. window.next_id \in Nat  BY DEF EncInv, TypeOK, Windows
<1>2. /\ f \in [first_src_id : 0..window.next_id, acked : SUBSET (0..window.next_id)]
      /\ window.next_id \notin f.acked
  BY DEF FeedbackInputs, Feedbacks
<1>3. /\ f.first_src_id \in 0..window.next_id /\ f.acked \subseteq 0..window.next_id
      /\ f = [first_src_id |-> f.first_src_id, acked |-> f.acked]
  BY <1>2
<1>4. \A i \in f.acked : i \in Nat /\ i < window.next_id  BY <1>1, <1>2, <1>3
<1>. QED  BY <1>1, <1>3, <1>4

(* HandleFeedback keeps the summary of the reports exact. *)
LEMMA HandleFeedbackAcks ==
  ASSUME EncInv, NEW r \in Receivers, NEW f \in FeedbackInputs, NEW loss,
         HandleFeedback(r, f, loss)
  PROVE  /\ acks' \in [Receivers -> Entries \cup {NoEntry}]
         /\ reported' \in [Receivers -> SUBSET Nat]
         /\ AckInv'
<1>. DEFINE e == EntryOf(acks, r)
<1>1. /\ acks' = [acks EXCEPT ![r] = Update(e, f)]
      /\ reported' = [reported EXCEPT ![r] = @ \cup (0..(f.first_src_id - 1)) \cup f.acked]
  BY DEF HandleFeedback
<1>2. /\ acks \in [Receivers -> Entries \cup {NoEntry}]
      /\ reported \in [Receivers -> SUBSET Nat] /\ GoodWindow(window)
  BY DEF EncInv, TypeOK
<1>3. /\ f \in [first_src_id : Nat, acked : SUBSET Nat] /\ window.next_id \in Nat
      /\ f.first_src_id \in Nat /\ f.acked \subseteq Nat
      /\ f.first_src_id <= window.next_id /\ \A i \in f.acked : i < window.next_id
  BY FeedbackInputsType
<1>4. /\ e \in Entries
      /\ \A id \in Nat : EntryAcks(e, id) <=> id \in reported[r]
  <2>1. CASE acks[r] = NoEntry
    <3>1. e = [cumulative_ack |-> 0, sack |-> {}] /\ reported[r] = {}
      BY <2>1 DEF EntryOf, EmptyEntry, EncInv, AckInv
    <3>. QED  BY <3>1 DEF Entries, EntryAcks
  <2>2. CASE acks[r] # NoEntry
    BY <1>2, <2>2 DEF EntryOf, EncInv, AckInv
  <2>. QED  BY <2>1, <2>2
<1>. HIDE DEF e
<1>5. \A id \in reported[r] : id \in Nat /\ id < window.next_id
  BY <1>2 DEF EncInv, AckInv
<1>6. \A i \in e.sack \cup f.acked : i < window.next_id
  BY <1>3, <1>4, <1>5 DEF EntryAcks, Entries
<1>7. /\ Update(e, f) \in Entries
      /\ \A id \in Nat : EntryAcks(Update(e, f), id) <=>
           EntryAcks(e, id) \/ id < f.first_src_id \/ id \in f.acked
  BY <1>3, <1>4, <1>6, UpdateExact
<1>8. Update(e, f) # NoEntry  BY <1>7, ReceiverAssumption
<1>9. acks' \in [Receivers -> Entries \cup {NoEntry}]  BY <1>1, <1>2, <1>7
<1>10. reported[r] \cup (0..(f.first_src_id - 1)) \cup f.acked \in SUBSET Nat
  BY <1>2, <1>3
<1>11. reported' \in [Receivers -> SUBSET Nat]  BY <1>1, <1>2, <1>10
<1>12. window'.next_id = window.next_id
  BY <1>2, RemoveGood DEF HandleFeedback
<1>13. AckInv'
  <2>. SUFFICES ASSUME NEW s \in Receivers
                PROVE  /\ \A id \in reported'[s] : id < window.next_id
                       /\ acks'[s] = NoEntry => reported'[s] = {}
                       /\ acks'[s] # NoEntry =>
                            \A id \in Nat : EntryAcks(acks'[s], id) <=> id \in reported'[s]
    BY <1>12 DEF AckInv
  <2>1. CASE s = r
    <3>1. acks'[s] = Update(e, f) /\ reported'[s] = reported[r] \cup (0..(f.first_src_id - 1)) \cup f.acked
      BY <1>1, <1>2, <2>1
    <3>2. \A id \in reported'[s] : id < window.next_id
      BY <1>3, <1>5, <3>1
    <3>3. \A id \in Nat : EntryAcks(acks'[s], id) <=> id \in reported'[s]
      <4>. TAKE id \in Nat
      <4>1. id < f.first_src_id <=> id \in 0..(f.first_src_id - 1)  BY <1>3
      <4>. QED  BY <1>4, <1>7, <3>1, <4>1
    <3>. QED  BY <1>8, <3>1, <3>2, <3>3
  <2>2. CASE s # r
    <3>1. acks'[s] = acks[s] /\ reported'[s] = reported[s]  BY <1>1, <1>2, <2>2
    <3>. QED  BY <3>1 DEF EncInv, AckInv
  <2>. QED  BY <2>1, <2>2
<1>. QED  BY <1>9, <1>11, <1>13

(* HandleFeedback in terms of the symbols that stay. *)
LEMMA HandleFeedbackForm ==
  ASSUME EncInv, NEW r \in Receivers, NEW f \in FeedbackInputs, NEW loss,
         HandleFeedback(r, f, loss)
  PROVE  /\ GoodWindow(window') /\ window'.next_id = window.next_id
         /\ window'.symbols = {n \in window.symbols : ~MayRemove(config.policy, acks', Id(n))}
         /\ config' = config
<1>. DEFINE ids == {id \in WindowIds(window) : MayRemove(config.policy, acks', id)}
<1>1. window' = RemoveIds(window, ids) /\ config' = config  BY DEF HandleFeedback
<1>2. /\ GoodWindow(window') /\ window'.next_id = window.next_id
      /\ window'.symbols = {n \in window.symbols : Id(n) \notin ids}
  <2>. HIDE DEF ids
  <2>. QED  BY <1>1, RemoveGood DEF EncInv
<1>3. \A n \in window.symbols : Id(n) \in ids <=> MayRemove(config.policy, acks', Id(n))
  BY DEF WindowIds
<1>. QED  BY <1>1, <1>2, <1>3

(* HandleFeedback preserves the invariant. *)
LEMMA HandleFeedbackInv ==
  ASSUME EncInv, NEW r \in Receivers, NEW f \in FeedbackInputs, NEW loss,
         HandleFeedback(r, f, loss)
  PROVE  EncInv'
<1>1. /\ UNCHANGED <<config, next_coded_id, generation, coded_ids_used, panicked,
                     acc, evicted, auto_coded, owed>>
      /\ current_rate' = RateAfter(loss)
  BY DEF HandleFeedback, coder
<1>2. /\ acks' \in [Receivers -> Entries \cup {NoEntry}]
      /\ reported' \in [Receivers -> SUBSET Nat] /\ AckInv'
  BY HandleFeedbackAcks
<1>3. GoodWindow(window') /\ window'.symbols \subseteq window.symbols
  BY HandleFeedbackForm
<1>4. IsFiniteSet(window'.symbols) /\ Cardinality(window'.symbols) <= Capacity
  <2>1. /\ IsFiniteSet(window.symbols) /\ Cardinality(window.symbols) <= Capacity
        /\ Cardinality(window.symbols) \in Nat
    BY FS_CardinalityType DEF EncInv, TypeOK
  <2>2. /\ IsFiniteSet(window'.symbols) /\ Cardinality(window'.symbols) \in Nat
        /\ Cardinality(window'.symbols) <= Cardinality(window.symbols)
    BY <1>3, <2>1, FS_Subset, FS_CardinalityType
  <2>. QED  BY <2>1, <2>2, WindowAssumption
<1>5. current_rate' \in config'.min_rate..config'.max_rate
  BY <1>1, RateAfterType DEF EncInv, TypeOK, CoderOK
<1>6. window' \in Windows  BY <1>3 DEF GoodWindow
<1>7. next_coded_id' \in FirstCodedId'..(FirstCodedId' + coded_id_cycle' - 1)
  BY <1>1 DEF EncInv, TypeOK, FirstCodedId, coded_id_cycle
<1>8. TypeOK'
  BY <1>1, <1>2, <1>4, <1>5, <1>6, <1>7 DEF EncInv, TypeOK
<1>. QED  BY <1>2, <1>3, <1>8 DEF EncInv

(* Every step is a submission, one coded packet over some cover of the     *)
(* window, a feedback, or leaves the state alone.                          *)
LEMMA NextCases ==
  ASSUME [Next]_encVars
  PROVE  \/ SubmitSource
         \/ \E cover \in SUBSET WindowIds(window) : GenerateOne(cover)
         \/ \E r \in Receivers, f \in FeedbackInputs, loss \in LossInputs :
              HandleFeedback(r, f, loss)
         \/ UNCHANGED encVars
<1>1. CASE GenerateCoded
  BY <1>1 DEF GenerateCoded
<1>2. CASE \E S \in SUBSET WindowIds(window) : GenerateCodedTargeted(S)
  <2>1. PICK S \in SUBSET WindowIds(window) : GenerateOne(S \cap WindowIds(window))
    BY <1>2 DEF GenerateCodedTargeted
  <2>. QED  BY <2>1
<1>3. CASE \E m \in 1..Capacity : GenerateCodedRecent(m)
  <2>1. PICK m \in 1..Capacity : GenerateCodedRecent(m)  BY <1>3
  <2>. DEFINE C == {Id(n) : n \in {n \in window.symbols :
                      Cardinality({k \in window.symbols : k > n}) < m}}
  <2>2. GenerateOne(C)  BY <2>1 DEF GenerateCodedRecent
  <2>3. C \in SUBSET WindowIds(window)  BY DEF WindowIds
  <2>. QED  BY <2>2, <2>3
<1>4. CASE \E r \in Receivers : GenerateCodedForReceiver(r)
  <2>1. PICK r \in Receivers : GenerateCodedForReceiver(r)  BY <1>4
  <2>. DEFINE C == {id \in WindowIds(window) : ~IsAcked(acks, r, id)}
  <2>2. GenerateOne(C)  BY <2>1 DEF GenerateCodedForReceiver
  <2>3. C \in SUBSET WindowIds(window)  OBVIOUS
  <2>. QED  BY <2>2, <2>3
<1>. QED  BY <1>1, <1>2, <1>3, <1>4 DEF Next

(* Every step preserves the invariant. *)
LEMMA EncStep == EncInv /\ [Next]_encVars => EncInv'
<1>. SUFFICES ASSUME EncInv, [Next]_encVars PROVE EncInv'  OBVIOUS
<1>1. CASE UNCHANGED encVars
  <2>1. UNCHANGED <<config, window, acks, next_coded_id, generation, coded_ids_used,
                    current_rate, acc, panicked, reported, evicted, auto_coded, owed>>
    BY <1>1 DEF encVars
  <2>2. TypeOK'  BY <2>1 DEF EncInv, TypeOK, FirstCodedId, coded_id_cycle
  <2>. QED  BY <2>1, <2>2 DEF EncInv, AckInv
<1>. QED
  BY <1>1, NextCases, SubmitSourceInv, GenerateOneInv, HandleFeedbackInv

(* The encoder keeps its type through any mix of calls: in particular the  *)
(* window never exceeds its capacity, the rate stays between its limits    *)
(* and the coded identifier within its cycle.                              *)
THEOREM EncoderTypeCorrect == Spec => []TypeOK
<1>1. EncInv => TypeOK  BY DEF EncInv
<1>. QED  BY <1>1, InitInv, EncStep, PTL DEF Spec

----------------------------------------------------------------------------
(* Lookup, coded packets, acknowledgements and removal. *)

(* Until the identifiers wrap, get finds exactly the symbol that has the   *)
(* identifier, through every mix of pushes, evictions and removals: the    *)
(* flag that allows the lookup by index is only set when the window has no *)
(* hole.                                                                   *)
THEOREM EncoderLookupExact == Spec => []LookupExact
<1>1. EncInv => LookupExact
  <2>. SUFFICES ASSUME EncInv, window.next_id <= IdSpace
                PROVE  /\ \A n \in window.symbols : Get(window, Id(n)) = n
                       /\ \A id \in Ids \ WindowIds(window) : Get(window, id) = None
    BY DEF LookupExact
  <2>1. /\ \A n \in window.symbols : Id(n) = n /\ n \in Nat
        /\ WindowIds(window) = window.symbols
    BY WindowIdsExact DEF EncInv
  <2>2. Ids \subseteq Nat  BY WindowAssumption DEF Ids
  <2>3. \A id \in Nat : Get(window, id) = IF id \in window.symbols THEN id ELSE None
    BY GetExact DEF EncInv
  <2>. QED  BY <2>1, <2>2, <2>3
<1>. QED  BY <1>1, InitInv, EncStep, PTL DEF Spec

(* A call of generate_coded_inner over symbols of a good window neither    *)
(* panics nor mixes up payloads.                                           *)
LEMMA GenerateSound ==
  ASSUME NEW w, GoodWindow(w), w.next_id <= IdSpace, NEW cover \in SUBSET WindowIds(w),
         NEW n \in Nat, NEW first, \A p \in first : p.kind # "coded",
         GenerateCodedInner(w, cover, n, first)
  PROVE  /\ ~panicked'
         /\ \A p \in output' : p.kind = "coded" => \A id \in p.ids : p.data[id] = id
<1>1. \A id \in cover : id \in Nat /\ id \in w.symbols
  BY WindowIdsExact
<1>2. \A id \in cover : Get(w, id) = id /\ Get(w, id) # None
  BY <1>1, GetExact, WindowAssumption
<1>3. ~panicked'  BY <1>2 DEF GenerateCodedInner
<1>4. output' = first \cup {CodedPacket(w, cover, k) : k \in 0..(n-1)}
  BY <1>3 DEF GenerateCodedInner
<1>5. \A k : \A id \in CodedPacket(w, cover, k).ids : CodedPacket(w, cover, k).data[id] = id
  BY <1>2 DEF CodedPacket
<1>. QED  BY <1>3, <1>4, <1>5

(* Every step preserves CodedSound. *)
LEMMA CodedSoundStep == EncInv /\ CodedSound /\ [Next]_encVars => CodedSound'
<1>. SUFFICES ASSUME EncInv, CodedSound, [Next]_encVars, window'.next_id <= IdSpace
              PROVE  /\ ~panicked'
                     /\ \A p \in output' : p.kind = "coded" => \A id \in p.ids : p.data[id] = id
  BY DEF CodedSound
<1>1. CASE SubmitSource
  <2>1. /\ window' = Push(Room) /\ GoodWindow(Push(Room)) /\ PacketsDue \in Nat
        /\ GenerateCodedInner(Push(Room), WindowIds(Push(Room)), PacketsDue,
                              {SourcePacket(window.next_id)})
    BY <1>1, SubmitForm, RateStep DEF EncInv, TypeOK, CoderOK
  <2>2. \A p \in {SourcePacket(window.next_id)} : p.kind # "coded"  BY DEF SourcePacket
  <2>3. Push(Room).next_id <= IdSpace  BY <2>1
  <2>4. WindowIds(Push(Room)) \in SUBSET WindowIds(Push(Room))  OBVIOUS
  <2>. HIDE DEF Room
  <2>. QED  BY <2>1, <2>2, <2>3, <2>4, GenerateSound
<1>2. CASE \E cover \in SUBSET WindowIds(window) : GenerateOne(cover)
  <2>1. PICK cover \in SUBSET WindowIds(window) : GenerateOne(cover)  BY <1>2
  <2>2. GenerateCodedInner(window, cover, 1, {}) /\ window' = window  BY <2>1 DEF GenerateOne
  <2>. QED  BY <2>1, <2>2, GenerateSound DEF EncInv
<1>3. CASE \E r \in Receivers, f \in FeedbackInputs, loss \in LossInputs :
             HandleFeedback(r, f, loss)
  <2>1. window'.next_id = window.next_id  BY <1>3, HandleFeedbackForm
  <2>2. panicked' = panicked /\ output' = {}  BY <1>3 DEF HandleFeedback, coder
  <2>. QED  BY <2>1, <2>2 DEF CodedSound
<1>4. CASE UNCHANGED encVars
  BY <1>4 DEF encVars, CodedSound
<1>. QED  BY <1>1, <1>2, <1>3, <1>4, NextCases

(* Until the identifiers wrap, no call panics and every coded packet       *)
(* combines exactly the symbols its encoding vector names, whatever cover  *)
(* the call was for.                                                       *)
THEOREM EncoderCodedSound == Spec => []CodedSound
<1>1. Init => CodedSound  BY DEF Init, CodedSound
<1>. QED  BY <1>1, InitInv, EncStep, CodedSoundStep, PTL DEF Spec

(* The ack state is an exact summary of the feedback, in whatever order    *)
(* fresh, stale and repeated reports arrived.                              *)
THEOREM EncoderAckStateExact == Spec => []AckStateExact
<1>1. EncInv => AckStateExact
  <2>. SUFFICES ASSUME EncInv, NEW r \in Receivers, NEW id \in 0..window.next_id
                PROVE  IsAcked(acks, r, id) <=> id \in reported[r]
    BY DEF AckStateExact
  <2>1. id \in Nat  BY DEF EncInv, TypeOK, Windows
  <2>. QED  BY <2>1, AckedByExact DEF EncInv
<1>. QED  BY <1>1, InitInv, EncStep, PTL DEF Spec

(* An identifier is a natural number. *)
LEMMA IdType == \A n \in Nat : Id(n) \in Nat
BY DivMod, WindowAssumption DEF Id

(* The policies decide by what the receivers have reported: a symbol that  *)
(* a policy lets go is released, and one that is released and reported by  *)
(* someone may go.                                                         *)
LEMMA MayRemoveReleased ==
  ASSUME EncInv, AckInv', config' = config, NEW n \in Nat
  PROVE  /\ MayRemove(config.policy, acks', Id(n)) => Released(n)'
         /\ Released(n)' /\ ReportedBy(Id(n))' # {} => MayRemove(config.policy, acks', Id(n))
<1>1. Id(n) \in Nat  BY IdType
<1>2. \A r \in Receivers : IsAcked(acks', r, Id(n)) <=> Id(n) \in reported'[r]
  BY <1>1 DEF AckInv, IsAcked
<1>3. AckedBy(acks', Id(n)) = ReportedBy(Id(n))'
  BY <1>2 DEF AckedBy, ReportedBy
<1>4. config.policy \in Policies  BY ConfigFacts DEF EncInv, TypeOK
<1>5. CASE config.policy.kind = "any"
  BY <1>3, <1>5 DEF MayRemove, Released
<1>6. CASE config.policy.kind = "all"
  <2>1. ASSUME KnownReceivers(acks') # {}, AckedBy(acks', Id(n)) = KnownReceivers(acks')
        PROVE  /\ ReportedBy(Id(n))' # {}
               /\ \A r \in Receivers : acks'[r] # NoEntry => Id(n) \in reported'[r]
    BY <1>2, <1>3, <2>1 DEF KnownReceivers, AckedBy
  <2>2. ASSUME ReportedBy(Id(n))' # {},
               \A r \in Receivers : acks'[r] # NoEntry => Id(n) \in reported'[r]
        PROVE  KnownReceivers(acks') # {} /\ AckedBy(acks', Id(n)) = KnownReceivers(acks')
    <3>1. \A r \in Receivers : IsAcked(acks', r, Id(n)) => acks'[r] # NoEntry
      BY DEF IsAcked
    <3>. QED  BY <1>2, <1>3, <2>2, <3>1 DEF KnownReceivers, AckedBy
  <2>. QED  BY <1>6, <2>1, <2>2 DEF MayRemove, Released
<1>7. CASE config.policy.kind = "quorum"
  BY <1>3, <1>7 DEF MayRemove, Released
<1>8. config.policy.kind \in {"any", "all", "quorum"}  BY <1>4 DEF Policies
<1>. QED  BY <1>5, <1>6, <1>7, <1>8

(* Every step preserves NoReleasedSymbolKept. *)
LEMMA NoReleasedStep ==
  EncInv /\ NoReleasedSymbolKept /\ [Next]_encVars => NoReleasedSymbolKept'
<1>. SUFFICES ASSUME EncInv, NoReleasedSymbolKept, [Next]_encVars,
                     NEW n \in window'.symbols, window'.next_id <= IdSpace,
                     ReportedBy(Id(n))' # {}, Released(n)'
              PROVE  FALSE
  BY DEF NoReleasedSymbolKept
<1>1. CASE SubmitSource
  <2>1. UNCHANGED <<config, reported, acks>>  BY <1>1 DEF SubmitSource
  <2>2. /\ n \in window.symbols \/ n = window.next_id
        /\ window'.next_id = window.next_id + 1 /\ window.next_id \in Nat
    BY <1>1, SubmitForm DEF EncInv, TypeOK, Windows
  <2>3. window.next_id <= IdSpace /\ window.next_id \in 0..(IdSpace - 1)
    BY <2>2, WindowAssumption
  <2>4. CASE n \in window.symbols
    BY <2>1, <2>3, <2>4 DEF NoReleasedSymbolKept, ReportedBy, Released
  <2>5. CASE n = window.next_id
    <3>1. Id(n) = window.next_id  BY <2>3, <2>5, IdIsNumber
    <3>2. PICK s \in Receivers : Id(n) \in reported[s]  BY <2>1 DEF ReportedBy
    <3>3. window.next_id < window.next_id  BY <3>1, <3>2 DEF EncInv, AckInv
    <3>. QED  BY <2>2, <3>3
  <2>. QED  BY <2>2, <2>4, <2>5
<1>2. CASE UNCHANGED <<config, window, reported, acks>>
  BY <1>2 DEF NoReleasedSymbolKept, ReportedBy, Released
<1>3. CASE \E r \in Receivers, f \in FeedbackInputs, loss \in LossInputs :
             HandleFeedback(r, f, loss)
  <2>1. /\ n \in window.symbols /\ ~MayRemove(config.policy, acks', Id(n)) /\ config' = config
    BY <1>3, HandleFeedbackForm
  <2>2. AckInv' /\ n \in Nat  BY <2>1, EncStep DEF EncInv, TypeOK, Windows
  <2>. QED  BY <2>1, <2>2, MayRemoveReleased
<1>. QED
  BY <1>1, <1>2, <1>3, NextCases DEF GenerateOne, history, encVars

(* For every policy the window never holds a symbol that the receivers'    *)
(* reports release, so that only symbols still wanted fill it.             *)
THEOREM EncoderNoReleasedSymbolKept == Spec => []NoReleasedSymbolKept
<1>1. Init => NoReleasedSymbolKept  BY DEF Init, NewWindow, NoReleasedSymbolKept
<1>. QED  BY <1>1, InitInv, EncStep, NoReleasedStep, PTL DEF Spec

(* For every policy and any number of receivers: a symbol leaves the       *)
(* window as the oldest of a full one that evicts, or because the reports  *)
(* processed so far satisfy the policy, never otherwise.                   *)
THEOREM EncoderRemovalJustified == Spec => RemovalJustified
<1>1. EncInv /\ [Next]_encVars =>
        [\A n \in window.symbols \ window'.symbols : Evictable(n) \/ Released(n)']_encVars
  <2>. SUFFICES ASSUME EncInv, [Next]_encVars, NEW n \in window.symbols \ window'.symbols
                PROVE  Evictable(n) \/ Released(n)'
    OBVIOUS
  <2>1. CASE SubmitSource
    <3>1. n \in window.symbols \ Room.symbols  BY <2>1, SubmitForm
    <3>. QED  BY <2>1, <3>1, SubmitForm DEF Evictable
  <2>2. CASE window' = window  BY <2>2
  <2>3. CASE \E r \in Receivers, f \in FeedbackInputs, loss \in LossInputs :
               HandleFeedback(r, f, loss)
    <3>1. MayRemove(config.policy, acks', Id(n)) /\ config' = config
      BY <2>3, HandleFeedbackForm
    <3>2. AckInv' /\ n \in Nat  BY EncStep DEF EncInv, TypeOK, Windows
    <3>. QED  BY <3>1, <3>2, MayRemoveReleased
  <2>. QED  BY <2>1, <2>2, <2>3, NextCases DEF GenerateOne, encVars
<1>. QED  BY <1>1, InitInv, EncStep, PTL DEF Spec, RemovalJustified

----------------------------------------------------------------------------
(* The rate and the identifiers of coded packets. *)

(* Every step preserves RateExact. *)
LEMMA RateExactStep == EncInv /\ RateExact /\ [Next]_encVars => RateExact'
<1>. SUFFICES ASSUME EncInv, RateExact, [Next]_encVars PROVE RateExact'  OBVIOUS
<1>1. /\ config.fec_numer \in Nat /\ config.fec_denom \in Nat \ {0}
      /\ config.min_rate \in Nat /\ config.max_rate \in Nat
      /\ config.min_rate <= config.fec_numer /\ config.fec_numer <= config.max_rate
      /\ current_rate \in config.min_rate..config.max_rate
      /\ auto_coded \in Nat /\ owed \in Nat /\ acc \in Nat /\ window.next_id \in Nat
  BY ConfigFacts DEF EncInv, TypeOK, Windows
<1>2. CASE SubmitSource
  <2>1. /\ config' = config /\ acc' = AccAfter
        /\ auto_coded' = auto_coded + PacketsDue /\ owed' = owed + current_rate
        /\ window'.next_id = window.next_id + 1
    BY <1>2, SubmitForm DEF SubmitSource
  <2>2. /\ PacketsDue \in Nat /\ AccAfter \in Nat
        /\ acc + current_rate = config.fec_denom * PacketsDue + AccAfter
    BY <1>1, RateStep DEF EncInv, TypeOK, CoderOK
  <2>. DEFINE before == config.fec_denom * auto_coded
              sent   == config.fec_denom * PacketsDue
  <2>3. config.fec_denom * (auto_coded + PacketsDue) = before + sent
    BY <1>1, <2>2
  <2>4. before \in Nat /\ sent \in Nat  BY <1>1, <2>2
  <2>5. config.fec_denom * (auto_coded + PacketsDue) + AccAfter = owed + current_rate
    <3>1. before + acc = owed  BY DEF RateExact
    <3>2. acc + current_rate = sent + AccAfter  BY <2>2
    <3>. HIDE DEF before, sent
    <3>3. (before + sent) + AccAfter = owed + current_rate
      BY <1>1, <2>2, <2>4, <3>1, <3>2
    <3>. QED  BY <2>3, <3>3
  <2>6. ASSUME config.min_rate = config.max_rate
        PROVE  owed + current_rate = config.fec_numer * (window.next_id + 1)
    <3>1. current_rate = config.fec_numer  BY <1>1, <2>6
    <3>2. config.fec_numer * (window.next_id + 1) =
            config.fec_numer * window.next_id + config.fec_numer
      BY <1>1
    <3>. QED  BY <2>6, <3>1, <3>2 DEF RateExact
  <2>. QED  BY <2>1, <2>5, <2>6 DEF RateExact
<1>3. CASE \E r \in Receivers, f \in FeedbackInputs, loss \in LossInputs :
             HandleFeedback(r, f, loss)
  <2>1. UNCHANGED <<config, auto_coded, acc, owed>> /\ window'.next_id = window.next_id
    BY <1>3, HandleFeedbackForm DEF HandleFeedback
  <2>. QED  BY <2>1 DEF RateExact
<1>4. CASE UNCHANGED <<config, auto_coded, acc, owed, window>>
  BY <1>4 DEF RateExact
<1>. QED
  BY <1>2, <1>3, <1>4, NextCases DEF GenerateOne, history, encVars

(* Over any number of submissions, and however feedback moves the rate, no *)
(* fraction of a coded packet is lost or emitted twice.                    *)
THEOREM EncoderRateExact == Spec => []RateExact
<1>1. Init => RateExact
  <2>. SUFFICES ASSUME Init PROVE RateExact  OBVIOUS
  <2>1. config.fec_numer \in Nat /\ config.fec_denom \in Nat
    BY ConfigFacts DEF Init
  <2>. QED  BY <2>1 DEF Init, NewWindow, RateExact
<1>. QED  BY <1>1, InitInv, EncStep, RateExactStep, PTL DEF Spec

(* A Vandermonde encoder has no generations; with that, the position of    *)
(* the next packet counts the packets.                                     *)
FreshInv == /\ config.strategy # "Cauchy" => generation = 0
            /\ CodedIdsFresh

(* After n more packets the position has moved by n. *)
LEMMA GenerateFresh ==
  ASSUME EncInv, FreshInv, config' = config, NEW w, NEW cover, NEW n \in Nat, NEW first,
         GenerateCodedInner(w, cover, n, first)
  PROVE  FreshInv'
<1>. DEFINE c == coded_id_cycle
            p == next_coded_id - FirstCodedId
            g == generation
            u == coded_ids_used
<1>1. c \in Nat \ {0} /\ FirstCodedId \in {0, 1} /\ GenSpace \in Nat \ {0}
  BY ConfigFacts, EncoderAssumption DEF EncInv, TypeOK
<1>2. p \in 0..(c - 1) /\ g \in 0..(GenSpace - 1) /\ u \in Nat
  BY <1>1 DEF EncInv, TypeOK
<1>3. FirstCodedId' = FirstCodedId /\ coded_id_cycle' = c
  BY DEF FirstCodedId, coded_id_cycle
<1>4. /\ next_coded_id' = FirstCodedId + ((p + n) % c)
      /\ generation' = IF config.strategy = "Cauchy"
                         THEN (g + ((p + n) \div c)) % GenSpace ELSE g
      /\ coded_ids_used' = u + n
  BY DEF GenerateCodedInner, CodedIdAfter, GenerationAfter
<1>5. p + n \in Nat  BY <1>2
<1>6. (p + n) % c \in Nat /\ (p + n) \div c \in Nat
  <2>. DEFINE x == p + n
  <2>. HIDE DEF x, c
  <2>1. x \in Nat  BY <1>5 DEF x
  <2>2. x % c \in 0..(c - 1) /\ x \div c \in Nat  BY <1>1, <2>1, DivMod
  <2>. QED  BY <1>1, <2>2 DEF x
<1>7. next_coded_id' - FirstCodedId' = (p + n) % c
  <2>. HIDE DEF p, c
  <2>. QED  BY <1>1, <1>3, <1>4, <1>6
<1>8. CASE config.strategy = "Cauchy"
  <2>1. CountersAt(c, GenSpace, p, g, u)
    BY <1>8 DEF FreshInv, CodedIdsFresh, CountersAt
  <2>. HIDE DEF p, c, g, u
  <2>2. CountersAt(c, GenSpace, (p + n) % c, (g + ((p + n) \div c)) % GenSpace, u + n)
    BY <1>1, <1>2, <2>1, CountersAdvance, Zenon
  <2>. QED  BY <1>3, <1>4, <1>7, <1>8, <2>2 DEF FreshInv, CodedIdsFresh, CountersAt
<1>9. CASE config.strategy # "Cauchy"
  <2>1. g = 0 /\ p + c * g = u % c  BY <1>9 DEF FreshInv, CodedIdsFresh
  <2>. HIDE DEF p, c, g, u
  <2>2. 1 \in Nat \ {0} /\ g \in 0..(1 - 1) /\ c * 1 = c  BY <1>1, <2>1
  <2>3. CountersAt(c, 1, p, g, u)  BY <2>1, <2>2 DEF CountersAt
  <2>4. CountersAt(c, 1, (p + n) % c, (g + ((p + n) \div c)) % 1, u + n)
    BY <1>1, <1>2, <2>2, <2>3, CountersAdvance, Zenon
  <2>5. (g + ((p + n) \div c)) % 1 = 0
    <3>. DEFINE y == g + ((p + n) \div c)
    <3>1. y \in Nat  BY <1>6, <2>1
    <3>. HIDE DEF y
    <3>2. y % 1 \in 0..(1 - 1)  BY <2>2, <3>1, DivMod
    <3>. QED  BY <3>2 DEF y
  <2>6. ((p + n) % c) + c * 0 = (u + n) % c  BY <2>2, <2>4, <2>5 DEF CountersAt
  <2>. QED  BY <1>3, <1>4, <1>7, <1>9, <2>1, <2>6 DEF FreshInv, CodedIdsFresh
<1>. QED  BY <1>8, <1>9

(* Every step preserves FreshInv. *)
LEMMA FreshStep == EncInv /\ FreshInv /\ [Next]_encVars => FreshInv'
<1>. SUFFICES ASSUME EncInv, FreshInv, [Next]_encVars PROVE FreshInv'  OBVIOUS
<1>1. CASE SubmitSource
  <2>1. config' = config /\ PacketsDue \in Nat
    BY <1>1, RateStep DEF SubmitSource, EncInv, TypeOK, CoderOK
  <2>. QED  BY <1>1, <2>1, SubmitForm, GenerateFresh
<1>2. CASE \E cover \in SUBSET WindowIds(window) : GenerateOne(cover)
  BY <1>2, GenerateFresh DEF GenerateOne
<1>3. CASE UNCHANGED <<config, next_coded_id, generation, coded_ids_used>>
  BY <1>3 DEF FreshInv, CodedIdsFresh, FirstCodedId, coded_id_cycle
<1>. QED
  BY <1>1, <1>2, <1>3, NextCases DEF HandleFeedback, coder, encVars

(* Through every wrap of the identifier and of the generation, the pair    *)
(* that names the next coded packet counts the packets generated so far:   *)
(* none is used again before all the pairs have been.                      *)
THEOREM EncoderCodedIdsFresh == Spec => []CodedIdsFresh
<1>1. Init => FreshInv
  <2>. SUFFICES ASSUME Init PROVE FreshInv  OBVIOUS
  <2>1. coded_id_cycle \in Nat \ {0} /\ FirstCodedId \in {0, 1} /\ GenSpace \in Nat \ {0}
    BY ConfigFacts, EncoderAssumption DEF Init
  <2>2. coded_id_cycle * GenSpace \in Nat \ {0}  BY <2>1
  <2>3. 0 % coded_id_cycle = 0 /\ 0 % (coded_id_cycle * GenSpace) = 0
    BY <2>1, <2>2, ModSmall
  <2>. QED  BY <2>1, <2>3 DEF Init, FreshInv, CodedIdsFresh
<1>2. FreshInv => CodedIdsFresh  BY DEF FreshInv
<1>. QED  BY <1>1, <1>2, InitInv, EncStep, FreshStep, PTL DEF Spec

----------------------------------------------------------------------------
(* The encoder as a sender, whatever feedback it is given: what a network  *)
(* behind it may rely on.                                                  *)

SenderInv == CoderOK /\ GoodWindow(window)

(* A packet about submissions below n: its payload is what it says. *)
SoundPacket(p, n) ==
  \/ p.kind = "source" /\ p.id \in 0..(n - 1) /\ p.data = p.id
  \/ /\ p.kind = "coded" /\ p.ids # {} /\ p.ids \subseteq 0..(n - 1)
     /\ \A id \in p.ids : p.data[id] = id
     /\ p.coded_id \in FirstCodedId..(FirstCodedId + coded_id_cycle - 1)
     /\ p.generation \in 0..(GenSpace - 1)

LEMMA SenderInit == Init => SenderInv
BY InitInv DEF EncInv, TypeOK, CoderOK, SenderInv

(* The packets of generate_coded_inner. *)
LEMMA CodedPacketSound ==
  ASSUME CoderOK, NEW w, GoodWindow(w), w.next_id <= IdSpace,
         NEW cover \in SUBSET WindowIds(w), cover # {}, NEW k \in Nat
  PROVE  /\ CodedPacket(w, cover, k).kind = "coded"
         /\ SoundPacket(CodedPacket(w, cover, k), w.next_id)
<1>. DEFINE p == CodedPacket(w, cover, k)
<1>1. /\ p.kind = "coded" /\ p.ids = cover /\ p.coded_id = CodedIdAfter(k)
      /\ p.generation = GenerationAfter(k) /\ p.data = [id \in cover |-> Get(w, id)]
  BY DEF CodedPacket
<1>2. \A id \in cover : id \in Nat /\ id \in w.symbols  BY WindowIdsExact
<1>3. \A id \in cover : Get(w, id) = id  BY <1>2, GetExact
<1>4. cover \subseteq 0..(w.next_id - 1)  BY <1>2 DEF GoodWindow, Windows
<1>5. \A id \in cover : p.data[id] = id  BY <1>1, <1>3
<1>. HIDE DEF p
<1>6. SoundPacket(p, w.next_id)
  BY <1>1, <1>4, <1>5, CodedIdRange DEF SoundPacket
<1>. QED  BY <1>1, <1>6 DEF p

(* A submission sends its own source packet and sound coded packets. *)
LEMMA SenderSubmit ==
  ASSUME SenderInv, SubmitSource, window.next_id < IdSpace
  PROVE  /\ SenderInv' /\ config' = config
         /\ window'.next_id = window.next_id + 1
         /\ coded_ids_used' \in Nat /\ coded_ids_used <= coded_ids_used' /\ ~panicked'
         /\ \A p \in output' : /\ SoundPacket(p, window.next_id + 1)
                               /\ p.kind = "source" => p.id = window.next_id
<1>1. /\ window' = Push(Room)
      /\ GenerateCodedInner(Push(Room), WindowIds(Push(Room)), PacketsDue,
                            {SourcePacket(window.next_id)})
      /\ UNCHANGED <<config, current_rate>> /\ acc' = AccAfter
  BY Zenon DEF SubmitSource, Room
<1>2. GoodWindow(window) /\ window.symbols \subseteq Nat /\ window.next_id \in Nat
  BY DEF SenderInv, GoodWindow, Windows
<1>3. GoodWindow(Room) /\ Room.next_id = window.next_id
  <2>1. CASE IsFull(window)
    <3>1. window.symbols # {}  BY <2>1, FS_EmptySet, WindowAssumption DEF IsFull
    <3>2. Room = EvictOldest(window)  BY <2>1 DEF Room
    <3>. QED  BY <1>2, <3>1, <3>2, EvictGood
  <2>2. CASE ~IsFull(window)
    BY <1>2, <2>2 DEF Room
  <2>. QED  BY <2>1, <2>2
<1>4. /\ GoodWindow(Push(Room)) /\ Push(Room).next_id = window.next_id + 1
      /\ window.next_id \in Push(Room).symbols
  BY <1>2, <1>3, PushGood DEF Push
<1>5. WindowIds(Push(Room)) # {}  BY <1>4 DEF WindowIds
<1>6. PacketsDue \in Nat /\ AccAfter \in 0..(config.fec_denom - 1)
  BY RateStep DEF SenderInv
<1>7. CoderOK'
  BY <1>1, <1>6, CoderType DEF SenderInv, CoderOK
<1>8. coded_ids_used' \in Nat /\ coded_ids_used <= coded_ids_used'
  BY <1>1, <1>6, <1>7 DEF GenerateCodedInner, CoderOK, SenderInv
<1>9. /\ SoundPacket(SourcePacket(window.next_id), window.next_id + 1)
      /\ SourcePacket(window.next_id).id = window.next_id
  BY <1>2, IdIsNumber, WindowAssumption DEF SourcePacket, SoundPacket
<1>10. \A k \in Nat :
         /\ CodedPacket(Push(Room), WindowIds(Push(Room)), k).kind = "coded"
         /\ SoundPacket(CodedPacket(Push(Room), WindowIds(Push(Room)), k), window.next_id + 1)
  <2>. HIDE DEF Room
  <2>1. Push(Room).next_id <= IdSpace  BY <1>2, <1>4, WindowAssumption
  <2>. QED  BY <1>4, <1>5, <2>1, CodedPacketSound DEF SenderInv
<1>11. output' \subseteq {SourcePacket(window.next_id)} \cup
         {CodedPacket(Push(Room), WindowIds(Push(Room)), k) : k \in 0..(PacketsDue - 1)}
  BY <1>1 DEF GenerateCodedInner
<1>12. ~panicked'
  <2>. HIDE DEF Room
  <2>1. Push(Room).next_id <= IdSpace  BY <1>2, <1>4, WindowAssumption
  <2>2. \A p \in {SourcePacket(window.next_id)} : p.kind # "coded"  BY DEF SourcePacket
  <2>. QED  BY <1>1, <1>4, <1>6, <2>1, <2>2, GenerateSound
<1>. QED
  BY <1>1, <1>4, <1>6, <1>7, <1>8, <1>9, <1>10, <1>11, <1>12 DEF SenderInv

(* The other calls that send, send sound coded packets. *)
LEMMA SenderGenerate ==
  ASSUME SenderInv, NEW cover \in SUBSET WindowIds(window), GenerateOne(cover),
         window.next_id <= IdSpace
  PROVE  /\ SenderInv' /\ config' = config /\ window' = window
         /\ coded_ids_used' = coded_ids_used + 1
         /\ \A p \in output' : SoundPacket(p, window.next_id) /\ p.kind = "coded"
<1>1. /\ UNCHANGED <<config, window, current_rate, acc>> /\ cover # {}
      /\ GenerateCodedInner(window, cover, 1, {})
  BY DEF GenerateOne
<1>2. CoderOK'  BY <1>1, CoderType DEF SenderInv, CoderOK
<1>3. coded_ids_used' = coded_ids_used + 1  BY <1>1 DEF GenerateCodedInner
<1>4. output' \subseteq {CodedPacket(window, cover, k) : k \in 0..0}
  BY <1>1 DEF GenerateCodedInner
<1>5. \A k \in Nat : /\ CodedPacket(window, cover, k).kind = "coded"
                     /\ SoundPacket(CodedPacket(window, cover, k), window.next_id)
  BY <1>1, CodedPacketSound DEF SenderInv
<1>. QED  BY <1>1, <1>2, <1>3, <1>4, <1>5 DEF SenderInv

(* Feedback, of whatever content, does not disturb the sender. *)
LEMMA SenderFeedback ==
  ASSUME SenderInv, NEW r, NEW f, NEW loss, HandleFeedback(r, f, loss)
  PROVE  /\ SenderInv' /\ config' = config /\ window'.next_id = window.next_id
         /\ coded_ids_used' = coded_ids_used
<1>. DEFINE ids == {id \in WindowIds(window) : MayRemove(config.policy, acks', id)}
<1>1. /\ window' = RemoveIds(window, ids) /\ current_rate' = RateAfter(loss)
      /\ UNCHANGED <<config, next_coded_id, generation, coded_ids_used, acc>>
  BY DEF HandleFeedback, coder
<1>. HIDE DEF ids
<1>2. GoodWindow(window') /\ window'.next_id = window.next_id
  BY <1>1, RemoveGood DEF SenderInv
<1>3. CoderOK'
  BY <1>1, RateAfterType DEF SenderInv, CoderOK, FirstCodedId, coded_id_cycle
<1>. QED  BY <1>1, <1>2, <1>3 DEF SenderInv

(* What becomes of the symbols of the window when one is submitted: they   *)
(* stay, or they are evicted, and the coded packets of the call cover all  *)
(* that are left.                                                          *)
LEMMA SubmitKeeps ==
  ASSUME SubmitSource
  PROVE  /\ acks' = acks /\ evicted \subseteq evicted'
         /\ \A n \in window.symbols : n \in window'.symbols \/ n \in evicted'
         /\ window.next_id \in window'.symbols
         /\ config.backpressure = "Reject" => evicted' = evicted
         /\ \A p \in output' : p.kind = "coded" => p.ids = WindowIds(window')
<1>1. /\ window' = Push(Room)
      /\ evicted' = evicted \cup (window.symbols \ Room.symbols)
      /\ GenerateCodedInner(Push(Room), WindowIds(Push(Room)), PacketsDue,
                            {SourcePacket(window.next_id)})
      /\ IsFull(window) => config.backpressure = "EvictOldest"
      /\ acks' = acks
  BY Zenon DEF SubmitSource, Room
<1>2. Push(Room).symbols = Room.symbols \cup {Room.next_id}  BY DEF Push
<1>3. Room.next_id = window.next_id  BY DEF Room, EvictOldest
<1>4. config.backpressure = "Reject" => Room = window  BY <1>1 DEF Room
<1>5. \A p \in output' : p.kind = "coded" => p.ids = WindowIds(window')
  <2>. HIDE DEF Room
  <2>1. SourcePacket(window.next_id).kind # "coded"  BY DEF SourcePacket
  <2>2. \A k : CodedPacket(Push(Room), WindowIds(Push(Room)), k).ids = WindowIds(Push(Room))
    BY DEF CodedPacket
  <2>. QED  BY <1>1, <2>1, <2>2 DEF GenerateCodedInner
<1>. QED  BY <1>1, <1>2, <1>3, <1>4, <1>5

(* Feedback takes from the window what the policy allows, and nothing else *)
(* leaves it.                                                              *)
LEMMA FeedbackKeeps ==
  ASSUME SenderInv, NEW r, NEW f, NEW loss, HandleFeedback(r, f, loss)
  PROVE  /\ evicted' = evicted
         /\ \A n \in window.symbols :
              n \in window'.symbols \/ MayRemove(config.policy, acks', Id(n))
<1>. DEFINE ids == {id \in WindowIds(window) : MayRemove(config.policy, acks', id)}
<1>1. window' = RemoveIds(window, ids) /\ evicted' = evicted  BY DEF HandleFeedback
<1>. HIDE DEF ids
<1>2. window'.symbols = {n \in window.symbols : Id(n) \notin ids}
  BY <1>1, RemoveGood DEF SenderInv
<1>. QED  BY <1>1, <1>2 DEF ids

(* What a policy lets go was acknowledged by some receiver, unless it asks *)
(* for a quorum of none.                                                   *)
LEMMA MayRemoveAcked ==
  ASSUME NEW policy \in Policies, policy.kind = "quorum" => policy.quorum > 0,
         NEW state, NEW id, MayRemove(policy, state, id)
  PROVE  \E r \in Receivers : IsAcked(state, r, id)
<1>. SUFFICES ASSUME AckedBy(state, id) = {} PROVE FALSE  BY DEF AckedBy
<1>1. CASE policy.kind = "any"  BY <1>1 DEF MayRemove
<1>2. CASE policy.kind = "all"  BY <1>2 DEF MayRemove
<1>3. CASE policy.kind = "quorum"
  <2>1. 0 >= policy.quorum  BY <1>3, FS_EmptySet DEF MayRemove
  <2>2. policy.quorum \in Nat  BY <1>3 DEF Policies
  <2>. QED  BY <1>3, <2>1, <2>2
<1>. QED  BY <1>1, <1>2, <1>3 DEF Policies

(* The window has the last Capacity submissions. *)
Recent(w) == \A i \in 0..(w.next_id - 1) : i \in w.symbols \/ i + Capacity < w.next_id

(* Without feedback only a full window loses a symbol, and then its oldest.*)
LEMMA SubmitRecent ==
  ASSUME SenderInv, SubmitSource, Recent(window)
  PROVE  Recent(window')
<1>1. window' = Push(Room)  BY Zenon DEF SubmitSource, Room
<1>. DEFINE S == window.symbols
            n == window.next_id
<1>2. S \subseteq Nat /\ n \in Nat /\ \A m \in S : m < n
  BY DEF SenderInv, GoodWindow, Windows
<1>3. Room.next_id = n /\ Push(Room).symbols = Room.symbols \cup {n} /\ Push(Room).next_id = n + 1
  BY DEF Room, EvictOldest, Push
<1>4. \A i \in S : i \in Room.symbols \/ i + Capacity <= n
  <2>1. CASE ~IsFull(window)  BY <2>1 DEF Room
  <2>2. CASE IsFull(window)
    <3>1. S # {}  BY <2>2, FS_EmptySet, WindowAssumption DEF IsFull
    <3>2. Room.symbols = S \ {Front(S)}
      <4>1. Room = EvictOldest(window)  BY <2>2 DEF Room
      <4>. QED  BY <3>1, <4>1, EvictGood DEF SenderInv
    <3>3. Front(S) \in S /\ \A m \in S : Front(S) <= m  BY <1>2, <3>1, FrontIsLeast
    <3>4. Front(S) \in Nat /\ Front(S) <= n  BY <1>2, <3>3
    <3>5. S \subseteq Front(S)..(n - 1)  BY <1>2, <3>3, <3>4
    <3>6. IsFiniteSet(Front(S)..(n - 1)) /\ Cardinality(Front(S)..(n - 1)) = n - Front(S)
      BY <1>2, <3>4, IntervalSize
    <3>7. Cardinality(S) <= n - Front(S) /\ Cardinality(S) \in Nat
      <4>. DEFINE A == Front(S)..(n - 1)
      <4>1. S \in SUBSET A /\ IsFiniteSet(A)  BY <3>5, <3>6
      <4>. HIDE DEF A
      <4>2. IsFiniteSet(S) /\ Cardinality(S) <= Cardinality(A)  BY <4>1, FS_Subset
      <4>. QED  BY <3>6, <4>2, FS_CardinalityType DEF A
    <3>8. Cardinality(S) >= Capacity  BY <2>2 DEF IsFull
    <3>9. Front(S) + Capacity <= n  BY <1>2, <3>4, <3>7, <3>8, WindowAssumption
    <3>. QED  BY <3>2, <3>9
  <2>. QED  BY <2>1, <2>2
<1>. HIDE DEF Room
<1>5. ASSUME NEW i \in 0..n PROVE i \in Push(Room).symbols \/ i + Capacity < n + 1
  <2>1. CASE i = n  BY <1>3, <2>1
  <2>2. CASE i # n
    <3>1. i \in 0..(n - 1)  BY <1>2, <2>2
    <3>2. i \in S \/ i + Capacity < n  BY <3>1 DEF Recent
    <3>. QED  BY <1>2, <1>3, <1>4, <3>1, <3>2, WindowAssumption
  <2>. QED  BY <2>1, <2>2
<1>6. (n + 1) - 1 = n  BY <1>2
<1>. QED  BY <1>1, <1>3, <1>5, <1>6 DEF Recent
=============================================================================

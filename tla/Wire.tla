-------------------------------- MODULE Wire --------------------------------
(***************************************************************************)
(* The packet formats (wire/).  A buffer is a sequence of bytes, and an    *)
(* offset is a number of bytes as in the program; the parsers read the     *)
(* fields at the offsets they compute themselves, so that a truncated      *)
(* count makes them read something else.                                   *)
(*                                                                         *)
(* Arithmetic on identifiers wraps at IdSpace (2^32 in the program): this  *)
(* is a release build.  Rejected stands for an error and for a slice index *)
(* out of range.  An absent TSI is the empty sequence, a present one its   *)
(* four bytes.                                                             *)
(***************************************************************************)
EXTENDS Integers, Sequences, SequencesExt, FiniteSetsExt

CONSTANTS IdSpace, Rejected

BigEndian(v, n) == [i \in 1..n |-> (v \div 256^(n - i)) % 256]

U16(buf, off) == 256 * buf[off + 1] + buf[off + 2]

U32(buf, off) ==
  (256 * ((256 * (U16(buf, off) % IdSpace) + buf[off + 3]) % IdSpace) + buf[off + 4]) % IdSpace

From(buf, off) == SubSeq(buf, off + 1, Len(buf))

pad32(len) == ((len + 3) \div 4) * 4

Padded(s) == s \o [i \in 1..(pad32(Len(s)) - Len(s)) |-> 0]

----------------------------------------------------------------------------
(* Common header: [version:4 cci:2 tsi:1 0:1][0][hdr_len_words][type]. *)
SourceType == 0
CodedType == 1
FeedbackType == 2

Header(type, cci, tsi, words) ==
  <<16 + 4 * (Len(cci) \div 4) + (IF tsi = <<>> THEN 0 ELSE 2), 0, words % 256, type>>
    \o cci \o tsi

HeaderParses(buf) ==
  Len(buf) >= 4 /\ buf[1] \div 16 = 1 /\ 4 * buf[3] <= Len(buf)

PacketType(buf) == buf[4]

CciEnd(buf) == 4 + 4 * ((buf[1] \div 4) % 4)

BodyOffset(buf) == CciEnd(buf) + (IF (buf[1] \div 2) % 2 = 1 THEN 4 ELSE 0)

Cci(buf) == SubSeq(buf, 5, CciEnd(buf))

Tsi(buf) == SubSeq(buf, CciEnd(buf) + 1, BodyOffset(buf))

----------------------------------------------------------------------------
(* Source packets. *)
SerialiseSource(id, payload, cci, tsi) ==
  Header(SourceType, cci, tsi, 2 + (Len(cci) + Len(tsi)) \div 4) \o BigEndian(id, 4) \o payload

ParseSource(buf) ==
  IF ~HeaderParses(buf) THEN Rejected
  ELSE IF PacketType(buf) # SourceType \/ Len(buf) < BodyOffset(buf) + 4 THEN Rejected
  ELSE [cci |-> Cci(buf), tsi |-> Tsi(buf),
        source_symbol_id |-> U32(buf, BodyOffset(buf)),
        payload |-> From(buf, BodyOffset(buf) + 4)]

----------------------------------------------------------------------------
(* Identifier lists: four storage formats, named by their wire value. *)
NoStorage == 0
UncompressedEdges == 1
CompressedList == 2
CompressedEdges == 3

IsContiguous(ids) == \A i \in 1..(Len(ids) - 1) : ids[i + 1] = (ids[i] + 1) % IdSpace

best_for(ids) == IF IsContiguous(ids) THEN NoStorage ELSE CompressedList

(* Contiguous blocks as pairs <<start, end>>, the end exclusive. *)
to_blocks(ids) ==
  LET starts == SetToSortSeq({i \in 1..Len(ids) : i = 1 \/ ids[i] # ids[i - 1] + 1}, <)
      Final(k) == IF k = Len(starts) THEN Len(ids) ELSE starts[k + 1] - 1
  IN  [k \in 1..Len(starts) |-> <<ids[starts[k]], ids[Final(k)] + 1>>]

Delta(to, from) == (to - from) % IdSpace

(* A mutation: each difference is taken to the first identifier. *)
EncodeFromFirst(ids) ==
  FlattenSeq([i \in 1..(Len(ids) - 1) |-> BigEndian(Delta(ids[i + 1], ids[1]), 2)])

encode_compressed_list(ids) ==
  FlattenSeq([i \in 1..(Len(ids) - 1) |-> BigEndian(Delta(ids[i + 1], ids[i]), 2)])

encode_uncompressed_edges(ids) ==
  LET blocks == to_blocks(ids)
  IN  FlattenSeq([k \in 1..Len(blocks) |->
        BigEndian(blocks[k][1] - ids[1], 4) \o BigEndian(blocks[k][2] - ids[1], 4)])

encode_compressed_edges(ids) ==
  LET blocks == to_blocks(ids)
      Prev(k) == IF k = 1 THEN ids[1] ELSE blocks[k - 1][2]
  IN  FlattenSeq([k \in 1..Len(blocks) |->
        BigEndian(blocks[k][1] - Prev(k), 2) \o BigEndian(blocks[k][2] - blocks[k][1], 2)])

EncodeIds(ids, format) ==
  CASE format = NoStorage -> <<>>
    [] format = CompressedList -> encode_compressed_list(ids)
    [] format = UncompressedEdges -> encode_uncompressed_edges(ids)
    [] format = CompressedEdges -> encode_compressed_edges(ids)

(* The decoders return the identifiers and the bytes they consumed. *)
decode_compressed_list(buf, nb_ids, first) ==
  LET id[i \in 1..nb_ids] ==
        IF i = 1 THEN first ELSE (id[i - 1] + U16(buf, 2 * (i - 2))) % IdSpace
  IN  IF nb_ids = 0 \/ Len(buf) < 2 * (nb_ids - 1) THEN Rejected
      ELSE [ids |-> [i \in 1..nb_ids |-> id[i]], consumed |-> 2 * (nb_ids - 1)]

Interval(a, b) == [i \in 1..(b - a) |-> a + i - 1]

(* Both edge formats read blocks until they have enough identifiers;       *)
(* blocks[k] is what the k-th block of the buffer adds.                    *)
ReadBlocks(nb_ids, size, blocks) ==
  LET after[k \in 0..Len(blocks)] == IF k = 0 THEN <<>> ELSE after[k - 1] \o blocks[k]
      enough == {k \in DOMAIN after : Len(after[k]) >= nb_ids}
      k == Min(enough)
  IN  IF enough = {} THEN Rejected
      ELSE [ids |-> SubSeq(after[k], 1, nb_ids), consumed |-> size * k]

decode_uncompressed_edges(buf, nb_ids, first) ==
  LET Edge(n) == first + U32(buf, 4 * n)
  IN  ReadBlocks(nb_ids, 8, [k \in 1..(Len(buf) \div 8) |->
                               Interval(Edge(2 * k - 2), Edge(2 * k - 1))])

decode_compressed_edges(buf, nb_ids, first) ==
  LET edge[n \in 0..(Len(buf) \div 2)] ==
        IF n = 0 THEN first ELSE edge[n - 1] + U16(buf, 2 * (n - 1))
  IN  ReadBlocks(nb_ids, 4, [k \in 1..(Len(buf) \div 4) |->
                               Interval(edge[2 * k - 1], edge[2 * k])])

DecodeIds(buf, nb_ids, first, format) ==
  CASE format = NoStorage ->
         [ids |-> [i \in 1..nb_ids |-> (first + i - 1) % IdSpace], consumed |-> 0]
    [] format = CompressedList -> decode_compressed_list(buf, nb_ids, first)
    [] format = UncompressedEdges -> decode_uncompressed_edges(buf, nb_ids, first)
    [] format = CompressedEdges -> decode_compressed_edges(buf, nb_ids, first)

----------------------------------------------------------------------------
(* Encoding vectors.  Coefficients are absent when the receiver recomputes *)
(* them; the generation is on the wire only when it is not zero.           *)
EncodingVector(field, generation, ids, coefs) ==
  [field |-> field, generation |-> generation, id_format |-> best_for(ids),
   source_ids |-> ids, coefficients |-> coefs]

pack_nibbles(coefs) ==
  [k \in 1..((Len(coefs) + 1) \div 2) |->
     16 * (coefs[2 * k - 1] % 16)
       + (IF 2 * k <= Len(coefs) THEN coefs[2 * k] % 16 ELSE 0)]

unpack_nibbles(bytes, count) ==
  [i \in 1..count |-> LET b == bytes[(i + 1) \div 2]
                      IN  IF i % 2 = 1 THEN b \div 16 ELSE b % 16]

Flags(ev) == (IF ev.field = "Gf2_8" THEN 16 ELSE 0) + 4 * ev.id_format
               + (IF ev.coefficients = <<>> THEN 0 ELSE 2)
               + (IF ev.generation = 0 THEN 0 ELSE 1)

(* A mutation: the generation block is written for every vector but the    *)
(* flag says nothing of it.                                                *)
SerialiseUnflagged(ev) ==
  LET ids == Padded(EncodeIds(ev.source_ids, ev.id_format))
      coefs == Padded(IF ev.field = "Gf2_8" THEN ev.coefficients
                                            ELSE pack_nibbles(ev.coefficients))
      body == BigEndian(ev.source_ids[1], 4) \o <<ev.generation, 0, 0, 0>> \o ids \o coefs
  IN  <<((4 + Len(body)) \div 4) % 256, Flags(ev),
        Len(ev.source_ids) % 256, Len(ev.coefficients) % 256>> \o body

SerialiseVector(ev) ==
  LET gen == IF ev.generation = 0 THEN <<>> ELSE <<ev.generation, 0, 0, 0>>
      ids == Padded(EncodeIds(ev.source_ids, ev.id_format))
      coefs == Padded(IF ev.field = "Gf2_8" THEN ev.coefficients
                                            ELSE pack_nibbles(ev.coefficients))
      body == BigEndian(ev.source_ids[1], 4) \o gen \o ids \o coefs
  IN  <<((4 + Len(body)) \div 4) % 256, Flags(ev),
        Len(ev.source_ids) % 256, Len(ev.coefficients) % 256>> \o body

ParseVector(buf) ==
  LET evBytes == 4 * buf[1]
      explicit == (buf[2] \div 2) % 2 = 1
      hasGen == buf[2] % 2 = 1
      bodyOff == IF hasGen THEN 12 ELSE 8
      nbIds == buf[3]
      nbCoefs == buf[4]
      format == (buf[2] \div 4) % 4
      gf8 == buf[2] \div 16 = 1
      coefBytes == IF gf8 THEN nbCoefs ELSE (nbCoefs + 1) \div 2
      ids == DecodeIds(SubSeq(buf, bodyOff + 1, evBytes), nbIds, U32(buf, 4), format)
      coefOff == bodyOff + pad32(ids.consumed)
      raw == SubSeq(buf, coefOff + 1, coefOff + coefBytes)
  IN  IF \/ Len(buf) < evBytes \/ evBytes < bodyOff
         \/ buf[2] \div 16 > 1
         \/ nbCoefs # (IF explicit THEN nbIds ELSE 0)
      THEN Rejected
      ELSE IF ids = Rejected THEN Rejected
      ELSE IF explicit /\ Len(buf) < coefOff + coefBytes THEN Rejected
      ELSE [ev |-> [field |-> IF gf8 THEN "Gf2_8" ELSE "Gf2_4",
                    generation |-> IF hasGen THEN buf[9] ELSE 0,
                    id_format |-> format, source_ids |-> ids.ids,
                    coefficients |-> IF ~explicit THEN <<>>
                                     ELSE IF gf8 THEN raw ELSE unpack_nibbles(raw, nbCoefs)],
            consumed |-> evBytes]

----------------------------------------------------------------------------
(* Coded packets. *)
SerialiseCoded(coded_id, ev, payload, cci, tsi) ==
  LET vector == SerialiseVector(ev)
  IN  Header(CodedType, cci, tsi, 2 + (Len(cci) + Len(tsi) + Len(vector)) \div 4)
        \o BigEndian(coded_id, 4) \o vector \o payload

ParseCoded(buf) ==
  IF ~HeaderParses(buf) THEN Rejected
  ELSE IF PacketType(buf) # CodedType \/ Len(buf) < BodyOffset(buf) + 12 THEN Rejected
  ELSE LET vector == ParseVector(From(buf, BodyOffset(buf) + 4))
       IN  IF vector = Rejected THEN Rejected
           ELSE [cci |-> Cci(buf), tsi |-> Tsi(buf),
                 coded_symbol_id |-> U32(buf, BodyOffset(buf)), ev |-> vector.ev,
                 payload |-> From(buf, BodyOffset(buf) + 4 + vector.consumed)]

----------------------------------------------------------------------------
(* Feedback.  The loss rate plr is in 1/256. *)

(* A byte from its bits, the highest first. *)
Octet(bit) == 128 * bit[0] + 64 * bit[1] + 32 * bit[2] + 16 * bit[3]
                + 8 * bit[4] + 4 * bit[5] + 2 * bit[6] + bit[7]

(* One bit per identifier from first on. *)
build_sack(first, acked) ==
  LET above == {id \in acked : id >= first}
      span == Max(above) - first + 1
      Bit(k, b) == IF first + 8 * (k - 1) + b \in above THEN 1 ELSE 0
  IN  IF above = {} THEN <<>>
      ELSE [k \in 1..((span + 7) \div 8) |-> Octet([b \in 0..7 |-> Bit(k, b)])]

BuildFeedback(first, missing, unused, plr, acked) ==
  [tsi |-> <<>>, nb_missing_src |-> missing, nb_not_used_coded |-> unused,
   first_src_id |-> first, plr_raw |-> plr, sack |-> build_sack(first, acked)]

SerialiseFeedback(f) ==
  Header(FeedbackType, <<>>, f.tsi, 4 + Len(f.tsi) \div 4)
    \o BigEndian(f.nb_missing_src, 4) \o BigEndian(f.nb_not_used_coded, 4)
    \o BigEndian(f.first_src_id, 4) \o <<f.plr_raw, Len(f.sack) % 256, 0, 0>>
    \o Padded(f.sack)

(* The packet type is not looked at: the body of any packet is read.  A    *)
(* TSI is looked for right after the fixed header, wherever the CCI ends.  *)
ParseFeedback(buf) ==
  LET off == BodyOffset(buf)
      size == buf[off + 14]
  IN  IF ~HeaderParses(buf) THEN Rejected
      ELSE IF Len(buf) < off + 16 THEN Rejected
      ELSE IF Len(buf) < off + 16 + size THEN Rejected
      ELSE [tsi |-> SubSeq(buf, 5, 4 + BodyOffset(buf) - CciEnd(buf)),
            nb_missing_src |-> U32(buf, off),
            nb_not_used_coded |-> U32(buf, off + 4),
            first_src_id |-> U32(buf, off + 8), plr_raw |-> buf[off + 13],
            sack |-> SubSeq(buf, off + 17, off + 16 + size)]

(* A mutation: the lowest bit of a byte comes first. *)
LowBitFirst(f) ==
  {f.first_src_id + 8 * (kb[1] - 1) + kb[2] : kb \in
     {kb \in (1..Len(f.sack)) \X (0..7) : (f.sack[kb[1]] \div 2^kb[2]) % 2 = 1}}

acked_ids(f) ==
  {f.first_src_id + 8 * (kb[1] - 1) + kb[2] : kb \in
     {kb \in (1..Len(f.sack)) \X (0..7) : (f.sack[kb[1]] \div 2^(7 - kb[2])) % 2 = 1}}
=============================================================================

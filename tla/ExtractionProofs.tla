--------------------------- MODULE ExtractionProofs ---------------------------
(***************************************************************************)
(* Theorems about Extraction, for every image, grammar directory and size  *)
(* of block: what becomes of its bytes on the way to the database.         *)
(***************************************************************************)
EXTENDS Extraction, SharedLemmas

----------------------------------------------------------------------------
\* Bytes.

(***************************************************************************)
(* The bits of the sum of eight bits are these bits.                       *)
(***************************************************************************)
LEMMA BitsOfASum ==
  ASSUME NEW a \in {0, 1}, NEW b \in {0, 1}, NEW c \in {0, 1}, NEW d \in {0, 1},
         NEW e \in {0, 1}, NEW f \in {0, 1}, NEW g \in {0, 1}, NEW h \in {0, 1},
         NEW n, n = a + 2 * b + 4 * c + 8 * d + 16 * e + 32 * f + 64 * g + 128 * h
  PROVE  /\ n \in Byte
         /\ n % 2 = a /\ (n \div 2) % 2 = b /\ (n \div 4) % 2 = c /\ (n \div 8) % 2 = d
         /\ (n \div 16) % 2 = e /\ (n \div 32) % 2 = f
         /\ (n \div 64) % 2 = g /\ (n \div 128) % 2 = h
<1>1. n \in Byte  BY DEF Byte
<1>2. n % 2 = a  OBVIOUS
<1>3. n \div 2 = b + 2 * c + 4 * d + 8 * e + 16 * f + 32 * g + 64 * h  OBVIOUS
<1>4. n \div 4 = c + 2 * d + 4 * e + 8 * f + 16 * g + 32 * h  OBVIOUS
<1>5. n \div 8 = d + 2 * e + 4 * f + 8 * g + 16 * h  OBVIOUS
<1>6. n \div 16 = e + 2 * f + 4 * g + 8 * h  OBVIOUS
<1>7. n \div 32 = f + 2 * g + 4 * h  OBVIOUS
<1>8. n \div 64 = g + 2 * h  OBVIOUS
<1>9. n \div 128 = h  OBVIOUS
<1> QED  BY <1>1, <1>2, <1>3, <1>4, <1>5, <1>6, <1>7, <1>8, <1>9

(***************************************************************************)
(* A byte is the sum of its bits.                                          *)
(***************************************************************************)
BitOf(n, p) == IF BitIsSet(n, p) THEN 1 ELSE 0

LEMMA ByteIsItsBits ==
  ASSUME NEW n \in Byte
  PROVE  n = BitOf(n, 1) + 2 * BitOf(n, 2) + 4 * BitOf(n, 4) + 8 * BitOf(n, 8)
             + 16 * BitOf(n, 16) + 32 * BitOf(n, 32) + 64 * BitOf(n, 64) + 128 * BitOf(n, 128)
BY DEF BitOf, BitIsSet, Byte

(***************************************************************************)
(* The exclusive or of two bytes is a byte, each bit of which tells whether *)
(* theirs differ.                                                          *)
(***************************************************************************)
LEMMA XorBits ==
  ASSUME NEW a \in Byte, NEW b \in Byte
  PROVE  /\ Xor(a, b) \in Byte
         /\ \A p \in {1, 2, 4, 8, 16, 32, 64, 128} :
              BitIsSet(Xor(a, b), p) <=> ~(BitIsSet(a, p) <=> BitIsSet(b, p))
<1> DEFINE d(p) == IF BitIsSet(a, p) <=> BitIsSet(b, p) THEN 0 ELSE 1
           n == Xor(a, b)
<1>1. ASSUME NEW p \in Nat
      PROVE  XorBit(a, b, p) = p * d(p) /\ d(p) \in {0, 1}
             /\ (d(p) = 1 <=> ~(BitIsSet(a, p) <=> BitIsSet(b, p)))
  <2>1. BitIsSet(a, p) \in BOOLEAN /\ BitIsSet(b, p) \in BOOLEAN  BY DEF BitIsSet
  <2> QED  BY <2>1 DEF XorBit
<1>2. n = d(1) + 2 * d(2) + 4 * d(4) + 8 * d(8) + 16 * d(16) + 32 * d(32) + 64 * d(64)
          + 128 * d(128)
  <2>1. /\ XorBit(a, b, 1) = d(1) /\ XorBit(a, b, 2) = 2 * d(2)
        /\ XorBit(a, b, 4) = 4 * d(4) /\ XorBit(a, b, 8) = 8 * d(8)
        /\ XorBit(a, b, 16) = 16 * d(16) /\ XorBit(a, b, 32) = 32 * d(32)
        /\ XorBit(a, b, 64) = 64 * d(64) /\ XorBit(a, b, 128) = 128 * d(128)
    <3> HIDE DEF d
    <3> QED  BY <1>1
  <2> HIDE DEF d
  <2> QED  BY <2>1 DEF Xor
<1>3. /\ d(1) \in {0, 1} /\ d(2) \in {0, 1} /\ d(4) \in {0, 1} /\ d(8) \in {0, 1}
      /\ d(16) \in {0, 1} /\ d(32) \in {0, 1} /\ d(64) \in {0, 1} /\ d(128) \in {0, 1}
  OBVIOUS
<1>4. /\ n \in Byte
      /\ n % 2 = d(1) /\ (n \div 2) % 2 = d(2) /\ (n \div 4) % 2 = d(4)
      /\ (n \div 8) % 2 = d(8) /\ (n \div 16) % 2 = d(16) /\ (n \div 32) % 2 = d(32)
      /\ (n \div 64) % 2 = d(64) /\ (n \div 128) % 2 = d(128)
  <2> DEFINE d1 == d(1)   d2 == d(2)   d4 == d(4)   d8 == d(8)
             e1 == d(16)  e2 == d(32)  e4 == d(64)  e8 == d(128)
  <2>1. /\ d1 \in {0, 1} /\ d2 \in {0, 1} /\ d4 \in {0, 1} /\ d8 \in {0, 1}
        /\ e1 \in {0, 1} /\ e2 \in {0, 1} /\ e4 \in {0, 1} /\ e8 \in {0, 1}
        /\ n = d1 + 2 * d2 + 4 * d4 + 8 * d8 + 16 * e1 + 32 * e2 + 64 * e4 + 128 * e8
    BY <1>2, <1>3
  <2> HIDE DEF d1, d2, d4, d8, e1, e2, e4, e8, n
  <2>2. /\ n \in Byte
        /\ n % 2 = d1 /\ (n \div 2) % 2 = d2 /\ (n \div 4) % 2 = d4 /\ (n \div 8) % 2 = d8
        /\ (n \div 16) % 2 = e1 /\ (n \div 32) % 2 = e2
        /\ (n \div 64) % 2 = e4 /\ (n \div 128) % 2 = e8
    BY <2>1, BitsOfASum
  <2> QED  BY <2>2 DEF d1, d2, d4, d8, e1, e2, e4, e8
<1>5. /\ BitIsSet(n, 1) <=> d(1) = 1
      /\ BitIsSet(n, 2) <=> d(2) = 1
      /\ BitIsSet(n, 4) <=> d(4) = 1
      /\ BitIsSet(n, 8) <=> d(8) = 1
      /\ BitIsSet(n, 16) <=> d(16) = 1
      /\ BitIsSet(n, 32) <=> d(32) = 1
      /\ BitIsSet(n, 64) <=> d(64) = 1
      /\ BitIsSet(n, 128) <=> d(128) = 1
  <2> HIDE DEF d, n
  <2>1. n \div 1 = n  BY <1>4 DEF Byte
  <2> QED  BY <1>4, <2>1 DEF BitIsSet
<1>6. \A p \in {1, 2, 4, 8, 16, 32, 64, 128} :
        BitIsSet(n, p) <=> ~(BitIsSet(a, p) <=> BitIsSet(b, p))
  <2> HIDE DEF d, n
  <2> QED  BY <1>1, <1>5
<1> QED  BY <1>4, <1>6

(***************************************************************************)
(* The same byte twice gives back what there was.                          *)
(***************************************************************************)
LEMMA XorUndone ==
  ASSUME NEW a \in Byte, NEW b \in Byte
  PROVE  Xor(Xor(a, b), b) = a
<1> DEFINE x == Xor(a, b)
           y == Xor(x, b)
<1>1. x \in Byte /\ y \in Byte  BY XorBits
<1>2. ASSUME NEW p \in {1, 2, 4, 8, 16, 32, 64, 128}
      PROVE  BitOf(y, p) = BitOf(a, p)
  <2>1. BitIsSet(x, p) <=> ~(BitIsSet(a, p) <=> BitIsSet(b, p))  BY XorBits
  <2>2. BitIsSet(y, p) <=> ~(BitIsSet(x, p) <=> BitIsSet(b, p))  BY <1>1, XorBits
  <2> HIDE DEF x, y
  <2>3. BitIsSet(y, p) <=> BitIsSet(a, p)  BY <2>1, <2>2 DEF BitIsSet
  <2> QED  BY <2>3 DEF BitOf
<1> HIDE DEF x, y
<1>3. /\ BitOf(y, 1) = BitOf(a, 1) /\ BitOf(y, 2) = BitOf(a, 2)
      /\ BitOf(y, 4) = BitOf(a, 4) /\ BitOf(y, 8) = BitOf(a, 8)
      /\ BitOf(y, 16) = BitOf(a, 16) /\ BitOf(y, 32) = BitOf(a, 32)
      /\ BitOf(y, 64) = BitOf(a, 64) /\ BitOf(y, 128) = BitOf(a, 128)
  BY <1>2
<1>4. y = BitOf(y, 1) + 2 * BitOf(y, 2) + 4 * BitOf(y, 4) + 8 * BitOf(y, 8)
          + 16 * BitOf(y, 16) + 32 * BitOf(y, 32) + 64 * BitOf(y, 64) + 128 * BitOf(y, 128)
  BY <1>1, ByteIsItsBits
<1>5. a = BitOf(a, 1) + 2 * BitOf(a, 2) + 4 * BitOf(a, 4) + 8 * BitOf(a, 8)
          + 16 * BitOf(a, 16) + 32 * BitOf(a, 32) + 64 * BitOf(a, 64) + 128 * BitOf(a, 128)
  BY ByteIsItsBits
<1>6. y = a  BY <1>3, <1>4, <1>5, Zenon
<1> QED  BY <1>6 DEF x, y

LEMMA KeyOfBytes ==
  ASSUME NEW i \in 1 .. 4
  PROVE  XorScrambleKey[i] \in Byte
<1>1. i = 1 \/ i = 2 \/ i = 3 \/ i = 4  OBVIOUS
<1> QED  BY <1>1 DEF XorScrambleKey, Byte

(***************************************************************************)
(* Xored maps bytes to as many bytes, and back.                            *)
(***************************************************************************)
LEMMA XoredIs ==
  ASSUME NEW bytes \in Seq(Byte)
  PROVE  /\ Xored(bytes) \in Seq(Byte)
         /\ Xored(Xored(bytes)) = bytes
<1> DEFINE n == Len(bytes)
           key(k) == XorScrambleKey[1 + ((k - 1) % 4)]
           once == Xored(bytes)
<1>1. /\ n \in Nat /\ DOMAIN bytes = 1 .. n
      /\ \A k \in 1 .. n : bytes[k] \in Byte
      /\ bytes = [k \in 1 .. n |-> bytes[k]]
  BY LenProperties
<1> HIDE DEF n
<1>2. ASSUME NEW k \in 1 .. n PROVE key(k) \in Byte
  <2>1. 1 + ((k - 1) % 4) \in 1 .. 4  BY <1>1
  <2> QED  BY <2>1, KeyOfBytes
<1> HIDE DEF key
<1>3. once = [k \in 1 .. n |-> Xor(bytes[k], key(k))]
  BY <1>1 DEF Xored, key
<1> HIDE DEF once
<1>4. once \in [1 .. n -> Byte]  BY <1>1, <1>2, <1>3, XorBits
<1>5. once \in Seq(Byte)  BY <1>1, <1>4, FunctionIsSeq
<1>6. DOMAIN once = 1 .. n /\ \A k \in 1 .. n : once[k] = Xor(bytes[k], key(k))  BY <1>3
<1>7. Xored(once) = [k \in 1 .. n |-> Xor(once[k], key(k))]  BY <1>6 DEF Xored, key
<1>8. \A k \in 1 .. n : Xor(once[k], key(k)) = bytes[k]
  BY <1>1, <1>2, <1>6, XorUndone
<1>9. Xored(once) = bytes  BY <1>1, <1>7, <1>8
<1> QED  BY <1>5, <1>9 DEF once

----------------------------------------------------------------------------
\* What a grammar reads from a block.

LEMMA ZerosAre ==
  ASSUME NEW n \in Nat
  PROVE  Zeros(n) \in Seq(Byte) /\ Len(Zeros(n)) = n
<1>1. Zeros(n) \in [1 .. n -> Byte]  BY DEF Zeros, Byte
<1> QED  BY <1>1, FunctionIsSeq

LEMMA SliceIs ==
  ASSUME NEW T, NEW s \in Seq(T), NEW m \in Nat \ {0}, NEW n \in Nat, n <= Len(s), m <= n + 1
  PROVE  /\ SubSeq(s, m, n) \in Seq(T)
         /\ Len(SubSeq(s, m, n)) = n - m + 1
         /\ \A i \in 1 .. n - m + 1 : SubSeq(s, m, n)[i] = s[m + i - 1]
<1>1. \A i \in m .. n : s[i] \in T  BY LenProperties
<1> QED  BY <1>1, SubSeqProperties

LEMMA LowIs ==
  ASSUME NEW s \in Seq(Byte), NEW n \in Nat, n <= Len(s)
  PROVE  Low(s, n) \in Seq(Byte) /\ Len(Low(s, n)) = n
<1>1. Len(s) \in Nat  BY LenProperties
<1> DEFINE m == Len(s) - n + 1
<1>2. m \in Nat \ {0} /\ m <= Len(s) + 1 /\ Len(s) - m + 1 = n  BY <1>1
<1>3. Low(s, n) = SubSeq(s, m, Len(s))  BY DEF Low
<1> HIDE DEF m
<1>4. SubSeq(s, m, Len(s)) \in Seq(Byte) /\ Len(SubSeq(s, m, Len(s))) = Len(s) - m + 1
  BY <1>1, <1>2, SliceIs
<1> QED  BY <1>2, <1>3, <1>4

LEMMA ReverseIs ==
  ASSUME NEW T, NEW s \in Seq(T)
  PROVE  Reverse(s) \in Seq(T) /\ Len(Reverse(s)) = Len(s)
<1>1. Len(s) \in Nat /\ \A i \in 1 .. Len(s) : s[i] \in T  BY LenProperties
<1>2. \A i \in 1 .. Len(s) : (Len(s) - i) + 1 \in 1 .. Len(s)  BY <1>1
<1>3. Reverse(s) \in [1 .. Len(s) -> T]  BY <1>1, <1>2 DEF Reverse
<1> QED  BY <1>1, <1>3, FunctionIsSeq

(***************************************************************************)
(* A field is read as a number of eight bytes, wherever it lies and        *)
(* whatever its type and its byte order are.                               *)
(***************************************************************************)
LEMMA ReadIs ==
  ASSUME NEW block \in Seq(Byte), NEW field, field.offset \in Nat
  PROVE  ReadFieldValue(block, field) \in Seq(Byte) /\ Len(ReadFieldValue(block, field)) = 8
<1> DEFINE width == IF field.type \in DOMAIN Width THEN Width[field.type] ELSE 0
           o == field.offset
           bytes == SubSeq(block, o + 1, o + width)
           ordered == IF field.endian = "big" THEN bytes ELSE Reverse(bytes)
<1>1. width \in 0 .. 8
  <2>1. ASSUME NEW t \in DOMAIN Width PROVE Width[t] \in 0 .. 8  BY <2>1 DEF Width
  <2> HIDE DEF o
  <2> QED  BY <2>1
<1>2. ReadFieldValue(block, field)
        = IF o + width > Len(block) THEN Zeros(8) ELSE Zeros(8 - width) \o ordered
  BY DEF ReadFieldValue
<1> HIDE DEF width
<1>3. CASE o + width > Len(block)
  BY <1>2, <1>3, ZerosAre
<1>4. CASE ~(o + width > Len(block))
  <2>0. o \in Nat /\ Len(block) \in Nat  BY LenProperties
  <2> HIDE DEF o
  <2>1. /\ o + 1 \in Nat \ {0} /\ o + width \in Nat /\ o + width <= Len(block)
        /\ o + 1 <= o + width + 1 /\ o + width - (o + 1) + 1 = width
    BY <1>1, <1>4, <2>0
  <2>2. bytes \in Seq(Byte) /\ Len(bytes) = width
    <3> DEFINE m == o + 1
               n == o + width
    <3>1. /\ m \in Nat \ {0} /\ n \in Nat /\ n <= Len(block) /\ m <= n + 1
          /\ n - m + 1 = width
      BY <1>1, <2>0, <2>1
    <3> HIDE DEF m, n
    <3>2. SubSeq(block, m, n) \in Seq(Byte) /\ Len(SubSeq(block, m, n)) = n - m + 1
      BY <3>1, SliceIs
    <3> QED  BY <3>1, <3>2 DEF m, n
  <2> HIDE DEF bytes
  <2>3. ordered \in Seq(Byte) /\ Len(ordered) = width
    BY <2>2, ReverseIs
  <2> HIDE DEF ordered
  <2>4. Zeros(8 - width) \in Seq(Byte) /\ Len(Zeros(8 - width)) = 8 - width
    BY <1>1, ZerosAre, 8 - width \in Nat
  <2>5. Zeros(8 - width) \o ordered \in Seq(Byte) /\ Len(Zeros(8 - width) \o ordered) = 8
    BY <1>1, <2>3, <2>4, ConcatProperties
  <2> QED  BY <1>2, <1>4, <2>5
<1> QED  BY <1>3, <1>4

\* The fields of a video block are read from it.
IsFields(fields) ==
  /\ Len(fields) \in Nat /\ DOMAIN fields = 1 .. Len(fields)
  /\ \A k \in DOMAIN fields : fields[k].offset \in Nat

LEMMA NumberIs ==
  ASSUME NEW block \in Seq(Byte), NEW fields, IsFields(fields), NEW role, NEW width \in 0 .. 8
  PROVE  Number(block, fields, role, width) \in Seq(Byte)
         /\ Len(Number(block, fields, role, width)) = width
<1> DEFINE S == {k \in DOMAIN fields : fields[k].role = role}
           v(k) == Low(ReadFieldValue(block, fields[k]), width)
<1>1. Number(block, fields, role, width) = IF S = {} THEN Zeros(width) ELSE v(Max(S))
  BY DEF Number, OfLast
<1>2. ASSUME NEW k \in DOMAIN fields
      PROVE  v(k) \in Seq(Byte) /\ Len(v(k)) = width
  <2> DEFINE r == ReadFieldValue(block, fields[k])
  <2>1. fields[k].offset \in Nat  BY DEF IsFields
  <2>2. r \in Seq(Byte) /\ Len(r) = 8  BY <2>1, ReadIs
  <2> HIDE DEF r
  <2>3. width \in Nat /\ width <= Len(r)  BY <2>2
  <2>4. Low(r, width) \in Seq(Byte) /\ Len(Low(r, width)) = width  BY <2>2, <2>3, LowIs
  <2> QED  BY <2>4 DEF r
<1>3. S # {} => Max(S) \in DOMAIN fields
  <2>1. S \in SUBSET (1 .. Len(fields))  BY DEF IsFields
  <2>2. S # {} => Max(S) \in S
    <3>1. S \in SUBSET Nat /\ \A x \in S : x <= Len(fields)  BY <2>1 DEF IsFields
    <3> HIDE DEF S
    <3> QED  BY <3>1, MaxIs DEF IsFields
  <2> QED  BY <2>2
<1>4. Zeros(width) \in Seq(Byte) /\ Len(Zeros(width)) = width  BY ZerosAre
<1> HIDE DEF S, v
<1> QED  BY <1>1, <1>2, <1>3, <1>4

LEMMA FlagIs ==
  ASSUME NEW block, NEW fields, NEW flag
  PROVE  HasFlag(block, fields, flag) \in BOOLEAN
BY DEF HasFlag, OfLast

LEMMA LengthIs ==
  ASSUME NEW block \in Seq(Byte), NEW fields, IsFields(fields), NEW default \in Nat
  PROVE  PayloadLength(block, fields, default) \in Nat
<1> DEFINE Claims(f, n) == ReadFieldValue(block, f) = InBytes(n, 8)
           Counts(k) == /\ fields[k].role = "payload_length"
                        /\ \E n \in 1 .. Len(block) : Claims(fields[k], n)
           S == {k \in DOMAIN fields : Counts(k)}
           v(k) == CHOOSE n \in 1 .. Len(block) : Claims(fields[k], n)
<1>1. PayloadLength(block, fields, default) = IF S = {} THEN default ELSE v(Max(S))
  BY DEF PayloadLength, OfLast
<1>2. Len(block) \in Nat  BY LenProperties
<1>3. ASSUME NEW k \in S PROVE v(k) \in Nat
  <2> HIDE DEF Claims
  <2>1. \E n \in 1 .. Len(block) : Claims(fields[k], n)  OBVIOUS
  <2>2. v(k) \in 1 .. Len(block)  BY <2>1
  <2> QED  BY <1>2, <2>2
<1>4. S # {} => Max(S) \in S
  <2>1. S \in SUBSET (1 .. Len(fields))  BY DEF IsFields
  <2>2. S \in SUBSET Nat /\ \A x \in S : x <= Len(fields)  BY <2>1 DEF IsFields
  <2> HIDE DEF S
  <2> QED  BY <2>2, MaxIs DEF IsFields
<1> HIDE DEF S, v
<1> QED  BY <1>1, <1>3, <1>4

----------------------------------------------------------------------------
\* Records.

\* A record of a block, and one whose numbers have the width of their column.
BlockTypes == {"superblock", "partition_table", "unallocated_or_corrupted", "video_frame"}

Row ==
  [block_index : Nat, byte_offset : Nat, channel_id : Seq(Byte), timestamp : Seq(Byte),
   sequence_num : Seq(Byte), payload_offset : Nat, payload_len : Nat, flags : Seq(Byte),
   is_scrambled : BOOLEAN, is_corrupted : BOOLEAN, block_type : BlockTypes,
   descrambled : SUBSET Seq(Byte)]

FitsItsColumns(r) ==
  /\ Len(r.channel_id) = 4 /\ Len(r.timestamp) = 8
  /\ Len(r.sequence_num) = 4 /\ Len(r.flags) = 2
  /\ r.payload_offset >= r.byte_offset

LEMMA RowIs ==
  ASSUME NEW i \in Nat, NEW o \in Nat, NEW c \in Seq(Byte), NEW t \in Seq(Byte),
         NEW q \in Seq(Byte), NEW p \in Nat, NEW n \in Nat, NEW m \in Seq(Byte),
         NEW a \in BOOLEAN, NEW b \in BOOLEAN, NEW y \in BlockTypes, NEW d \in SUBSET Seq(Byte),
         NEW r,
         r = [block_index |-> i, byte_offset |-> o, channel_id |-> c, timestamp |-> t,
              sequence_num |-> q, payload_offset |-> p, payload_len |-> n, flags |-> m,
              is_scrambled |-> a, is_corrupted |-> b, block_type |-> y, descrambled |-> d]
  PROVE  r \in Row
BY DEF Row

LEMMA PlainRecordIs ==
  ASSUME NEW i \in Nat, NEW o \in Nat, NEW type \in BlockTypes, NEW p \in Nat, NEW n \in Nat, p >= o
  PROVE  LET r == PlainRecord(i, o, type, p, n)
         IN  /\ r \in Row /\ FitsItsColumns(r)
             /\ r.block_index = i /\ r.byte_offset = o /\ r.descrambled = {}
<1> DEFINE r == PlainRecord(i, o, type, p, n)
           z2 == Zeros(2)  z4 == Zeros(4)  z8 == Zeros(8)
<1>1. /\ z2 \in Seq(Byte) /\ Len(z2) = 2 /\ z4 \in Seq(Byte) /\ Len(z4) = 4
      /\ z8 \in Seq(Byte) /\ Len(z8) = 8
  BY ZerosAre
<1>2. r = [block_index |-> i, byte_offset |-> o, channel_id |-> z4, timestamp |-> z8,
           sequence_num |-> z4, payload_offset |-> p, payload_len |-> n, flags |-> z2,
           is_scrambled |-> FALSE, is_corrupted |-> type = "unallocated_or_corrupted",
           block_type |-> type, descrambled |-> {}]
  BY DEF PlainRecord
<1> HIDE DEF z2, z4, z8, r
<1>3. r \in Row  BY <1>1, <1>2 DEF Row
<1>4. FitsItsColumns(r) /\ r.block_index = i /\ r.byte_offset = o /\ r.descrambled = {}
  BY <1>1, <1>2 DEF FitsItsColumns
<1> QED  BY <1>3, <1>4 DEF r

LEMMA VideoRecordIs ==
  ASSUME NEW g, IsGrammar(g), NEW i \in Nat, NEW o \in Nat, NEW block \in Seq(Byte)
  PROVE  LET r == ParseVideoBlock(g, i, o, block)
         IN  /\ r \in Row /\ FitsItsColumns(r)
             /\ r.block_index = i /\ r.byte_offset = o /\ r.descrambled = {}
<1> DEFINE r == ParseVideoBlock(g, i, o, block)
           f == g.header.fields
           c == Number(block, f, "channel_id", 4)
           t == Number(block, f, "timestamp", 8)
           q == Number(block, f, "sequence_num", 4)
           m == Number(block, f, "flags", 2)
           p == o + g.payload.offset
           n == PayloadLength(block, f, g.payload.default_length)
           a == HasFlag(block, f, "scrambled")
           b == HasFlag(block, f, "corrupted")
<1>1. /\ IsFields(f) /\ p \in Nat /\ p >= o /\ g.payload.default_length \in Nat
  BY DEF IsGrammar, IsFields
<1>2. r = [block_index |-> i, byte_offset |-> o, channel_id |-> c, timestamp |-> t,
           sequence_num |-> q, payload_offset |-> p, payload_len |-> n, flags |-> m,
           is_scrambled |-> a, is_corrupted |-> b,
           block_type |-> "video_frame", descrambled |-> {}]
  BY DEF ParseVideoBlock
<1> HIDE DEF f, p, r
<1>3. n \in Nat  BY <1>1, LengthIs
<1>4. a \in BOOLEAN /\ b \in BOOLEAN  BY FlagIs
<1> HIDE DEF n, a, b
<1>5. c \in Seq(Byte) /\ Len(c) = 4  BY <1>1, NumberIs, 4 \in 0 .. 8
<1>6. t \in Seq(Byte) /\ Len(t) = 8  BY <1>1, NumberIs, 8 \in 0 .. 8
<1>7. q \in Seq(Byte) /\ Len(q) = 4  BY <1>1, NumberIs, 4 \in 0 .. 8
<1>8. m \in Seq(Byte) /\ Len(m) = 2  BY <1>1, NumberIs, 2 \in 0 .. 8
<1> HIDE DEF c, t, q, m
<1>9. r \in Row
  <2>1. "video_frame" \in BlockTypes /\ {} \in SUBSET Seq(Byte)  BY DEF BlockTypes
  <2> QED  BY <1>1, <1>2, <1>3, <1>4, <1>5, <1>6, <1>7, <1>8, <2>1, RowIs, ZenonT(60)
<1>10. FitsItsColumns(r) /\ r.block_index = i /\ r.byte_offset = o /\ r.descrambled = {}
  BY <1>1, <1>2, <1>5, <1>6, <1>7, <1>8 DEF FitsItsColumns
<1> QED  BY <1>9, <1>10 DEF r

(***************************************************************************)
(* The record of a block is one, of that block, whatever its grammar is.   *)
(***************************************************************************)
LEMMA InterpretIs ==
  ASSUME NEW g, IsGrammar(g), NEW i \in Nat, NEW o \in Nat, NEW block \in Seq(Byte),
         NEW r \in InterpretBlock(g, i, o, block)
  PROVE  /\ r \in Row /\ FitsItsColumns(r)
         /\ r.block_index = i /\ r.byte_offset = o /\ r.descrambled = {}
<1> DEFINE Good(x) == /\ x \in Row /\ FitsItsColumns(x)
                      /\ x.block_index = i /\ x.byte_offset = o /\ x.descrambled = {}
           n == Len(block)
           p == o + g.payload.offset
           d == g.payload.default_length
<1>1. n \in Nat /\ p \in Nat /\ p >= o /\ d \in Nat  BY LenProperties DEF IsGrammar
<1>2. \/ r = ParseVideoBlock(g, i, o, block)
      \/ r = PlainRecord(i, o, "superblock", o, n)
      \/ r = PlainRecord(i, o, "partition_table", o, n)
      \/ r = PlainRecord(i, o, "unallocated_or_corrupted", p, d)
  BY DEF InterpretBlock
<1>3. Good(ParseVideoBlock(g, i, o, block))  BY VideoRecordIs
<1> HIDE DEF n, p, d
<1>4. /\ Good(PlainRecord(i, o, "superblock", o, n))
      /\ Good(PlainRecord(i, o, "partition_table", o, n))
      /\ Good(PlainRecord(i, o, "unallocated_or_corrupted", p, d))
  <2>1. ASSUME NEW type \in BlockTypes, NEW q \in Nat, q >= o, NEW l \in Nat
        PROVE  Good(PlainRecord(i, o, type, q, l))
    BY <2>1, PlainRecordIs
  <2>2. o >= o  OBVIOUS
  <2> HIDE DEF Good
  <2> USE DEF BlockTypes
  <2>3. Good(PlainRecord(i, o, "superblock", o, n))  BY <1>1, <2>1, <2>2
  <2>4. Good(PlainRecord(i, o, "partition_table", o, n))  BY <1>1, <2>1, <2>2
  <2>5. Good(PlainRecord(i, o, "unallocated_or_corrupted", p, d))  BY <1>1, <2>1
  <2> QED  BY <2>3, <2>4, <2>5
<1> QED  BY <1>2, <1>3, <1>4

----------------------------------------------------------------------------
\* One buffer for all blocks.

(***************************************************************************)
(* What is read into a buffer is what its beginning holds.                 *)
(***************************************************************************)
LEMMA BufferHoldsWhatWasRead ==
  ASSUME NEW T, NEW read \in Seq(T), NEW buf \in Seq(T), Len(read) <= Len(buf),
         NEW new, new = read \o SubSeq(buf, Len(read) + 1, Len(buf))
  PROVE  /\ new \in Seq(T) /\ Len(new) = Len(buf)
         /\ SubSeq(new, 1, Len(read)) = read
<1> DEFINE n == Len(read)
           b == Len(buf)
           rest == SubSeq(buf, n + 1, b)
<1>1. n \in Nat /\ b \in Nat /\ n + 1 \in Nat \ {0} /\ n + 1 <= b + 1 /\ b - (n + 1) + 1 = b - n
  BY LenProperties
<1>2. rest \in Seq(T) /\ Len(rest) = b - n
  <2> DEFINE m == n + 1
  <2>1. m \in Nat \ {0} /\ m <= b + 1 /\ b - m + 1 = b - n /\ b <= Len(buf)  BY <1>1
  <2> HIDE DEF m
  <2>2. SubSeq(buf, m, b) \in Seq(T) /\ Len(SubSeq(buf, m, b)) = b - m + 1
    BY <1>1, <2>1, SliceIs
  <2> QED  BY <2>1, <2>2 DEF m
<1> HIDE DEF rest
<1>3. /\ new \in Seq(T) /\ Len(new) = b
      /\ \A i \in 1 .. n : new[i] = read[i]
  BY <1>1, <1>2, ConcatProperties DEF rest
<1>4. /\ SubSeq(new, 1, n) \in Seq(T) /\ Len(SubSeq(new, 1, n)) = n
      /\ \A i \in 1 .. n : SubSeq(new, 1, n)[i] = new[i]
  BY <1>1, <1>3, SliceIs
<1>5. SubSeq(new, 1, n) = read  BY <1>3, <1>4, SeqEqual
<1> QED  BY <1>3, <1>5

LEMMA MinOfTwo ==
  ASSUME NEW a \in Int, NEW b \in Int
  PROVE  Min({a, b}) = IF a <= b THEN a ELSE b
<1> DEFINE m == IF a <= b THEN a ELSE b
<1>1. m \in {a, b} /\ \A y \in {a, b} : m <= y  OBVIOUS
<1>2. \A x \in {a, b} : (\A y \in {a, b} : x <= y) => x = m  OBVIOUS
<1> QED  BY <1>1, <1>2 DEF Min

(***************************************************************************)
(* read() gets the bytes of the block at the offset, as many as there are. *)
(***************************************************************************)
LEMMA NextBytesAre ==
  ASSUME file \in Seq(Byte), block_size \in Nat \ {0}, offset \in 0 .. Len(file)
  PROVE  /\ NextBytes \in Seq(Byte)
         /\ Len(NextBytes) = IF offset + block_size <= Len(file) THEN block_size
                             ELSE Len(file) - offset
         /\ \A i \in 1 .. Len(NextBytes) : NextBytes[i] = file[offset + i]
<1> DEFINE m == offset + 1
           n == IF offset + block_size <= Len(file) THEN offset + block_size ELSE Len(file)
<1>1. Len(file) \in Nat /\ offset \in Nat  BY LenProperties
<1>2. NextBytes = SubSeq(file, m, n)  BY <1>1, MinOfTwo DEF NextBytes
<1>3. m \in Nat \ {0} /\ n \in Nat /\ n <= Len(file) /\ m <= n + 1 /\ n - m + 1 = n - offset
      /\ \A i \in 1 .. n - m + 1 : m + i - 1 = offset + i
  BY <1>1
<1>4. n - offset = IF offset + block_size <= Len(file) THEN block_size ELSE Len(file) - offset
  BY <1>1
<1> HIDE DEF m, n
<1>5. /\ SubSeq(file, m, n) \in Seq(Byte) /\ Len(SubSeq(file, m, n)) = n - m + 1
      /\ \A i \in 1 .. n - m + 1 : SubSeq(file, m, n)[i] = file[m + i - 1]
  BY <1>3, SliceIs
<1> QED  BY <1>2, <1>3, <1>4, <1>5

(***************************************************************************)
(* The plugin gets the payload as the image has it, or nothing, and what   *)
(* it makes of it is undone by the same key.                               *)
(***************************************************************************)
LEMMA ScrambledPayloadIs ==
  ASSUME file \in Seq(Byte), block_size \in Nat \ {0}, offset \in 0 .. Len(file),
         NEW r \in Row, FitsItsColumns(r), r.byte_offset = offset
  PROVE  LET payload == ScrambledPayload(r, NextBytes)
         IN  /\ payload \in Seq(Byte)
             /\ payload # <<>> <=> LiesInItsBlock(r)
             /\ LiesInItsBlock(r) => payload = PayloadInImage(r)
<1> DEFINE p == r.payload_offset
           l == r.payload_len
           slice == NextBytes
           n == Len(slice)
           f == Len(file)
           from == p - offset
           payload == ScrambledPayload(r, NextBytes)
<1>1. p \in Nat /\ l \in Nat /\ p >= offset /\ offset \in Nat /\ f \in Nat
  BY LenProperties DEF Row, FitsItsColumns
<1>2. /\ slice \in Seq(Byte)
      /\ n = IF offset + block_size <= f THEN block_size ELSE f - offset
      /\ \A i \in 1 .. n : slice[i] = file[offset + i]
  BY NextBytesAre
<1>3. payload = IF from + l <= n THEN SubSeq(slice, from + 1, from + l) ELSE <<>>
  BY DEF ScrambledPayload
<1>4. LiesInItsBlock(r) <=> l > 0 /\ p + l <= IF offset + block_size <= f
                                              THEN offset + block_size ELSE f
  BY <1>1, MinOfTwo DEF LiesInItsBlock
<1>5. PayloadInImage(r) = SubSeq(file, p + 1, IF p + l <= f THEN p + l ELSE f)
  <2>1. p + l \in Int /\ f \in Int  BY <1>1
  <2>2. Min({p + l, f}) = IF p + l <= f THEN p + l ELSE f
    <3> HIDE DEF p, l, f
    <3> QED  BY <2>1, MinOfTwo
  <2> QED  BY <2>2 DEF PayloadInImage
<1> HIDE DEF p, l, slice, f, payload
<1>6. n \in Nat /\ offset + n <= f /\ (from + l <= n <=> p + l <= offset + n)
      /\ (LiesInItsBlock(r) <=> l > 0 /\ from + l <= n)
  BY <1>1, <1>2, <1>4
<1> HIDE DEF n
<1>7. CASE from + l <= n
  <2> DEFINE m == from + 1
             e == from + l
             s == SubSeq(slice, m, e)
             t == SubSeq(file, p + 1, p + l)
  <2>1. /\ m \in Nat \ {0} /\ e \in Nat /\ e <= n /\ m <= e + 1 /\ e - m + 1 = l
        /\ p + 1 \in Nat \ {0} /\ p + l \in Nat /\ p + l <= f /\ p + 1 <= p + l + 1
        /\ p + l - (p + 1) + 1 = l
    BY <1>1, <1>6, <1>7
  <2>2. s \in Seq(Byte) /\ Len(s) = l /\ \A i \in 1 .. l : s[i] = slice[m + i - 1]
    <3> HIDE DEF m, e
    <3>1. e <= Len(slice)  BY <2>1 DEF n
    <3>2. /\ s \in Seq(Byte) /\ Len(s) = e - m + 1
          /\ \A i \in 1 .. e - m + 1 : s[i] = slice[m + i - 1]
      BY <1>2, <2>1, <3>1, SliceIs
    <3> QED  BY <2>1, <3>2
  <2>3. t \in Seq(Byte) /\ Len(t) = l /\ \A i \in 1 .. l : t[i] = file[p + 1 + i - 1]
    <3> DEFINE b == p + 1
               c == p + l
    <3>1. b \in Nat \ {0} /\ c \in Nat /\ c <= f /\ b <= c + 1 /\ c - b + 1 = l
      BY <1>1, <2>1
    <3> HIDE DEF b, c
    <3>2. SubSeq(file, b, c) \in Seq(Byte) /\ Len(SubSeq(file, b, c)) = l
          /\ \A i \in 1 .. l : SubSeq(file, b, c)[i] = file[b + i - 1]
      BY <3>1, SliceIs DEF f
    <3> QED  BY <3>2 DEF b, c
  <2>4. ASSUME NEW i \in 1 .. l PROVE s[i] = t[i]
    <3>1. m + i - 1 \in 1 .. n /\ offset + (m + i - 1) = p + i /\ p + 1 + i - 1 = p + i
      BY <1>1, <1>6, <1>7
    <3> DEFINE j == m + i - 1
    <3>2. slice[j] = file[offset + j]
      <4> HIDE DEF j
      <4>1. j \in 1 .. n  BY <3>1 DEF j
      <4> QED  BY <1>2, <4>1
    <3> QED  BY <2>2, <2>3, <3>1, <3>2
  <2> HIDE DEF s, t, m, e
  <2>5. s = t  BY <2>2, <2>3, <2>4, SeqEqual
  <2>6. payload = s  BY <1>3, <1>7 DEF s, m, e
  <2>7. PayloadInImage(r) = t  BY <1>5, <2>1 DEF t
  <2>8. s # <<>> <=> l > 0  BY <1>1, <2>2
  <2> QED  BY <1>6, <1>7, <2>2, <2>5, <2>6, <2>7, <2>8 DEF payload
<1>8. CASE ~(from + l <= n)
  <2>1. payload = <<>>  BY <1>3, <1>8
  <2>2. ~LiesInItsBlock(r)  BY <1>6, <1>8
  <2> QED  BY <2>1, <2>2 DEF payload
<1> QED  BY <1>7, <1>8

(***************************************************************************)
(* A record keeps all but its payload, and that is descrambled where it    *)
(* should be.                                                              *)
(***************************************************************************)
IsDescrambledBy(r, g) ==
  /\ r.descrambled # {} <=> r.is_scrambled /\ given.plugin /\ g.plugin /\ LiesInItsBlock(r)
  /\ \A bytes \in r.descrambled : Xored(bytes) = PayloadInImage(r)

LEMMA DescrambleIs ==
  ASSUME file \in Seq(Byte), block_size \in Nat \ {0}, offset \in 0 .. Len(file),
         NEW g, NEW r \in Row, FitsItsColumns(r), r.byte_offset = offset, r.descrambled = {}
  PROVE  LET d == Descramble(r, g, NextBytes)
         IN  /\ d \in Row /\ FitsItsColumns(d) /\ IsDescrambledBy(d, g)
             /\ d.block_index = r.block_index /\ d.byte_offset = r.byte_offset
<1> DEFINE payload == ScrambledPayload(r, NextBytes)
           out == Xored(payload)
           d == Descramble(r, g, NextBytes)
           done0 == r.is_scrambled /\ g.plugin /\ given.plugin /\ payload # <<>>
<1>1. /\ payload \in Seq(Byte)
      /\ payload # <<>> <=> LiesInItsBlock(r)
      /\ LiesInItsBlock(r) => payload = PayloadInImage(r)
  BY ScrambledPayloadIs
<1>2. d = IF done0 THEN [r EXCEPT !.descrambled = {out}] ELSE r
  BY DEF Descramble
<1> HIDE DEF payload, d
<1>3. out \in Seq(Byte) /\ Xored(out) = payload  BY <1>1, XoredIs
<1> HIDE DEF out
<1>4. CASE done0
  <2>1. d = [r EXCEPT !.descrambled = {out}]  BY <1>2, <1>4
  <2>2. {out} \in SUBSET Seq(Byte)  BY <1>3
  <2>3. d \in Row  BY <2>1, <2>2 DEF Row
  <2>4. /\ d.block_index = r.block_index /\ d.byte_offset = r.byte_offset
        /\ d.channel_id = r.channel_id /\ d.timestamp = r.timestamp
        /\ d.sequence_num = r.sequence_num /\ d.flags = r.flags
        /\ d.payload_offset = r.payload_offset /\ d.payload_len = r.payload_len
        /\ d.is_scrambled = r.is_scrambled /\ d.descrambled = {out}
    BY <2>1 DEF Row
  <2>5. FitsItsColumns(d)  BY <2>4 DEF FitsItsColumns
  <2>6. (LiesInItsBlock(d) <=> LiesInItsBlock(r)) /\ PayloadInImage(d) = PayloadInImage(r)
    BY <2>4 DEF LiesInItsBlock, PayloadInImage
  <2>7. IsDescrambledBy(d, g)  BY <1>1, <1>3, <1>4, <2>4, <2>6 DEF IsDescrambledBy
  <2> QED  BY <2>3, <2>4, <2>5, <2>7 DEF d
<1>5. CASE ~done0
  <2>1. d = r  BY <1>2, <1>5
  <2>2. IsDescrambledBy(r, g)  BY <1>1, <1>5 DEF IsDescrambledBy
  <2> QED  BY <2>1, <2>2 DEF d
<1> QED  BY <1>4, <1>5

----------------------------------------------------------------------------
\* The parser.

\* What the scenario gives stays as it was given.
ImageIsGiven ==
  /\ file \in Seq(Byte) /\ block_size \in Nat \ {0}
  /\ given.promised \in Nat /\ given.plugin \in BOOLEAN
  /\ Len(given.directory) \in Nat /\ DOMAIN given.directory = 1 .. Len(given.directory)
  /\ \A k \in DOMAIN given.directory : IsGrammar(given.directory[k])

ParserTypeOK ==
  /\ phase \in {"new", "ready", "parse", "carve", "carved", "analyzed", "reported"}
  /\ parses \in 0 .. MaxParses
  /\ index \in 0 .. given.promised
  /\ offset \in 0 .. Len(file)
  /\ page \in Seq(Byte) /\ Len(page) \in {0, block_size}
  /\ records \in Seq(Row) /\ rows \in Seq(Row)

\* The grammar is one, and of the directory.
OneGrammar ==
  \A g \in grammar : IsGrammar(g) /\ \A h \in grammar : h = g

\* The loop stands at the beginning of a block, or behind the last byte.
LoopStandsAtABlock ==
  phase = "parse" =>
    /\ Len(page) = block_size
    /\ offset = index * block_size \/ offset = Len(file)

\* A record is where its block is.
IsOfItsBlock(r) ==
  /\ FitsItsColumns(r)
  /\ r.block_index < given.promised
  /\ r.byte_offset = r.block_index * block_size

RecordsAreOfTheirBlocks ==
  /\ \A k \in DOMAIN records : IsOfItsBlock(records[k])
  /\ \A k \in DOMAIN rows : IsOfItsBlock(rows[k])

RecordsAreDescrambled ==
  \A k \in DOMAIN records : \A g \in grammar : IsDescrambledBy(records[k], g)

\* Records are of a parse, which has a grammar.
RecordsHaveAGrammar == records # <<>> => grammar # {}

ParserInv ==
  /\ ImageIsGiven /\ ParserTypeOK /\ OneGrammar /\ LoopStandsAtABlock
  /\ RecordsAreOfTheirBlocks /\ RecordsAreDescrambled /\ RecordsHaveAGrammar

LEMMA DetectedIsOne ==
  ASSUME ImageIsGiven, NEW probe
  PROVE  \A g \in DetectGrammar(given.directory, probe) :
           /\ IsGrammar(g)
           /\ \A h \in DetectGrammar(given.directory, probe) : h = g
<1> DEFINE dir == given.directory
           matching == {k \in DOMAIN dir : MatchesGrammar(dir[k], probe)}
           Precedes(k, l) == \/ Outranks(dir[k], dir[l])
                             \/ ~Outranks(dir[l], dir[k]) /\ k < l
           top == {k \in matching : \A l \in matching \ {k} : Precedes(k, l)}
<1>1. DetectGrammar(dir, probe) = {dir[k] : k \in top}  BY DEF DetectGrammar
<1>2. \A k \in matching : k \in Nat /\ IsGrammar(dir[k])  BY DEF ImageIsGiven
<1>3. ASSUME NEW k \in top, NEW l \in top, k # l PROVE FALSE
  <2>1. Precedes(k, l) /\ Precedes(l, k)  BY <1>3
  <2>2. k \in Nat /\ l \in Nat /\ IsGrammar(dir[k]) /\ IsGrammar(dir[l])  BY <1>2
  <2>3. ~(Outranks(dir[k], dir[l]) /\ Outranks(dir[l], dir[k]))
    BY <2>2 DEF Outranks, IsGrammar
  <2> QED  BY <2>1, <2>2, <2>3
<1>4. \A k \in top : IsGrammar(dir[k])  BY <1>2
<1> HIDE DEF top
<1> QED  BY <1>1, <1>3, <1>4

LEMMA ParserInit ==
  ASSUME Init
  PROVE  ParserInv
<1>1. PICK s \in Scenarios :
        /\ file = s.file
        /\ block_size = s.block_size
        /\ given = [marks |-> s.marks, promised |-> s.promised, directory |-> s.directory,
                    registry |-> s.registry, plugin |-> s.plugin,
                    events |-> s.events, truth |-> s.truth]
  BY DEF Init
<1>2. ImageIsGiven  BY <1>1, ScenariosAssumption DEF ImageIsGiven
<1>3. /\ phase = "new" /\ grammar = {} /\ index = 0 /\ offset = 0 /\ page = <<>>
      /\ records = <<>> /\ rows = <<>> /\ parses = 0
  BY DEF Init
<1>4. ParserTypeOK  BY <1>2, <1>3, BoundAssumption, LenProperties DEF ParserTypeOK, ImageIsGiven
<1> QED
  BY <1>2, <1>3, <1>4 DEF ParserInv, OneGrammar, LoopStandsAtABlock, RecordsAreOfTheirBlocks,
     RecordsAreDescrambled, RecordsHaveAGrammar

\* No step changes what was given; what parse has is changed by parse only.
LEMMA ParserKept ==
  ASSUME ParserInv, UNCHANGED <<evidence, given, parser, rows, parses>>,
         phase' = phase \/ phase' \in {"ready", "carve", "carved", "analyzed", "reported"}
  PROVE  ParserInv'
<1>1. /\ file' = file /\ block_size' = block_size /\ given' = given
      /\ grammar' = grammar /\ index' = index /\ offset' = offset /\ page' = page
      /\ records' = records /\ rows' = rows /\ parses' = parses
  BY DEF evidence, parser
<1>2. ImageIsGiven'  BY <1>1 DEF ParserInv, ImageIsGiven
<1>3. ParserTypeOK'  BY <1>1 DEF ParserInv, ParserTypeOK
<1>4. OneGrammar' /\ RecordsHaveAGrammar'
  BY <1>1 DEF ParserInv, OneGrammar, RecordsHaveAGrammar
<1>5. LoopStandsAtABlock'  BY <1>1 DEF ParserInv, LoopStandsAtABlock
<1>6. RecordsAreOfTheirBlocks'
  BY <1>1 DEF ParserInv, RecordsAreOfTheirBlocks, IsOfItsBlock
<1>7. RecordsAreDescrambled'
  BY <1>1 DEF ParserInv, RecordsAreDescrambled, IsDescrambledBy, LiesInItsBlock, PayloadInImage
<1> QED  BY <1>2, <1>3, <1>4, <1>5, <1>6, <1>7 DEF ParserInv

LEMMA StartParseKeeps ==
  ASSUME ParserInv, StartParse
  PROVE  ParserInv'
<1>1. /\ file' = file /\ block_size' = block_size /\ given' = given /\ rows' = rows
      /\ index' = 0 /\ offset' = 0 /\ page' = Zeros(block_size) /\ records' = <<>>
      /\ grammar' = DetectGrammar(given.directory, Probe)
      /\ phase' \in {"ready", "parse"} /\ parses' = parses + 1 /\ parses < MaxParses
  BY DEF StartParse, evidence
<1>2. ImageIsGiven'  BY <1>1 DEF ParserInv, ImageIsGiven
<1>3. block_size \in Nat /\ page' \in Seq(Byte) /\ Len(page') = block_size
  BY <1>1, ZerosAre DEF ParserInv, ImageIsGiven
<1>4. ParserTypeOK'
  <2>1. Len(file) \in Nat  BY LenProperties DEF ParserInv, ImageIsGiven
  <2> QED  BY <1>1, <1>3, <2>1, BoundAssumption DEF ParserInv, ParserTypeOK, ImageIsGiven
<1>5. OneGrammar'
  BY <1>1, DetectedIsOne DEF ParserInv, OneGrammar
<1>6. LoopStandsAtABlock'  BY <1>1, <1>3 DEF LoopStandsAtABlock
<1>7. RecordsAreOfTheirBlocks'
  BY <1>1 DEF ParserInv, RecordsAreOfTheirBlocks, IsOfItsBlock
<1>8. RecordsAreDescrambled' /\ RecordsHaveAGrammar'
  BY <1>1 DEF RecordsAreDescrambled, RecordsHaveAGrammar
<1> QED  BY <1>2, <1>4, <1>5, <1>6, <1>7, <1>8 DEF ParserInv

LEMMA StoreExtractionKeeps ==
  ASSUME ParserInv, StoreExtraction
  PROVE  ParserInv'
<1>1. /\ file' = file /\ block_size' = block_size /\ given' = given
      /\ grammar' = grammar /\ index' = index /\ offset' = offset /\ page' = page
      /\ records' = records /\ rows' = rows \o records /\ parses' = parses /\ phase' = "ready"
  BY DEF StoreExtraction, evidence, parser
<1>2. ImageIsGiven'  BY <1>1 DEF ParserInv, ImageIsGiven
<1>3. records \in Seq(Row) /\ rows \in Seq(Row)  BY DEF ParserInv, ParserTypeOK
<1>4. rows' \in Seq(Row)  BY <1>1, <1>3, ConcatProperties
<1>5. ParserTypeOK'  BY <1>1, <1>4 DEF ParserInv, ParserTypeOK
<1>6. OneGrammar' /\ RecordsHaveAGrammar'
  BY <1>1 DEF ParserInv, OneGrammar, RecordsHaveAGrammar
<1>7. LoopStandsAtABlock'  BY <1>1 DEF LoopStandsAtABlock
<1>8. RecordsAreOfTheirBlocks'
  <2>1. ASSUME NEW k \in DOMAIN rows' PROVE IsOfItsBlock(rows'[k])
    <3>1. PICK r \in {rows[j] : j \in DOMAIN rows} \cup {records[j] : j \in DOMAIN records} :
            rows'[k] = r
      <4>1. /\ Len(rows) \in Nat /\ Len(records) \in Nat /\ Len(rows') = Len(rows) + Len(records)
            /\ DOMAIN rows = 1 .. Len(rows) /\ DOMAIN records = 1 .. Len(records)
            /\ DOMAIN rows' = 1 .. Len(rows')
        BY <1>1, <1>3, <1>4, LenProperties, ConcatProperties
      <4>2. CASE k <= Len(rows)
        <5>1. k \in DOMAIN rows  BY <4>1, <4>2
        <5>2. rows'[k] = rows[k]  BY <1>1, <1>3, <4>1, <4>2, ConcatProperties
        <5> QED  BY <5>1, <5>2
      <4>3. CASE ~(k <= Len(rows))
        <5>1. k - Len(rows) \in DOMAIN records  BY <4>1, <4>3
        <5>2. rows'[k] = records[k - Len(rows)]  BY <1>1, <1>3, <4>1, <4>3, ConcatProperties
        <5> QED  BY <5>1, <5>2
      <4> QED  BY <4>2, <4>3
    <3> QED  BY <3>1 DEF ParserInv, RecordsAreOfTheirBlocks
  <2>2. ASSUME NEW k \in DOMAIN records' PROVE IsOfItsBlock(records'[k])
    BY <1>1 DEF ParserInv, RecordsAreOfTheirBlocks
  <2> QED  BY <1>1, <2>1, <2>2 DEF RecordsAreOfTheirBlocks, IsOfItsBlock
<1>9. RecordsAreDescrambled'
  BY <1>1 DEF ParserInv, RecordsAreDescrambled, IsDescrambledBy, LiesInItsBlock, PayloadInImage
<1> QED  BY <1>2, <1>5, <1>6, <1>7, <1>8, <1>9 DEF ParserInv

LEMMA ParseBlockKeeps ==
  ASSUME ParserInv, ParseBlock
  PROVE  ParserInv'
<1> DEFINE read == NextBytes
           n == Len(read)
<1>1. /\ file' = file /\ block_size' = block_size /\ given' = given
      /\ grammar' = grammar /\ rows' = rows /\ parses' = parses
      /\ phase = "parse" /\ index < given.promised /\ read # <<>>
      /\ page' = read \o SubSeq(page, n + 1, block_size)
  BY DEF ParseBlock, evidence
<1>2. PICK g \in grammar :
        LET slice  == BlockSlice(NextBytes)
            record == InterpretBlock(g, index, offset, slice)
        IN  IF record = {}
            THEN /\ phase' = "ready"
                 /\ UNCHANGED <<index, offset, records>>
            ELSE /\ \E r \in record : records' = Append(records, Descramble(r, g, slice))
                 /\ index' = index + 1
                 /\ offset' = offset + Len(slice)
                 /\ UNCHANGED phase
  BY DEF ParseBlock
<1>3. /\ file \in Seq(Byte) /\ block_size \in Nat \ {0} /\ given.promised \in Nat
      /\ index \in 0 .. given.promised /\ offset \in 0 .. Len(file) /\ Len(file) \in Nat
      /\ page \in Seq(Byte) /\ Len(page) = block_size
      /\ records \in Seq(Row) /\ rows \in Seq(Row)
      /\ IsGrammar(g) /\ \A h \in grammar : h = g
      /\ offset = index * block_size \/ offset = Len(file)
  BY <1>1, LenProperties
     DEF ParserInv, ImageIsGiven, ParserTypeOK, OneGrammar, LoopStandsAtABlock
<1>4. /\ read \in Seq(Byte)
      /\ n = IF offset + block_size <= Len(file) THEN block_size ELSE Len(file) - offset
  BY <1>3, NextBytesAre
<1>5. n \in 1 .. block_size /\ offset + n <= Len(file)
  <2>1. n # 0
    <3> HIDE DEF read
    <3> QED  BY <1>1, <1>4, EmptySeq
  <2> HIDE DEF n
  <2> QED  BY <1>3, <1>4, <2>1
<1>6. /\ page' \in Seq(Byte) /\ Len(page') = block_size
      /\ BlockSlice(read) = read
  <2>1. n <= Len(page)  BY <1>3, <1>5
  <2> HIDE DEF read
  <2>2. page' = read \o SubSeq(page, Len(read) + 1, Len(page))  BY <1>1, <1>3
  <2>3. page' \in Seq(Byte) /\ Len(page') = Len(page) /\ SubSeq(page', 1, Len(read)) = read
    <3> DEFINE new == page'
    <3>1. new = read \o SubSeq(page, Len(read) + 1, Len(page)) /\ Len(read) <= Len(page)
      BY <2>1, <2>2
    <3> HIDE DEF new
    <3>2. page \in Seq(Byte) /\ read \in Seq(Byte)  BY <1>3, <1>4
    <3>3. new \in Seq(Byte) /\ Len(new) = Len(page) /\ SubSeq(new, 1, Len(read)) = read
      BY <3>1, <3>2, BufferHoldsWhatWasRead
    <3> QED  BY <3>3 DEF new
  <2> QED  BY <1>3, <2>3 DEF BlockSlice
<1>7. ImageIsGiven' /\ OneGrammar'
  BY <1>1 DEF ParserInv, ImageIsGiven, OneGrammar
<1> HIDE DEF read, n
<1>8. CASE InterpretBlock(g, index, offset, read) = {}
  <2>1. /\ phase' = "ready" /\ index' = index /\ offset' = offset /\ records' = records
    BY <1>2, <1>6, <1>8 DEF read
  <2>2. ParserTypeOK'  BY <1>1, <1>6, <2>1 DEF ParserInv, ParserTypeOK
  <2>3. LoopStandsAtABlock' /\ RecordsHaveAGrammar'
    BY <1>1, <2>1 DEF ParserInv, LoopStandsAtABlock, RecordsHaveAGrammar
  <2>4. RecordsAreOfTheirBlocks'
    BY <1>1, <2>1 DEF ParserInv, RecordsAreOfTheirBlocks, IsOfItsBlock
  <2>5. RecordsAreDescrambled'
    BY <1>1, <2>1
       DEF ParserInv, RecordsAreDescrambled, IsDescrambledBy, LiesInItsBlock, PayloadInImage
  <2> QED  BY <1>7, <2>2, <2>3, <2>4, <2>5 DEF ParserInv
<1>9. CASE InterpretBlock(g, index, offset, read) # {}
  <2>1. /\ phase' = phase /\ index' = index + 1 /\ offset' = offset + n
        /\ \E r \in InterpretBlock(g, index, offset, read) :
             records' = Append(records, Descramble(r, g, NextBytes))
    BY <1>2, <1>6, <1>9 DEF read, n
  <2>2. PICK r \in InterpretBlock(g, index, offset, read) :
          records' = Append(records, Descramble(r, g, NextBytes))
    BY <2>1
  <2> DEFINE d == Descramble(r, g, NextBytes)
  <2>3. /\ r \in Row /\ FitsItsColumns(r)
        /\ r.block_index = index /\ r.byte_offset = offset /\ r.descrambled = {}
    <3>1. index \in Nat /\ offset \in Nat /\ IsGrammar(g)  BY <1>3
    <3> QED  BY <1>4, <3>1, InterpretIs
  <2>4. /\ d \in Row /\ FitsItsColumns(d) /\ IsDescrambledBy(d, g)
        /\ d.block_index = r.block_index /\ d.byte_offset = r.byte_offset
    BY <1>3, <2>3, DescrambleIs
  <2> HIDE DEF d
  <2>5. offset = index * block_size  BY <1>3, <1>5
  <2>6. IsOfItsBlock(d)  BY <1>1, <2>3, <2>4, <2>5 DEF IsOfItsBlock
  <2>7. /\ records' \in Seq(Row) /\ DOMAIN records' = 1 .. Len(records) + 1
        /\ Len(records) \in Nat /\ DOMAIN records = 1 .. Len(records)
        /\ records'[Len(records) + 1] = d
        /\ \A k \in 1 .. Len(records) : records'[k] = records[k]
    BY <1>3, <2>2, <2>4, AppendProperties, LenProperties DEF d
  <2>8. ASSUME NEW k \in DOMAIN records'
        PROVE  records'[k] = d \/ (k \in DOMAIN records /\ records'[k] = records[k])
    <3>1. k = Len(records) + 1 \/ k \in 1 .. Len(records)  BY <2>7
    <3> QED  BY <2>7, <3>1
  <2>9. ParserTypeOK'
    <3>1. offset' \in 0 .. Len(file) /\ index' \in 0 .. given.promised
      BY <1>1, <1>3, <1>5, <2>1
    <3> QED  BY <1>1, <1>6, <2>1, <2>7, <3>1 DEF ParserInv, ParserTypeOK
  <2>10. LoopStandsAtABlock'
    <3>1. CASE offset + block_size <= Len(file)
      <4>1. offset' = offset + block_size  BY <1>4, <2>1, <3>1
      <4>2. (index + 1) * block_size = index * block_size + block_size  BY <1>3
      <4> QED  BY <1>1, <1>6, <2>1, <2>5, <4>1, <4>2 DEF LoopStandsAtABlock
    <3>2. CASE ~(offset + block_size <= Len(file))
      <4>1. offset' = Len(file)  BY <1>3, <1>4, <2>1, <3>2
      <4> QED  BY <1>1, <1>6, <4>1 DEF LoopStandsAtABlock
    <3> QED  BY <3>1, <3>2
  <2>11. RecordsAreOfTheirBlocks'
    <3>1. ASSUME NEW k \in DOMAIN records' PROVE IsOfItsBlock(records'[k])
      BY <2>6, <2>8, <3>1 DEF ParserInv, RecordsAreOfTheirBlocks
    <3>2. \A k \in DOMAIN rows : IsOfItsBlock(rows[k])
      BY DEF ParserInv, RecordsAreOfTheirBlocks
    <3> QED  BY <1>1, <3>1, <3>2 DEF RecordsAreOfTheirBlocks, IsOfItsBlock
  <2>12. RecordsAreDescrambled'
    <3>1. ASSUME NEW k \in DOMAIN records', NEW h \in grammar
          PROVE  IsDescrambledBy(records'[k], h)
      <4>1. h = g  BY <1>3
      <4> QED  BY <2>4, <2>8, <3>1, <4>1 DEF ParserInv, RecordsAreDescrambled
    <3> QED
      BY <1>1, <3>1 DEF RecordsAreDescrambled, IsDescrambledBy, LiesInItsBlock, PayloadInImage
  <2>13. RecordsHaveAGrammar'  BY <1>1, <1>2 DEF RecordsHaveAGrammar
  <2> QED  BY <1>7, <2>9, <2>10, <2>11, <2>12, <2>13 DEF ParserInv
<1> QED  BY <1>8, <1>9

(***************************************************************************)
(* What holds of the parser in every state.                                *)
(***************************************************************************)
LEMMA ParserNext ==
  ASSUME ParserInv, [Next]_vars
  PROVE  ParserInv'
<1>1. CASE Identify  BY <1>1, ParserKept DEF Identify
<1>2. CASE StartParse  BY <1>2, StartParseKeeps
<1>3. CASE ParseBlock  BY <1>3, ParseBlockKeeps
<1>4. CASE StoreExtraction  BY <1>4, StoreExtractionKeeps
<1>5. CASE StartCarve  BY <1>5, ParserKept DEF StartCarve
<1>6. CASE Carve  BY <1>6, ParserKept DEF Carve, CarveBlock
<1>7. CASE StoreCarved  BY <1>7, ParserKept DEF StoreCarved
<1>8. CASE Analyze  BY <1>8, ParserKept DEF Analyze
<1>9. CASE Report  BY <1>9, ParserKept DEF Report
<1>10. CASE UNCHANGED vars  BY <1>10, ParserKept DEF vars
<1> QED
  BY <1>1, <1>2, <1>3, <1>4, <1>5, <1>6, <1>7, <1>8, <1>9, <1>10 DEF Next

LEMMA ParserAlways == Spec => []ParserInv
<1>1. Init => ParserInv  BY ParserInit
<1>2. ParserInv /\ [Next]_vars => ParserInv'  BY ParserNext
<1> QED  BY <1>1, <1>2, PTL DEF Spec

(***************************************************************************)
(* The plugin gets the payload of the block in hand, as the image has it,  *)
(* and no scrambled payload that lies in its block is left out, although   *)
(* one buffer serves all blocks (parse_case, parser/src/lib.rs:184).       *)
(***************************************************************************)
THEOREM PayloadsDescrambled == Spec => []DescrambledIsItsPayload
<1>1. ParserInv => DescrambledIsItsPayload
  <2> SUFFICES ASSUME ParserInv, NEW k \in DOMAIN records
               PROVE  LET r == records[k]
                      IN  /\ r.descrambled # {} <=>
                               /\ r.is_scrambled
                               /\ given.plugin /\ \A g \in grammar : g.plugin
                               /\ LiesInItsBlock(r)
                          /\ \A bytes \in r.descrambled : Xored(bytes) = PayloadInImage(r)
    BY DEF DescrambledIsItsPayload
  <2>1. records # <<>>  OBVIOUS
  <2>2. PICK g \in grammar : TRUE  BY <2>1 DEF ParserInv, RecordsHaveAGrammar
  <2>3. \A h \in grammar : h = g  BY DEF ParserInv, OneGrammar
  <2>4. IsDescrambledBy(records[k], g)  BY DEF ParserInv, RecordsAreDescrambled
  <2>5. (\A h \in grammar : h.plugin) <=> g.plugin  BY <2>2, <2>3
  <2> QED  BY <2>4, <2>5 DEF IsDescrambledBy
<1> QED  BY <1>1, ParserAlways, PTL

----------------------------------------------------------------------------
\* The carver: where the start codes are.

LEMMA CodesAre ==
  ASSUME NEW data \in Seq(Byte), NEW i \in Nat \ {0}
  PROVE  /\ IsLongCode(data, i) <=>
              /\ i + 3 <= Len(data)
              /\ data[i] = 0 /\ data[i + 1] = 0 /\ data[i + 2] = 0 /\ data[i + 3] = 1
         /\ IsShortCode(data, i) <=>
              /\ i + 3 <= Len(data)
              /\ data[i] = 0 /\ data[i + 1] = 0 /\ data[i + 2] = 1
<1> DEFINE n == Len(data)
           long == SubSeq(data, i, i + 3)
           short == SubSeq(data, i, i + 2)
<1>1. n \in Nat  BY LenProperties
<1>2. CASE i + 3 <= n
  <2>1. i + 3 \in Nat /\ i + 2 \in Nat /\ i + 2 <= n  BY <1>1, <1>2
  <2>2. /\ long \in Seq(Byte) /\ Len(long) = 4
        /\ \A j \in 1 .. 4 : long[j] = data[i + j - 1]
    <3> DEFINE z == i + 3
    <3>1. z \in Nat /\ z <= n /\ i <= z + 1 /\ z - i + 1 = 4  BY <1>1, <1>2
    <3> HIDE DEF z
    <3>2. /\ SubSeq(data, i, z) \in Seq(Byte) /\ Len(SubSeq(data, i, z)) = z - i + 1
          /\ \A j \in 1 .. z - i + 1 : SubSeq(data, i, z)[j] = data[i + j - 1]
      BY <3>1, SliceIs
    <3> QED  BY <3>1, <3>2 DEF z
  <2>3. /\ short \in Seq(Byte) /\ Len(short) = 3
        /\ \A j \in 1 .. 3 : short[j] = data[i + j - 1]
    <3> DEFINE z == i + 2
    <3>1. z \in Nat /\ z <= n /\ i <= z + 1 /\ z - i + 1 = 3  BY <1>1, <1>2
    <3> HIDE DEF z
    <3>2. /\ SubSeq(data, i, z) \in Seq(Byte) /\ Len(SubSeq(data, i, z)) = z - i + 1
          /\ \A j \in 1 .. z - i + 1 : SubSeq(data, i, z)[j] = data[i + j - 1]
      BY <3>1, SliceIs
    <3> QED  BY <3>1, <3>2 DEF z
  <2> HIDE DEF long, short
  <2>4. long[1] = data[i] /\ long[2] = data[i + 1] /\ long[3] = data[i + 2]
        /\ long[4] = data[i + 3]
    BY <2>2
  <2>5. short[1] = data[i] /\ short[2] = data[i + 1] /\ short[3] = data[i + 2]
    BY <2>3
  <2>6. long = <<0, 0, 0, 1>> <=> long[1] = 0 /\ long[2] = 0 /\ long[3] = 0 /\ long[4] = 1
    <3>1. <<0, 0, 0, 1>> \in Seq(Byte) /\ Len(<<0, 0, 0, 1>>) = 4  BY DEF Byte
    <3> QED  BY <2>2, <3>1, SeqEqual
  <2>7. short = <<0, 0, 1>> <=> short[1] = 0 /\ short[2] = 0 /\ short[3] = 1
    <3>1. <<0, 0, 1>> \in Seq(Byte) /\ Len(<<0, 0, 1>>) = 3  BY DEF Byte
    <3> QED  BY <2>3, <3>1, SeqEqual
  <2> QED
    BY <1>2, <2>4, <2>5, <2>6, <2>7 DEF IsLongCode, IsShortCode, InReach, n, long, short
<1>3. CASE ~(i + 3 <= n)
  BY <1>3 DEF IsLongCode, IsShortCode, InReach
<1> QED  BY <1>2, <1>3

LEMMA LengthsAre ==
  ASSUME NEW data \in Seq(Byte), NEW i \in Nat \ {0}
  PROVE  /\ CodeLength(data, i) \in {0, 3, 4}
         /\ CodeLength(data, i) # 0 => i + 3 <= Len(data)
         /\ CodeLength(data, i) = 4 <=> IsLongCode(data, i)
         /\ Stride(data, i) = IF CodeLength(data, i) = 0 THEN 1 ELSE CodeLength(data, i)
BY DEF CodeLength, Stride, IsLongCode, IsShortCode, InReach

\* What StartsFrom computes from i on, from what f holds behind i.
OneScan(data, f, i) ==
  IF ~InReach(data, i) THEN <<>>
  ELSE (IF CodeLength(data, i) = 0 THEN <<>> ELSE <<i>>) \o f[i + Stride(data, i)]

Scans(data, m, f) == f = [i \in m .. Len(data) + 5 |-> OneScan(data, f, i)]

LEMMA ScansAre ==
  ASSUME NEW data, NEW m, NEW f, Scans(data, m, f)
  PROVE  \A i \in m .. Len(data) + 5 : f[i] = OneScan(data, f, i)
<1> DEFINE v(i) == OneScan(data, f, i)
<1>1. f = [i \in m .. Len(data) + 5 |-> v(i)]  BY DEF Scans
<1> HIDE DEF v
<1>2. \A i \in m .. Len(data) + 5 : f[i] = v(i)  BY <1>1
<1> QED  BY <1>2 DEF v

LEMMA NextIsBehind ==
  ASSUME NEW data \in Seq(Byte), NEW i \in Nat \ {0}, InReach(data, i)
  PROVE  /\ i + Stride(data, i) \in i + 1 .. Len(data) + 5
         /\ i + Stride(data, i) \in Nat \ {0}
<1>1. Len(data) \in Nat /\ i + 3 <= Len(data)  BY LenProperties DEF InReach
<1>2. Stride(data, i) \in {1, 3, 4}  BY LengthsAre
<1> HIDE DEF Stride
<1> QED  BY <1>1, <1>2

LEMMA OneMoreScan ==
  ASSUME NEW data \in Seq(Byte), NEW m \in 1 .. Len(data) + 4, NEW g, Scans(data, m + 1, g)
  PROVE  \E f : Scans(data, m, f)
<1> DEFINE e == Len(data) + 5
           first == OneScan(data, g, m)
           f == [i \in m .. e |-> IF i = m THEN first ELSE g[i]]
<1>1. e \in Nat /\ m \in Nat \ {0} /\ m + 1 <= e  BY LenProperties
<1>2. \A i \in m + 1 .. e : f[i] = g[i]
  <2> HIDE DEF first, e
  <2> QED  BY <1>1
<1>3. f[m] = first
  <2> HIDE DEF first, e
  <2> QED  BY <1>1
<1>4. \A i \in m + 1 .. e : g[i] = OneScan(data, g, i)  BY ScansAre
<1>5. f = [i \in m .. e |-> f[i]]
  <2> HIDE DEF first, e
  <2> QED  OBVIOUS
<1> HIDE DEF f
<1>6. ASSUME NEW i \in m .. e PROVE OneScan(data, f, i) = OneScan(data, g, i)
  <2>1. i \in Nat \ {0}  BY <1>1
  <2>2. CASE InReach(data, i)
    <3> DEFINE j == i + Stride(data, i)
    <3>1. j \in i + 1 .. e  BY <2>1, <2>2, NextIsBehind
    <3> HIDE DEF j, e
    <3>2. j \in m + 1 .. e  BY <1>1, <2>1, <3>1
    <3>3. f[j] = g[j]  BY <1>2, <3>2
    <3> QED  BY <3>3 DEF OneScan, j
  <2>3. CASE ~InReach(data, i)  BY <2>3 DEF OneScan
  <2> QED  BY <2>2, <2>3
<1>7. \A i \in m .. e : f[i] = OneScan(data, f, i)
  <2> SUFFICES ASSUME NEW i \in m .. e PROVE f[i] = OneScan(data, f, i)
    OBVIOUS
  <2> HIDE DEF e
  <2>1. CASE i = m  BY <1>3, <1>6, <2>1
  <2>2. CASE i # m
    <3>1. i \in m + 1 .. e  BY <1>1, <2>2
    <3> QED  BY <1>2, <1>4, <1>6, <3>1 DEF e
  <2> QED  BY <2>1, <2>2
<1>8. f = [i \in m .. e |-> OneScan(data, f, i)]  BY <1>5, <1>7
<1> QED  BY <1>8 DEF Scans

LEMMA ScansExist ==
  ASSUME NEW data \in Seq(Byte)
  PROVE  \E f : Scans(data, 1, f)
<1> DEFINE e == Len(data) + 5
           T == {m \in 1 .. e : ~ \E f : Scans(data, m, f)}
<1>0. Len(data) \in Nat /\ e \in Nat  BY LenProperties
<1> SUFFICES ASSUME T # {} PROVE FALSE
  <2>1. 1 \in 1 .. e  BY <1>0
  <2> QED  BY <2>1
<1>1. PICK m \in T : \A y \in T : y <= m
  <2>1. T \in SUBSET Nat /\ \A x \in T : x <= e  BY <1>0
  <2> HIDE DEF T, e
  <2> QED  BY <1>0, <2>1, Greatest
<1>2. m \in 1 .. e /\ ~ \E f : Scans(data, m, f)  BY <1>1
<1>3. CASE m = e
  <2> DEFINE f == [i \in e .. e |-> <<>>]
  <2>1. \A i \in e .. e : OneScan(data, f, i) = <<>>
    <3>1. \A i \in e .. e : ~InReach(data, i)  BY <1>0 DEF InReach
    <3> QED  BY <3>1 DEF OneScan
  <2>2. Scans(data, e, f)  BY <2>1 DEF Scans
  <2> QED  BY <1>2, <1>3, <2>2
<1>4. CASE m # e
  <2>1. m \in 1 .. Len(data) + 4 /\ m + 1 \in 1 .. e /\ ~(m + 1 <= m)  BY <1>0, <1>2, <1>4
  <2>2. m + 1 \notin T  BY <1>1, <2>1
  <2>3. PICK g : Scans(data, m + 1, g)  BY <2>1, <2>2
  <2> QED  BY <1>2, <2>1, <2>3, OneMoreScan
<1> QED  BY <1>3, <1>4

(***************************************************************************)
(* What the scan from i on finds: start codes, each behind the one before, *)
(* and all but those inside a long one, however far it jumps.              *)
(***************************************************************************)
StartsAre(data, i, s) ==
  /\ s \in Seq(Nat)
  /\ \A k \in 1 .. Len(s) : s[k] >= i /\ CodeLength(data, s[k]) # 0
  /\ \A k \in 1 .. Len(s) - 1 : s[k + 1] >= s[k] + CodeLength(data, s[k])
  /\ \A y \in Nat : y >= i /\ CodeLength(data, y) # 0 /\ (y > i => ~IsLongCode(data, y - 1)) =>
       \E k \in 1 .. Len(s) : s[k] = y

LEMMA NoneOutOfReach ==
  ASSUME NEW data \in Seq(Byte), NEW i \in Nat \ {0}, ~InReach(data, i)
  PROVE  StartsAre(data, i, <<>>)
<1>1. \A y \in Nat : y >= i => CodeLength(data, y) = 0
  BY LenProperties DEF InReach, CodeLength, IsLongCode, IsShortCode
<1>2. <<>> \in Seq(Nat) /\ Len(<<>>) = 0  OBVIOUS
<1> QED  BY <1>1, <1>2 DEF StartsAre

LEMMA NoneAtThisPlace ==
  ASSUME NEW data \in Seq(Byte), NEW i \in Nat \ {0}, CodeLength(data, i) = 0,
         NEW t, StartsAre(data, i + 1, t)
  PROVE  StartsAre(data, i, t)
<1>1. ~IsLongCode(data, i)  BY LengthsAre
<1>2. ASSUME NEW y \in Nat, y >= i, CodeLength(data, y) # 0, y > i => ~IsLongCode(data, y - 1)
      PROVE  \E k \in 1 .. Len(t) : t[k] = y
  <2>1. y # i  BY <1>2
  <2>2. y >= i + 1  BY <1>2, <2>1
  <2>3. y > i + 1 => ~IsLongCode(data, y - 1)  BY <1>2, <2>2
  <2> QED  BY <1>2, <2>2, <2>3 DEF StartsAre
<1>3. \A k \in 1 .. Len(t) : t[k] >= i
  <2>1. t \in Seq(Nat) /\ \A k \in 1 .. Len(t) : t[k] >= i + 1  BY DEF StartsAre
  <2>2. \A k \in 1 .. Len(t) : t[k] \in Nat  BY <2>1, LenProperties
  <2> QED  BY <2>1, <2>2
<1> QED  BY <1>2, <1>3 DEF StartsAre

LEMMA OneAtThisPlace ==
  ASSUME NEW data \in Seq(Byte), NEW i \in Nat \ {0}, CodeLength(data, i) # 0,
         NEW t, StartsAre(data, i + CodeLength(data, i), t)
  PROVE  StartsAre(data, i, <<i>> \o t)
<1> DEFINE l == CodeLength(data, i)
           s == <<i>> \o t
           n == Len(t)
<1>1. l \in {3, 4} /\ i + 3 <= Len(data) /\ (l = 4 <=> IsLongCode(data, i))
  BY LengthsAre
<1>2. Len(data) \in Nat /\ t \in Seq(Nat) /\ n \in Nat /\ <<i>> \in Seq(Nat) /\ Len(<<i>>) = 1
      /\ <<i>>[1] = i
  BY LenProperties DEF StartsAre
<1>3. /\ s \in Seq(Nat) /\ Len(s) = n + 1 /\ s[1] = i
      /\ \A k \in 1 .. n : s[k + 1] = t[k]
  BY <1>2, ConcatProperties
<1>4. \A k \in 1 .. n : t[k] \in Nat /\ t[k] >= i + l /\ CodeLength(data, t[k]) # 0
  BY <1>2, LenProperties DEF StartsAre
<1>5. /\ data[i] = 0 /\ data[i + 1] = 0
      /\ l = 3 => data[i + 2] = 1 /\ ~IsLongCode(data, i)
      /\ l = 4 => data[i + 2] = 0 /\ data[i + 3] = 1
  BY <1>1, CodesAre DEF CodeLength
<1> HIDE DEF s, n, l
<1>6. ASSUME NEW y \in Nat, y > i, y < i + l, CodeLength(data, y) # 0
      PROVE  y = i + 1 /\ IsLongCode(data, i)
  <2>1. y \in Nat \ {0}  BY <1>6
  <2>2. data[y] = 0 /\ data[y + 1] = 0 /\ (data[y + 2] = 0 \/ data[y + 2] = 1)
        /\ (data[y + 2] = 0 => data[y + 3] = 1)
    BY <1>6, <2>1, CodesAre DEF CodeLength
  <2>3. CASE l = 3
    <3>1. y = i + 1 \/ y = i + 2  BY <1>6, <2>3
    <3>2. i + 1 + 1 = i + 2  OBVIOUS
    <3> QED  BY <1>5, <2>2, <2>3, <3>1, <3>2
  <2>4. CASE l = 4
    <3>1. y = i + 1 \/ y = i + 2 \/ y = i + 3  BY <1>6, <2>4
    <3>2. i + 2 + 1 = i + 3  OBVIOUS
    <3>3. y = i + 1  BY <1>5, <2>2, <2>4, <3>1, <3>2
    <3> QED  BY <1>1, <2>4, <3>3
  <2> QED  BY <1>1, <2>3, <2>4
<1>7. ~IsLongCode(data, i + l - 1)
  <2>1. i + l - 1 \in Nat \ {0} /\ (l = 3 => i + l - 1 = i + 2) /\ (l = 4 => i + l - 1 = i + 3)
    BY <1>1
  <2>2. data[i + l - 1] = 1  BY <1>1, <1>5, <2>1
  <2> QED  BY <2>1, <2>2, CodesAre
<1>8. ASSUME NEW y \in Nat, y >= i, CodeLength(data, y) # 0, y > i => ~IsLongCode(data, y - 1)
      PROVE  \E k \in 1 .. n + 1 : s[k] = y
  <2>1. CASE y = i  BY <1>2, <1>3, <2>1
  <2>2. CASE y > i /\ y < i + l
    <3>1. y = i + 1 /\ IsLongCode(data, i)  BY <1>6, <1>8, <2>2
    <3>2. y - 1 = i  BY <3>1
    <3> QED  BY <1>8, <2>2, <3>1, <3>2
  <2>3. CASE y >= i + l
    <3>1. y > i + l => ~IsLongCode(data, y - 1)  BY <1>1, <1>8, <2>3
    <3>2. PICK k \in 1 .. n : t[k] = y  BY <1>8, <2>3, <3>1 DEF StartsAre, n, l
    <3>3. k + 1 \in 1 .. n + 1 /\ s[k + 1] = y  BY <1>2, <1>3, <3>2
    <3> QED  BY <3>3
  <2> QED  BY <1>1, <1>8, <2>1, <2>2, <2>3
<1>9. ASSUME NEW k \in 1 .. n + 1 PROVE s[k] >= i /\ CodeLength(data, s[k]) # 0
  <2>1. CASE k = 1  BY <1>3, <2>1
  <2>2. CASE k # 1
    <3>1. k - 1 \in 1 .. n /\ (k - 1) + 1 = k  BY <1>2, <2>2
    <3>2. s[k] = t[k - 1]  BY <1>3, <3>1
    <3> QED  BY <1>1, <1>4, <3>1, <3>2
  <2> QED  BY <2>1, <2>2
<1>10. ASSUME NEW k \in 1 .. n PROVE s[k + 1] >= s[k] + CodeLength(data, s[k])
  <2>1. s[k + 1] = t[k]  BY <1>3
  <2>2. CASE k = 1  BY <1>3, <1>4, <2>1, <2>2 DEF l
  <2>3. CASE k # 1
    <3>1. k - 1 \in 1 .. n - 1 /\ k - 1 \in 1 .. n /\ (k - 1) + 1 = k  BY <1>2, <2>3
    <3>2. s[k] = t[k - 1]  BY <1>3, <3>1
    <3> DEFINE j == k - 1
    <3>3. t[j + 1] >= t[j] + CodeLength(data, t[j])
      <4> HIDE DEF j
      <4>1. j \in 1 .. Len(t) - 1  BY <3>1 DEF j, n
      <4> QED  BY <4>1 DEF StartsAre
    <3> QED  BY <2>1, <3>1, <3>2, <3>3
  <2> QED  BY <2>2, <2>3
<1>11. Len(s) - 1 = n  BY <1>2, <1>3
<1> QED  BY <1>3, <1>8, <1>9, <1>10, <1>11 DEF StartsAre, s

(***************************************************************************)
(* The scan finds them.                                                    *)
(***************************************************************************)
LEMMA StartsFound ==
  ASSUME NEW data \in Seq(Byte)
  PROVE  StartsAre(data, 1, StartsFrom(data))
<1> DEFINE e == Len(data) + 5
<1>1. \E f : Scans(data, 1, f)  BY ScansExist
<1> DEFINE f == CHOOSE f : Scans(data, 1, f)
<1>2. Scans(data, 1, f)  BY <1>1
<1>3. StartsFrom(data) = f[1]  BY DEF StartsFrom, Scans, OneScan
<1> HIDE DEF f
<1>4. \A i \in 1 .. e : f[i] = OneScan(data, f, i)  BY <1>2, ScansAre
<1>5. Len(data) \in Nat /\ e \in Nat /\ 1 \in 1 .. e  BY LenProperties
<1>6. ASSUME NEW i \in 1 .. e,
             \A j \in i + 1 .. e : StartsAre(data, j, f[j])
      PROVE  StartsAre(data, i, f[i])
  <2>0. i \in Nat \ {0}  BY <1>5
  <2>1. CASE ~InReach(data, i)
    <3>1. f[i] = <<>>  BY <1>4, <2>1 DEF OneScan
    <3> QED  BY <2>0, <2>1, <3>1, NoneOutOfReach
  <2>2. CASE InReach(data, i)
    <3> DEFINE j == i + Stride(data, i)
    <3>1. j \in i + 1 .. e  BY <2>0, <2>2, NextIsBehind
    <3>2. f[i] = (IF CodeLength(data, i) = 0 THEN <<>> ELSE <<i>>) \o f[j]
      BY <1>4, <2>2 DEF OneScan
    <3>3. j = i + IF CodeLength(data, i) = 0 THEN 1 ELSE CodeLength(data, i)
      BY <2>0, LengthsAre
    <3> HIDE DEF j, e
    <3>4. StartsAre(data, j, f[j])  BY <1>6, <3>1
    <3>5. f[j] \in Seq(Nat)  BY <3>4 DEF StartsAre
    <3>6. CASE CodeLength(data, i) = 0
      <4>1. j = i + 1  BY <3>3, <3>6
      <4>2. f[i] = f[j]  BY <3>2, <3>5, <3>6, ConcatEmptySeq
      <4> QED  BY <2>0, <3>4, <3>6, <4>1, <4>2, NoneAtThisPlace
    <3>7. CASE CodeLength(data, i) # 0
      <4>1. j = i + CodeLength(data, i)  BY <3>3, <3>7
      <4>2. f[i] = <<i>> \o f[j]  BY <3>2, <3>7
      <4> QED  BY <2>0, <3>4, <3>7, <4>1, <4>2, OneAtThisPlace
    <3> QED  BY <3>6, <3>7
  <2> QED  BY <2>1, <2>2
<1> DEFINE T == {i \in 1 .. e : ~StartsAre(data, i, f[i])}
<1>7. T = {}
  <2> SUFFICES ASSUME T # {} PROVE FALSE
    OBVIOUS
  <2>1. PICK i \in T : \A y \in T : y <= i
    <3>1. T \in SUBSET Nat /\ \A x \in T : x <= e  BY <1>5
    <3> HIDE DEF T, e
    <3> QED  BY <1>5, <3>1, Greatest
  <2>2. \A j \in i + 1 .. e : j \in 1 .. e /\ ~(j <= i)  BY <1>5, <2>1
  <2>3. \A j \in i + 1 .. e : StartsAre(data, j, f[j])  BY <2>1, <2>2
  <2> QED  BY <1>6, <2>1, <2>3
<1>8. StartsAre(data, 1, f[1])  BY <1>5, <1>7
<1> QED  BY <1>3, <1>8

----------------------------------------------------------------------------
\* The carver: the frames of a block.

FrameSet == [byte_offset : Nat, bytes : Seq(Byte), is_keyframe : BOOLEAN]

\* f is what lies from a start code at a to z, header and all.
IsCut(data, base, f, a, z) ==
  /\ a \in Nat \ {0} /\ z \in Nat /\ z <= Len(data)
  /\ CodeLength(data, a) # 0
  /\ a + CodeLength(data, a) <= z
  /\ f = Frame(data, a, z, base)

\* A header byte is at p, and no start code.
IsHeader(data, p) ==
  /\ p \in 4 .. Len(data)
  /\ data[p - 3] = 0 /\ data[p - 2] = 0 /\ data[p - 1] = 1
  /\ CodeLength(data, p) = 0

(***************************************************************************)
(* A frame is the part of the data it says it is, and its header is behind *)
(* its start code.                                                         *)
(***************************************************************************)
LEMMA CutIs ==
  ASSUME NEW data \in Seq(Byte), NEW base \in Nat, NEW f, NEW a, NEW z, IsCut(data, base, f, a, z)
  PROVE  /\ f \in FrameSet
         /\ f.byte_offset = base + a - 1
         /\ Len(f.bytes) = z - a + 1 /\ Len(f.bytes) >= 4
         /\ \A i \in 1 .. Len(f.bytes) : f.bytes[i] = data[a + i - 1]
         /\ HeaderOf(f) = base + a + CodeLength(data, a) - 1
         /\ f.is_keyframe <=> IsKeyframe(data[a + CodeLength(data, a)])
<1> DEFINE l == CodeLength(data, a)
           b == SubSeq(data, a, z)
           key == IsKeyframe(data[a + CodeLength(data, a)])
<1>1. a \in Nat \ {0} /\ z \in Nat /\ z <= Len(data) /\ l \in {3, 4} /\ a + l <= z
      /\ (l = 4 <=> IsLongCode(data, a))
  BY LengthsAre DEF IsCut
<1>2. f = [byte_offset |-> base + a - 1, bytes |-> b, is_keyframe |-> key]
  BY DEF IsCut, Frame
<1>3. key \in BOOLEAN  BY DEF IsKeyframe
<1>4. l = 4 => data[a + 2] = 0
  BY <1>1, CodesAre
<1>5. l = 3 => data[a + 2] = 1
  <2>1. l = 3 => IsShortCode(data, a)  BY DEF CodeLength
  <2> QED  BY <1>1, <2>1, CodesAre
<1>6. b \in Seq(Byte) /\ Len(b) = z - a + 1 /\ \A i \in 1 .. Len(b) : b[i] = data[a + i - 1]
  <2>1. a <= z + 1  BY <1>1
  <2> QED  BY <1>1, <2>1, SliceIs
<1> HIDE DEF l, b, key
<1>7. base + a - 1 \in Nat  BY <1>1
<1>8. f \in FrameSet  BY <1>2, <1>3, <1>6, <1>7 DEF FrameSet
<1>9. f.byte_offset = base + a - 1 /\ f.bytes = b /\ f.is_keyframe = key  BY <1>2
<1>10. Len(b) >= 4 /\ b[3] = data[a + 2]
  <2>1. z - a + 1 >= 4 /\ 3 \in 1 .. z - a + 1 /\ a + 3 - 1 = a + 2  BY <1>1
  <2>2. Len(b) >= 4 /\ 3 \in 1 .. Len(b)  BY <1>6, <2>1
  <2>3. b[3] = data[a + 3 - 1]  BY <1>6, <2>2
  <2> QED  BY <2>1, <2>2, <2>3
<1>11. HeaderOf(f) = base + a + l - 1
  <2>1. HeaderOf(f) = (base + a - 1) + IF b[3] = 0 THEN 4 ELSE 3  BY <1>9 DEF HeaderOf
  <2> QED  BY <1>1, <1>4, <1>5, <1>10, <2>1
<1> QED  BY <1>6, <1>8, <1>9, <1>10, <1>11 DEF l, key

\* What is kept of the starts.
LastOfStart(data, s, k) == IF k < Len(s) THEN s[k + 1] - 1 ELSE Len(data)

KeptStarts(data, s) ==
  {k \in DOMAIN s : LastOfStart(data, s, k) >= s[k] + CodeLength(data, s[k])}

AreKept(data, s, base, F, n, kept) ==
  /\ kept \in [1 .. n -> KeptStarts(data, s)]
  /\ \A k \in KeptStarts(data, s) : \E m \in 1 .. n : kept[m] = k
  /\ \A l, m \in 1 .. n : l < m => kept[l] < kept[m]
  /\ F = [m \in 1 .. n |-> Frame(data, s[kept[m]], LastOfStart(data, s, kept[m]), base)]

(***************************************************************************)
(* CarveBuffer makes a frame of every start with a header, in order.       *)
(***************************************************************************)
LEMMA KeptAre ==
  ASSUME NEW data \in Seq(Byte), NEW base \in Nat, Len(data) >= 5,
         NEW s, s = StartsFrom(data), StartsAre(data, 1, s)
  PROVE  \E n \in Nat : \E kept : AreKept(data, s, base, CarveBuffer(data, base), n, kept)
<1> DEFINE id == [k \in DOMAIN s |-> k]
           P == KeptStarts(data, s)
           kept == Filtered(id, P)
           n == Cardinality(P)
<1>1. s \in Seq(Nat) /\ Len(s) \in Nat /\ DOMAIN s = 1 .. Len(s)
  BY LenProperties DEF StartsAre
<1>2. id \in Seq(Nat) /\ DOMAIN id = DOMAIN s /\ \A k \in DOMAIN s : id[k] = k
  <2>1. id \in [1 .. Len(s) -> Nat]  BY <1>1
  <2> QED  BY <1>1, <2>1, FunctionIsSeq
<1>3. P \in SUBSET (DOMAIN id)  BY <1>2 DEF KeptStarts
<1> HIDE DEF id, P
<1>4. PICK order : Arrangement(kept, order, id, P, Ascending(P))
  BY <1>2, <1>3, FilteredArranges
<1> HIDE DEF kept
<1>5. /\ n \in Nat /\ order \in [1 .. n -> P]
      /\ \A k \in P : \E m \in 1 .. n : order[m] = k
      /\ \A l, m \in 1 .. n : l < m => <<order[l], order[m]>> \in Ascending(P)
      /\ kept = [m \in 1 .. n |-> id[order[m]]]
  BY <1>4 DEF Arrangement
<1> HIDE DEF n
<1>6. DOMAIN kept = 1 .. n /\ \A m \in 1 .. n : kept[m] = order[m]
  BY <1>2, <1>3, <1>5
<1>7. kept \in [1 .. n -> P]
  <2>1. kept = [m \in 1 .. n |-> kept[m]]  BY <1>5, <1>6
  <2> QED  BY <1>5, <1>6, <2>1
<1>8. \A k \in P : \E m \in 1 .. n : kept[m] = k  BY <1>5, <1>6
<1>9. \A l, m \in 1 .. n : l < m => kept[l] < kept[m]  BY <1>5, <1>6 DEF Ascending
<1>10. CarveBuffer(data, base)
         = [m \in 1 .. n |-> Frame(data, s[kept[m]], LastOfStart(data, s, kept[m]), base)]
  <2>1. ~(Len(data) < 5)  BY LenProperties
  <2>2. CarveBuffer(data, base)
          = [m \in DOMAIN kept |-> Frame(data, s[kept[m]], LastOfStart(data, s, kept[m]), base)]
    BY <2>1 DEF CarveBuffer, LastOfStart, KeptStarts, kept, P, id
  <2> QED  BY <1>6, <2>2
<1>11. n \in Nat  BY <1>5
<1> HIDE DEF kept
<1> QED
  <2> WITNESS n \in Nat, kept
  <2> QED  BY <1>7, <1>8, <1>9, <1>10 DEF AreKept, P

LEMMA StartsRise ==
  ASSUME NEW data \in Seq(Byte), NEW s, StartsAre(data, 1, s)
  PROVE  \A k, l \in 1 .. Len(s) : k < l => s[k + 1] <= s[l]
<1>1. s \in Seq(Nat) /\ Len(s) \in Nat /\ \A k \in 1 .. Len(s) : s[k] \in Nat
  BY LenProperties DEF StartsAre
<1> SUFFICES ASSUME NEW k \in 1 .. Len(s),
                    \E l \in 1 .. Len(s) : k < l /\ ~(s[k + 1] <= s[l])
             PROVE  FALSE
  OBVIOUS
<1> DEFINE T == {l \in 1 .. Len(s) : k < l /\ ~(s[k + 1] <= s[l])}
<1>2. PICK l \in T : \A m \in T : l <= m
  <2>1. T \in SUBSET Nat  BY <1>1
  <2>2. T # {}  OBVIOUS
  <2> HIDE DEF T
  <2> QED  BY <2>1, <2>2, Smallest
<1>a. l \in 1 .. Len(s) /\ k < l /\ ~(s[k + 1] <= s[l])  BY <1>2
<1>3. l # k + 1  BY <1>1, <1>2
<1> DEFINE j == l - 1
<1>4. j \in 1 .. Len(s) - 1 /\ j \in 1 .. Len(s) /\ k < j /\ j + 1 = l /\ ~(l <= j)
  BY <1>1, <1>2, <1>3
<1>5. j \notin T  BY <1>2, <1>4
<1> HIDE DEF j
<1>6. s[k + 1] <= s[j]  BY <1>4, <1>5
<1>7. s[l] >= s[j] + CodeLength(data, s[j])  BY <1>4 DEF StartsAre
<1>8. CodeLength(data, s[j]) \in {0, 3, 4}  BY DEF CodeLength
<1>9. k + 1 \in 1 .. Len(s)  BY <1>1, <1>4
<1> DEFINE c == CodeLength(data, s[j])
<1>10. s[k + 1] \in Nat /\ s[j] \in Nat /\ s[l] \in Nat /\ c \in Nat
  <2>1. c \in Nat  BY <1>8
  <2> HIDE DEF c, T
  <2> QED  BY <1>1, <1>a, <1>4, <1>9, <2>1
<1>11. s[l] >= s[j] + c  BY <1>7
<1> HIDE DEF T, c
<1> QED  BY <1>a, <1>6, <1>10, <1>11

AreCutFrom(data, base, F) ==
  /\ F \in Seq(FrameSet)
  /\ \A k \in DOMAIN F : \E a, z :
       IsCut(data, base, F[k], a, z) /\ IsHeader(data, a + CodeLength(data, a))
  /\ \A k, l \in DOMAIN F :
       k < l => F[k].byte_offset + Len(F[k].bytes) <= F[l].byte_offset
  /\ \A p : IsHeader(data, p) => \E k \in DOMAIN F : HeaderOf(F[k]) = base + p - 1

(***************************************************************************)
(* The frames of a block of five bytes or more: one for each header behind *)
(* a start code and none besides, one behind the other.                    *)
(***************************************************************************)
LEMMA CarvedFramesAre ==
  ASSUME NEW data \in Seq(Byte), NEW base \in Nat, Len(data) >= 5,
         NEW F, F = CarveBuffer(data, base)
  PROVE  AreCutFrom(data, base, F)
<1> DEFINE s == StartsFrom(data)
           P == KeptStarts(data, s)
           L(i) == CodeLength(data, i)
           to(k) == LastOfStart(data, s, k)
<1>1. StartsAre(data, 1, s)  BY StartsFound
<1>0. s = StartsFrom(data)  BY DEF s
<1> HIDE DEF s
<1>a. \E n \in Nat : \E kept : AreKept(data, s, base, CarveBuffer(data, base), n, kept)
  BY <1>0, <1>1, KeptAre
<1>b. PICK n \in Nat : \E kept : AreKept(data, s, base, F, n, kept)  BY <1>a
<1>c. PICK kept : AreKept(data, s, base, F, n, kept)  BY <1>b
<1>2. /\ kept \in [1 .. n -> P]
      /\ \A k \in P : \E m \in 1 .. n : kept[m] = k
      /\ \A l, m \in 1 .. n : l < m => kept[l] < kept[m]
      /\ F = [m \in 1 .. n |-> Frame(data, s[kept[m]], to(kept[m]), base)]
  BY <1>c DEF AreKept
<1>3. /\ s \in Seq(Nat) /\ Len(s) \in Nat /\ DOMAIN s = 1 .. Len(s)
      /\ Len(data) \in Nat
  BY <1>1, LenProperties DEF StartsAre
<1>4. ASSUME NEW k \in 1 .. Len(s)
      PROVE  /\ s[k] \in Nat \ {0} /\ L(s[k]) \in {3, 4} /\ s[k] + 3 <= Len(data)
             /\ k < Len(s) => s[k + 1] \in Nat /\ s[k + 1] >= s[k] + L(s[k])
             /\ to(k) \in Nat /\ to(k) <= Len(data)
             /\ k < Len(s) => to(k) = s[k + 1] - 1
  <2>1. s[k] \in Nat /\ s[k] >= 1 /\ L(s[k]) # 0  BY <1>1, <1>3, LenProperties DEF StartsAre
  <2>2. s[k] \in Nat \ {0}  BY <2>1
  <2>3. L(s[k]) \in {3, 4} /\ s[k] + 3 <= Len(data)  BY <2>1, <2>2, LengthsAre
  <2>4. CASE k < Len(s)
    <3>1. k + 1 \in 1 .. Len(s) /\ k \in 1 .. Len(s) - 1  BY <1>3, <2>4
    <3>2. s[k + 1] \in Nat /\ s[k + 1] >= 1 /\ L(s[k + 1]) # 0
      BY <1>1, <1>3, <3>1, LenProperties DEF StartsAre
    <3>3. s[k + 1] \in Nat \ {0}  BY <3>2
    <3>4. s[k + 1] + 3 <= Len(data)  BY <3>2, <3>3, LengthsAre
    <3>5. s[k + 1] >= s[k] + L(s[k])  BY <1>1, <3>1 DEF StartsAre
    <3>6. to(k) = s[k + 1] - 1  BY <2>4 DEF LastOfStart
    <3> HIDE DEF L, to
    <3> QED  BY <1>3, <2>2, <2>3, <3>2, <3>3, <3>4, <3>5, <3>6
  <2>5. CASE ~(k < Len(s))
    <3>1. to(k) = Len(data)  BY <2>5 DEF LastOfStart
    <3> QED  BY <1>3, <2>2, <2>3, <2>5, <3>1
  <2> QED  BY <2>4, <2>5
<1>r. \A k, l \in 1 .. Len(s) : k < l => s[k + 1] <= s[l]  BY <1>1, StartsRise
<1>5. DOMAIN F = 1 .. n /\ \A m \in 1 .. n : F[m] = Frame(data, s[kept[m]], to(kept[m]), base)
  BY <1>2
<1>6. ASSUME NEW m \in 1 .. n
      PROVE  /\ kept[m] \in 1 .. Len(s)
             /\ IsCut(data, base, F[m], s[kept[m]], to(kept[m]))
  <2> DEFINE k == kept[m]
  <2>1. k \in P  BY <1>2
  <2>2. k \in 1 .. Len(s) /\ to(k) >= s[k] + L(s[k])  BY <1>3, <2>1 DEF KeptStarts
  <2>3. F[m] = Frame(data, s[k], to(k), base)  BY <1>5
  <2> HIDE DEF k
  <2>4. s[k] \in Nat \ {0} /\ to(k) \in Nat /\ to(k) <= Len(data) /\ L(s[k]) # 0
        /\ s[k] + L(s[k]) <= to(k)
    <3>1. s[k] \in Nat \ {0} /\ L(s[k]) \in {3, 4} /\ to(k) \in Nat /\ to(k) <= Len(data)
      BY <1>4, <2>2
    <3> HIDE DEF to, L
    <3>2. L(s[k]) # 0  BY <3>1
    <3> QED  BY <2>2, <3>1, <3>2
  <2> QED  BY <2>2, <2>3, <2>4 DEF IsCut, k
<1>7. ASSUME NEW k \in 1 .. Len(s), to(k) >= s[k] + L(s[k])
      PROVE  IsHeader(data, s[k] + L(s[k]))
  <2> DEFINE y == s[k]
             p == y + L(y)
  <2>1. y \in Nat \ {0} /\ L(y) \in {3, 4} /\ to(k) <= Len(data)  BY <1>4
  <2>2. (L(y) = 4 => IsLongCode(data, y)) /\ (L(y) = 3 => IsShortCode(data, y))
    BY DEF CodeLength
  <2>3. p \in 4 .. Len(data) /\ p \in Nat \ {0}
    <3> HIDE DEF y, L, to
    <3> QED  BY <1>3, <1>4, <1>7, <2>1 DEF y
  <2>4. data[p - 3] = 0 /\ data[p - 2] = 0 /\ data[p - 1] = 1
    <3> HIDE DEF y
    <3>1. CASE L(y) = 4
      <4>1. p - 3 = y + 1 /\ p - 2 = y + 2 /\ p - 1 = y + 3  BY <2>1, <3>1
      <4> QED  BY <2>1, <2>2, <3>1, <4>1, CodesAre
    <3>2. CASE L(y) = 3
      <4>1. p - 3 = y /\ p - 2 = y + 1 /\ p - 1 = y + 2  BY <2>1, <3>2
      <4> QED  BY <2>1, <2>2, <3>2, <4>1, CodesAre
    <3> QED  BY <2>1, <3>1, <3>2
  <2>5. CodeLength(data, p) = 0
    <3> SUFFICES ASSUME CodeLength(data, p) # 0 PROVE FALSE
      OBVIOUS
    <3>1. ~IsLongCode(data, p - 1)
      <4> HIDE DEF p
      <4>1. p - 1 \in Nat \ {0}  BY <2>3
      <4>2. data[p - 1] # 0  BY <2>4
      <4> QED  BY <4>1, <4>2, CodesAre
    <3>2. PICK j \in 1 .. Len(s) : s[j] = p  BY <1>1, <2>3, <3>1 DEF StartsAre
    <3> HIDE DEF L, to
    <3>3. s[j] = s[k] + L(s[k]) /\ s[k] < s[j]  BY <2>1, <3>2 DEF p, y
    <3>4. j > k
      <4>1. CASE j = k  BY <2>1, <3>3, <4>1
      <4>2. CASE j < k
        <5>1. s[j + 1] <= s[k]  BY <1>r, <4>2
        <5>2. j < Len(s) /\ s[j] \in Nat /\ L(s[j]) \in {3, 4}
              /\ s[j + 1] \in Nat /\ s[j + 1] >= s[j] + L(s[j])
          BY <1>3, <1>4, <4>2
        <5>3. s[k] \in Nat  BY <1>4
        <5> QED  BY <3>3, <5>1, <5>2, <5>3
      <4> QED  BY <4>1, <4>2
    <3>5. s[k + 1] <= s[j] /\ k < Len(s)  BY <1>r, <1>3, <3>4
    <3>6. to(k) = s[k + 1] - 1 /\ s[k + 1] \in Nat  BY <1>4, <3>5
    <3> QED  BY <1>4, <1>7, <3>3, <3>5, <3>6
  <2> QED  BY <2>3, <2>4, <2>5 DEF IsHeader
<1>8. F \in Seq(FrameSet)
  <2>1. \A m \in 1 .. n : F[m] \in FrameSet  BY <1>6, CutIs
  <2>2. F = [m \in 1 .. n |-> F[m]]  BY <1>2, <1>5
  <2>3. F \in [1 .. n -> FrameSet]  BY <2>1, <2>2
  <2> QED  BY <2>3, FunctionIsSeq
<1>9. ASSUME NEW m \in DOMAIN F
      PROVE  \E a, z : IsCut(data, base, F[m], a, z) /\ IsHeader(data, a + CodeLength(data, a))
  <2>1. IsCut(data, base, F[m], s[kept[m]], to(kept[m])) /\ kept[m] \in 1 .. Len(s)
    BY <1>5, <1>6
  <2>2. to(kept[m]) >= s[kept[m]] + L(s[kept[m]])
    <3>1. kept[m] \in P  BY <1>2, <1>5
    <3> QED  BY <3>1 DEF KeptStarts
  <2>3. IsHeader(data, s[kept[m]] + CodeLength(data, s[kept[m]]))  BY <1>7, <2>1, <2>2
  <2> QED  BY <2>1, <2>3
<1>10. ASSUME NEW k \in DOMAIN F, NEW l \in DOMAIN F, k < l
       PROVE  F[k].byte_offset + Len(F[k].bytes) <= F[l].byte_offset
  <2> DEFINE i == kept[k]
             j == kept[l]
  <2>1. i < j /\ i \in 1 .. Len(s) /\ j \in 1 .. Len(s)  BY <1>2, <1>5, <1>6, <1>10
  <2>2. F[k].byte_offset = base + s[i] - 1 /\ Len(F[k].bytes) = to(i) - s[i] + 1
    BY <1>5, <1>6, CutIs
  <2>3. F[l].byte_offset = base + s[j] - 1
    BY <1>5, <1>6, CutIs
  <2> HIDE DEF i, j, to
  <2>4. i < Len(s) /\ s[i + 1] <= s[j]  BY <1>r, <1>3, <2>1
  <2>5. to(i) = s[i + 1] - 1 /\ s[i + 1] \in Nat /\ s[i] \in Nat /\ s[j] \in Nat
    BY <1>4, <2>1, <2>4
  <2>6. F[k].byte_offset + Len(F[k].bytes) = base + to(i)
    <3>1. to(i) \in Int /\ s[i] \in Nat  BY <2>5
    <3> QED  BY <2>2, <3>1
  <2>7. base + to(i) <= base + s[j] - 1  BY <2>4, <2>5
  <2> QED  BY <2>3, <2>6, <2>7
<1>11. ASSUME NEW p, IsHeader(data, p)
       PROVE  \E k \in DOMAIN F : HeaderOf(F[k]) = base + p - 1
  <2>1. /\ p \in 4 .. Len(data) /\ p \in Nat
        /\ data[p - 3] = 0 /\ data[p - 2] = 0 /\ data[p - 1] = 1
        /\ CodeLength(data, p) = 0
    BY <1>3, <1>11 DEF IsHeader
  <2>2. \E y \in Nat \ {0} : y + L(y) = p /\ L(y) # 0 /\ (y > 1 => ~IsLongCode(data, y - 1))
    <3> DEFINE y3 == p - 3
               y4 == p - 4
    <3>1. y3 \in Nat \ {0} /\ y3 + 3 <= Len(data) /\ y3 + 1 = p - 2 /\ y3 + 2 = p - 1
          /\ y3 - 1 = y4
      BY <1>3, <2>1
    <3> HIDE DEF y3
    <3>2. IsShortCode(data, y3) /\ ~IsLongCode(data, y3)
      <4>1. data[y3] = 0 /\ data[y3 + 1] = 0 /\ data[y3 + 2] = 1  BY <2>1, <3>1 DEF y3
      <4> QED  BY <3>1, <4>1, CodesAre
    <3>3. L(y3) = 3  BY <3>2 DEF CodeLength
    <3>4. CASE y4 > 0 /\ data[y4] = 0
      <4>1. y4 \in Nat \ {0} /\ y4 + 3 <= Len(data)
            /\ y4 + 1 = p - 3 /\ y4 + 2 = p - 2 /\ y4 + 3 = p - 1
        BY <1>3, <2>1, <3>4
      <4> HIDE DEF y4
      <4>0. data[y4] = 0  BY <3>4
      <4>2. IsLongCode(data, y4)
        <5>1. data[y4 + 1] = 0 /\ data[y4 + 2] = 0 /\ data[y4 + 3] = 1  BY <2>1, <4>1
        <5> QED  BY <4>0, <4>1, <5>1, CodesAre
      <4>3. L(y4) = 4  BY <4>2 DEF CodeLength
      <4>4. y4 > 1 => ~IsLongCode(data, y4 - 1)
        <5> SUFFICES ASSUME y4 > 1 PROVE ~IsLongCode(data, y4 - 1)
          OBVIOUS
        <5>1. y4 - 1 \in Nat \ {0} /\ y4 - 1 + 3 = y4 + 2  BY <4>1
        <5>2. data[y4 - 1 + 3] # 1
          <6>1. data[p - 2] # 1  BY <2>1
          <6> QED  BY <4>1, <5>1, <6>1
        <5> DEFINE w == y4 - 1
        <5>3. w \in Nat \ {0} /\ data[w + 3] # 1  BY <5>1, <5>2
        <5>4. ~IsLongCode(data, w)
          <6> HIDE DEF w
          <6> QED  BY <5>3, CodesAre
        <5> QED  BY <5>4
      <4>5. y4 + 4 = p  BY <2>1 DEF y4
      <4> QED  BY <4>1, <4>3, <4>4, <4>5
    <3>5. CASE ~(y4 > 0 /\ data[y4] = 0)
      <4>1. y3 > 1 => ~IsLongCode(data, y3 - 1)
        <5> SUFFICES ASSUME y3 > 1 PROVE ~IsLongCode(data, y4)
          BY <3>1
        <5>1. y4 \in Nat \ {0}  BY <2>1, <3>1 DEF y4
        <5> HIDE DEF y4
        <5>2. data[y4] # 0
          <6>1. y4 > 0  BY <5>1
          <6> QED  BY <3>5, <6>1
        <5> QED  BY <5>1, <5>2, CodesAre
      <4>2. y3 + 3 = p  BY <2>1 DEF y3
      <4> QED  BY <3>1, <3>3, <4>1, <4>2
    <3> QED  BY <3>4, <3>5
  <2>3. PICK y \in Nat \ {0} : y + L(y) = p /\ L(y) # 0 /\ (y > 1 => ~IsLongCode(data, y - 1))
    BY <2>2
  <2>4. PICK k \in 1 .. Len(s) : s[k] = y
    <3>1. y \in Nat /\ y >= 1  BY <2>3
    <3> QED  BY <1>1, <2>3, <3>1 DEF StartsAre
  <2>5. to(k) >= s[k] + L(s[k])
    <3> HIDE DEF L
    <3>1. s[k] + L(s[k]) = p  BY <2>3, <2>4
    <3>2. CASE k < Len(s)
      <4>1. /\ s[k + 1] \in Nat /\ s[k + 1] >= p /\ to(k) = s[k + 1] - 1
        BY <1>4, <3>1, <3>2
      <4>2. s[k + 1] # p
        <5>1. k + 1 \in 1 .. Len(s)  BY <1>3, <3>2
        <5>2. L(s[k + 1]) \in {3, 4}  BY <1>4, <5>1
        <5>3. L(p) = 0  BY <2>1 DEF L
        <5> QED  BY <5>2, <5>3
      <4> HIDE DEF to
      <4> QED  BY <2>1, <3>1, <4>1, <4>2
    <3>3. CASE ~(k < Len(s))
      <4>1. to(k) = Len(data)  BY <3>3 DEF LastOfStart
      <4> QED  BY <1>3, <2>1, <3>1, <4>1
    <3> QED  BY <3>2, <3>3
  <2>6. k \in P  BY <1>3, <2>5 DEF KeptStarts
  <2>7. PICK m \in 1 .. n : kept[m] = k  BY <1>2, <2>6
  <2>8. HeaderOf(F[m]) = base + y + L(y) - 1
    <3>1. IsCut(data, base, F[m], y, to(k))  BY <1>6, <2>4, <2>7
    <3> QED  BY <3>1, CutIs
  <2>9. HeaderOf(F[m]) = base + p - 1
    <3>1. L(y) \in {3, 4}  BY <2>3 DEF CodeLength
    <3> HIDE DEF L
    <3> QED  BY <2>3, <2>8, <3>1
  <2> QED  BY <1>5, <2>9
<1> QED  BY <1>8, <1>9, <1>10, <1>11 DEF AreCutFrom
----------------------------------------------------------------------------
\* The carver: a block of the evidence.

\* Where block b begins.
Base(b) == b * block_size

ImageIsBytes == file \in Seq(Byte) /\ block_size \in Nat \ {0}

(***************************************************************************)
(* What there is of a block is the image from where the block begins on,   *)
(* and no more than a block.                                               *)
(***************************************************************************)
LEMMA BytesAtAre ==
  ASSUME ImageIsBytes, NEW b \in Nat
  PROVE  /\ Base(b) \in Nat
         /\ BytesAt(b) \in Seq(Byte) /\ Len(BytesAt(b)) \in 0 .. block_size
         /\ Len(BytesAt(b)) > 0 => Base(b) + Len(BytesAt(b)) <= Len(file)
         /\ \A i \in 1 .. Len(BytesAt(b)) : BytesAt(b)[i] = file[Base(b) + i]
<1> DEFINE m == b * block_size
           n == (b + 1) * block_size
           e == IF n <= Len(file) THEN n ELSE Len(file)
<1>1. m \in Nat /\ n = m + block_size /\ n \in Nat /\ block_size \in Nat \ {0}
  BY DEF ImageIsBytes
<1>2. file \in Seq(Byte) /\ Len(file) \in Nat  BY LenProperties DEF ImageIsBytes
<1>3. Base(b) = m  BY DEF Base
<1>4. BytesAt(b) = SubSeq(file, m + 1, e)  BY DEF BytesAt
<1> HIDE DEF m, n
<1>5. CASE m < Len(file)
  <2> DEFINE f == m + 1
  <2>1. /\ f \in Nat \ {0} /\ e \in Nat /\ e <= Len(file) /\ f <= e + 1
        /\ e - f + 1 = e - m /\ e - m \in 0 .. block_size
        /\ \A i \in 1 .. e - f + 1 : f + i - 1 = m + i
    BY <1>1, <1>2, <1>5
  <2> HIDE DEF f, e
  <2>2. /\ SubSeq(file, f, e) \in Seq(Byte) /\ Len(SubSeq(file, f, e)) = e - f + 1
        /\ \A i \in 1 .. e - f + 1 : SubSeq(file, f, e)[i] = file[f + i - 1]
    BY <1>2, <2>1, SliceIs
  <2>3. BytesAt(b) = SubSeq(file, f, e)  BY <1>4 DEF f
  <2>4. m + (e - m) = e  BY <1>1, <2>1
  <2> HIDE DEF Base
  <2> QED  BY <1>1, <1>3, <2>1, <2>2, <2>3, <2>4
<1>6. CASE ~(m < Len(file))
  <2>1. m + 1 \in Int /\ e \in Int /\ e < m + 1  BY <1>1, <1>2, <1>6
  <2>2. BytesAt(b) = <<>>  BY <1>4, <2>1, SubSeqEmpty
  <2>3. BytesAt(b) \in Seq(Byte) /\ Len(BytesAt(b)) = 0  BY <2>2
  <2> QED  BY <1>1, <1>3, <2>3
<1> QED  BY <1>5, <1>6

(***************************************************************************)
(* And so is what is read of it, however much that is.                     *)
(***************************************************************************)
LEMMA BeginningIs ==
  ASSUME ImageIsBytes, NEW b \in Nat, NEW n \in 0 .. Len(BytesAt(b))
  PROVE  /\ Base(b) \in Nat /\ n \in Nat /\ n <= block_size
         /\ Beginning(b, n) \in Seq(Byte) /\ Len(Beginning(b, n)) = n
         /\ n > 0 => Base(b) + n <= Len(file)
         /\ \A i \in 1 .. n : Beginning(b, n)[i] = file[Base(b) + i]
<1> DEFINE data == BytesAt(b)
<1>1. /\ Base(b) \in Nat /\ data \in Seq(Byte) /\ Len(data) \in 0 .. block_size
      /\ Len(data) > 0 => Base(b) + Len(data) <= Len(file)
      /\ \A i \in 1 .. Len(data) : data[i] = file[Base(b) + i]
      /\ block_size \in Nat /\ Len(file) \in Nat
  BY BytesAtAre, LenProperties DEF ImageIsBytes
<1>2. n \in Nat /\ n <= Len(data) /\ Len(data) \in Nat /\ n <= block_size
  BY <1>1
<1>3. Beginning(b, n) = SubSeq(data, 1, n)  BY DEF Beginning
<1> HIDE DEF data
<1>4. /\ SubSeq(data, 1, n) \in Seq(Byte) /\ Len(SubSeq(data, 1, n)) = n - 1 + 1
      /\ \A i \in 1 .. n - 1 + 1 : SubSeq(data, 1, n)[i] = data[1 + i - 1]
  <2>1. 1 \in Nat \ {0} /\ 1 <= n + 1  BY <1>2
  <2> QED  BY <1>1, <1>2, <2>1, SliceIs
<1>5. n - 1 + 1 = n /\ (\A i \in 1 .. n : 1 + i - 1 = i /\ i \in 1 .. Len(data))
      /\ (n > 0 => Base(b) + n <= Len(file))
  BY <1>1, <1>2
<1>6. ASSUME NEW i \in 1 .. n PROVE Beginning(b, n)[i] = file[Base(b) + i]
  <2>1. 1 + i - 1 = i /\ i \in 1 .. Len(data) /\ i \in 1 .. n - 1 + 1  BY <1>5
  <2> QED  BY <1>1, <1>3, <1>4, <2>1
<1> QED  BY <1>1, <1>2, <1>3, <1>4, <1>5, <1>6

(***************************************************************************)
(* Whether the rest of the data, from p on, begins with a start code.      *)
(***************************************************************************)
LEMMA RestIs ==
  ASSUME NEW data \in Seq(Byte), NEW p \in 1 .. Len(data),
         NEW rest, rest = SubSeq(data, p, Len(data))
  PROVE  /\ Len(rest) >= 4
         /\ SubSeq(rest, 1, 3) = <<0, 0, 1>> \/ SubSeq(rest, 1, 4) = <<0, 0, 0, 1>>
         <=> CodeLength(data, p) # 0
<1> DEFINE n == Len(data)
<1>1. n \in Nat /\ p \in Nat \ {0} /\ p <= n + 1  BY LenProperties
<1>2. /\ rest \in Seq(Byte) /\ Len(rest) = n - p + 1
      /\ \A i \in 1 .. n - p + 1 : rest[i] = data[p + i - 1]
  <2> HIDE DEF n
  <2>1. n <= Len(data)  BY <1>1 DEF n
  <2>2. /\ SubSeq(data, p, n) \in Seq(Byte) /\ Len(SubSeq(data, p, n)) = n - p + 1
        /\ \A i \in 1 .. n - p + 1 : SubSeq(data, p, n)[i] = data[p + i - 1]
    BY <1>1, <2>1, SliceIs
  <2> QED  BY <2>2 DEF n
<1> HIDE DEF n
<1>3. CASE p + 3 <= n
  <2>1. Len(rest) >= 4 /\ 1 + 3 <= Len(rest)  BY <1>1, <1>2, <1>3
  <2>2. rest[1] = data[p] /\ rest[2] = data[p + 1] /\ rest[3] = data[p + 2]
        /\ rest[4] = data[p + 3]
    BY <1>1, <1>2, <1>3
  <2>3. IsLongCode(rest, 1) <=> IsLongCode(data, p)
    <3>1. IsLongCode(rest, 1) <=> rest[1] = 0 /\ rest[2] = 0 /\ rest[3] = 0 /\ rest[4] = 1
      <4>1. \A i \in Nat \ {0} :
              IsLongCode(rest, i) <=>
                i + 3 <= Len(rest) /\ rest[i] = 0 /\ rest[i + 1] = 0 /\ rest[i + 2] = 0 /\ rest[i + 3] = 1
        BY <1>2, CodesAre
      <4> QED  BY <2>1, <4>1
    <3> QED  BY <1>1, <1>3, <2>2, <3>1, CodesAre DEF n
  <2>4. IsShortCode(rest, 1) <=> IsShortCode(data, p)
    <3>1. IsShortCode(rest, 1) <=> rest[1] = 0 /\ rest[2] = 0 /\ rest[3] = 1
      <4>1. \A i \in Nat \ {0} :
              IsShortCode(rest, i) <=>
                i + 3 <= Len(rest) /\ rest[i] = 0 /\ rest[i + 1] = 0 /\ rest[i + 2] = 1
        BY <1>2, CodesAre
      <4> QED  BY <2>1, <4>1
    <3> QED  BY <1>1, <1>3, <2>2, <3>1, CodesAre DEF n
  <2>5. IsLongCode(rest, 1) <=> SubSeq(rest, 1, 4) = <<0, 0, 0, 1>>
    BY <2>1 DEF IsLongCode, InReach
  <2>6. IsShortCode(rest, 1) <=> SubSeq(rest, 1, 3) = <<0, 0, 1>>
    BY <2>1 DEF IsShortCode, InReach
  <2>7. CodeLength(data, p) # 0 <=> IsLongCode(data, p) \/ IsShortCode(data, p)
    BY DEF CodeLength
  <2> QED  BY <2>1, <2>3, <2>4, <2>5, <2>6, <2>7
<1>4. CASE ~(p + 3 <= n)
  <2>1. ~(Len(rest) >= 4)  BY <1>1, <1>2, <1>4
  <2>2. CodeLength(data, p) = 0  BY <1>1, <1>4, CodesAre DEF CodeLength, n
  <2> QED  BY <2>1, <2>2
<1> QED  BY <1>3, <1>4

(***************************************************************************)
(* The places of header bytes in what was read of a block are those its    *)
(* bytes have.                                                             *)
(***************************************************************************)
LEMMA HeadersAre ==
  ASSUME ImageIsBytes, NEW b \in Nat, NEW n \in 0 .. Len(BytesAt(b)),
         NEW data, data = Beginning(b, n)
  PROVE  /\ \A h \in Headers(b, n) : ~NoHeader(b, n, h) =>
              \E p : IsHeader(data, p) /\ h = Base(b) + p - 1
         /\ \A p : IsHeader(data, p) =>
              Base(b) + p - 1 \in Headers(b, n) /\ ~NoHeader(b, n, Base(b) + p - 1)
<1> DEFINE m == b * block_size
<1>1. data \in Seq(Byte) /\ n \in Nat /\ Len(data) = n /\ m \in Nat /\ Base(b) = m
  BY BeginningIs DEF Base
<1>2. ASSUME NEW p \in 4 .. n
      PROVE  SubSeq(data, p - 3, p - 1) = <<0, 0, 1>>
               <=> data[p - 3] = 0 /\ data[p - 2] = 0 /\ data[p - 1] = 1
  <2> DEFINE i == p - 3
  <2>1. i \in Nat \ {0} /\ i + 3 <= Len(data) /\ i + 1 = p - 2 /\ i + 2 = p - 1  BY <1>1
  <2> HIDE DEF i
  <2>2. IsShortCode(data, i) <=> data[i] = 0 /\ data[i + 1] = 0 /\ data[i + 2] = 1
    BY <1>1, <2>1, CodesAre
  <2>3. IsShortCode(data, i) <=> SubSeq(data, i, i + 2) = <<0, 0, 1>>
    BY <2>1 DEF IsShortCode, InReach
  <2> QED  BY <2>1, <2>2, <2>3 DEF i
<1>3. ASSUME NEW p \in 4 .. n
      PROVE  NoHeader(b, n, m + p - 1) <=> CodeLength(data, p) # 0
  <2> DEFINE rest == SubSeq(data, p, n)
  <2>1. (m + p - 1) - m + 1 = p /\ p \in 1 .. Len(data)  BY <1>1
  <2>2. NoHeader(b, n, m + p - 1)
          <=> /\ Len(rest) >= 4
              /\ SubSeq(rest, 1, 3) = <<0, 0, 1>> \/ SubSeq(rest, 1, 4) = <<0, 0, 0, 1>>
    BY <1>1, <2>1 DEF NoHeader
  <2>3. rest = SubSeq(data, p, Len(data))  BY <1>1
  <2> HIDE DEF rest
  <2> QED  BY <1>1, <2>1, <2>2, <2>3, RestIs
<1>4. Headers(b, n) = {m + p - 1 : p \in {i \in 4 .. n : SubSeq(data, i - 3, i - 1) = <<0, 0, 1>>}}
  BY <1>1 DEF Headers
<1> HIDE DEF m
<1>5. ASSUME NEW h \in Headers(b, n), ~NoHeader(b, n, h)
      PROVE  \E p : IsHeader(data, p) /\ h = m + p - 1
  <2>1. PICK p \in 4 .. n : SubSeq(data, p - 3, p - 1) = <<0, 0, 1>> /\ h = m + p - 1
    BY <1>4
  <2>2. CodeLength(data, p) = 0  BY <1>3, <1>5, <2>1
  <2>3. IsHeader(data, p)  BY <1>1, <1>2, <2>1, <2>2 DEF IsHeader
  <2> QED  BY <2>1, <2>3
<1>6. ASSUME NEW p, IsHeader(data, p)
      PROVE  m + p - 1 \in Headers(b, n) /\ ~NoHeader(b, n, m + p - 1)
  <2>1. p \in 4 .. n  BY <1>1, <1>6 DEF IsHeader
  <2>2. SubSeq(data, p - 3, p - 1) = <<0, 0, 1>>  BY <1>2, <1>6, <2>1 DEF IsHeader
  <2>3. ~NoHeader(b, n, m + p - 1)  BY <1>3, <1>6, <2>1 DEF IsHeader
  <2> QED  BY <1>4, <2>1, <2>2, <2>3
<1> QED  BY <1>1, <1>5, <1>6
(***************************************************************************)
(* f is a frame of the first n bytes of block b: the bytes of the evidence *)
(* where it says it is, in the block, and its header byte is one of theirs.*)
(***************************************************************************)
IsFrameOf(f, b, n) ==
  /\ f \in FrameSet
  /\ Len(f.bytes) >= 4
  /\ Base(b) <= f.byte_offset
  /\ f.byte_offset + Len(f.bytes) <= Base(b) + n
  /\ f.byte_offset + Len(f.bytes) <= Len(file)
  /\ \A i \in 1 .. Len(f.bytes) : f.bytes[i] = file[f.byte_offset + i]
  /\ HeaderOf(f) \in NalUnits(b, n)
  /\ f.is_keyframe <=> IsKeyframe(file[HeaderOf(f) + 1])

LEMMA CutOfABlock ==
  ASSUME ImageIsBytes, NEW b \in Nat, NEW m \in 0 .. Len(BytesAt(b)), m >= 5,
         NEW f, NEW a, NEW z,
         IsCut(Beginning(b, m), Base(b), f, a, z),
         IsHeader(Beginning(b, m), a + CodeLength(Beginning(b, m), a))
  PROVE  IsFrameOf(f, b, m)
<1> DEFINE data == Beginning(b, m)
           base == Base(b)
           l == CodeLength(data, a)
           p == a + l
           n == Len(f.bytes)
<1>1. /\ data \in Seq(Byte) /\ base \in Nat /\ Len(data) \in Nat /\ Len(data) = m
      /\ base + Len(data) <= Len(file)
      /\ \A i \in 1 .. Len(data) : data[i] = file[base + i]
  <2>1. m > 0  OBVIOUS
  <2> QED  BY <2>1, BeginningIs
<1>2. Len(file) \in Nat  BY LenProperties DEF ImageIsBytes
<1>3. /\ f \in FrameSet
      /\ f.byte_offset = base + a - 1
      /\ n = z - a + 1 /\ n >= 4
      /\ \A i \in 1 .. n : f.bytes[i] = data[a + i - 1]
      /\ HeaderOf(f) = base + a + l - 1
      /\ f.is_keyframe <=> IsKeyframe(data[a + l])
  <2> HIDE DEF data, base
  <2>1. IsCut(data, base, f, a, z)  BY DEF data, base
  <2> QED  BY <1>1, <2>1, CutIs
<1>4. /\ a \in Nat \ {0} /\ z \in Nat /\ z <= Len(data) /\ l \in {3, 4} /\ a + l <= z
  <2>1. a \in Nat \ {0} /\ z \in Nat /\ z <= Len(data) /\ a + l <= z /\ l # 0  BY DEF IsCut
  <2>2. l \in {3, 4}  BY <2>1 DEF CodeLength
  <2> QED  BY <2>1, <2>2
<1>5. p \in 1 .. Len(data) /\ HeaderOf(f) = base + p - 1
  <2> HIDE DEF data, base, l
  <2> QED  BY <1>1, <1>3, <1>4
<1>6. HeaderOf(f) \in NalUnits(b, m)
  <2>1. IsHeader(data, p)  OBVIOUS
  <2>2. data = Beginning(b, m)  OBVIOUS
  <2> HIDE DEF data, base, p
  <2>3. base + p - 1 \in Headers(b, m) /\ ~NoHeader(b, m, base + p - 1)
    BY <2>1, <2>2, HeadersAre DEF base
  <2> QED  BY <1>5, <2>3 DEF NalUnits
<1>7. data[p] = file[HeaderOf(f) + 1]
  <2>1. base + p - 1 + 1 = base + p  BY <1>1, <1>4
  <2> HIDE DEF data, base, p
  <2> QED  BY <1>1, <1>5, <2>1
<1>8. ASSUME NEW i \in 1 .. n PROVE f.bytes[i] = file[f.byte_offset + i]
  <2>1. a + i - 1 \in 1 .. Len(data) /\ f.byte_offset + i = base + (a + i - 1)
    <3> HIDE DEF data, base, l, n
    <3> QED  BY <1>1, <1>3, <1>4
  <2> HIDE DEF data, base, n
  <2>2. f.bytes[i] = data[a + i - 1]  BY <1>3
  <2> QED  BY <1>1, <2>1, <2>2
<1>9. base <= f.byte_offset /\ f.byte_offset + n <= base + Len(data)
      /\ f.byte_offset + n <= Len(file)
  <2> HIDE DEF data, base, n, l
  <2> QED  BY <1>1, <1>2, <1>3, <1>4
<1> QED  BY <1>1, <1>3, <1>6, <1>7, <1>8, <1>9 DEF IsFrameOf

(***************************************************************************)
(* What is carved of what was read of a block.                             *)
(***************************************************************************)
LEMMA BlockFramesAre ==
  ASSUME ImageIsBytes, NEW b \in Nat, NEW n \in 0 .. Len(BytesAt(b)),
         NEW F, F = CarveBuffer(Beginning(b, n), Base(b))
  PROVE  /\ F \in Seq(FrameSet)
         /\ \A k \in DOMAIN F : IsFrameOf(F[k], b, n)
         /\ \A k, l \in DOMAIN F :
              k < l => F[k].byte_offset + Len(F[k].bytes) <= F[l].byte_offset
         /\ \A h \in NalUnits(b, n) : \E k \in DOMAIN F : HeaderOf(F[k]) = h
<1> DEFINE data == Beginning(b, n)
           base == Base(b)
<1>1. data \in Seq(Byte) /\ base \in Nat /\ Len(data) \in Nat /\ Len(data) = n
  BY BeginningIs
<1>0. data = Beginning(b, n) /\ base = Base(b)  OBVIOUS
<1> HIDE DEF data, base
<1>2. CASE Len(data) >= 5
  <2>0. F = CarveBuffer(data, base)  BY <1>0
  <2>1. /\ F \in Seq(FrameSet)
        /\ \A k \in DOMAIN F : \E a, z :
             IsCut(data, base, F[k], a, z) /\ IsHeader(data, a + CodeLength(data, a))
        /\ \A k, l \in DOMAIN F :
             k < l => F[k].byte_offset + Len(F[k].bytes) <= F[l].byte_offset
        /\ \A p : IsHeader(data, p) => \E k \in DOMAIN F : HeaderOf(F[k]) = base + p - 1
    <3>1. AreCutFrom(data, base, F)  BY <1>1, <1>2, <2>0, CarvedFramesAre
    <3> QED  BY <3>1 DEF AreCutFrom
  <2>2. ASSUME NEW k \in DOMAIN F PROVE IsFrameOf(F[k], b, n)
    <3>1. PICK a, z : IsCut(data, base, F[k], a, z) /\ IsHeader(data, a + CodeLength(data, a))
      BY <2>1
    <3> QED  BY <1>0, <1>1, <1>2, <3>1, CutOfABlock
  <2>3. ASSUME NEW h \in NalUnits(b, n)
        PROVE  \E k \in DOMAIN F : HeaderOf(F[k]) = h
    <3>1. h \in Headers(b, n) /\ ~NoHeader(b, n, h)  BY DEF NalUnits
    <3>2. PICK p : IsHeader(data, p) /\ h = base + p - 1  BY <1>0, <3>1, HeadersAre
    <3> QED  BY <2>1, <3>2
  <2> QED  BY <2>1, <2>2, <2>3
<1>3. CASE ~(Len(data) >= 5)
  <2>1. Len(data) < 5  BY <1>1, <1>3
  <2>2. F = <<>>  BY <1>0, <2>1 DEF CarveBuffer
  <2>3. F \in Seq(FrameSet) /\ DOMAIN F = {}  BY <2>2
  <2>4. NalUnits(b, n) = {}  BY <1>1, <1>3 DEF NalUnits
  <2> QED  BY <2>3, <2>4
<1> QED  BY <1>2, <1>3

(***************************************************************************)
(* No two blocks share a byte.                                             *)
(***************************************************************************)
LEMMA BlocksAreApart ==
  ASSUME ImageIsBytes, NEW b \in Nat, NEW c \in Nat, NEW f, NEW g,
         NEW bl \in 0 .. Len(BytesAt(b)), NEW cl \in 0 .. Len(BytesAt(c)),
         IsFrameOf(f, b, bl), IsFrameOf(g, c, cl), Overlap(f, g)
  PROVE  b = c
<1> DEFINE m == Base(b)
           n == Base(c)
           fo == f.byte_offset
           go == g.byte_offset
           fl == Len(f.bytes)
           gl == Len(g.bytes)
<1>1. m \in Nat /\ n \in Nat /\ bl \in 0 .. block_size /\ cl \in 0 .. block_size
      /\ block_size \in Nat
  <2>1. Len(BytesAt(b)) \in 0 .. block_size /\ Len(BytesAt(c)) \in 0 .. block_size
        /\ m \in Nat /\ n \in Nat /\ block_size \in Nat
    BY BytesAtAre DEF ImageIsBytes
  <2> HIDE DEF m, n
  <2> QED  BY <2>1
<1>2. fo \in Nat /\ go \in Nat /\ fl \in Nat /\ gl \in Nat
  BY LenProperties DEF IsFrameOf, FrameSet
<1>3. m <= fo /\ fo + fl <= m + bl /\ n <= go /\ go + gl <= n + cl
  BY DEF IsFrameOf
<1>4. fo < go + gl /\ go < fo + fl  BY DEF Overlap
<1>5. b < c => m + block_size <= n
  <2> SUFFICES ASSUME b < c PROVE m + block_size <= n  OBVIOUS
  <2>1. b + 1 <= c  OBVIOUS
  <2>2. (b + 1) * block_size <= c * block_size  BY <1>1, <2>1
  <2>3. (b + 1) * block_size = b * block_size + block_size  BY <1>1
  <2>4. b * block_size \in Nat /\ c * block_size \in Nat  BY <1>1
  <2> QED  BY <2>2, <2>3, <2>4 DEF Base
<1>6. c < b => n + block_size <= m
  <2> SUFFICES ASSUME c < b PROVE n + block_size <= m  OBVIOUS
  <2>1. c + 1 <= b  OBVIOUS
  <2>2. (c + 1) * block_size <= b * block_size  BY <1>1, <2>1
  <2>3. (c + 1) * block_size = c * block_size + block_size  BY <1>1
  <2>4. b * block_size \in Nat /\ c * block_size \in Nat  BY <1>1
  <2> QED  BY <2>2, <2>3, <2>4 DEF Base
<1> HIDE DEF m, n, fo, go, fl, gl
<1> QED  BY <1>1, <1>2, <1>3, <1>4, <1>5, <1>6
----------------------------------------------------------------------------
\* The carver: what it is told to scan.

DamagedPlaces == {k \in DOMAIN rows : rows[k].is_corrupted}

(***************************************************************************)
(* The damaged rows are those at these places: d says which is where.      *)
(***************************************************************************)
ArePlaced(d) ==
  /\ Cardinality(DamagedPlaces) \in Nat
  /\ d \in [1 .. Cardinality(DamagedPlaces) -> DamagedPlaces]
  /\ \A k \in DamagedPlaces : \E m \in 1 .. Cardinality(DamagedPlaces) : d[m] = k
  /\ Damaged = [m \in 1 .. Cardinality(DamagedPlaces) |-> rows[d[m]]]

LEMMA DamagedAre ==
  ASSUME ParserInv
  PROVE  \E d : ArePlaced(d)
<1>1. rows \in Seq(Row) /\ DamagedPlaces \in SUBSET (DOMAIN rows)
  BY DEF ParserInv, ParserTypeOK, DamagedPlaces
<1>2. Damaged = Filtered(rows, DamagedPlaces)  BY DEF Damaged, DamagedPlaces
<1>3. PICK d : Arrangement(Damaged, d, rows, DamagedPlaces, Ascending(DamagedPlaces))
  BY <1>1, <1>2, FilteredArranges
<1> QED  BY <1>3 DEF Arrangement, ArePlaced

(***************************************************************************)
(* The blocks to scan are the numbers of the damaged rows, one for each;   *)
(* all that the manifest counts if there are none.                         *)
(***************************************************************************)
AreTargets(T) ==
  /\ T \in Seq(Nat)
  /\ DamagedPlaces # {} =>
       /\ Len(T) = Len(Damaged)
       /\ \A k \in DOMAIN T : \E l \in DamagedPlaces : T[k] = rows[l].block_index
       /\ \A l \in DamagedPlaces : \E k \in DOMAIN T : T[k] = rows[l].block_index
  /\ DamagedPlaces = {} => T = [k \in 1 .. given.promised |-> k - 1]

LEMMA TargetsAre ==
  ASSUME ParserInv
  PROVE  AreTargets(TargetBlocks)
<1>1. PICK d : ArePlaced(d)  BY DamagedAre
<1> DEFINE c == Cardinality(DamagedPlaces)
<1>2. /\ c \in Nat /\ d \in [1 .. c -> DamagedPlaces]
      /\ \A k \in DamagedPlaces : \E m \in 1 .. c : d[m] = k
      /\ Damaged = [m \in 1 .. c |-> rows[d[m]]]
  BY <1>1 DEF ArePlaced
<1> HIDE DEF c
<1>3. \A l \in DamagedPlaces : rows[l] \in Row /\ rows[l].block_index \in Nat
  <2>1. rows \in Seq(Row)  BY DEF ParserInv, ParserTypeOK
  <2>2. \A l \in DamagedPlaces : rows[l] \in Row  BY <2>1, LenProperties DEF DamagedPlaces
  <2> QED  BY <2>2 DEF Row
<1>4. given.promised \in Nat  BY DEF ParserInv, ImageIsGiven
<1>5. CASE DamagedPlaces = {}
  <2>1. c = 0
    <3>1. c = 0 \/ 1 \in 1 .. c  BY <1>2
    <3> QED  BY <1>2, <1>5, <3>1
  <2>2. Damaged = <<>>
    <3>1. DOMAIN Damaged = 1 .. 0 /\ Damaged \in [1 .. 0 -> Row]  BY <1>2, <2>1
    <3>2. Damaged \in Seq(Row) /\ Len(Damaged) = 0
      <4> DEFINE z == 0
      <4>1. z \in Nat /\ Damaged \in [1 .. z -> Row]  BY <3>1
      <4> HIDE DEF z
      <4>2. Damaged \in Seq(Row) /\ Len(Damaged) = z  BY <4>1, FunctionIsSeq
      <4> QED  BY <4>2 DEF z
    <3> QED  BY <3>2, EmptySeq
  <2> DEFINE T == [k \in 1 .. given.promised |-> k - 1]
  <2>3. TargetBlocks = T  BY <2>2 DEF TargetBlocks
  <2>4. T \in [1 .. given.promised -> Nat]  BY <1>4
  <2>5. T \in Seq(Nat)  BY <1>4, <2>4, FunctionIsSeq
  <2> QED  BY <1>5, <2>3, <2>5 DEF AreTargets
<1>6. CASE DamagedPlaces # {}
  <2>1. c # 0  BY <1>2, <1>6
  <2>2. Damaged \in Seq(Row) /\ Len(Damaged) = c /\ DOMAIN Damaged = 1 .. c
    <3>1. Damaged \in [1 .. c -> Row]  BY <1>2, <1>3
    <3> QED  BY <1>2, <3>1, FunctionIsSeq
  <2>3. Damaged # <<>>  BY <1>2, <2>1, <2>2
  <2> DEFINE blocks == [k \in DOMAIN Damaged |-> Damaged[k].block_index]
             S == 1 .. c
             R == {p \in (DOMAIN blocks) \X (DOMAIN blocks) :
                     \/ blocks[p[1]] < blocks[p[2]]
                     \/ blocks[p[1]] = blocks[p[2]] /\ p[1] < p[2]}
  <2>4. \A k \in S : blocks[k] = rows[d[k]].block_index /\ blocks[k] \in Nat
    BY <1>2, <1>3, <2>2
  <2>5. DOMAIN blocks = S  BY <2>2
  <2>6. TargetBlocks = Arranged(blocks, S, R)
    BY <2>2, <2>3 DEF TargetBlocks
  <2> HIDE DEF blocks
  <2>7. Orders(R, S)
    <3>1. \A k, l : <<k, l>> \in R <=>
            k \in S /\ l \in S /\ (blocks[k] < blocks[l] \/ (blocks[k] = blocks[l] /\ k < l))
      BY <2>5
    <3> HIDE DEF R
    <3>2. \A x \in S : x \in Nat /\ blocks[x] \in Nat  BY <2>4
    <3>3. ASSUME NEW x \in S PROVE <<x, x>> \notin R  BY <3>1, <3>2
    <3>4. ASSUME NEW x \in S, NEW y \in S, NEW z \in S, <<x, y>> \in R, <<y, z>> \in R
          PROVE  <<x, z>> \in R
      <4>1. x \in Nat /\ y \in Nat /\ z \in Nat
            /\ blocks[x] \in Nat /\ blocks[y] \in Nat /\ blocks[z] \in Nat  BY <3>2
      <4>2. blocks[x] < blocks[y] \/ (blocks[x] = blocks[y] /\ x < y)  BY <3>1, <3>4
      <4>3. blocks[y] < blocks[z] \/ (blocks[y] = blocks[z] /\ y < z)  BY <3>1, <3>4
      <4>4. blocks[x] < blocks[z] \/ (blocks[x] = blocks[z] /\ x < z)  BY <4>1, <4>2, <4>3
      <4> QED  BY <3>1, <4>4
    <3>5. ASSUME NEW x \in S, NEW y \in S PROVE x = y \/ <<x, y>> \in R \/ <<y, x>> \in R
      BY <3>1, <3>2
    <3> QED  BY <3>3, <3>4, <3>5 DEF Orders
  <2> HIDE DEF R
  <2>8. IsFiniteSet(S) /\ Cardinality(S) = c
    BY <1>2, FS_Interval, 1 \in Int
  <2> HIDE DEF S
  <2>9. PICK order : Arrangement(TargetBlocks, order, blocks, S, R)
    BY <2>6, <2>7, <2>8, ArrangedIs
  <2>10. /\ order \in [1 .. c -> S]
         /\ \A k \in S : \E n \in 1 .. c : order[n] = k
         /\ TargetBlocks = [n \in 1 .. c |-> blocks[order[n]]]
    BY <2>8, <2>9 DEF Arrangement
  <2>11. /\ \A n \in 1 .. c : TargetBlocks[n] = rows[d[order[n]]].block_index
                              /\ d[order[n]] \in DamagedPlaces
         /\ DOMAIN TargetBlocks = 1 .. c
    BY <1>2, <2>4, <2>10 DEF S
  <2>12. TargetBlocks \in Seq(Nat) /\ Len(TargetBlocks) = c
    <3>1. TargetBlocks \in [1 .. c -> Nat]  BY <1>3, <2>10, <2>11
    <3> QED  BY <1>2, <3>1, FunctionIsSeq
  <2>13. ASSUME NEW l \in DamagedPlaces
         PROVE  \E k \in DOMAIN TargetBlocks : TargetBlocks[k] = rows[l].block_index
    <3>1. PICK m \in S : d[m] = l  BY <1>2 DEF S
    <3>2. PICK n \in 1 .. c : order[n] = m  BY <2>10
    <3> QED  BY <2>11, <3>1, <3>2
  <2> QED  BY <1>6, <2>2, <2>11, <2>12, <2>13 DEF AreTargets
<1> QED  BY <1>5, <1>6
----------------------------------------------------------------------------
\* The inductive invariant of the carver.

CarverTypeOK ==
  /\ targets \in Seq(Nat) /\ done \in 0 .. Len(targets)
  /\ got \in Seq(Nat) /\ Len(got) = done
  /\ buffer \in Seq(Byte) /\ Len(buffer) \in {0, block_size}
  /\ frames \in Seq(FrameSet)

ScansItsTargets ==
  phase = "carve" => Len(buffer) = block_size /\ targets = TargetBlocks

ReadsAreOfTheirBlocks ==
  \A i \in 1 .. done : got[i] \in 0 .. Len(BytesAt(targets[i]))

FramesAreOfScannedBlocks ==
  \A k \in DOMAIN frames : \E i \in 1 .. done : IsFrameOf(frames[k], targets[i], got[i])

FramesAreApart ==
  \A k, l \in DOMAIN frames :
    k # l /\ Overlap(frames[k], frames[l]) =>
      \E i, j \in 1 .. done : i # j /\ targets[i] = targets[j]

HeadersAreCarved ==
  \A i \in 1 .. done : \A h \in NalUnits(targets[i], got[i]) :
    \E k \in DOMAIN frames : HeaderOf(frames[k]) = h

CarverInv ==
  /\ CarverTypeOK /\ ScansItsTargets /\ ReadsAreOfTheirBlocks
  /\ FramesAreOfScannedBlocks /\ FramesAreApart /\ HeadersAreCarved

LEMMA CarverInit ==
  ASSUME Init, ParserInv
  PROVE  CarverInv
<1>1. phase = "new" /\ targets = <<>> /\ done = 0 /\ got = <<>> /\ buffer = <<>> /\ frames = <<>>
  BY DEF Init, Idle
<1>2. Len(targets) = 0 /\ Len(got) = 0 /\ Len(buffer) = 0 /\ DOMAIN frames = {} /\ 1 .. done = {}
  BY <1>1
<1> QED
  BY <1>1, <1>2 DEF CarverInv, CarverTypeOK, ScansItsTargets, ReadsAreOfTheirBlocks,
     FramesAreOfScannedBlocks, FramesAreApart, HeadersAreCarved

\* The evidence is as it was, and so are its blocks.
LEMMA BlocksKept ==
  ASSUME UNCHANGED evidence
  PROVE  \A b, n : /\ Base(b)' = Base(b) /\ BytesAt(b)' = BytesAt(b)
                  /\ NalUnits(b, n)' = NalUnits(b, n)
<1>1. file' = file /\ block_size' = block_size  BY DEF evidence
<1> SUFFICES ASSUME NEW b, NEW n
             PROVE  /\ Base(b)' = Base(b) /\ BytesAt(b)' = BytesAt(b)
                    /\ NalUnits(b, n)' = NalUnits(b, n)
  OBVIOUS
<1>2. Base(b)' = Base(b)  BY <1>1 DEF Base
<1>3. BytesAt(b)' = BytesAt(b)  BY <1>1 DEF BytesAt
<1>4. Beginning(b, n)' = Beginning(b, n)  BY <1>3 DEF Beginning
<1>5. Headers(b, n)' = Headers(b, n)  BY <1>1, <1>4 DEF Headers
<1>6. \A h : NoHeader(b, n, h)' <=> NoHeader(b, n, h)  BY <1>1, <1>4 DEF NoHeader
<1>7. NalUnits(b, n)' = NalUnits(b, n)  BY <1>5, <1>6 DEF NalUnits
<1> QED  BY <1>2, <1>3, <1>7

\* What the carver has is changed by the carver only.
LEMMA CarverKept ==
  ASSUME CarverInv, UNCHANGED <<evidence, carver>>, phase' # "carve" \/ UNCHANGED <<phase, given, rows>>
  PROVE  CarverInv'
<1>1. /\ file' = file /\ block_size' = block_size
      /\ targets' = targets /\ done' = done /\ got' = got
      /\ buffer' = buffer /\ frames' = frames
  BY DEF evidence, carver
<1>2. CarverTypeOK' /\ FramesAreApart'
  BY <1>1 DEF CarverInv, CarverTypeOK, FramesAreApart
<1>3. ScansItsTargets'
  BY <1>1 DEF CarverInv, ScansItsTargets, TargetBlocks, Damaged
<1>4. FramesAreOfScannedBlocks'
  BY <1>1, BlocksKept DEF CarverInv, FramesAreOfScannedBlocks, IsFrameOf, HeaderOf
<1>5. HeadersAreCarved'
  BY <1>1, BlocksKept DEF CarverInv, HeadersAreCarved, HeaderOf
<1>6. ReadsAreOfTheirBlocks'
  BY <1>1, BlocksKept DEF CarverInv, ReadsAreOfTheirBlocks
<1> QED  BY <1>2, <1>3, <1>4, <1>5, <1>6 DEF CarverInv

LEMMA StartCarveKeeps ==
  ASSUME ParserInv, StartCarve
  PROVE  CarverInv'
<1>1. /\ block_size' = block_size /\ given' = given /\ rows' = rows
      /\ targets' = TargetBlocks /\ done' = 0 /\ got' = <<>> /\ buffer' = [k \in 1 .. block_size |-> 0]
      /\ frames' = <<>>
  BY DEF StartCarve, Begin, evidence
<1>2. block_size \in Nat  BY DEF ParserInv, ImageIsGiven
<1>3. buffer' \in Seq(Byte) /\ Len(buffer') = block_size
  <2>1. buffer' \in [1 .. block_size -> Byte]  BY <1>1 DEF Byte
  <2> QED  BY <1>2, <2>1, FunctionIsSeq
<1>4. targets' \in Seq(Nat)  BY <1>1, TargetsAre DEF AreTargets
<1>5. TargetBlocks' = TargetBlocks  BY <1>1 DEF TargetBlocks, Damaged
<1>6. CarverTypeOK'
  <2>1. Len(targets') \in Nat /\ 0 \in 0 .. Len(targets')  BY <1>4, LenProperties
  <2>2. done' \in 0 .. Len(targets')  BY <1>1, <2>1
  <2>3. frames' \in Seq(FrameSet)
    <3>1. <<>> \in Seq(FrameSet)  OBVIOUS
    <3> QED  BY <1>1, <3>1
  <2>4. Len(buffer') \in {0, block_size'}  BY <1>1, <1>3
  <2>5. got' \in Seq(Nat) /\ Len(got') = done'  BY <1>1
  <2> QED  BY <1>3, <1>4, <2>2, <2>3, <2>4, <2>5 DEF CarverTypeOK
<1>7. ScansItsTargets'  BY <1>1, <1>3, <1>5 DEF ScansItsTargets
<1>8. DOMAIN frames' = {} /\ 1 .. done' = {}  BY <1>1
<1> QED
  BY <1>6, <1>7, <1>8
     DEF CarverInv, ReadsAreOfTheirBlocks, FramesAreOfScannedBlocks, FramesAreApart,
         HeadersAreCarved

(***************************************************************************)
(* One block more: its frames come behind those of the blocks before.      *)
(***************************************************************************)
LEMMA CarveStep ==
  ASSUME ParserInv, CarverInv, Carve
  PROVE  /\ file' = file /\ block_size' = block_size /\ given' = given /\ rows' = rows
         /\ phase' = phase /\ targets' = targets /\ done' = done + 1 /\ done < Len(targets)
         /\ buffer' \in Seq(Byte) /\ Len(buffer') = block_size
         /\ \E n \in 0 .. Len(BytesAt(targets[done + 1])) :
              /\ got' = Append(got, n)
              /\ frames' = frames \o CarveBuffer(Beginning(targets[done + 1], n),
                                                Base(targets[done + 1]))
<1> DEFINE b == targets[done + 1]
<1>0. PICK n \in ReadLengths(b) :
        /\ got' = Append(got, n)
        /\ buffer' = Beginning(b, n) \o SubSeq(buffer, n + 1, block_size)
        /\ frames' = IF n = 0 THEN frames
                     ELSE frames \o CarveBuffer(Filled(Beginning(b, n)), b * block_size)
  BY DEF Carve, CarveBlock
<1> DEFINE read == Beginning(b, n)
           F == CarveBuffer(read, Base(b))
<1>1. /\ file' = file /\ block_size' = block_size /\ given' = given /\ rows' = rows
      /\ phase' = phase /\ targets' = targets /\ done' = done + 1 /\ done < Len(targets)
      /\ phase = "carve"
  BY DEF Carve, CarveBlock, evidence
<1>2. ImageIsBytes  BY DEF ParserInv, ImageIsGiven, ImageIsBytes
<1>3. /\ targets \in Seq(Nat) /\ done \in Nat /\ buffer \in Seq(Byte) /\ Len(buffer) = block_size
      /\ frames \in Seq(FrameSet) /\ Len(targets) \in Nat
  BY <1>1, LenProperties DEF CarverInv, CarverTypeOK, ScansItsTargets
<1>4. b \in Nat
  <2>1. done + 1 \in 1 .. Len(targets)  BY <1>1, <1>3
  <2> QED  BY <1>3, <2>1, LenProperties
<1> HIDE DEF b
<1>8. n \in 0 .. Len(BytesAt(b))
  <2>1. Len(BytesAt(b)) \in Nat  BY <1>2, <1>4, BytesAtAre, LenProperties
  <2>2. n = Len(BytesAt(b)) \/ (n \in Nat /\ n < Len(BytesAt(b)))
    BY ReadSizesAssumption DEF ReadLengths
  <2> QED  BY <2>1, <2>2
<1>5. read \in Seq(Byte) /\ Len(read) = n /\ n \in Nat /\ n <= block_size
  BY <1>2, <1>4, <1>8, BeginningIs
<1>9. buffer' = read \o SubSeq(buffer, n + 1, block_size)  BY <1>0
<1>10. frames' = IF n = 0 THEN frames
                 ELSE frames \o CarveBuffer(Filled(read), b * block_size)
  BY <1>0
<1> HIDE DEF read
<1>6. buffer' \in Seq(Byte) /\ Len(buffer') = block_size /\ Filled(read) = read
  <2> DEFINE new == buffer'
  <2>1. new = read \o SubSeq(buffer, Len(read) + 1, Len(buffer)) /\ Len(read) <= Len(buffer)
    BY <1>1, <1>3, <1>5, <1>9
  <2>2. Filled(read) = SubSeq(new, 1, Len(read))  BY DEF Filled
  <2> HIDE DEF new
  <2>3. new \in Seq(Byte) /\ Len(new) = Len(buffer) /\ SubSeq(new, 1, Len(read)) = read
    BY <1>3, <1>5, <2>1, BufferHoldsWhatWasRead
  <2> QED  BY <1>3, <2>2, <2>3 DEF new
<1>7. frames' = frames \o F
  <2>1. CASE n = 0
    <3>1. F = <<>>  BY <1>5, <2>1 DEF CarveBuffer
    <3>2. frames \o <<>> = frames  BY <1>3, ConcatEmptySeq
    <3> QED  BY <1>10, <2>1, <3>1, <3>2
  <2>2. CASE n # 0  BY <1>6, <1>10, <2>2 DEF Base
  <2> QED  BY <2>1, <2>2
<1>11. got' = Append(got, n)  BY <1>0
<1> QED  BY <1>1, <1>6, <1>7, <1>8, <1>11 DEF b, read

LEMMA CarveKeeps ==
  ASSUME ParserInv, CarverInv, Carve
  PROVE  CarverInv'
<1> DEFINE d == done + 1
           b == targets[d]
           n == Len(frames)
<1>a. PICK r \in 0 .. Len(BytesAt(b)) :
        /\ got' = Append(got, r)
        /\ frames' = frames \o CarveBuffer(Beginning(b, r), Base(b))
  BY CarveStep
<1> DEFINE F == CarveBuffer(Beginning(b, r), Base(b))
<1>1. /\ file' = file /\ block_size' = block_size /\ given' = given /\ rows' = rows
      /\ phase' = phase /\ targets' = targets /\ done' = d /\ done < Len(targets)
      /\ buffer' \in Seq(Byte) /\ Len(buffer') = block_size /\ frames' = frames \o F
  BY <1>a, CarveStep
<1>2. ImageIsBytes  BY DEF ParserInv, ImageIsGiven, ImageIsBytes
<1>3. /\ targets \in Seq(Nat) /\ done \in Nat /\ frames \in Seq(FrameSet)
      /\ Len(targets) \in Nat /\ n \in Nat /\ DOMAIN frames = 1 .. n
  BY LenProperties DEF CarverInv, CarverTypeOK
<1>4. d \in 1 .. Len(targets) /\ d \in Nat /\ 1 .. done \subseteq 1 .. d /\ d \in 1 .. d
      /\ (\A i \in 1 .. d : i = d \/ i \in 1 .. done) /\ \A i \in 1 .. done : i # d
  BY <1>1, <1>3
<1>5. \A i \in 1 .. d : targets[i] \in Nat
  <2>1. \A i \in 1 .. d : i \in 1 .. Len(targets)  BY <1>1, <1>3
  <2> QED  BY <1>3, <2>1, LenProperties
<1> HIDE DEF d
<1>6. b \in Nat  BY <1>4, <1>5
<1>0. F = CarveBuffer(Beginning(b, r), Base(b))  OBVIOUS
\* What the reads got before is as it was; this one is r.
<1>b. /\ got' \in Seq(Nat) /\ Len(got') = d /\ got'[d] = r
      /\ \A i \in 1 .. done : got'[i] = got[i]
  <2>1. got \in Seq(Nat) /\ Len(got) = done  BY DEF CarverInv, CarverTypeOK
  <2>2. r \in Nat
    <3>1. Len(BytesAt(b)) \in Nat  BY <1>2, <1>6, BytesAtAre, LenProperties
    <3> QED  BY <1>a, <3>1
  <2>3. /\ Append(got, r) \in Seq(Nat) /\ Len(Append(got, r)) = Len(got) + 1
        /\ \A i \in 1 .. Len(got) : Append(got, r)[i] = got[i]
        /\ Append(got, r)[Len(got) + 1] = r
    BY <2>1, <2>2, AppendProperties
  <2>4. d = done + 1  BY DEF d
  <2> QED  BY <1>a, <2>1, <2>3, <2>4
<1> HIDE DEF b, F
<1>7. /\ F \in Seq(FrameSet)
      /\ \A k \in DOMAIN F : IsFrameOf(F[k], b, r)
      /\ \A k, l \in DOMAIN F :
           k < l => F[k].byte_offset + Len(F[k].bytes) <= F[l].byte_offset
      /\ \A h \in NalUnits(b, r) : \E k \in DOMAIN F : HeaderOf(F[k]) = h
  BY <1>0, <1>2, <1>6, BlockFramesAre
<1>8. /\ frames' \in Seq(FrameSet) /\ Len(F) \in Nat /\ DOMAIN F = 1 .. Len(F)
      /\ DOMAIN frames' = 1 .. n + Len(F)
      /\ \A k \in 1 .. n : frames'[k] = frames[k]
      /\ \A k \in 1 .. Len(F) : frames'[n + k] = F[k]
  <2>1. Len(F) \in Nat /\ DOMAIN F = 1 .. Len(F)  BY <1>7, LenProperties
  <2>2. /\ frames \o F \in Seq(FrameSet) /\ Len(frames \o F) = n + Len(F)
        /\ \A i \in 1 .. n + Len(F) : (frames \o F)[i] = IF i <= n THEN frames[i] ELSE F[i - n]
    BY <1>3, <1>7, ConcatProperties
  <2>3. DOMAIN (frames \o F) = 1 .. n + Len(F)  BY <2>2, LenProperties
  <2> HIDE DEF n
  <2>4. ASSUME NEW k \in 1 .. n PROVE (frames \o F)[k] = frames[k]
    <3>1. k \in 1 .. n + Len(F) /\ k <= n  BY <1>3, <2>1
    <3> QED  BY <2>2, <3>1
  <2>5. ASSUME NEW k \in 1 .. Len(F) PROVE (frames \o F)[n + k] = F[k]
    <3> DEFINE i == n + k
    <3>1. i \in 1 .. n + Len(F) /\ ~(i <= n) /\ i - n = k  BY <1>3, <2>1
    <3> HIDE DEF i
    <3>2. (frames \o F)[i] = F[i - n]  BY <2>2, <3>1
    <3> QED  BY <3>1, <3>2 DEF i
  <2> QED  BY <1>1, <2>1, <2>2, <2>3, <2>4, <2>5
<1> HIDE DEF n
\* A frame is an earlier one, or of this block.
<1>9. ASSUME NEW k \in DOMAIN frames'
      PROVE  \/ k \in DOMAIN frames /\ frames'[k] = frames[k]
             \/ \E m \in DOMAIN F : k = n + m /\ frames'[k] = F[m]
  <2>1. CASE k <= n
    <3>1. k \in 1 .. n  BY <1>3, <1>8, <2>1
    <3> QED  BY <1>3, <1>8, <3>1
  <2>2. CASE ~(k <= n)
    <3>1. k - n \in 1 .. Len(F) /\ k = n + (k - n)  BY <1>3, <1>8, <2>2
    <3> QED  BY <1>8, <3>1
  <2> QED  BY <2>1, <2>2
<1>10. CarverTypeOK'
  <2>1. d \in 0 .. Len(targets)  BY <1>3, <1>4
  <2> QED  BY <1>1, <1>3, <1>8, <1>b, <2>1 DEF CarverTypeOK
<1>11. ScansItsTargets'
  <2>1. TargetBlocks' = TargetBlocks  BY <1>1 DEF TargetBlocks, Damaged
  <2> QED  BY <1>1, <2>1 DEF CarverInv, ScansItsTargets
<1>12. ASSUME NEW k \in DOMAIN frames PROVE \E i \in 1 .. done : IsFrameOf(frames[k], targets[i], got[i])
  BY DEF CarverInv, FramesAreOfScannedBlocks
<1>13. \A k \in DOMAIN frames' : \E i \in 1 .. d : IsFrameOf(frames'[k], targets[i], got'[i])
  <2> SUFFICES ASSUME NEW k \in DOMAIN frames'
               PROVE  \E i \in 1 .. d : IsFrameOf(frames'[k], targets[i], got'[i])
    OBVIOUS
  <2>1. CASE k \in DOMAIN frames /\ frames'[k] = frames[k]
    <3>1. PICK i \in 1 .. done : IsFrameOf(frames[k], targets[i], got[i])  BY <1>12, <2>1
    <3>2. i \in 1 .. d /\ got'[i] = got[i]  BY <1>4, <1>b
    <3> QED  BY <2>1, <3>1, <3>2
  <2>2. CASE \E m \in DOMAIN F : k = n + m /\ frames'[k] = F[m]
    BY <1>4, <1>7, <1>b, <2>2 DEF b
  <2> QED  BY <1>9, <2>1, <2>2
<1>14. FramesAreOfScannedBlocks'
  <2>1. \A k \in DOMAIN frames' : \E i \in 1 .. done' : IsFrameOf(frames'[k], targets'[i], got'[i])
    BY <1>1, <1>13
  <2>2. file' = file /\ UNCHANGED evidence  BY <1>1 DEF evidence
  <2> QED  BY <2>1, <2>2, BlocksKept DEF FramesAreOfScannedBlocks, IsFrameOf, HeaderOf
<1>15. ASSUME NEW k \in DOMAIN frames, NEW m \in DOMAIN F, Overlap(frames[k], F[m]) \/ Overlap(F[m], frames[k])
       PROVE  \E i, j \in 1 .. d : i # j /\ targets[i] = targets[j]
  <2>1. PICK i \in 1 .. done : IsFrameOf(frames[k], targets[i], got[i])  BY <1>12
  <2>2. targets[i] \in Nat /\ got[i] \in 0 .. Len(BytesAt(targets[i]))
    BY <1>4, <1>5 DEF CarverInv, ReadsAreOfTheirBlocks
  <2>3. IsFrameOf(F[m], b, r)  BY <1>7
  <2>4. targets[i] = b  BY <1>2, <1>6, <1>15, <2>1, <2>2, <2>3, BlocksAreApart
  <2> QED  BY <1>4, <2>4 DEF b
<1>16. ASSUME NEW l \in DOMAIN F, NEW m \in DOMAIN F, l # m PROVE ~Overlap(F[l], F[m])
  <2>1. \A k \in DOMAIN F : F[k].byte_offset \in Nat /\ Len(F[k].bytes) \in Nat
    <3>1. \A k \in DOMAIN F : F[k] \in FrameSet  BY <1>7, LenProperties
    <3> QED  BY <3>1, LenProperties DEF FrameSet
  <2>2. l < m \/ m < l  BY <1>8, <1>16
  <2>3. \/ F[l].byte_offset + Len(F[l].bytes) <= F[m].byte_offset
        \/ F[m].byte_offset + Len(F[m].bytes) <= F[l].byte_offset
    BY <1>7, <2>2
  <2> QED  BY <2>1, <2>3 DEF Overlap
<1>17. \A k, l \in DOMAIN frames' :
         k # l /\ Overlap(frames'[k], frames'[l]) =>
           \E i, j \in 1 .. d : i # j /\ targets[i] = targets[j]
  <2> SUFFICES ASSUME NEW k \in DOMAIN frames', NEW l \in DOMAIN frames', k # l,
                      Overlap(frames'[k], frames'[l])
               PROVE  \E i, j \in 1 .. d : i # j /\ targets[i] = targets[j]
    OBVIOUS
  <2>1. CASE k \in DOMAIN frames /\ frames'[k] = frames[k]
    <3>1. CASE l \in DOMAIN frames /\ frames'[l] = frames[l]
      <4>1. PICK i \in 1 .. done, j \in 1 .. done : i # j /\ targets[i] = targets[j]
        BY <2>1, <3>1 DEF CarverInv, FramesAreApart
      <4> QED  BY <1>4, <4>1
    <3>2. CASE \E m \in DOMAIN F : l = n + m /\ frames'[l] = F[m]  BY <1>15, <2>1, <3>2
    <3> QED  BY <1>9, <3>1, <3>2
  <2>2. CASE \E m \in DOMAIN F : k = n + m /\ frames'[k] = F[m]
    <3>1. CASE l \in DOMAIN frames /\ frames'[l] = frames[l]  BY <1>15, <2>2, <3>1
    <3>2. CASE \E m \in DOMAIN F : l = n + m /\ frames'[l] = F[m]  BY <1>16, <2>2, <3>2
    <3> QED  BY <1>9, <3>1, <3>2
  <2> QED  BY <1>9, <2>1, <2>2
<1>18. FramesAreApart'  BY <1>1, <1>17 DEF FramesAreApart, Overlap
<1>19. \A i \in 1 .. d : \A h \in NalUnits(targets[i], got'[i]) :
         \E k \in DOMAIN frames' : HeaderOf(frames'[k]) = h
  <2> SUFFICES ASSUME NEW i \in 1 .. d, NEW h \in NalUnits(targets[i], got'[i])
               PROVE  \E k \in DOMAIN frames' : HeaderOf(frames'[k]) = h
    OBVIOUS
  <2>1. CASE i \in 1 .. done
    <3>0. h \in NalUnits(targets[i], got[i])  BY <1>b, <2>1
    <3>1. PICK k \in DOMAIN frames : HeaderOf(frames[k]) = h
      BY <2>1, <3>0 DEF CarverInv, HeadersAreCarved
    <3>2. k \in 1 .. n /\ k \in DOMAIN frames'  BY <1>3, <1>8
    <3>3. frames'[k] = frames[k]  BY <1>8, <3>2
    <3> QED  BY <3>1, <3>2, <3>3
  <2>2. CASE i = d
    <3>0. h \in NalUnits(b, r)  BY <1>b, <2>2 DEF b
    <3>1. PICK k \in DOMAIN F : HeaderOf(F[k]) = h  BY <1>7, <3>0
    <3>2. k \in 1 .. Len(F) /\ n + k \in DOMAIN frames'  BY <1>3, <1>8
    <3>3. frames'[n + k] = F[k]  BY <1>8, <3>2
    <3> QED  BY <3>1, <3>2, <3>3
  <2> QED  BY <1>4, <2>1, <2>2
<1>c. UNCHANGED evidence  BY <1>1 DEF evidence
<1>20. HeadersAreCarved'  BY <1>1, <1>19, <1>c, BlocksKept DEF HeadersAreCarved, HeaderOf
<1>21. ReadsAreOfTheirBlocks'
  <2>1. ASSUME NEW i \in 1 .. d PROVE got'[i] \in 0 .. Len(BytesAt(targets[i]))
    <3>1. CASE i \in 1 .. done  BY <1>b, <3>1 DEF CarverInv, ReadsAreOfTheirBlocks
    <3>2. CASE i = d  BY <1>a, <1>b, <3>2 DEF b
    <3> QED  BY <1>4, <3>1, <3>2
  <2> QED  BY <1>1, <1>c, <2>1, BlocksKept DEF ReadsAreOfTheirBlocks
<1> QED  BY <1>10, <1>11, <1>14, <1>18, <1>20, <1>21 DEF CarverInv

LEMMA CarverNext ==
  ASSUME ParserInv, CarverInv, [Next]_vars
  PROVE  CarverInv'
<1>1. CASE Identify  BY <1>1, CarverKept DEF Identify
<1>2. CASE StartParse  BY <1>2, CarverKept DEF StartParse
<1>3. CASE ParseBlock  BY <1>3, CarverKept DEF ParseBlock
<1>4. CASE StoreExtraction  BY <1>4, CarverKept DEF StoreExtraction
<1>5. CASE StartCarve  BY <1>5, StartCarveKeeps
<1>6. CASE Carve  BY <1>6, CarveKeeps
<1>7. CASE StoreCarved  BY <1>7, CarverKept DEF StoreCarved
<1>8. CASE Analyze  BY <1>8, CarverKept DEF Analyze
<1>9. CASE Report  BY <1>9, CarverKept DEF Report
<1>10. CASE UNCHANGED vars  BY <1>10, CarverKept DEF vars
<1> QED
  BY <1>1, <1>2, <1>3, <1>4, <1>5, <1>6, <1>7, <1>8, <1>9, <1>10 DEF Next

LEMMA CarverAlways == Spec => [](ParserInv /\ CarverInv)
<1>1. Init => ParserInv /\ CarverInv  BY ParserInit, CarverInit
<1>2. ParserInv /\ CarverInv /\ [Next]_vars => (ParserInv /\ CarverInv)'
  BY ParserNext, CarverNext
<1> QED  BY <1>1, <1>2, PTL DEF Spec
----------------------------------------------------------------------------
(***************************************************************************)
(* Every number has its width, every record its kind and every frame its   *)
(* start code, in the types of parser/src/lib.rs and recovery/src/lib.rs.  *)
(***************************************************************************)
THEOREM ExtractionTypes == Spec => []TypeOK
<1>1. ParserInv /\ CarverInv => TypeOK
  <2> SUFFICES ASSUME ParserInv, CarverInv PROVE TypeOK
    OBVIOUS
  <2>1. ASSUME NEW k \in DOMAIN records
        PROVE  LET r == records[k]
               IN  /\ Len(r.channel_id) = 4 /\ Len(r.timestamp) = 8
                   /\ Len(r.sequence_num) = 4 /\ Len(r.flags) = 2
                   /\ r.payload_len \in Nat /\ r.payload_offset >= r.byte_offset
                   /\ r.is_scrambled \in BOOLEAN /\ r.is_corrupted \in BOOLEAN
    <3>1. FitsItsColumns(records[k])
      BY DEF ParserInv, RecordsAreOfTheirBlocks, IsOfItsBlock
    <3>2. records \in Seq(Row)  BY DEF ParserInv, ParserTypeOK
    <3>3. records[k] \in Row  BY <3>2, LenProperties
    <3> DEFINE r == records[k]
    <3> HIDE DEF r
    <3>4. r.payload_len \in Nat /\ r.is_scrambled \in BOOLEAN /\ r.is_corrupted \in BOOLEAN
      BY <3>3 DEF Row, r
    <3> QED  BY <3>1, <3>4 DEF FitsItsColumns, r
  <2>2. FramesTypeOK
    <3>1. /\ done \in 0 .. Len(targets) /\ Len(got) = done
          /\ Len(buffer) \in {0, block_size}
          /\ frames \in Seq(FrameSet)
      BY DEF CarverInv, CarverTypeOK
    <3>2. ASSUME NEW k \in DOMAIN frames
          PROVE  frames[k].byte_offset \in Nat /\ Len(frames[k].bytes) >= 4
      <4>1. PICK i \in 1 .. done : IsFrameOf(frames[k], targets[i], got[i])
        BY DEF CarverInv, FramesAreOfScannedBlocks
      <4> QED  BY <4>1 DEF IsFrameOf, FrameSet
    <3> QED  BY <3>1, <3>2 DEF FramesTypeOK
  <2>3. /\ phase \in {"new", "ready", "parse", "carve", "carved", "analyzed", "reported"}
        /\ Len(page) \in {0, block_size} /\ parses \in 0 .. MaxParses
        /\ index \in 0 .. given.promised /\ offset \in 0 .. Len(file)
    BY DEF ParserInv, ParserTypeOK
  <2> QED  BY <2>1, <2>2, <2>3 DEF TypeOK
<1> QED  BY <1>1, CarverAlways, PTL

(***************************************************************************)
(* A carved frame is in the evidence, byte for byte, where it says it is,  *)
(* also after a short read into the buffer of an earlier block; and no     *)
(* byte is in two frames unless a block was to be scanned twice            *)
(* (carve_corrupted_blocks, recovery/src/lib.rs).                          *)
(***************************************************************************)
THEOREM FramesFoundAgain == Spec => []FramesAreInTheEvidence
<1>1. ParserInv /\ CarverInv => FramesAreInTheEvidence
  <2> SUFFICES ASSUME ParserInv, CarverInv PROVE FramesAreInTheEvidence
    OBVIOUS
  <2>1. file \in Seq(Byte) /\ Len(file) \in Nat  BY LenProperties DEF ParserInv, ImageIsGiven
  <2>2. ASSUME NEW k \in DOMAIN frames
        PROVE  LET f == frames[k]
               IN  /\ f.byte_offset + Len(f.bytes) <= Len(file)
                   /\ f.bytes = SubSeq(file, f.byte_offset + 1, f.byte_offset + Len(f.bytes))
    <3> DEFINE f == frames[k]
               o == f.byte_offset
               n == Len(f.bytes)
    <3>1. PICK l \in 1 .. done : IsFrameOf(f, targets[l], got[l])
      BY DEF CarverInv, FramesAreOfScannedBlocks
    <3>2. /\ o \in Nat /\ f.bytes \in Seq(Byte) /\ n \in Nat /\ n >= 4 /\ o + n <= Len(file)
          /\ \A i \in 1 .. n : f.bytes[i] = file[o + i]
      BY <3>1, LenProperties DEF IsFrameOf, FrameSet
    <3> DEFINE m == o + 1
               z == o + n
    <3>3. m \in Nat \ {0} /\ z \in Nat /\ z <= Len(file) /\ m <= z + 1 /\ z - m + 1 = n
          /\ \A i \in 1 .. n : m + i - 1 = o + i
      <4> HIDE DEF f, o, n
      <4> QED  BY <2>1, <3>2
    <3> HIDE DEF m, z, o, n
    <3>4. /\ SubSeq(file, m, z) \in Seq(Byte) /\ Len(SubSeq(file, m, z)) = z - m + 1
          /\ \A i \in 1 .. z - m + 1 : SubSeq(file, m, z)[i] = file[m + i - 1]
      BY <2>1, <3>3, SliceIs
    <3>5. f.bytes = SubSeq(file, m, z)
      <4> DEFINE s == SubSeq(file, m, z)
                 t == f.bytes
      <4>1. /\ s \in Seq(Byte) /\ t \in Seq(Byte) /\ Len(s) = n /\ Len(t) = n
            /\ \A i \in 1 .. n : t[i] = s[i]
        BY <3>2, <3>3, <3>4 DEF n
      <4> HIDE DEF s, t
      <4>2. s = t  BY <4>1, SeqEqual
      <4> QED  BY <4>2 DEF s, t
    <3> QED  BY <3>2, <3>5 DEF m, z, o, n
  <2>3. \A k, l \in DOMAIN frames :
          k # l /\ Overlap(frames[k], frames[l]) =>
            \E i, j \in 1 .. done : i # j /\ targets[i] = targets[j]
    BY DEF CarverInv, FramesAreApart
  <2> QED  BY <2>2, <2>3 DEF FramesAreInTheEvidence
<1> QED  BY <1>1, CarverAlways, PTL

(***************************************************************************)
(* Every NAL unit in what was read of the scanned blocks is carved, and    *)
(* nothing else, although the scan jumps over what it has found and stops  *)
(* four bytes before the end, and wherever the reads ended (carve_buffer,  *)
(* recovery/src/lib.rs).                                                   *)
(***************************************************************************)
THEOREM NalUnitsCarved == Spec => []EveryNalUnitIsCarved
<1>1. ParserInv /\ CarverInv => EveryNalUnitIsCarved
  <2> SUFFICES ASSUME ParserInv, CarverInv PROVE EveryNalUnitIsCarved
    OBVIOUS
  <2> DEFINE found == {HeaderOf(frames[k]) : k \in DOMAIN frames}
             there == UNION {NalUnits(targets[i], got[i]) : i \in 1 .. done}
  <2>1. ASSUME NEW k \in DOMAIN frames
        PROVE  /\ HeaderOf(frames[k]) \in there
               /\ frames[k].is_keyframe <=> IsKeyframe(file[HeaderOf(frames[k]) + 1])
    <3>1. PICK i \in 1 .. done : IsFrameOf(frames[k], targets[i], got[i])
      BY DEF CarverInv, FramesAreOfScannedBlocks
    <3>2. HeaderOf(frames[k]) \in NalUnits(targets[i], got[i])  BY <3>1 DEF IsFrameOf
    <3>3. frames[k].is_keyframe <=> IsKeyframe(file[HeaderOf(frames[k]) + 1])
      BY <3>1 DEF IsFrameOf
    <3> QED  BY <3>2, <3>3
  <2>2. ASSUME NEW h \in there PROVE h \in found
    <3>1. PICK i \in 1 .. done : h \in NalUnits(targets[i], got[i])  OBVIOUS
    <3>2. PICK k \in DOMAIN frames : HeaderOf(frames[k]) = h
      BY <3>1 DEF CarverInv, HeadersAreCarved
    <3> QED  BY <3>2
  <2>3. found = there
    <3>1. \A h \in found : h \in there
      <4> HIDE DEF there
      <4> QED  BY <2>1
    <3> HIDE DEF found, there
    <3> QED  BY <2>2, <3>1
  <2> QED  BY <2>1, <2>3 DEF EveryNalUnitIsCarved
<1> QED  BY <1>1, CarverAlways, PTL

(***************************************************************************)
(* carve reads what parse found damaged: the parser counts bytes and the   *)
(* carver multiplies block numbers, and they mean the same places; with    *)
(* nothing damaged every byte of the acquired blocks is scanned            *)
(* (run_carve, dvrft/src/main.rs:480).                                     *)
(***************************************************************************)
THEOREM DamageScanned == Spec => []DamagedBlocksAreScanned
<1>1. ParserInv /\ CarverInv => DamagedBlocksAreScanned
  <2> SUFFICES ASSUME ParserInv, CarverInv, phase = "carve", done = 0
               PROVE  LET Extents == {targets[k] * block_size : k \in DOMAIN targets}
                          Corrupted == {rows[k].byte_offset :
                                          k \in {k \in DOMAIN rows : rows[k].is_corrupted}}
                      IN  IF Corrupted # {}
                          THEN Extents = Corrupted /\ Len(targets) = Len(Damaged)
                          ELSE \A n \in 0 .. Min({Len(file), given.promised * block_size}) - 1 :
                                 \E e \in Extents : n \in e .. e + block_size - 1
    BY DEF DamagedBlocksAreScanned
  <2> DEFINE Extents == {targets[k] * block_size : k \in DOMAIN targets}
             Corrupted == {rows[k].byte_offset : k \in {k \in DOMAIN rows : rows[k].is_corrupted}}
  <2>1. AreTargets(targets)
    <3>1. targets = TargetBlocks  BY DEF CarverInv, ScansItsTargets
    <3> QED  BY <3>1, TargetsAre
  <2>2. \A l \in DamagedPlaces : rows[l].byte_offset = rows[l].block_index * block_size
    BY DEF ParserInv, RecordsAreOfTheirBlocks, IsOfItsBlock, DamagedPlaces
  <2>3. Corrupted = {rows[l].byte_offset : l \in DamagedPlaces}  BY DEF DamagedPlaces
  <2> HIDE DEF Corrupted
  <2>4. CASE DamagedPlaces # {}
    <3>1. Corrupted # {}  BY <2>3, <2>4
    <3>2. Extents = Corrupted
      <4>1. ASSUME NEW e \in Extents PROVE e \in Corrupted
        <5>1. PICK k \in DOMAIN targets : e = targets[k] * block_size  OBVIOUS
        <5>2. PICK l \in DamagedPlaces : targets[k] = rows[l].block_index
          BY <2>1, <2>4 DEF AreTargets
        <5> QED  BY <2>2, <2>3, <5>1, <5>2
      <4>2. ASSUME NEW e \in Corrupted PROVE e \in Extents
        <5>1. PICK l \in DamagedPlaces : e = rows[l].byte_offset  BY <2>3
        <5>2. PICK k \in DOMAIN targets : targets[k] = rows[l].block_index
          BY <2>1, <2>4 DEF AreTargets
        <5> QED  BY <2>2, <5>1, <5>2
      <4> HIDE DEF Extents
      <4> QED  BY <4>1, <4>2
    <3>3. Len(targets) = Len(Damaged)  BY <2>1, <2>4 DEF AreTargets
    <3> QED  BY <3>1, <3>2, <3>3 DEF Corrupted
  <2>5. CASE DamagedPlaces = {}
    <3>1. Corrupted = {}  BY <2>3, <2>5
    <3>2. targets = [k \in 1 .. given.promised |-> k - 1]  BY <2>1, <2>5 DEF AreTargets
    <3> DEFINE last == given.promised * block_size
    <3>3. /\ given.promised \in Nat /\ block_size \in Nat \ {0} /\ Len(file) \in Nat
          /\ last \in Nat
      BY LenProperties DEF ParserInv, ImageIsGiven
    <3>4. ASSUME NEW n \in 0 .. Min({Len(file), last}) - 1
          PROVE  \E e \in Extents : n \in e .. e + block_size - 1
      <4> DEFINE b == n \div block_size
                 e == b * block_size
      <4>1. n \in Nat /\ n < last
        <5> HIDE DEF last
        <5>1. Min({Len(file), last}) = IF Len(file) <= last THEN Len(file) ELSE last
          BY <3>3, MinOfTwo
        <5> QED  BY <3>3, <5>1
      <4>2. b \in Nat /\ e <= n /\ n < e + block_size
        <5>1. b \in Nat /\ block_size * b <= n /\ n < block_size * b + block_size
          BY <3>3, <4>1, DivisionFact
        <5> HIDE DEF b
        <5>2. block_size * b = b * block_size  BY <3>3, <5>1
        <5> QED  BY <5>1, <5>2
      <4>3. e \in Nat
        <5> HIDE DEF b
        <5> QED  BY <3>3, <4>2
      <4> HIDE DEF b
      <4>4. b < given.promised
        <5> SUFFICES ASSUME ~(b < given.promised) PROVE FALSE  OBVIOUS
        <5>1. given.promised <= b  BY <3>3, <4>2
        <5>2. given.promised * block_size <= b * block_size  BY <3>3, <4>2, <5>1
        <5> HIDE DEF last, e
        <5>3. last <= e  BY <5>2 DEF last, e
        <5> QED  BY <3>3, <4>1, <4>2, <4>3, <5>3
      <4>5. b + 1 \in DOMAIN targets /\ targets[b + 1] = b
        <5> DEFINE k == b + 1
        <5>1. k \in 1 .. given.promised /\ k - 1 = b  BY <3>3, <4>2, <4>4
        <5> HIDE DEF k
        <5>2. k \in DOMAIN targets /\ targets[k] = k - 1  BY <3>2, <5>1
        <5> QED  BY <5>1, <5>2 DEF k
      <4>6. e \in Extents  BY <4>5
      <4>7. n \in e .. e + block_size - 1
        <5> HIDE DEF e
        <5> QED  BY <3>3, <4>1, <4>2, <4>3
      <4> HIDE DEF e, Extents
      <4> QED  BY <4>6, <4>7
    <3> QED  BY <3>1, <3>4 DEF Corrupted
  <2> QED  BY <2>4, <2>5
<1> QED  BY <1>1, CarverAlways, PTL
----------------------------------------------------------------------------
\* Analytics.

DigestHasFourBytes == \A payload \in Seq(Byte) : Digest(payload) \in [1 .. 4 -> Byte]

IsInThePicture(box) ==
  /\ 0 <= box.x_min /\ box.x_min < box.x_max /\ box.x_max <= Side
  /\ 0 <= box.y_min /\ box.y_min < box.y_max /\ box.y_max <= Side

IsBox(box) ==
  /\ box.x_min \in Nat /\ box.y_min \in Nat /\ box.x_max \in Nat /\ box.y_max \in Nat
  /\ IsInThePicture(box)

LEMMA MaxOfTwo ==
  ASSUME NEW a \in Int, NEW b \in Int
  PROVE  Max({a, b}) = IF a >= b THEN a ELSE b
<1> DEFINE m == IF a >= b THEN a ELSE b
<1>1. m \in {a, b} /\ \A y \in {a, b} : m >= y  OBVIOUS
<1>2. \A x \in {a, b} : (\A y \in {a, b} : x >= y) => x = m  OBVIOUS
<1> QED  BY <1>1, <1>2 DEF Max

(***************************************************************************)
(* One side of a box: it begins so far from the edge that it has room.     *)
(***************************************************************************)
LEMMA SideIs ==
  ASSUME NEW wanted \in Nat, NEW length \in Nat \ {0}, length <= Side,
         NEW from, from = Min({wanted, Side - length}),
         NEW to, to = Min({from + length, Side})
  PROVE  from \in Nat /\ to \in Nat /\ from < to /\ to <= Side
<1>1. Side \in Nat  BY DEF Side
<1>2. from = IF wanted <= Side - length THEN wanted ELSE Side - length  BY <1>1, MinOfTwo
<1>3. from \in Nat /\ from + length <= Side  BY <1>1, <1>2
<1>4. to = IF from + length <= Side THEN from + length ELSE Side  BY <1>1, <1>3, MinOfTwo
<1> QED  BY <1>1, <1>3, <1>4

LEMMA BoxIs ==
  ASSUME NEW d \in [1 .. 4 -> Byte]
  PROVE  IsBox(Box(d))
<1> DEFINE width == 3825 + 25 * d[3]
           height == 6375 + 40 * d[4]
           left == 100 * d[1]
           top == 100 * d[2]
           x_min == Min({left, Side - width})
           y_min == Min({top, Side - height})
           x_max == Min({x_min + width, Side})
           y_max == Min({y_min + height, Side})
<1>1. d[1] \in 0 .. 255 /\ d[2] \in 0 .. 255 /\ d[3] \in 0 .. 255 /\ d[4] \in 0 .. 255
  BY DEF Byte
<1>2. /\ width \in Nat \ {0} /\ width <= Side /\ left \in Nat
      /\ height \in Nat \ {0} /\ height <= Side /\ top \in Nat
  <2> DEFINE d1 == d[1]
             d2 == d[2]
             d3 == d[3]
             d4 == d[4]
  <2>1. d1 \in 0 .. 255 /\ d2 \in 0 .. 255 /\ d3 \in 0 .. 255 /\ d4 \in 0 .. 255  BY <1>1
  <2>2. width = 3825 + 25 * d3 /\ height = 6375 + 40 * d4 /\ left = 100 * d1 /\ top = 100 * d2
    OBVIOUS
  <2> HIDE DEF d1, d2, d3, d4, width, height, left, top
  <2> QED  BY <2>1, <2>2 DEF Side
<1> HIDE DEF width, height, left, top
<1>3. x_min = Min({left, Side - width}) /\ x_max = Min({x_min + width, Side})
      /\ y_min = Min({top, Side - height}) /\ y_max = Min({y_min + height, Side})
  OBVIOUS
<1>4. Box(d) = [x_min |-> x_min, y_min |-> y_min, x_max |-> x_max, y_max |-> y_max]
  BY DEF Box, width, height, left, top
<1> HIDE DEF x_min, y_min, x_max, y_max
<1>5. x_min \in Nat /\ x_max \in Nat /\ x_min < x_max /\ x_max <= Side
  BY <1>2, <1>3, SideIs
<1>6. y_min \in Nat /\ y_max \in Nat /\ y_min < y_max /\ y_max <= Side
  BY <1>2, <1>3, SideIs
<1> QED  BY <1>4, <1>5, <1>6 DEF IsBox, IsInThePicture

LEMMA BoxAcrossIs ==
  ASSUME NEW box, IsBox(box)
  PROVE  IsBox(BoxAcross(box))
<1> DEFINE a == box.x_max
           b == box.y_min
           x_min == Max({Side - a, 0})
           y_min == Min({b + 2550, 15300})
           x_max == Min({x_min + 5100, Side})
           y_max == Min({y_min + 6375, Side})
<1>1. a \in Nat /\ a > 0 /\ a <= Side /\ b \in Nat /\ Side = 25500
  BY DEF IsBox, IsInThePicture, Side
<1>2. BoxAcross(box) = [x_min |-> x_min, y_min |-> y_min, x_max |-> x_max, y_max |-> y_max]
  BY DEF BoxAcross
<1> HIDE DEF a, b
<1>3. x_min = IF Side - a >= 0 THEN Side - a ELSE 0  BY <1>1, MaxOfTwo
<1>4. y_min = IF b + 2550 <= 15300 THEN b + 2550 ELSE 15300  BY <1>1, MinOfTwo
<1> HIDE DEF x_min, y_min
<1>5. x_min \in Nat /\ x_min < Side /\ y_min \in Nat /\ y_min <= 15300  BY <1>1, <1>3, <1>4
<1>6. x_max = IF x_min + 5100 <= Side THEN x_min + 5100 ELSE Side
  BY <1>1, <1>5, MinOfTwo
<1>7. y_max = IF y_min + 6375 <= Side THEN y_min + 6375 ELSE Side
  BY <1>1, <1>5, MinOfTwo
<1> HIDE DEF x_max, y_max
<1>8. x_max \in Nat /\ x_min < x_max /\ x_max <= Side
  BY <1>1, <1>5, <1>6
<1>9. y_max \in Nat /\ y_min < y_max /\ y_max <= Side
  BY <1>1, <1>5, <1>7
<1> QED  BY <1>2, <1>5, <1>8, <1>9 DEF IsBox, IsInThePicture

LEMMA EntitiesHaveBoxes ==
  ASSUME DigestHasFourBytes, NEW payload \in Seq(Byte), NEW key, NEW motion
  PROVE  LET e == Entities(payload, key, motion)
         IN  /\ Len(e) \in Nat /\ DOMAIN e = 1 .. Len(e)
             /\ \A k \in DOMAIN e : IsBox(e[k].bbox)
<1> DEFINE box == Box(Digest(payload))
           across == BoxAcross(box)
           class == ClassOf(box)
           sure == Min({9800, Max({6000, Classes[class] + motion \div 10})})
           first == [class_label |-> class, bbox |-> box, confidence |-> sure]
           second == [class_label |-> "motion_cluster", bbox |-> across, confidence |-> 7800]
           e == Entities(payload, key, motion)
<1>1. e \in {<<>>, <<first, second>>, <<first>>}
  <2> HIDE DEF first, second
  <2> QED  BY DEF Entities, first, second
<1>2. IsBox(box)  BY BoxIs DEF DigestHasFourBytes
<1> HIDE DEF box
<1>3. IsBox(across)  BY <1>2, BoxAcrossIs
<1> HIDE DEF across, class, sure
<1>4. first.bbox = box /\ second.bbox = across  OBVIOUS
<1> HIDE DEF first, second, e
<1>5. CASE e = <<>>
  <2>1. Len(e) = 0 /\ DOMAIN e = {}  BY <1>5
  <2> QED  BY <2>1 DEF e
<1>6. CASE e = <<first>>
  <2>1. Len(e) = 1 /\ DOMAIN e = 1 .. 1 /\ e[1] = first  BY <1>6
  <2>2. \A k \in DOMAIN e : k = 1  BY <2>1
  <2> QED  BY <1>2, <1>4, <2>1, <2>2 DEF e
<1>7. CASE e = <<first, second>>
  <2>1. Len(e) = 2 /\ DOMAIN e = 1 .. 2 /\ e[1] = first /\ e[2] = second  BY <1>7
  <2>2. \A k \in DOMAIN e : k = 1 \/ k = 2  BY <2>1
  <2> QED  BY <1>2, <1>3, <1>4, <2>1, <2>2 DEF e
<1> QED  BY <1>1, <1>5, <1>6, <1>7

(***************************************************************************)
(* A sequence of sequences over T is flattened into one over T.            *)
(***************************************************************************)
LEMMA FlattenType ==
  ASSUME NEW T, NEW seqs \in Seq(Seq(T))
  PROVE  FlattenSeq(seqs) \in Seq(T)
<1> DEFINE n == Len(seqs)
<1>0. n \in Nat /\ \A i \in 1 .. n : seqs[i] \in Seq(T)  BY LenProperties
<1>1. CASE n = 0
  <2>1. seqs = <<>>  BY <1>1, EmptySeq
  <2>2. FlattenSeq(seqs) = seqs  BY <1>1 DEF FlattenSeq
  <2>3. <<>> \in Seq(T)  OBVIOUS
  <2> QED  BY <2>1, <2>2, <2>3
<1>2. CASE n # 0
  <2>0. n \in Nat \ {0} /\ Len(seqs) = n  BY <1>0, <1>2
  <2> HIDE DEF n
  <2>1. PICK f : Joins(seqs, n, f) /\ FlattenSeq(seqs) = f[n]
    BY <2>0, FlattenIs
  <2>2. f[1] = seqs[1] /\ \A i \in 2 .. n : f[i] = f[i - 1] \o seqs[i]
    BY <2>0, <2>1, JoinsAre
  <2> DEFINE Wrong == {i \in 1 .. n : f[i] \notin Seq(T)}
  <2>3. Wrong = {}
    <3> SUFFICES ASSUME Wrong # {} PROVE FALSE  OBVIOUS
    <3>1. PICK i \in Wrong : \A j \in Wrong : i <= j
      <4>1. Wrong \in SUBSET Nat  OBVIOUS
      <4> HIDE DEF Wrong
      <4> QED  BY <4>1, Smallest
    <3>2. i # 1
      <4>1. 1 \in 1 .. n  BY <2>0
      <4> QED  BY <1>0, <2>2, <3>1, <4>1
    <3>3. i \in 2 .. n /\ i - 1 \in 1 .. n /\ ~(i <= i - 1)  BY <2>0, <3>1, <3>2
    <3>4. f[i - 1] \in Seq(T)  BY <3>1, <3>3
    <3>5. seqs[i] \in Seq(T)  BY <1>0, <2>0, <3>3
    <3>6. f[i] \in Seq(T)  BY <2>2, <3>3, <3>4, <3>5, ConcatProperties
    <3> QED  BY <3>1, <3>6
  <2>4. f[n] \in Seq(T)
    <3>1. n \in 1 .. n  BY <2>0
    <3> QED  BY <2>3, <3>1
  <2> QED  BY <2>1, <2>4
<1> QED  BY <1>1, <1>2
(***************************************************************************)
(* What analyze reads are rows and the bytes the image has for them.       *)
(***************************************************************************)
LEMMA RowsByBlock ==
  ASSUME ParserInv, NEW places \in SUBSET (DOMAIN rows)
  PROVE  ByBlock(places) \in Seq(Row)
<1> DEFINE Of(b) == {k \in places : rows[k].block_index = b - 1}
           seqs == [b \in 1 .. given.promised |-> Filtered(rows, Of(b))]
<1>1. rows \in Seq(Row) /\ given.promised \in Nat
  BY DEF ParserInv, ParserTypeOK, ImageIsGiven
<1>2. ASSUME NEW b \in 1 .. given.promised PROVE Filtered(rows, Of(b)) \in Seq(Row)
  <2>1. Of(b) \in SUBSET (DOMAIN rows)  OBVIOUS
  <2> HIDE DEF Of
  <2> QED  BY <1>1, <2>1, FilteredArranges
<1>3. ByBlock(places) = FlattenSeq(seqs)  BY DEF ByBlock
<1> HIDE DEF Of
<1>4. seqs \in [1 .. given.promised -> Seq(Row)]  BY <1>2
<1> HIDE DEF seqs
<1>5. seqs \in Seq(Seq(Row))  BY <1>1, <1>4, FunctionIsSeq
<1> QED  BY <1>3, <1>5, FlattenType

LEMMA PayloadIsBytes ==
  ASSUME ParserInv, NEW r \in Row
  PROVE  PayloadInImage(r) \in Seq(Byte)
<1> DEFINE m == r.payload_offset + 1
           z == r.payload_offset + r.payload_len
           n == Min({z, Len(file)})
<1>1. file \in Seq(Byte) /\ Len(file) \in Nat  BY LenProperties DEF ParserInv, ImageIsGiven
<1>2. m \in Nat \ {0} /\ z \in Nat  BY DEF Row
<1> HIDE DEF m, z
<1>3. n \in Nat /\ n <= Len(file)
  <2>1. n = IF z <= Len(file) THEN z ELSE Len(file)  BY <1>1, <1>2, MinOfTwo
  <2> QED  BY <1>1, <1>2, <2>1
<1>4. PayloadInImage(r) = SubSeq(file, m, n)  BY DEF PayloadInImage, m, z
<1> HIDE DEF n
<1>5. \A i \in m .. n : i \in 1 .. Len(file)  BY <1>1, <1>2, <1>3
<1>6. \A i \in m .. n : file[i] \in Byte  BY <1>1, <1>5, LenProperties
<1> QED  BY <1>2, <1>3, <1>4, <1>6, SubSeqProperties

(***************************************************************************)
(* The detections of a frame are boxes in the picture.                     *)
(***************************************************************************)
LEMMA DetectionsHaveBoxes ==
  ASSUME DigestHasFourBytes, NEW r, NEW payload \in Seq(Byte), NEW key,
         NEW s, s = DetectionsOf(AnalyzeFrame(r, payload, key))
  PROVE  /\ Len(s) \in Nat /\ s \in Seq({s[k] : k \in DOMAIN s})
         /\ \A k \in DOMAIN s : IsInThePicture(s[k].bbox)
<1> DEFINE motion == MotionEnergy(payload)
           e == Entities(payload, key, motion)
           a == AnalyzeFrame(r, payload, key)
           T == {s[k] : k \in DOMAIN s}
<1>1. a.entities = e  BY DEF AnalyzeFrame
<1> HIDE DEF a
<1>2. Len(e) \in Nat /\ DOMAIN e = 1 .. Len(e) /\ \A k \in DOMAIN e : IsBox(e[k].bbox)
  <2> HIDE DEF motion
  <2> QED  BY EntitiesHaveBoxes DEF e
<1> HIDE DEF e
<1>3. s = [k \in DOMAIN e |->
             [block_index     |-> a.block_index,
              channel_id      |-> a.channel_id,
              timestamp       |-> a.timestamp,
              relevance_score |-> a.relevance_score,
              entity_class    |-> e[k].class_label,
              confidence      |-> e[k].confidence,
              bbox            |-> e[k].bbox]]
  BY <1>1 DEF DetectionsOf, a
<1>4. DOMAIN s = 1 .. Len(e) /\ \A k \in DOMAIN s : s[k].bbox = e[k].bbox
  BY <1>2, <1>3
<1>5. s \in [1 .. Len(e) -> T]
  <2>1. s = [k \in DOMAIN s |-> s[k]]  BY <1>3
  <2> QED  BY <1>4, <2>1
<1> HIDE DEF T
<1>6. s \in Seq(T) /\ Len(s) = Len(e)  BY <1>2, <1>5, FunctionIsSeq
<1> QED  BY <1>2, <1>4, <1>6 DEF T, IsBox

LEMMA AnalyzeKeeps ==
  ASSUME DigestHasFourBytes, ParserInv, Analyze
  PROVE  BoxesAreInThePicture'
<1>1. PICK readable \in {ByBlock({k \in DOMAIN rows : IsReadable(rows[k])})} :
        LET analyses == [k \in DOMAIN readable |->
                           AnalyzeFrame(readable[k], PayloadInImage(readable[k]),
                                        IsKeyRecord(readable[k]))]
        IN  detections' = FlattenSeq([k \in DOMAIN analyses |-> DetectionsOf(analyses[k])])
  BY DEF Analyze
<1>2. readable \in Seq(Row)
  <2> DEFINE P == {k \in DOMAIN rows : IsReadable(rows[k])}
  <2>1. P \in SUBSET (DOMAIN rows)  OBVIOUS
  <2>2. readable = ByBlock(P)  BY <1>1
  <2> HIDE DEF P
  <2> QED  BY <2>1, <2>2, RowsByBlock
<1> DEFINE n == Len(readable)
           Made(k) == DetectionsOf(AnalyzeFrame(readable[k], PayloadInImage(readable[k]),
                                                IsKeyRecord(readable[k])))
           seqs == [k \in 1 .. n |-> Made(k)]
           Parts(k) == {Made(k)[j] : j \in DOMAIN Made(k)}
           T == UNION {Parts(k) : k \in 1 .. n}
<1>3. n \in Nat /\ DOMAIN readable = 1 .. n  BY <1>2, LenProperties
<1>4. detections' = FlattenSeq(seqs)  BY <1>1, <1>3
<1>5. ASSUME NEW k \in 1 .. n
      PROVE  /\ Made(k) \in Seq({Made(k)[j] : j \in DOMAIN Made(k)})
             /\ \A j \in DOMAIN Made(k) : IsInThePicture(Made(k)[j].bbox)
  <2> DEFINE s == Made(k)
             r == readable[k]
  <2>1. r \in Row  BY <1>2, <1>3, LenProperties
  <2>2. s = DetectionsOf(AnalyzeFrame(r, PayloadInImage(r), IsKeyRecord(r)))  OBVIOUS
  <2> HIDE DEF r, s
  <2>3. PayloadInImage(r) \in Seq(Byte)  BY <2>1, PayloadIsBytes
  <2>4. /\ s \in Seq({s[j] : j \in DOMAIN s})
        /\ \A j \in DOMAIN s : IsInThePicture(s[j].bbox)
    BY <2>2, <2>3, DetectionsHaveBoxes
  <2> QED  BY <2>4 DEF s
<1>6. \A k \in 1 .. n : seqs[k] = Made(k)  OBVIOUS
<1> HIDE DEF Made
<1>7. \A d \in T : IsInThePicture(d.bbox)
  <2>1. \A k \in 1 .. n : \A d \in Parts(k) : IsInThePicture(d.bbox)  BY <1>5
  <2> HIDE DEF Parts
  <2> QED  BY <2>1
<1>8. ASSUME NEW k \in 1 .. n PROVE seqs[k] \in Seq(T)
  <2> DEFINE U == Parts(k)
  <2>2. seqs[k] \in Seq(U)  BY <1>5, <1>6
  <2>1. U \subseteq T
    <3> HIDE DEF Parts
    <3> QED  OBVIOUS
  <2> HIDE DEF T, U
  <2>3. /\ seqs[k] \in [1 .. Len(seqs[k]) -> U] /\ Len(seqs[k]) \in Nat
    BY <2>2, LenProperties
  <2>4. seqs[k] \in [1 .. Len(seqs[k]) -> T]  BY <2>1, <2>3
  <2> QED  BY <2>3, <2>4, FunctionIsSeq
<1>9. detections' \in Seq(T)
  <2>1. seqs \in [1 .. n -> Seq(T)]
    <3>1. DOMAIN seqs = 1 .. n /\ seqs = [k \in 1 .. n |-> seqs[k]]  OBVIOUS
    <3> HIDE DEF seqs, T
    <3> QED  BY <1>8, <3>1
  <2> HIDE DEF seqs, T
  <2>2. seqs \in Seq(Seq(T))  BY <1>3, <2>1, FunctionIsSeq
  <2> QED  BY <1>4, <2>2, FlattenType
<1> HIDE DEF T
<1>10. \A k \in DOMAIN detections' : detections'[k] \in T
  <2> DEFINE new == detections'
  <2>1. new \in Seq(T)  BY <1>9
  <2> HIDE DEF new
  <2>2. \A k \in DOMAIN new : new[k] \in T  BY <2>1, LenProperties
  <2> QED  BY <2>2 DEF new
<1> QED  BY <1>7, <1>10 DEF BoxesAreInThePicture, IsInThePicture

(***************************************************************************)
(* A box that is stored lies in the picture and is one, whatever digest of *)
(* four bytes it is made of, also that of a second entity, placed across   *)
(* from the first (analyze_frame, analytics/src/lib.rs:139).               *)
(***************************************************************************)
THEOREM BoxesInThePicture ==
  ASSUME DigestHasFourBytes
  PROVE  Spec => []BoxesAreInThePicture
<1>1. Init => BoxesAreInThePicture
  <2> SUFFICES ASSUME Init PROVE BoxesAreInThePicture
    OBVIOUS
  <2>1. detections = <<>> /\ DOMAIN detections = {}  BY DEF Init
  <2> QED  BY <2>1 DEF BoxesAreInThePicture
<1>2. ParserInv /\ BoxesAreInThePicture /\ [Next]_vars => BoxesAreInThePicture'
  <2> SUFFICES ASSUME ParserInv, BoxesAreInThePicture, [Next]_vars
               PROVE  BoxesAreInThePicture'
    OBVIOUS
  <2>1. CASE Analyze  BY <2>1, AnalyzeKeeps
  <2>2. CASE detections' = detections  BY <2>2 DEF BoxesAreInThePicture
  <2>3. Analyze \/ detections' = detections
    BY DEF Next, vars, examined, Identify, StartParse, ParseBlock, StoreExtraction, StartCarve,
           Carve, StoreCarved, Report
  <2> QED  BY <2>1, <2>2, <2>3
<1> QED  BY <1>1, <1>2, ParserAlways, PTL DEF Spec
----------------------------------------------------------------------------
\* Identification.

LEMMA WeightIs ==
  ASSUME NEW rule, rule.weight \subseteq Int, \A v, w \in rule.weight : v = w
  PROVE  WeightOf(rule) \in Int
<1> DEFINE W == IF rule.weight = {} THEN {80} ELSE rule.weight
<1>1. PICK w \in W : TRUE  OBVIOUS
<1>2. w \in Int /\ \A v \in W : v = w  OBVIOUS
<1>3. W = {w}  BY <1>2
<1>4. WeightOf(rule) = Max({w})
  <2> HIDE DEF W
  <2>1. WeightOf(rule) = Max(W)  BY DEF WeightOf, W
  <2> QED  BY <1>3, <2>1
<1>5. Max({w}) = w
  <2>1. w \in {w} /\ \A y \in {w} : w >= y  BY <1>2
  <2>2. \A x \in {w} : x = w  OBVIOUS
  <2> QED  BY <2>1, <2>2 DEF Max
<1> QED  BY <1>2, <1>4, <1>5

(***************************************************************************)
(* The highest of finitely many numbers, or zero.                          *)
(***************************************************************************)
LEMMA HighestIs ==
  ASSUME NEW n \in Nat, NEW v \in [1 .. n -> Int],
         NEW places \in SUBSET (1 .. n)
  PROVE  LET m == Max({v[k] : k \in places} \cup {0})
         IN  m \in Nat /\ \A k \in places : v[k] <= m
<1> DEFINE B(i) == \E b \in Nat : \A k \in 1 .. i : v[k] <= b
           T == {i \in 0 .. n : ~B(i)}
           all == {v[k] : k \in places} \cup {0}
           S == all \cap Nat
<1>1. T = {}
  <2> SUFFICES ASSUME T # {} PROVE FALSE  OBVIOUS
  <2>1. PICK i \in T : \A j \in T : i <= j
    <3>1. T \in SUBSET Nat  OBVIOUS
    <3> HIDE DEF T
    <3> QED  BY <3>1, Smallest
  <2>2. i # 0
    <3>1. B(0)
      <4>1. \A k \in 1 .. 0 : v[k] <= 0  OBVIOUS
      <4> QED  BY <4>1
    <3> HIDE DEF B
    <3> QED  BY <2>1, <3>1
  <2>3. i - 1 \in 0 .. n /\ ~(i <= i - 1) /\ i \in 1 .. n  BY <2>1, <2>2
  <2>4. B(i - 1)
    <3> HIDE DEF B
    <3> QED  BY <2>1, <2>3
  <2>5. PICK b \in Nat : \A k \in 1 .. i - 1 : v[k] <= b  BY <2>4
  <2> DEFINE c == IF v[i] <= b THEN b ELSE v[i]
  <2>6. c \in Nat /\ b <= c /\ v[i] <= c
    <3> DEFINE x == v[i]
    <3>1. x \in Int  BY <2>3
    <3>2. c = IF x <= b THEN b ELSE x  OBVIOUS
    <3> HIDE DEF x, c
    <3>3. c \in Nat /\ b <= c /\ x <= c  BY <2>5, <3>1, <3>2
    <3> QED  BY <3>3 DEF x
  <2> HIDE DEF c
  <2>7. ASSUME NEW k \in 1 .. i PROVE v[k] <= c
    <3>1. k = i \/ k \in 1 .. i - 1  BY <2>1
    <3>2. k \in 1 .. n  BY <2>1
    <3>3. CASE k = i  BY <2>6, <3>3
    <3>4. CASE k \in 1 .. i - 1
      <4>1. v[k] <= b /\ v[k] \in Int  BY <2>5, <3>2, <3>4
      <4> QED  BY <2>5, <2>6, <4>1
    <3> QED  BY <3>1, <3>3, <3>4
  <2>8. B(i)  BY <2>6, <2>7
  <2> HIDE DEF B
  <2> QED  BY <2>1, <2>8
<1>2. PICK b \in Nat : \A k \in 1 .. n : v[k] <= b
  <2>1. n \in 0 .. n  OBVIOUS
  <2>2. B(n)
    <3> HIDE DEF B
    <3> QED  BY <1>1, <2>1
  <2> QED  BY <2>2
<1>3. S \in SUBSET Nat /\ 0 \in S /\ \A x \in S : x <= b  BY <1>2
<1>4. PICK m \in S : \A y \in S : y <= m
  <2> HIDE DEF S
  <2> QED  BY <1>2, <1>3, Greatest
<1>5. \A y \in all : y \in Int /\ y <= m
  <2>1. m \in Nat  OBVIOUS
  <2>2. \A y \in all : y \in Int  OBVIOUS
  <2>3. \A y \in all : y \in S \/ y < 0  BY <2>2
  <2> HIDE DEF all, S
  <2> QED  BY <1>4, <2>1, <2>2, <2>3
<1>6. m \in all /\ m \in Nat  OBVIOUS
<1>7. Max(all) = m
  <2> HIDE DEF all, S
  <2>1. \A y \in all : m >= y  BY <1>5, <1>6
  <2>2. \A x \in all : (\A y \in all : x >= y) => x = m  BY <1>5, <1>6
  <2> QED  BY <1>6, <2>1, <2>2 DEF Max
<1> QED  BY <1>5, <1>6, <1>7

(***************************************************************************)
(* A grammar of which a rule of weight 90 or more matches is a candidate   *)
(* of so much confidence; one of which none matches is none.               *)
(***************************************************************************)
LEMMA GrammarCandidateIs ==
  ASSUME NEW g, IsGrammar(g), NEW probe
  PROVE  /\ (\A r \in DOMAIN g.rules : ~HasBytes(probe, g.rules[r])) =>
              GrammarCandidate(g, probe) = <<>>
         /\ (\E r \in DOMAIN g.rules : HasBytes(probe, g.rules[r]) /\ WeightOf(g.rules[r]) >= 90) =>
              \E c \in 90 .. 99 : GrammarCandidate(g, probe) = <<Candidate(g.id, g.tier, c)>>
<1> DEFINE matched == {k \in DOMAIN g.rules : HasBytes(probe, g.rules[k])}
           v(k) == WeightOf(g.rules[k])
           n == Len(g.rules)
           weight == Max({v(k) : k \in matched} \cup {0})
           card == Cardinality(matched)
           bonus == Min({8, 4 * (card - 1)})
           by_rules == Capped(weight + bonus)
           sure == IF \E magic \in g.superblock : HasBytes(probe, magic)
                   THEN Capped(by_rules + 2) ELSE by_rules
<1>1. GrammarCandidate(g, probe)
        = IF matched = {} THEN <<>> ELSE <<Candidate(g.id, g.tier, sure)>>
  <2> HIDE DEF Capped, Candidate
  <2> QED  BY DEF GrammarCandidate
<1>2. (\A r \in DOMAIN g.rules : ~HasBytes(probe, g.rules[r])) => matched = {}
  OBVIOUS
<1>3. ASSUME NEW r \in DOMAIN g.rules, HasBytes(probe, g.rules[r]), v(r) >= 90
      PROVE  \E c \in 90 .. 99 : GrammarCandidate(g, probe) = <<Candidate(g.id, g.tier, c)>>
  <2>1. n \in Nat /\ DOMAIN g.rules = 1 .. n  BY DEF IsGrammar
  <2>2. \A k \in 1 .. n : v(k) \in Int
    <3> SUFFICES ASSUME NEW k \in 1 .. n PROVE v(k) \in Int  OBVIOUS
    <3> DEFINE rule == g.rules[k]
    <3>1. rule.weight \subseteq Int /\ \A x, y \in rule.weight : x = y
      BY <2>1 DEF IsGrammar
    <3> HIDE DEF rule
    <3>2. WeightOf(rule) \in Int  BY <3>1, WeightIs
    <3> QED  BY <3>2 DEF rule
  <2>3. matched \in SUBSET (1 .. n) /\ r \in matched  BY <1>3, <2>1
  <2> HIDE DEF v, n, matched
  <2>4. weight \in Nat /\ \A k \in matched : v(k) <= weight
    <3> DEFINE f == [k \in 1 .. n |-> v(k)]
               m == Max({f[k] : k \in matched} \cup {0})
    <3>1. f \in [1 .. n -> Int] /\ \A k \in matched : f[k] = v(k)  BY <2>2, <2>3
    <3>2. {f[k] : k \in matched} = {v(k) : k \in matched}
      <4> HIDE DEF f
      <4> QED  BY <3>1
    <3>3. weight = m
      <4> HIDE DEF f
      <4> QED  BY <3>2
    <3> HIDE DEF f, weight
    <3>4. m \in Nat /\ \A k \in matched : f[k] <= m  BY <2>1, <2>3, <3>1, HighestIs
    <3> QED  BY <3>1, <3>3, <3>4
  <2>5. v(r) \in Int /\ v(r) >= 90 /\ v(r) <= weight
    <3>1. r \in 1 .. n  BY <2>3
    <3> QED  BY <1>3, <2>2, <2>3, <2>4, <3>1
  <2> HIDE DEF weight
  <2>6. card \in Nat /\ card >= 1
    <3>1. IsFiniteSet(matched) /\ card \in Nat  BY <2>1, <2>3, PlacesAreFinite
    <3>2. card # 0  BY <2>3, <3>1, FS_EmptySet
    <3> QED  BY <3>1, <3>2
  <2> HIDE DEF card
  <2>7. bonus \in Nat
    <3> DEFINE more == 4 * (card - 1)
    <3>1. more \in Nat  BY <2>6
    <3> HIDE DEF more
    <3>2. Min({8, more}) = IF 8 <= more THEN 8 ELSE more  BY <3>1, MinOfTwo
    <3> QED  BY <3>1, <3>2 DEF more
  <2> HIDE DEF bonus
  <2>8. by_rules \in 90 .. 99
    <3> DEFINE w == weight + bonus
    <3>1. w \in Nat /\ w >= 90  BY <2>4, <2>5, <2>7
    <3> HIDE DEF w
    <3>2. Capped(w) = IF 99 <= w THEN 99 ELSE w  BY <3>1, MinOfTwo DEF Capped
    <3>3. Capped(w) \in 90 .. 99  BY <3>1, <3>2
    <3> QED  BY <3>3 DEF w
  <2> HIDE DEF by_rules
  <2>9. sure \in 90 .. 99
    <3> DEFINE w == by_rules + 2
    <3>1. w \in Nat /\ w >= 90  BY <2>8
    <3> HIDE DEF w
    <3>2. Capped(w) = IF 99 <= w THEN 99 ELSE w  BY <3>1, MinOfTwo DEF Capped
    <3>3. Capped(w) \in 90 .. 99  BY <3>1, <3>2
    <3> QED  BY <2>8, <3>3 DEF w
  <2> HIDE DEF sure
  <2>10. GrammarCandidate(g, probe) = <<Candidate(g.id, g.tier, sure)>>  BY <1>1, <2>3
  <2> QED  BY <2>9, <2>10
<1>4. \A r \in DOMAIN g.rules : v(r) = WeightOf(g.rules[r])  OBVIOUS
<1>5. matched = {} => GrammarCandidate(g, probe) = <<>>
  <2> HIDE DEF sure, matched
  <2> QED  BY <1>1
<1> HIDE DEF v, matched
<1> QED  BY <1>2, <1>3, <1>4, <1>5

(***************************************************************************)
(* Of sequences that are all empty but one, that one is left.              *)
(***************************************************************************)
LEMMA FlattenOne ==
  ASSUME NEW T, NEW seqs \in Seq(Seq(T)), NEW k \in 1 .. Len(seqs),
         \A i \in 1 .. Len(seqs) : i # k => seqs[i] = <<>>
  PROVE  FlattenSeq(seqs) = seqs[k]
<1> DEFINE n == Len(seqs)
           Right(f, i) == f[i] = IF i < k THEN <<>> ELSE seqs[k]
<1>0. n \in Nat \ {0} /\ Len(seqs) = n /\ k \in 1 .. n /\ \A i \in 1 .. n : seqs[i] \in Seq(T)
  BY LenProperties
<1> HIDE DEF n
<1>1. PICK f : Joins(seqs, n, f) /\ FlattenSeq(seqs) = f[n]  BY <1>0, FlattenIs
<1>2. f[1] = seqs[1] /\ \A i \in 2 .. n : f[i] = f[i - 1] \o seqs[i]
  <2>1. n \in Nat \ {0} /\ Joins(seqs, n, f)  BY <1>0, <1>1
  <2> HIDE DEF Right
  <2> QED  BY <2>1, JoinsAre
<1> DEFINE Wrong == {i \in 1 .. n : ~Right(f, i)}
<1>3. Wrong = {}
  <2> SUFFICES ASSUME Wrong # {} PROVE FALSE  OBVIOUS
  <2>1. PICK i \in Wrong : \A j \in Wrong : i <= j
    <3>1. Wrong \in SUBSET Nat  OBVIOUS
    <3> HIDE DEF Wrong
    <3> QED  BY <3>1, Smallest
  <2>2. i # 1
    <3>1. 1 \in 1 .. n  BY <1>0
    <3>2. Right(f, 1)  BY <1>0, <1>2, <3>1
    <3> HIDE DEF Right
    <3> QED  BY <2>1, <3>2
  <2>3. i \in 2 .. n /\ i - 1 \in 1 .. n /\ ~(i <= i - 1) /\ i \in 1 .. n  BY <1>0, <2>1, <2>2
  <2>4. Right(f, i - 1)
    <3> HIDE DEF Right
    <3> QED  BY <2>1, <2>3
  <2>5. f[i] = f[i - 1] \o seqs[i]  BY <1>2, <2>3
  <2>6. seqs[k] \in Seq(T)  BY <1>0
  <2>7. Right(f, i)
    <3>1. CASE i < k
      <4>1. f[i - 1] = <<>> /\ seqs[i] = <<>>  BY <1>0, <2>3, <2>4, <3>1
      <4> QED  BY <2>5, <3>1, <4>1
    <3>2. CASE i = k
      <4>1. f[i - 1] = <<>>  BY <1>0, <2>3, <2>4, <3>2
      <4>2. <<>> \o seqs[k] = seqs[k]  BY <2>6, ConcatEmptySeq
      <4> QED  BY <2>5, <3>2, <4>1, <4>2
    <3>3. CASE i > k
      <4>1. f[i - 1] = seqs[k] /\ seqs[i] = <<>>  BY <1>0, <2>3, <2>4, <3>3
      <4>2. seqs[k] \o <<>> = seqs[k]  BY <2>6, ConcatEmptySeq
      <4> QED  BY <1>0, <2>3, <2>5, <3>3, <4>1, <4>2
    <3> QED  BY <1>0, <2>3, <3>1, <3>2, <3>3
  <2> HIDE DEF Right
  <2> QED  BY <2>1, <2>7
<1>4. Right(f, n)
  <2>1. n \in 1 .. n  BY <1>0
  <2> HIDE DEF Right
  <2> QED  BY <1>3, <2>1
<1> QED  BY <1>0, <1>1, <1>4
(***************************************************************************)
(* What the container and stream formats can say of an image that is no    *)
(* branded MP4: a candidate of tier 3, and at most 99 of a hundred sure.   *)
(***************************************************************************)
Formats ==
  {"dahua-v1", "cctv-avi", "cctv-mkv", "h265-stream", "h264-stream", "mpegts-stream",
   "standard-ntfs", "standard-fat32", "standard-ext4", "image-png", "image-jpeg"}

Weak == {Candidate(id, 3, confidence) : id \in Formats, confidence \in 0 .. 99}

LEMMA OneIsWeak ==
  ASSUME NEW id \in Formats, NEW confidence \in 0 .. 99
  PROVE  <<Candidate(id, 3, confidence)>> \in Seq(Weak)
<1>1. Candidate(id, 3, confidence) \in Weak  BY DEF Weak
<1> HIDE DEF Weak
<1> QED  BY <1>1

LEMMA KnownIsWeak ==
  ASSUME NEW id \in Formats, NEW confidence \in 0 .. 99, NEW marks, NEW mark
  PROVE  Known(marks, mark, id, confidence) \in Seq(Weak)
<1>1. <<Candidate(id, 3, confidence)>> \in Seq(Weak)  BY OneIsWeak
<1>2. <<>> \in Seq(Weak)  OBVIOUS
<1> QED  BY <1>1, <1>2 DEF Known

LEMMA StreamIsWeak ==
  ASSUME NEW probe
  PROVE  Stream(probe) \in Seq(Weak)
<1> DEFINE place == StreamHeader(probe)
           byte == probe[place]
           hevc == (byte \div 2) % 64 \in 32 .. 34 /\ place < Len(probe)
           avc == byte % 32 \in {1, 5, 6, 7, 8, 9}
           none == place = 0 \/ byte >= 128
<1>1. Stream(probe) = IF none THEN <<>>
                      ELSE IF hevc THEN <<Candidate("h265-stream", 3, 92)>>
                      ELSE IF avc THEN <<Candidate("h264-stream", 3, 92)>>
                      ELSE <<>>
  BY DEF Stream
<1> HIDE DEF hevc, avc, none
<1>2. "h265-stream" \in Formats /\ "h264-stream" \in Formats /\ 92 \in 0 .. 99
  BY DEF Formats
<1>3. /\ <<Candidate("h265-stream", 3, 92)>> \in Seq(Weak)
      /\ <<Candidate("h264-stream", 3, 92)>> \in Seq(Weak)
  BY <1>2, OneIsWeak
<1>4. <<>> \in Seq(Weak)  OBVIOUS
<1> QED  BY <1>1, <1>3, <1>4

LEMMA ContainerIsWeak ==
  ASSUME NEW marks, "ftyp" \notin marks, NEW probe
  PROVE  \/ ContainerCandidate(marks, probe) = <<>>
         \/ \E x \in Weak : ContainerCandidate(marks, probe) = <<x>>
<1> DEFINE a == Mp4(marks)
           b == Known(marks, "DHAV", "dahua-v1", 90)
           c == Known(marks, "AVI", "cctv-avi", 92)
           d == Known(marks, "EBML", "cctv-mkv", 92)
           e == Stream(probe)
           f == Known(marks, "MPEG-TS", "mpegts-stream", 88)
           g == Filesystem(marks)
           h == Picture(marks)
           found == a \o b \o c \o d \o e \o f \o g \o h
           short == Len(probe) < 12
<1>1. ContainerCandidate(marks, probe) = IF short \/ found = <<>> THEN <<>> ELSE <<found[1]>>
  BY DEF ContainerCandidate
<1>2. a = <<>>  BY DEF Mp4
<1>3. /\ b \in Seq(Weak) /\ c \in Seq(Weak) /\ d \in Seq(Weak)
      /\ f \in Seq(Weak)
  <2>1. /\ "dahua-v1" \in Formats /\ "cctv-avi" \in Formats /\ "cctv-mkv" \in Formats
        /\ "mpegts-stream" \in Formats
        /\ 90 \in 0 .. 99 /\ 92 \in 0 .. 99 /\ 88 \in 0 .. 99
    BY DEF Formats
  <2>2. b \in Seq(Weak)  BY <2>1, KnownIsWeak
  <2>3. c \in Seq(Weak)  BY <2>1, KnownIsWeak
  <2>4. d \in Seq(Weak)  BY <2>1, KnownIsWeak
  <2>5. f \in Seq(Weak)  BY <2>1, KnownIsWeak
  <2> QED  BY <2>2, <2>3, <2>4, <2>5
<1>4. e \in Seq(Weak)  BY StreamIsWeak
<1>5. g \in Seq(Weak)
  <2> DEFINE p == Known(marks, "NTFS", "standard-ntfs", 85)
             q == Known(marks, "FAT32", "standard-fat32", 85)
             r == Known(marks, "ext4", "standard-ext4", 85)
  <2>1. /\ "standard-ntfs" \in Formats /\ "standard-fat32" \in Formats
        /\ "standard-ext4" \in Formats /\ 85 \in 0 .. 99
    BY DEF Formats
  <2>2. p \in Seq(Weak)  BY <2>1, KnownIsWeak
  <2>3. q \in Seq(Weak)  BY <2>1, KnownIsWeak
  <2>4. r \in Seq(Weak)  BY <2>1, KnownIsWeak
  <2>5. g = p \o q \o r  BY DEF Filesystem
  <2> HIDE DEF p, q, r
  <2> QED  BY <2>2, <2>3, <2>4, <2>5, ConcatProperties
<1>6. h \in Seq(Weak)
  <2> DEFINE p == Known(marks, "PNG", "image-png", 99)
             q == Known(marks, "JPEG", "image-jpeg", 99)
  <2>1. "image-png" \in Formats /\ "image-jpeg" \in Formats /\ 99 \in 0 .. 99
    BY DEF Formats
  <2>2. p \in Seq(Weak)  BY <2>1, KnownIsWeak
  <2>3. q \in Seq(Weak)  BY <2>1, KnownIsWeak
  <2>4. h = p \o q  BY DEF Picture
  <2> HIDE DEF p, q
  <2> QED  BY <2>2, <2>3, <2>4, ConcatProperties
<1>7. found \in Seq(Weak)
  <2>1. a \in Seq(Weak)  BY <1>2
  <2> HIDE DEF a, b, c, d, e, f, g, h
  <2>2. a \o b \in Seq(Weak)  BY <1>3, <2>1, ConcatProperties
  <2>3. a \o b \o c \in Seq(Weak)  BY <1>3, <2>2, ConcatProperties
  <2>4. a \o b \o c \o d \in Seq(Weak)  BY <1>3, <2>3, ConcatProperties
  <2>5. a \o b \o c \o d \o e \in Seq(Weak)  BY <1>4, <2>4, ConcatProperties
  <2>6. a \o b \o c \o d \o e \o f \in Seq(Weak)  BY <1>3, <2>5, ConcatProperties
  <2>7. a \o b \o c \o d \o e \o f \o g \in Seq(Weak)  BY <1>5, <2>6, ConcatProperties
  <2> QED  BY <1>6, <2>7, ConcatProperties
<1> HIDE DEF found, short
<1>8. found # <<>> => found[1] \in Weak
  <2> HIDE DEF Weak
  <2> QED  BY <1>7, EmptySeq, LenProperties
<1> QED  BY <1>1, <1>8
(***************************************************************************)
(* The candidate at the first place is the only answer if its score is     *)
(* above that of all others.                                               *)
(***************************************************************************)
LEMMA BestIsFirst ==
  ASSUME NEW list, 1 \in DOMAIN list, DOMAIN list \subseteq Nat \ {0},
         \A l \in DOMAIN list : Score(list[l]) \in Int,
         \A l \in DOMAIN list : l # 1 => Score(list[l]) < Score(list[1])
  PROVE  Best(list) = {list[1]}
<1> DEFINE Alike(k, l) == /\ list[k].tier = list[l].tier
                          /\ list[k].confidence = list[l].confidence
           First(k) == \A l \in DOMAIN list :
                         /\ Score(list[l]) <= Score(list[k])
                         /\ Alike(k, l) => k <= l
           places == {k \in DOMAIN list : First(k)}
<1>1. Best(list) = {list[k] : k \in places}
  <2> HIDE DEF Score
  <2> QED  BY DEF Best
<1>2. First(1)
  <2> SUFFICES ASSUME NEW l \in DOMAIN list
               PROVE  Score(list[l]) <= Score(list[1]) /\ (Alike(1, l) => 1 <= l)
    OBVIOUS
  <2>1. l \in Nat /\ 1 <= l  OBVIOUS
  <2>2. Score(list[l]) <= Score(list[1])
    <3>1. CASE l = 1  BY <3>1
    <3>2. CASE l # 1  BY <3>2
    <3> QED  BY <3>1, <3>2
  <2> HIDE DEF Alike
  <2> QED  BY <2>1, <2>2
<1>3. \A k \in DOMAIN list : First(k) => k = 1
  <2> SUFFICES ASSUME NEW k \in DOMAIN list, First(k), k # 1 PROVE FALSE  OBVIOUS
  <2>1. Score(list[1]) <= Score(list[k])  OBVIOUS
  <2>2. Score(list[k]) < Score(list[1])  OBVIOUS
  <2> QED  BY <2>1, <2>2
<1>4. places = {1}
  <2> HIDE DEF First
  <2> QED  BY <1>2, <1>3
<1> HIDE DEF places
<1> QED  BY <1>1, <1>4

LEMMA WeakScore ==
  ASSUME NEW x \in Weak
  PROVE  Score(x) \in 0 .. 99
<1>1. x.tier = 3 /\ x.confidence \in 0 .. 99  BY DEF Weak, Candidate
<1>2. Score(x) = x.confidence + 0  BY <1>1 DEF Score
<1> QED  BY <1>1, <1>2

LEMMA StrongScore ==
  ASSUME NEW id, NEW tier \in {1, 2}, NEW confidence \in 90 .. 99
  PROVE  Score(Candidate(id, tier, confidence)) \in 105 .. 119
<1> DEFINE x == Candidate(id, tier, confidence)
<1>1. x.tier = tier /\ x.confidence = confidence  BY DEF Candidate
<1> HIDE DEF x
<1>2. CASE tier = 1
  <2>1. Score(x) = confidence + 20  BY <1>1, <1>2 DEF Score
  <2> QED  BY <2>1 DEF x
<1>3. CASE tier = 2
  <2>1. Score(x) = confidence + 15  BY <1>1, <1>3 DEF Score
  <2> QED  BY <2>1 DEF x
<1> QED  BY <1>2, <1>3

(***************************************************************************)
(* What the property assumes: the image shows the rules of one grammar of  *)
(* a directory only, at a weight of 90 or more.                            *)
(***************************************************************************)
IsSignalled(directory, k, probe) ==
  /\ Len(directory) \in Nat /\ DOMAIN directory = 1 .. Len(directory)
  /\ \A i \in DOMAIN directory : IsGrammar(directory[i])
  /\ {i \in DOMAIN directory :
        \E r \in DOMAIN directory[i].rules : HasBytes(probe, directory[i].rules[r])} = {k}
  /\ directory[k].tier \in {1, 2}
  /\ \E r \in DOMAIN directory[k].rules :
       HasBytes(probe, directory[k].rules[r]) /\ WeightOf(directory[k].rules[r]) >= 90

LEMMA DirectoryNames ==
  ASSUME NEW directory, NEW k, NEW probe, IsSignalled(directory, k, probe)
  PROVE  \E c \in 90 .. 99 :
           FlattenSeq([i \in DOMAIN directory |-> GrammarCandidate(directory[i], probe)])
             = <<Candidate(directory[k].id, directory[k].tier, c)>>
<1> DEFINE n == Len(directory)
           G(i) == GrammarCandidate(directory[i], probe)
           Shows(i) == \E r \in DOMAIN directory[i].rules : HasBytes(probe, directory[i].rules[r])
           seqs == [i \in DOMAIN directory |-> G(i)]
<1>1. /\ n \in Nat /\ DOMAIN directory = 1 .. n /\ k \in 1 .. n
      /\ \A i \in 1 .. n : IsGrammar(directory[i]) /\ (Shows(i) => i = k)
  BY DEF IsSignalled
<1>2. ASSUME NEW i \in 1 .. n, i # k PROVE G(i) = <<>>
  <2> DEFINE g == directory[i]
  <2>1. IsGrammar(g) /\ \A r \in DOMAIN g.rules : ~HasBytes(probe, g.rules[r])
    BY <1>1, <1>2
  <2> HIDE DEF g
  <2>2. GrammarCandidate(g, probe) = <<>>  BY <2>1, GrammarCandidateIs
  <2> QED  BY <2>2 DEF g
<1>3. PICK c \in 90 .. 99 : G(k) = <<Candidate(directory[k].id, directory[k].tier, c)>>
  <2> DEFINE g == directory[k]
  <2>1. /\ IsGrammar(g)
        /\ \E r \in DOMAIN g.rules : HasBytes(probe, g.rules[r]) /\ WeightOf(g.rules[r]) >= 90
    BY <1>1 DEF IsSignalled
  <2> HIDE DEF g
  <2>2. \E c \in 90 .. 99 : GrammarCandidate(g, probe) = <<Candidate(g.id, g.tier, c)>>
    BY <2>1, GrammarCandidateIs
  <2> QED  BY <2>2 DEF g
<1> DEFINE candidate == Candidate(directory[k].id, directory[k].tier, c)
<1>4. FlattenSeq(seqs) = G(k)
  <2> DEFINE T == {candidate}
  <2>1. \A i \in 1 .. n : G(i) \in Seq(T)
    <3> SUFFICES ASSUME NEW i \in 1 .. n PROVE G(i) \in Seq(T)  OBVIOUS
    <3>1. <<>> \in Seq(T)  OBVIOUS
    <3>2. <<candidate>> \in Seq(T)
      <4> HIDE DEF candidate
      <4> QED  OBVIOUS
    <3>3. CASE i = k  BY <1>3, <3>2, <3>3
    <3>4. CASE i # k  BY <1>2, <3>1, <3>4
    <3> QED  BY <3>3, <3>4
  <2>2. \A i \in 1 .. n : seqs[i] = G(i)  BY <1>1
  <2>3. seqs = [i \in 1 .. n |-> G(i)]  BY <1>1
  <2> HIDE DEF T, G, candidate, n
  <2>4. seqs \in [1 .. n -> Seq(T)]  BY <2>1, <2>3
  <2> HIDE DEF seqs
  <2>5. seqs \in Seq(Seq(T)) /\ Len(seqs) = n  BY <1>1, <2>4, FunctionIsSeq
  <2>6. \A i \in 1 .. Len(seqs) : i # k => seqs[i] = <<>>  BY <1>2, <2>2, <2>5
  <2>7. k \in 1 .. Len(seqs)  BY <1>1, <2>5
  <2>8. FlattenSeq(seqs) = seqs[k]  BY <2>5, <2>6, <2>7, FlattenOne
  <2> QED  BY <1>1, <2>2, <2>8
<1>5. FlattenSeq(seqs) = <<Candidate(directory[k].id, directory[k].tier, c)>>
  BY <1>3, <1>4
<1> QED  BY <1>5
LEMMA IdentifiesIt ==
  ASSUME NEW directory, NEW k, NEW probe, IsSignalled(directory, k, probe), probe # <<>>,
         NEW marks, "ftyp" \notin marks,
         NEW answer \in IdentifyDevice(directory, <<>>, marks, probe)
  PROVE  answer.grammar = {directory[k].id} /\ answer.tier = directory[k].tier
<1> DEFINE tier == directory[k].tier
           id == directory[k].id
           A == FlattenSeq([i \in DOMAIN directory |-> GrammarCandidate(directory[i], probe)])
           none == <<>>
           B == FlattenSeq([i \in DOMAIN none |-> VendorCandidate(none[i], probe)])
           C == ContainerCandidate(marks, probe)
           list == A \o B \o C
           Answer(best) == IF best.confidence >= 50 THEN best ELSE Unrecognized
<1>1. IdentifyDevice(directory, <<>>, marks, probe)
        = IF probe = <<>> \/ list = <<>> THEN {Unrecognized}
          ELSE {Answer(best) : best \in Best(list)}
  BY DEF IdentifyDevice
<1>2. PICK c \in 90 .. 99 : A = <<Candidate(id, tier, c)>>  BY DirectoryNames
<1> DEFINE x == Candidate(id, tier, c)
<1>3. B = <<>>
  <2> DEFINE seqs == [i \in DOMAIN none |-> VendorCandidate(none[i], probe)]
  <2>1. seqs = <<>>  OBVIOUS
  <2> HIDE DEF seqs
  <2>2. FlattenSeq(seqs) = <<>>  BY <2>1 DEF FlattenSeq
  <2> QED  BY <2>2 DEF seqs
<1>4. C = <<>> \/ \E y \in Weak : C = <<y>>  BY ContainerIsWeak
<1>5. tier \in {1, 2}  BY DEF IsSignalled
<1>6. Score(x) \in 105 .. 119  BY <1>5, StrongScore
<1>7. x.grammar = {id} /\ x.tier = tier /\ x.confidence = c  BY DEF Candidate
<1> HIDE DEF x, tier, id
<1>8. /\ list # <<>> /\ 1 \in DOMAIN list /\ DOMAIN list \subseteq Nat \ {0} /\ list[1] = x
      /\ \A l \in DOMAIN list : l # 1 => list[l] \in Weak
  <2>1. A = <<x>>  BY <1>2 DEF x
  <2>2. CASE C = <<>>
    <3>1. list = <<x>>
      <4> HIDE DEF A, B, C
      <4> QED  BY <1>3, <2>1, <2>2
    <3> HIDE DEF list
    <3> QED  BY <3>1
  <2>3. ASSUME NEW y \in Weak, C = <<y>>
        PROVE  /\ list # <<>> /\ 1 \in DOMAIN list /\ DOMAIN list \subseteq Nat \ {0}
               /\ list[1] = x
               /\ \A l \in DOMAIN list : l # 1 => list[l] \in Weak
    <3>1. list = <<x>> \o <<y>>
      <4>1. list = <<x>> \o <<>> \o <<y>>  BY <1>3, <2>1, <2>3
      <4> HIDE DEF list
      <4>2. <<x>> \o <<>> = <<x>>  OBVIOUS
      <4> QED  BY <4>1, <4>2
    <3> DEFINE T == {x, y}
               s == <<x>>
               t == <<y>>
    <3>2. s \in Seq(T) /\ t \in Seq(T) /\ Len(s) = 1 /\ Len(t) = 1 /\ s[1] = x /\ t[1] = y
      OBVIOUS
    <3>3. list = s \o t  BY <3>1
    <3> HIDE DEF list, Weak, T, s, t
    <3>4. list \in Seq(T) /\ Len(list) = 2  BY <3>2, <3>3, ConcatProperties
    <3>5. \A l \in 1 .. 2 : list[l] = IF l <= 1 THEN s[l] ELSE t[l - 1]
      BY <3>2, <3>3, ConcatProperties
    <3>6. DOMAIN list = 1 .. 2 /\ list # <<>>  BY <3>4, LenProperties
    <3>7. list[1] = x /\ list[2] = y  BY <3>2, <3>5
    <3>8. \A l \in 1 .. 2 : l = 1 \/ l = 2  OBVIOUS
    <3> QED  BY <3>6, <3>7, <3>8
  <2> QED  BY <1>4, <2>2, <2>3
<1> HIDE DEF list
<1>9. Best(list) = {x}
  <2>1. \A l \in DOMAIN list : l # 1 => Score(list[l]) \in 0 .. 99
    BY <1>8, WeakScore
  <2>2. Score(list[1]) \in 105 .. 119  BY <1>6, <1>8
  <2> DEFINE s(l) == Score(list[l])
  <2>3. /\ \A l \in DOMAIN list : l # 1 => s(l) \in 0 .. 99
        /\ s(1) \in 105 .. 119
    BY <2>1, <2>2
  <2> HIDE DEF s
  <2>4. /\ \A l \in DOMAIN list : s(l) \in Int
        /\ \A l \in DOMAIN list : l # 1 => s(l) < s(1)
    <3>1. s(1) \in Int  BY <2>3
    <3> SUFFICES ASSUME NEW l \in DOMAIN list
                 PROVE  s(l) \in Int /\ (l # 1 => s(l) < s(1))
      OBVIOUS
    <3>2. CASE l = 1  BY <3>1, <3>2
    <3>3. CASE l # 1
      <4> DEFINE u == s(l)
                 w == s(1)
      <4>1. u \in 0 .. 99 /\ w \in 105 .. 119  BY <2>3, <3>3
      <4> HIDE DEF u, w
      <4>2. u \in Int /\ u < w  BY <4>1
      <4> QED  BY <4>2 DEF u, w
    <3> QED  BY <3>2, <3>3
  <2>5. Best(list) = {list[1]}  BY <1>8, <2>4, BestIsFirst DEF s
  <2> QED  BY <1>8, <2>5
<1>10. Answer(x) = x
  <2>1. x.confidence >= 50  BY <1>2, <1>7
  <2> QED  BY <2>1
<1>11. answer = x
  <2> HIDE DEF Answer
  <2>1. answer \in {Answer(best) : best \in Best(list)}  BY <1>1, <1>8
  <2> QED  BY <1>9, <1>10, <2>1
<1> QED  BY <1>7, <1>11 DEF tier, id

LEMMA DetectsIt ==
  ASSUME NEW directory, NEW k, NEW probe, IsSignalled(directory, k, probe)
  PROVE  DetectGrammar(directory, probe) \subseteq {directory[k]}
<1> DEFINE matching == {i \in DOMAIN directory : MatchesGrammar(directory[i], probe)}
           Precedes(i, j) == \/ Outranks(directory[i], directory[j])
                             \/ ~Outranks(directory[j], directory[i]) /\ i < j
           top == {i \in matching : \A j \in matching \ {i} : Precedes(i, j)}
<1>1. DetectGrammar(directory, probe) = {directory[i] : i \in top}  BY DEF DetectGrammar
<1>2. ASSUME NEW i \in matching PROVE i = k
  <2> DEFINE g == directory[i]
  <2>1. i \in DOMAIN directory /\ MatchesGrammar(g, probe) /\ IsGrammar(g)
    BY DEF IsSignalled
  <2>2. \E r \in DOMAIN g.rules : HasBytes(probe, g.rules[r])
    <3> HIDE DEF g
    <3>1. 1 \in DOMAIN g.rules  BY <2>1 DEF MatchesGrammar, IsGrammar
    <3> QED  BY <2>1, <3>1 DEF MatchesGrammar
  <2> QED  BY <2>1, <2>2 DEF IsSignalled
<1>3. \A i \in top : i = k  BY <1>2
<1> HIDE DEF top
<1> QED  BY <1>1, <1>3

\* What identify has said of the image, and parse found, they found in the
\* directory that is given.
FoundInTheDirectory ==
  \A directory, registry, marks, probe :
    /\ directory = given.directory /\ registry = given.registry
    /\ marks = given.marks /\ probe = Probe
    => /\ phase # "new" => identified \in IdentifyDevice(directory, registry, marks, probe)
       /\ phase = "parse" => grammar # {} /\ grammar = DetectGrammar(directory, probe)

LEMMA FoundAlways == Spec => []FoundInTheDirectory
<1>1. Init => FoundInTheDirectory
  BY DEF Init, FoundInTheDirectory
<1>2. FoundInTheDirectory /\ [Next]_vars => FoundInTheDirectory'
  <2> SUFFICES ASSUME FoundInTheDirectory, [Next]_vars
               PROVE  FoundInTheDirectory'
    OBVIOUS
  <2>1. given' = given /\ file' = file
    BY DEF Next, vars, evidence, examined, Identify, StartParse, ParseBlock, StoreExtraction,
           StartCarve, Carve, StoreCarved, Analyze, Report, CarveBlock
  <2>2. Probe' = Probe  BY <2>1 DEF Probe, Min
  <2> SUFFICES ASSUME NEW directory, NEW registry, NEW marks, NEW probe,
                      directory = given.directory, registry = given.registry,
                      marks = given.marks, probe = Probe
               PROVE  /\ phase' # "new" =>
                           identified' \in IdentifyDevice(directory, registry, marks, probe)
                      /\ phase' = "parse" =>
                           grammar' # {} /\ grammar' = DetectGrammar(directory, probe)
    BY <2>1, <2>2 DEF FoundInTheDirectory
  <2>3. /\ phase # "new" => identified \in IdentifyDevice(directory, registry, marks, probe)
        /\ phase = "parse" => grammar # {} /\ grammar = DetectGrammar(directory, probe)
    BY DEF FoundInTheDirectory
  <2>4. CASE Identify
    <3>1. /\ phase' = "ready"
          /\ identified' \in IdentifyDevice(given.directory, given.registry, given.marks, Probe)
      BY <2>4 DEF Identify
    <3> QED  BY <3>1
  <2>5. CASE StartParse
    <3>1. /\ phase = "ready" /\ identified' = identified
          /\ grammar' = DetectGrammar(given.directory, Probe)
          /\ phase' = IF grammar' = {} THEN "ready" ELSE "parse"
      BY <2>5 DEF StartParse
    <3> QED  BY <2>3, <3>1
  <2> DEFINE Kept == /\ identified' = identified /\ grammar' = grammar
                     /\ phase' = phase \/ (phase # "new" /\ phase' # "parse")
  <2>6. CASE Kept  BY <2>3, <2>6
  <2>7. CASE ParseBlock
    <3>1. identified' = identified /\ grammar' = grammar /\ phase = "parse"
      BY <2>7 DEF ParseBlock
    <3>2. phase' = "ready" \/ phase' = phase  BY <2>7 DEF ParseBlock
    <3> QED  BY <2>6, <3>1, <3>2
  <2>8. CASE StoreExtraction \/ StartCarve \/ Carve \/ StoreCarved \/ Analyze \/ Report
    <3>1. identified' = identified /\ grammar' = grammar
      BY <2>8 DEF parser, StoreExtraction, StartCarve, Carve, StoreCarved, Analyze, Report
    <3>2. phase' = phase \/ (phase # "new" /\ phase' # "parse")
      <4>1. CASE StoreExtraction  BY <4>1 DEF StoreExtraction
      <4>2. CASE StartCarve  BY <4>2 DEF StartCarve
      <4>3. CASE Carve  BY <4>3 DEF Carve
      <4>4. CASE StoreCarved  BY <4>4 DEF StoreCarved
      <4>5. CASE Analyze  BY <4>5 DEF Analyze
      <4>6. CASE Report  BY <4>6 DEF Report
      <4> QED  BY <2>8, <4>1, <4>2, <4>3, <4>4, <4>5, <4>6
    <3> QED  BY <2>6, <3>1, <3>2
  <2>9. CASE UNCHANGED vars  BY <2>6, <2>9 DEF vars, parser
  <2> QED  BY <2>4, <2>5, <2>7, <2>8, <2>9 DEF Next
<1> QED  BY <1>1, <1>2, PTL DEF Spec

(***************************************************************************)
(* An image that shows one grammar's rules is named after it by identify,  *)
(* whatever else the bytes look like, and read with it by parse.           *)
(* (identify_device, identify/src/lib.rs; detect_grammar,                  *)
(* parser/src/detect.rs.)                                                  *)
(***************************************************************************)
THEOREM IdentifyNamesWhatParseReads == Spec => []IdentifyAndParseAgree
<1>1. ParserInv /\ FoundInTheDirectory => IdentifyAndParseAgree
  <2> SUFFICES ASSUME ParserInv, FoundInTheDirectory,
                      NEW k \in DOMAIN given.directory,
                      Probe # <<>>, Signalled = {k},
                      given.directory[k].tier \in {1, 2},
                      \E r \in DOMAIN given.directory[k].rules :
                        /\ HasBytes(Probe, given.directory[k].rules[r])
                        /\ WeightOf(given.directory[k].rules[r]) >= 90,
                      given.registry = <<>>, "ftyp" \notin given.marks
               PROVE  /\ phase # "new" => /\ identified.grammar = {given.directory[k].id}
                                          /\ identified.tier = given.directory[k].tier
                      /\ phase = "parse" => grammar = {given.directory[k]}
    BY DEF IdentifyAndParseAgree
  <2> DEFINE directory == given.directory
             marks == given.marks
             probe == Probe
  <2>1. /\ phase # "new" => identified \in IdentifyDevice(directory, <<>>, marks, probe)
        /\ phase = "parse" => grammar # {} /\ grammar = DetectGrammar(directory, probe)
    BY DEF FoundInTheDirectory
  <2>2. IsSignalled(directory, k, probe)
    BY DEF IsSignalled, Signalled, ParserInv, ImageIsGiven
  <2>3. probe # <<>> /\ "ftyp" \notin marks  OBVIOUS
  <2> HIDE DEF directory, marks, probe
  <2>4. ASSUME phase # "new"
        PROVE  identified.grammar = {directory[k].id} /\ identified.tier = directory[k].tier
    <3>1. identified \in IdentifyDevice(directory, <<>>, marks, probe)  BY <2>1, <2>4
    <3> QED  BY <2>2, <2>3, <3>1, IdentifiesIt
  <2>5. ASSUME phase = "parse" PROVE grammar = {directory[k]}
    <3>1. DetectGrammar(directory, probe) \subseteq {directory[k]}  BY <2>2, DetectsIt
    <3> QED  BY <2>1, <2>5, <3>1
  <2> QED  BY <2>4, <2>5 DEF directory
<1> QED  BY <1>1, FoundAlways, ParserAlways, PTL----------------------------------------------------------------------------
\* Leads.

\* f holds the sums of the first numbers of c, up to n of them.
Sums(c, n, f) == f = [k \in 0 .. n |-> IF k = 0 THEN 0 ELSE f[k - 1] + c[k]]

LEMMA SumsAre ==
  ASSUME NEW c, NEW n \in Nat, NEW f, Sums(c, n, f)
  PROVE  f[0] = 0 /\ \A k \in 1 .. n : f[k] = f[k - 1] + c[k]
<1> DEFINE v(k) == IF k = 0 THEN 0 ELSE f[k - 1] + c[k]
<1>1. f = [k \in 0 .. n |-> v(k)]  BY DEF Sums
<1>2. \A k \in 0 .. n : f[k] = v(k)
  <2> HIDE DEF v
  <2> QED  BY <1>1
<1> QED  BY <1>2

LEMMA OneMoreSum ==
  ASSUME NEW c, NEW n \in Nat \ {0}, NEW g, Sums(c, n - 1, g)
  PROVE  \E f : Sums(c, n, f)
<1> DEFINE last == g[n - 1] + c[n]
           f == [k \in 0 .. n |-> IF k = n THEN last ELSE g[k]]
           v(k) == IF k = 0 THEN 0 ELSE f[k - 1] + c[k]
<1>1. \A k \in 0 .. n - 1 : f[k] = g[k]
  <2> HIDE DEF last
  <2> QED  OBVIOUS
<1>2. f[n] = last
  <2> HIDE DEF last
  <2> QED  OBVIOUS
<1>3. \A k \in 0 .. n : f[k] = v(k)
  <2> HIDE DEF f
  <2>1. ASSUME NEW k \in 0 .. n PROVE f[k] = v(k)
    <3>1. CASE k = n
      <4>1. f[n - 1] = g[n - 1]  BY <1>1
      <4> QED  BY <1>2, <3>1, <4>1
    <3>2. CASE k = 0
      <4>1. g[0] = 0  BY SumsAre, n - 1 \in Nat
      <4> QED  BY <1>1, <3>2, <4>1
    <3>3. CASE k \in 1 .. n - 1
      <4>1. g[k] = g[k - 1] + c[k]  BY SumsAre, n - 1 \in Nat, <3>3
      <4>2. f[k] = g[k] /\ f[k - 1] = g[k - 1] /\ k # 0  BY <1>1, <3>3
      <4> QED  BY <4>1, <4>2
    <3> QED  BY <3>1, <3>2, <3>3
  <2> QED  BY <2>1
<1>4. f = [k \in 0 .. n |-> f[k]]
  <2> HIDE DEF last
  <2> QED  OBVIOUS
<1>5. f = [k \in 0 .. n |-> v(k)]
  <2> HIDE DEF f
  <2>1. \A k \in 0 .. n : f[k] = v(k)  BY <1>3
  <2> HIDE DEF v
  <2> QED  BY <1>4, <2>1
<1> QED
  <2> HIDE DEF f
  <2> QED  BY <1>5 DEF Sums

LEMMA SumsExist ==
  ASSUME NEW c, NEW n \in Nat
  PROVE  \E f : Sums(c, n, f)
<1> DEFINE T == {k \in Nat : ~ \E f : Sums(c, k, f)}
<1> SUFFICES ASSUME T # {} PROVE FALSE
  OBVIOUS
<1>1. PICK k \in T : \A m \in T : k <= m
  <2>1. T \in SUBSET Nat  OBVIOUS
  <2> HIDE DEF T
  <2> QED  BY <2>1, Smallest
<1>2. CASE k = 0
  <2> DEFINE f == [i \in 0 .. 0 |-> 0]
  <2>1. Sums(c, 0, f)  BY DEF Sums
  <2> QED  BY <1>2, <2>1
<1>3. CASE k # 0
  <2>1. k \in Nat \ {0} /\ k - 1 \in Nat /\ k - 1 \notin T  BY <1>1, <1>3
  <2>2. PICK g : Sums(c, k - 1, g)  BY <2>1
  <2>3. \E f : Sums(c, k, f)  BY <2>1, <2>2, OneMoreSum
  <2> QED  BY <2>3
<1> QED  BY <1>2, <1>3

LEMMA SumsAreNatural ==
  ASSUME NEW n \in Nat, NEW c, \A k \in 1 .. n : c[k] \in Nat, NEW f, Sums(c, n, f)
  PROVE  f[n] \in Nat
<1> DEFINE Wrong == {k \in 0 .. n : f[k] \notin Nat}
<1>1. f[0] = 0 /\ \A k \in 1 .. n : f[k] = f[k - 1] + c[k]  BY SumsAre
<1>2. Wrong = {}
  <2> SUFFICES ASSUME Wrong # {} PROVE FALSE  OBVIOUS
  <2>1. PICK k \in Wrong : \A m \in Wrong : k <= m
    <3>1. Wrong \in SUBSET Nat  OBVIOUS
    <3> HIDE DEF Wrong
    <3> QED  BY <3>1, Smallest
  <2>2. k # 0  BY <1>1, <2>1
  <2>3. k \in 1 .. n /\ k - 1 \in 0 .. n /\ ~(k <= k - 1)  BY <2>1, <2>2
  <2>4. f[k - 1] \in Nat  BY <2>1, <2>3
  <2>5. f[k] = f[k - 1] + c[k] /\ c[k] \in Nat  BY <1>1, <2>3
  <2> QED  BY <2>1, <2>4, <2>5
<1>3. n \in 0 .. n  OBVIOUS
<1> QED  BY <1>2, <1>3

(***************************************************************************)
(* The motion energy of a payload is between nothing and all.              *)
(***************************************************************************)
LEMMA MotionIs ==
  ASSUME NEW payload \in Seq(Byte)
  PROVE  MotionEnergy(payload) \in 0 .. One
<1> DEFINE pairs == Len(payload) - 1
           Larger(k) == Max({payload[k], payload[k + 1]})
           Smaller(k) == Min({payload[k], payload[k + 1]})
           Change(k) == Larger(k) - Smaller(k)
           total == CHOOSE f : f = [k \in 0 .. pairs |->
                                     IF k = 0 THEN 0 ELSE f[k - 1] + Change(k)]
           mean == (One * total[pairs]) \div (128 * pairs)
<1>1. MotionEnergy(payload) = IF pairs < 3 THEN 0 ELSE Min({One, mean})
  BY DEF MotionEnergy
<1>2. Len(payload) \in Nat /\ pairs \in Int  BY LenProperties
<1>3. CASE pairs < 3  BY <1>1, <1>3 DEF One
<1>4. CASE ~(pairs < 3)
  <2>1. pairs \in Nat \ {0}
    <3> HIDE DEF pairs
    <3> QED  BY <1>2, <1>4
  <2>2. \A k \in 1 .. pairs : Change(k) \in Nat
    <3> SUFFICES ASSUME NEW k \in 1 .. pairs PROVE Change(k) \in Nat  OBVIOUS
    <3> DEFINE a == payload[k]
               b == payload[k + 1]
    <3>1. k \in 1 .. Len(payload) /\ k + 1 \in 1 .. Len(payload)  BY <1>2
    <3>2. a \in Byte /\ b \in Byte
      <4> DEFINE i == k + 1
      <4>1. payload[k] \in Byte  BY <3>1, LenProperties
      <4> HIDE DEF i
      <4>2. payload[i] \in Byte  BY <3>1, LenProperties DEF i
      <4> QED  BY <4>1, <4>2 DEF i
    <3>3. Change(k) = Max({a, b}) - Min({a, b})  OBVIOUS
    <3> HIDE DEF a, b, Change
    <3>4. Max({a, b}) = IF a >= b THEN a ELSE b  BY <3>2, MaxOfTwo DEF Byte
    <3>5. Min({a, b}) = IF a <= b THEN a ELSE b  BY <3>2, MinOfTwo DEF Byte
    <3> QED  BY <3>2, <3>3, <3>4, <3>5 DEF Byte
  <2> HIDE DEF Change
  <2> DEFINE c == [k \in 1 .. pairs |-> Change(k)]
  <2>3. \A f : Sums(c, pairs, f) <=>
                 f = [k \in 0 .. pairs |-> IF k = 0 THEN 0 ELSE f[k - 1] + Change(k)]
    <3> SUFFICES ASSUME NEW f
                 PROVE  Sums(c, pairs, f) <=>
                          f = [k \in 0 .. pairs |-> IF k = 0 THEN 0 ELSE f[k - 1] + Change(k)]
      OBVIOUS
    <3> DEFINE u(k) == IF k = 0 THEN 0 ELSE f[k - 1] + c[k]
               w(k) == IF k = 0 THEN 0 ELSE f[k - 1] + Change(k)
    <3>1. \A k \in 0 .. pairs : u(k) = w(k)  BY <2>1
    <3> HIDE DEF u, w, c
    <3>2. [k \in 0 .. pairs |-> u(k)] = [k \in 0 .. pairs |-> w(k)]  BY <3>1
    <3>3. Sums(c, pairs, f) <=> f = [k \in 0 .. pairs |-> u(k)]  BY DEF Sums, u
    <3> QED  BY <3>2, <3>3 DEF w
  <2>4. \A k \in 1 .. pairs : c[k] \in Nat  BY <2>2
  <2> HIDE DEF c, pairs
  <2>5. \E f : Sums(c, pairs, f)  BY <2>1, SumsExist
  <2>6. Sums(c, pairs, total)  BY <2>3, <2>5
  <2> HIDE DEF total
  <2>7. total[pairs] \in Nat  BY <2>1, <2>4, <2>6, SumsAreNatural
  <2>8. mean \in Nat
    <3> DEFINE a == One * total[pairs]
               b == 128 * pairs
    <3>1. a \in Nat /\ b \in Nat \ {0}  BY <2>1, <2>7 DEF One
    <3> HIDE DEF a, b
    <3>2. a \div b \in Nat  BY <3>1, DivisionFact
    <3> QED  BY <3>2 DEF a, b
  <2> HIDE DEF mean
  <2>9. Min({One, mean}) = IF One <= mean THEN One ELSE mean  BY <2>8, MinOfTwo DEF One
  <2>10. MotionEnergy(payload) = Min({One, mean})  BY <1>1, <1>4
  <2>11. One \in Nat  BY DEF One
  <2> QED  BY <2>8, <2>9, <2>10, <2>11
<1> QED  BY <1>3, <1>4
(***************************************************************************)
(* What is found in a payload: in a keyframe of 32 bytes something of the  *)
(* confidence of 8000 at least, in other frames something only if it       *)
(* moves.                                                                  *)
(***************************************************************************)
LEMMA FoundInPayload ==
  ASSUME NEW payload \in Seq(Byte), NEW key \in BOOLEAN, NEW motion \in 0 .. One,
         NEW e, e = Entities(payload, key, motion)
  PROVE  /\ Len(e) \in Nat /\ DOMAIN e = 1 .. Len(e)
         /\ \A k \in DOMAIN e : e[k].confidence \in Nat
         /\ key /\ Len(payload) >= 32 => 1 \in DOMAIN e /\ e[1].confidence >= 8000
         /\ e # <<>> => key \/ motion > 3500
<1> DEFINE box == Box(Digest(payload))
           class == ClassOf(box)
           tenth == motion \div 10
           counted == Classes[class] + tenth
           atleast == Max({6000, counted})
           sure == Min({9800, atleast})
           first == [class_label |-> class, bbox |-> box, confidence |-> sure]
           second == [class_label |-> "motion_cluster", bbox |-> BoxAcross(box),
                      confidence |-> 7800]
           None32 == Len(payload) < 32 \/ (~key /\ motion <= 3500)
<1>1. e = IF None32 THEN <<>> ELSE IF key /\ motion > 4000 THEN <<first, second>> ELSE <<first>>
  <2> HIDE DEF first, second
  <2> QED  BY DEF Entities, first, second
<1>2. sure \in Nat /\ sure >= 8000
  <2>1. class \in {"person", "vehicle", "face"}
    <3> HIDE DEF box
    <3> QED  BY DEF ClassOf
  <2>2. Classes[class] \in {8800, 8500, 8000}
    <3> HIDE DEF class
    <3> QED  BY <2>1 DEF Classes
  <2>3. motion \in Nat  BY DEF One
  <2>4. tenth \in Nat  BY <2>3, DivisionFact
  <2> HIDE DEF tenth, class
  <2>5. counted \in Nat /\ counted >= 8000  BY <2>2, <2>4
  <2> HIDE DEF counted
  <2>6. atleast = IF 6000 >= counted THEN 6000 ELSE counted  BY <2>5, MaxOfTwo
  <2> HIDE DEF atleast
  <2>7. atleast \in Nat /\ atleast >= 8000  BY <2>5, <2>6
  <2>8. sure = IF 9800 <= atleast THEN 9800 ELSE atleast  BY <2>7, MinOfTwo
  <2> QED  BY <2>7, <2>8
<1> HIDE DEF sure, class, box
<1>3. first.confidence = sure /\ second.confidence = 7800  OBVIOUS
<1> HIDE DEF first, second
<1>4. CASE None32
  <2>1. Len(e) = 0 /\ DOMAIN e = {} /\ e = <<>>  BY <1>1, <1>4
  <2>2. Len(payload) \in Nat /\ motion \in Nat  BY LenProperties DEF One
  <2>3. ~(key /\ Len(payload) >= 32)  BY <1>4, <2>2
  <2> QED  BY <2>1, <2>3
<1>5. CASE ~None32 /\ e = <<first>>
  <2>1. Len(e) = 1 /\ DOMAIN e = 1 .. 1 /\ e[1] = first  BY <1>5
  <2>2. \A k \in DOMAIN e : k = 1  BY <2>1
  <2>3. motion \in Nat  BY DEF One
  <2>4. key \/ motion > 3500  BY <1>5, <2>3
  <2> QED  BY <1>2, <1>3, <2>1, <2>2, <2>4
<1>6. CASE ~None32 /\ e = <<first, second>>
  <2>1. Len(e) = 2 /\ DOMAIN e = 1 .. 2 /\ e[1] = first /\ e[2] = second  BY <1>6
  <2>2. \A k \in DOMAIN e : k = 1 \/ k = 2  BY <2>1
  <2>3. motion \in Nat  BY DEF One
  <2>4. key \/ motion > 3500  BY <1>6, <2>3
  <2> QED  BY <1>2, <1>3, <2>1, <2>2, <2>4
<1> QED  BY <1>1, <1>4, <1>5, <1>6

(***************************************************************************)
(* The relevance of a frame: a keyframe of 32 bytes has 5200 at least, and *)
(* another one in which nothing was found 4000 at most.                    *)
(***************************************************************************)
LEMMA RelevanceIs ==
  ASSUME NEW payload \in Seq(Byte), NEW key \in BOOLEAN, NEW motion \in 0 .. One,
         NEW e, e = Entities(payload, key, motion),
         NEW s, s = Relevance(motion, e, key)
  PROVE  /\ s \in Nat
         /\ key /\ Len(payload) >= 32 => s >= 5200
         /\ ~key /\ e = <<>> => s <= 4000
<1> DEFINE n == Len(e)
           v == [k \in 1 .. n |-> e[k].confidence]
           all == {e[k].confidence : k \in DOMAIN e} \cup {0}
           top == Max(all)
           sum == 4 * motion + 4 * top
           q == sum \div 10
           boost == IF key THEN 2000 ELSE 0
           score == q + boost
<1>1. /\ n \in Nat /\ DOMAIN e = 1 .. n
      /\ \A k \in DOMAIN e : e[k].confidence \in Nat
      /\ key /\ Len(payload) >= 32 => 1 \in DOMAIN e /\ e[1].confidence >= 8000
  BY FoundInPayload
<1>2. s = Min({One, score})  BY DEF Relevance
<1> HIDE DEF n
<1>3. top \in Nat /\ \A k \in 1 .. n : e[k].confidence <= top
  <2> DEFINE places == 1 .. n
  <2>1. v \in [1 .. n -> Int] /\ \A k \in 1 .. n : v[k] = e[k].confidence  BY <1>1
  <2>2. all = {v[k] : k \in places} \cup {0}  BY <1>1, <2>1
  <2> HIDE DEF v, all
  <2>3. places \in SUBSET (1 .. n) /\ \A k \in 1 .. n : k \in places  OBVIOUS
  <2> DEFINE m == Max({v[k] : k \in places} \cup {0})
  <2> HIDE DEF places
  <2>4. m \in Nat /\ \A k \in places : v[k] <= m
    <3>1. n \in Nat  BY <1>1
    <3>2. v \in [1 .. n -> Int]  BY <2>1
    <3>3. places \in SUBSET (1 .. n)  BY <2>3
    <3> QED  BY <3>1, <3>2, <3>3, HighestIs
  <2>5. top = m  BY <2>2
  <2> HIDE DEF m, top
  <2> QED  BY <2>1, <2>3, <2>4, <2>5
<1>4. e = <<>> => top = 0
  <2> SUFFICES ASSUME e = <<>> PROVE top = 0  OBVIOUS
  <2>1. all = {0, 0}  OBVIOUS
  <2>2. Max({0, 0}) = 0  BY MaxOfTwo
  <2> QED  BY <2>1, <2>2
<1> HIDE DEF top
<1>5. motion \in Nat /\ motion <= 10000  BY DEF One
<1>6. sum \in Nat  BY <1>3, <1>5
<1>7. top >= 8000 => sum >= 32000  BY <1>3, <1>5
<1>8. top = 0 => sum <= 40000  BY <1>5
<1> HIDE DEF sum
<1>9. q \in Nat /\ 10 * q <= sum /\ sum < 10 * q + 10  BY <1>6, DivisionFact
<1> HIDE DEF q
<1>10. score \in Nat /\ (key => score = q + 2000) /\ (~key => score = q)  BY <1>9
<1> HIDE DEF score
<1>11. s = IF 10000 <= score THEN 10000 ELSE score  BY <1>2, <1>10, MinOfTwo DEF One
<1>12. s \in Nat  BY <1>10, <1>11
<1>13. ASSUME key, Len(payload) >= 32 PROVE s >= 5200
  <2>1. 1 \in DOMAIN e /\ e[1].confidence >= 8000  BY <1>1, <1>13
  <2>2. e[1].confidence \in Nat /\ e[1].confidence <= top  BY <1>1, <1>3, <2>1
  <2>3. top >= 8000  BY <1>3, <2>1, <2>2
  <2> QED  BY <1>6, <1>7, <1>9, <1>10, <1>11, <1>13, <2>3
<1>14. ASSUME ~key, e = <<>> PROVE s <= 4000
  BY <1>4, <1>6, <1>8, <1>9, <1>10, <1>11, <1>14
<1> QED  BY <1>12, <1>13, <1>14

(***************************************************************************)
(* a is what analyze makes of the record r.                                *)
(***************************************************************************)
IsAnalysisOf(a, r) ==
  /\ IsOf(a, r)
  /\ a.relevance_score \in Nat
  /\ Len(a.entities) \in Nat /\ DOMAIN a.entities = 1 .. Len(a.entities)
  /\ \A k \in DOMAIN a.entities : a.entities[k].confidence \in Nat
  /\ IsKeyRecord(r) /\ r.payload_len >= 32 =>
       a.relevance_score >= 5200 /\ 1 \in DOMAIN a.entities /\ a.entities[1].confidence >= 8000
  /\ ~IsKeyRecord(r) /\ a.entities = <<>> => a.relevance_score <= 4000
  /\ a.entities # <<>> => IsKeyRecord(r) \/ MotionEnergy(PayloadInImage(r)) > 3500

LEMMA AnalysisIs ==
  ASSUME ParserInv, NEW r \in Row, IsReadable(r),
         NEW a, a = AnalyzeFrame(r, PayloadInImage(r), IsKeyRecord(r))
  PROVE  IsAnalysisOf(a, r)
<1> DEFINE payload == PayloadInImage(r)
           key == IsKeyRecord(r)
           motion == MotionEnergy(payload)
           e == Entities(payload, key, motion)
           s == Relevance(motion, e, key)
<1>1. payload \in Seq(Byte)  BY PayloadIsBytes
<1>2. Len(payload) = r.payload_len  BY DEF IsReadable
<1>3. key \in BOOLEAN  BY DEF IsKeyRecord
<1>4. IsOf(a, r) /\ a.entities = e /\ a.relevance_score = s
  BY DEF AnalyzeFrame, IsOf
<1> HIDE DEF payload
<1>5. motion \in 0 .. One  BY <1>1, MotionIs
<1>6. motion = MotionEnergy(PayloadInImage(r))  BY DEF payload
<1> HIDE DEF motion, key
<1>7. /\ Len(e) \in Nat /\ DOMAIN e = 1 .. Len(e)
      /\ \A k \in DOMAIN e : e[k].confidence \in Nat
      /\ key /\ Len(payload) >= 32 => 1 \in DOMAIN e /\ e[1].confidence >= 8000
      /\ e # <<>> => key \/ motion > 3500
  BY <1>1, <1>3, <1>5, FoundInPayload
<1>8. /\ s \in Nat
      /\ key /\ Len(payload) >= 32 => s >= 5200
      /\ ~key /\ e = <<>> => s <= 4000
  BY <1>1, <1>3, <1>5, RelevanceIs
<1> HIDE DEF e, s
<1>9. key <=> IsKeyRecord(r)  BY DEF key
<1> QED  BY <1>2, <1>4, <1>6, <1>7, <1>8, <1>9 DEF IsAnalysisOf
(***************************************************************************)
(* No element is lost in a concatenation, or in flattening.                *)
(***************************************************************************)
Has(w, x) == \E k \in 1 .. Len(w) : w[k] = x

HasAll(w, u) == \A j \in 1 .. Len(u) : Has(w, u[j])

LEMMA ConcatHas ==
  ASSUME NEW T, NEW u \in Seq(T), NEW v \in Seq(T), NEW w, w = u \o v
  PROVE  w \in Seq(T) /\ HasAll(w, u) /\ HasAll(w, v)
<1>1. /\ w \in Seq(T) /\ Len(w) = Len(u) + Len(v)
      /\ \A i \in 1 .. Len(u) + Len(v) :
           w[i] = IF i <= Len(u) THEN u[i] ELSE v[i - Len(u)]
  BY ConcatProperties
<1>2. Len(u) \in Nat /\ Len(v) \in Nat  BY LenProperties
<1> DEFINE a == Len(u)
           b == Len(v)
<1>3. a \in Nat /\ b \in Nat /\ Len(w) = a + b
      /\ \A i \in 1 .. a + b : w[i] = IF i <= a THEN u[i] ELSE v[i - a]
  BY <1>1, <1>2
<1> HIDE DEF a, b
<1>4. ASSUME NEW j \in 1 .. a PROVE \E k \in 1 .. Len(w) : w[k] = u[j]
  <2>1. j \in 1 .. a + b /\ j <= a  BY <1>3
  <2>2. w[j] = u[j]  BY <1>3, <2>1
  <2> QED  BY <1>3, <2>1, <2>2
<1>5. ASSUME NEW j \in 1 .. b PROVE \E k \in 1 .. Len(w) : w[k] = v[j]
  <2> DEFINE i == a + j
  <2>1. i \in 1 .. a + b /\ ~(i <= a) /\ i - a = j  BY <1>3
  <2> HIDE DEF i
  <2>2. w[i] = v[j]  BY <1>3, <2>1
  <2> QED  BY <1>3, <2>1, <2>2
<1> QED  BY <1>1, <1>4, <1>5 DEF a, b, HasAll, Has

LEMMA FlattenHas ==
  ASSUME NEW T, NEW seqs \in Seq(Seq(T)), NEW i \in 1 .. Len(seqs)
  PROVE  HasAll(FlattenSeq(seqs), seqs[i])
<1> SUFFICES ASSUME NEW j \in 1 .. Len(seqs[i])
             PROVE  Has(FlattenSeq(seqs), seqs[i][j])
  BY DEF HasAll
<1> DEFINE n == Len(seqs)
           x == seqs[i][j]
           Right(f, m) == f[m] \in Seq(T) /\ (i <= m => Has(f[m], x))
<1>0. n \in Nat \ {0} /\ Len(seqs) = n /\ i \in 1 .. n /\ \A m \in 1 .. n : seqs[m] \in Seq(T)
  BY LenProperties
<1>1. Has(seqs[i], x)  BY DEF Has
<1> HIDE DEF n, x
<1>2. PICK f : Joins(seqs, n, f) /\ FlattenSeq(seqs) = f[n]  BY <1>0, FlattenIs
<1>3. f[1] = seqs[1] /\ \A m \in 2 .. n : f[m] = f[m - 1] \o seqs[m]
  <2>1. n \in Nat \ {0} /\ Joins(seqs, n, f)  BY <1>0, <1>2
  <2> HIDE DEF Right
  <2> QED  BY <2>1, JoinsAre
<1> DEFINE Wrong == {m \in 1 .. n : ~Right(f, m)}
<1>4. Wrong = {}
  <2> SUFFICES ASSUME Wrong # {} PROVE FALSE  OBVIOUS
  <2>1. PICK m \in Wrong : \A l \in Wrong : m <= l
    <3>1. Wrong \in SUBSET Nat  OBVIOUS
    <3> HIDE DEF Wrong
    <3> QED  BY <3>1, Smallest
  <2>2. m # 1
    <3>1. 1 \in 1 .. n  BY <1>0
    <3>2. f[1] \in Seq(T)  BY <1>0, <1>3, <3>1
    <3>3. ASSUME i <= 1 PROVE Has(f[1], x)
      <4>1. i = 1  BY <1>0, <3>3
      <4> QED  BY <1>1, <1>3, <4>1
    <3>4. Right(f, 1)  BY <3>2, <3>3
    <3> HIDE DEF Right
    <3> QED  BY <2>1, <3>4
  <2>3. m \in 2 .. n /\ m - 1 \in 1 .. n /\ ~(m <= m - 1) /\ m \in 1 .. n  BY <1>0, <2>1, <2>2
  <2>4. Right(f, m - 1)
    <3> HIDE DEF Right
    <3> QED  BY <2>1, <2>3
  <2> DEFINE u == f[m - 1]
             v == seqs[m]
             w == f[m]
  <2>5. w = u \o v /\ u \in Seq(T) /\ v \in Seq(T)  BY <1>0, <1>3, <2>3, <2>4
  <2>6. i <= m - 1 => Has(u, x)  BY <2>4
  <2>7. i = m => Has(v, x)  BY <1>1
  <2> HIDE DEF u, v, w, Wrong, Right
  <2>8. w \in Seq(T) /\ HasAll(w, u) /\ HasAll(w, v)  BY <2>5, ConcatHas
  <2>9. i <= m => i <= m - 1 \/ i = m  BY <1>0, <2>3
  <2>10. i <= m => Has(w, x)
    <3>1. CASE i <= m - 1  BY <2>6, <2>8, <3>1 DEF Has, HasAll
    <3>2. CASE i = m  BY <2>7, <2>8, <3>2 DEF Has, HasAll
    <3> QED  BY <2>9, <3>1, <3>2
  <2>11. Right(f, m)  BY <2>8, <2>10 DEF w, Right
  <2> QED  BY <2>1, <2>11 DEF Wrong
<1>5. Right(f, n)
  <2>1. n \in 1 .. n  BY <1>0
  <2> HIDE DEF Right
  <2> QED  BY <1>4, <2>1
<1>6. i <= n  BY <1>0
<1> QED  BY <1>2, <1>5, <1>6 DEF x

(***************************************************************************)
(* The rows at some places by their blocks: those and no others.           *)
(***************************************************************************)
LEMMA ByBlockHas ==
  ASSUME ParserInv, NEW places \in SUBSET (DOMAIN rows)
  PROVE  /\ ByBlock(places) \in Seq({rows[k] : k \in places})
         /\ \A k \in places : Has(ByBlock(places), rows[k])
<1> DEFINE T == {rows[k] : k \in places}
           Of(b) == {k \in places : rows[k].block_index = b - 1}
           seqs == [b \in 1 .. given.promised |-> Filtered(rows, Of(b))]
<1>1. rows \in Seq(Row) /\ given.promised \in Nat
  BY DEF ParserInv, ParserTypeOK, ImageIsGiven
<1>2. ASSUME NEW b \in 1 .. given.promised
      PROVE  /\ Filtered(rows, Of(b)) \in Seq(T)
             /\ \A k \in Of(b) : Has(Filtered(rows, Of(b)), rows[k])
  <2> DEFINE keep == Of(b)
             s == Filtered(rows, keep)
             K == {rows[k] : k \in keep}
  <2>1. keep \in SUBSET (DOMAIN rows)  OBVIOUS
  <2>2. K \subseteq T  OBVIOUS
  <2> HIDE DEF keep, T
  <2>3. s \in Seq(K)  BY <1>1, <2>1, FilteredType
  <2>4. \E order : Arrangement(s, order, rows, keep, Ascending(keep))
    BY <1>1, <2>1, FilteredArranges
  <2> HIDE DEF s
  <2>5. PICK order : Arrangement(s, order, rows, keep, Ascending(keep))  BY <2>4
  <2>6. s \in Seq(T)
    <3> HIDE DEF K
    <3>1. s \in [1 .. Len(s) -> K] /\ Len(s) \in Nat  BY <2>3, LenProperties
    <3>2. s \in [1 .. Len(s) -> T]  BY <2>2, <3>1
    <3> QED  BY <3>1, <3>2, FunctionIsSeq
  <2>7. ASSUME NEW k \in keep PROVE Has(s, rows[k])
    <3> DEFINE c == Cardinality(keep)
    <3>1. c \in Nat /\ s = [j \in 1 .. c |-> rows[order[j]]]  BY <2>5 DEF Arrangement
    <3>2. \E j \in 1 .. c : order[j] = k  BY <2>5 DEF Arrangement
    <3> HIDE DEF c
    <3>3. PICK j \in 1 .. c : order[j] = k  BY <3>2
    <3>4. DOMAIN s = 1 .. c /\ s[j] = rows[k]  BY <3>1, <3>3
    <3>5. DOMAIN s = 1 .. Len(s)  BY <2>6, LenProperties
    <3> QED  BY <3>3, <3>4, <3>5 DEF Has
  <2> QED  BY <2>6, <2>7 DEF s, keep
<1>3. ByBlock(places) = FlattenSeq(seqs)  BY DEF ByBlock
<1>4. \A k \in places : rows[k].block_index + 1 \in 1 .. given.promised
                        /\ k \in Of(rows[k].block_index + 1)
  <2> SUFFICES ASSUME NEW k \in places
               PROVE  rows[k].block_index + 1 \in 1 .. given.promised
                      /\ k \in Of(rows[k].block_index + 1)
    OBVIOUS
  <2>1. rows[k] \in Row  BY <1>1, LenProperties
  <2>2. rows[k].block_index \in Nat /\ rows[k].block_index < given.promised
    BY <2>1 DEF Row, ParserInv, RecordsAreOfTheirBlocks, IsOfItsBlock
  <2> QED  BY <1>1, <2>2
<1> HIDE DEF Of, T
<1>5. seqs \in [1 .. given.promised -> Seq(T)] /\ DOMAIN seqs = 1 .. given.promised
  BY <1>2
<1>6. \A b \in 1 .. given.promised : seqs[b] = Filtered(rows, Of(b))  OBVIOUS
<1> HIDE DEF seqs
<1>7. seqs \in Seq(Seq(T)) /\ Len(seqs) = given.promised  BY <1>1, <1>5, FunctionIsSeq
<1>8. FlattenSeq(seqs) \in Seq(T)  BY <1>7, FlattenType
<1>9. ASSUME NEW k \in places
      PROVE  Has(FlattenSeq(seqs), rows[k])
  <2> DEFINE b == rows[k].block_index + 1
  <2>1. b \in 1 .. given.promised /\ k \in Of(b)  BY <1>4
  <2> HIDE DEF b
  <2>2. Has(seqs[b], rows[k])  BY <1>2, <1>6, <2>1
  <2>3. b \in 1 .. Len(seqs)  BY <1>7, <2>1
  <2>4. HasAll(FlattenSeq(seqs), seqs[b])  BY <1>7, <2>3, FlattenHas
  <2> QED  BY <2>2, <2>4 DEF Has, HasAll
<1> QED  BY <1>3, <1>8, <1>9 DEF T
(***************************************************************************)
(* What is shown of the analyses: no frame before one of a higher score.   *)
(***************************************************************************)
ShowsTheHighest(top, analyses) ==
  \A i \in DOMAIN top :
    /\ \E k \in DOMAIN analyses : top[i] = analyses[k]
    /\ \A k \in DOMAIN analyses :
         analyses[k].relevance_score > top[i].relevance_score =>
           \E j \in 1 .. i - 1 : top[j] = analyses[k]

LEMMA RelevanceOrders ==
  ASSUME NEW n \in Nat, NEW analyses, DOMAIN analyses = 1 .. n,
         \A k \in 1 .. n : analyses[k].relevance_score \in Nat
  PROVE  Orders(ByRelevance(analyses), 1 .. n)
<1> DEFINE v == [k \in 1 .. n |-> analyses[k].relevance_score]
           R == ByRelevance(analyses)
<1>1. \A k \in 1 .. n : v[k] \in Nat  OBVIOUS
<1>2. \A x, y \in 1 .. n : <<x, y>> \in R <=> v[x] > v[y] \/ (v[x] = v[y] /\ x < y)
  BY DEF ByRelevance
<1> HIDE DEF v, R
<1>3. \A x \in 1 .. n : <<x, x>> \notin R  BY <1>1, <1>2
<1>4. ASSUME NEW x \in 1 .. n, NEW y \in 1 .. n, NEW z \in 1 .. n,
             <<x, y>> \in R, <<y, z>> \in R
      PROVE  <<x, z>> \in R
  <2>1. v[x] \in Nat /\ v[y] \in Nat /\ v[z] \in Nat  BY <1>1
  <2>2. v[x] > v[y] \/ (v[x] = v[y] /\ x < y)  BY <1>2, <1>4
  <2>3. v[y] > v[z] \/ (v[y] = v[z] /\ y < z)  BY <1>2, <1>4
  <2>4. v[x] > v[z] \/ (v[x] = v[z] /\ x < z)  BY <2>1, <2>2, <2>3
  <2> QED  BY <1>2, <2>4
<1>5. ASSUME NEW x \in 1 .. n, NEW y \in 1 .. n
      PROVE  x = y \/ <<x, y>> \in R \/ <<y, x>> \in R
  <2>1. v[x] \in Nat /\ v[y] \in Nat  BY <1>1
  <2>2. x = y \/ (v[x] > v[y] \/ (v[x] = v[y] /\ x < y)) \/ (v[y] > v[x] \/ (v[y] = v[x] /\ y < x))
    BY <2>1
  <2> QED  BY <1>2, <2>2
<1> QED  BY <1>3, <1>4, <1>5 DEF Orders, R

LEMMA TopLeadsAre ==
  ASSUME NEW n \in Nat, NEW analyses, DOMAIN analyses = 1 .. n,
         \A k \in 1 .. n : analyses[k].relevance_score \in Nat,
         NEW least, NEW limit \in Nat,
         NEW top, top = SummarizeAnalytics(analyses, least, limit).top_leads
  PROVE  ShowsTheHighest(top, analyses)
<1> DEFINE places == 1 .. n
           R == ByRelevance(analyses)
           ranked == Arranged(analyses, places, R)
           m == Min({limit, Len(ranked)})
           c == Cardinality(places)
           T == {analyses[k] : k \in places}
<1>1. top = SubSeq(ranked, 1, m)
  <2> HIDE DEF R
  <2> QED  BY DEF SummarizeAnalytics, R
<1>2. Orders(R, places)  BY RelevanceOrders
<1>3. \A x, y \in places : <<x, y>> \in R =>
        ~(analyses[y].relevance_score > analyses[x].relevance_score)
  BY DEF ByRelevance
<1>4. IsFiniteSet(places)  BY FS_Interval
<1>5. \A k \in places : analyses[k] \in T  OBVIOUS
<1>6. \A k \in places : analyses[k].relevance_score \in Nat  OBVIOUS
<1>7. DOMAIN analyses = places  OBVIOUS
<1> HIDE DEF T, R, places, ranked
<1>8. ranked \in Seq(T) /\ Len(ranked) = c
  BY <1>2, <1>4, <1>5, ArrangedType DEF ranked
<1>9. \E order : Arrangement(ranked, order, analyses, places, R)
  BY <1>2, <1>4, ArrangedIs DEF ranked
<1>10. PICK order : Arrangement(ranked, order, analyses, places, R)  BY <1>9
<1>11. /\ c \in Nat
       /\ order \in [1 .. c -> places]
       /\ \A k \in places : \E i \in 1 .. c : order[i] = k
       /\ \A i, j \in 1 .. c : i < j => <<order[i], order[j]>> \in R
       /\ ranked = [i \in 1 .. c |-> analyses[order[i]]]
  BY <1>10 DEF Arrangement
<1> HIDE DEF c
<1>12. m \in Nat /\ m <= c
  <2>1. m = IF limit <= c THEN limit ELSE c  BY <1>8, <1>11, MinOfTwo
  <2> QED  BY <1>11, <2>1
<1> HIDE DEF m
<1>13. /\ SubSeq(ranked, 1, m) \in Seq(T)
       /\ Len(SubSeq(ranked, 1, m)) = m - 1 + 1
       /\ \A i \in 1 .. m - 1 + 1 : SubSeq(ranked, 1, m)[i] = ranked[1 + i - 1]
  BY <1>8, <1>12, SliceIs
<1>14. DOMAIN top = 1 .. m
  <2>1. top \in Seq(T) /\ Len(top) = m  BY <1>1, <1>12, <1>13
  <2> QED  BY <2>1, LenProperties
<1>15. \A i \in 1 .. m : top[i] = analyses[order[i]] /\ order[i] \in places
  <2> SUFFICES ASSUME NEW i \in 1 .. m PROVE top[i] = analyses[order[i]] /\ order[i] \in places
    OBVIOUS
  <2>1. i \in 1 .. m - 1 + 1 /\ 1 + i - 1 = i /\ i \in 1 .. c  BY <1>11, <1>12
  <2>2. top[i] = ranked[i]  BY <1>1, <1>13, <2>1
  <2> QED  BY <1>11, <2>1, <2>2
<1>16. ASSUME NEW i \in 1 .. m, NEW k \in places,
              analyses[k].relevance_score > top[i].relevance_score
       PROVE  \E j \in 1 .. i - 1 : top[j] = analyses[k]
  <2>1. PICK l \in 1 .. c : order[l] = k  BY <1>11
  <2>2. i \in 1 .. c /\ top[i] = analyses[order[i]] /\ order[i] \in places
    BY <1>11, <1>12, <1>15
  <2>3. l # i
    <3> SUFFICES ASSUME l = i PROVE FALSE  OBVIOUS
    <3>1. analyses[k].relevance_score > analyses[k].relevance_score  BY <1>16, <2>1, <2>2
    <3>2. analyses[k].relevance_score \in Nat  BY <1>6
    <3> QED  BY <3>1, <3>2
  <2>4. ~(i < l)
    <3> SUFFICES ASSUME i < l PROVE FALSE  OBVIOUS
    <3>1. <<order[i], k>> \in R  BY <1>11, <2>1, <2>2
    <3> QED  BY <1>3, <1>16, <2>2, <3>1
  <2>5. l \in 1 .. i - 1 /\ l \in 1 .. m  BY <1>11, <1>12, <2>3, <2>4
  <2>6. top[l] = analyses[k]  BY <1>15, <2>1, <2>5
  <2> QED  BY <2>5, <2>6
<1>17. \A i \in DOMAIN top : \E k \in DOMAIN analyses : top[i] = analyses[k]
  BY <1>7, <1>14, <1>15
<1> QED  BY <1>7, <1>14, <1>16, <1>17 DEF ShowsTheHighest

(***************************************************************************)
(* Numbers of eight bytes, by their first difference; signed ones differ   *)
(* where they do.                                                          *)
(***************************************************************************)
LEMMA BelowIs ==
  ASSUME NEW m \in [1 .. 8 -> Nat], NEW n \in [1 .. 8 -> Nat]
  PROVE  /\ ~Below(m, m)
         /\ m = n \/ Below(m, n) \/ Below(n, m)
<1>1. ~Below(m, m)  BY DEF Below
<1>2. ASSUME m # n PROVE Below(m, n) \/ Below(n, m)
  <2> DEFINE D == {k \in 1 .. 8 : m[k] # n[k]}
  <2>1. D # {}  BY <1>2
  <2>2. D \in SUBSET Nat  OBVIOUS
  <2>3. \A l \in 1 .. 8 : l \notin D => m[l] = n[l]  OBVIOUS
  <2>4. \A l \in D : l \in 1 .. 8 /\ m[l] # n[l]  OBVIOUS
  <2> HIDE DEF D
  <2>5. PICK k \in D : \A l \in D : k <= l  BY <2>1, <2>2, Smallest
  <2>6. k \in 1 .. 8 /\ m[k] # n[k]  BY <2>4, <2>5
  <2>7. \A l \in 1 .. k - 1 : m[l] = n[l]
    <3> SUFFICES ASSUME NEW l \in 1 .. k - 1 PROVE m[l] = n[l]  OBVIOUS
    <3>1. l \in 1 .. 8 /\ ~(k <= l)  BY <2>6
    <3> QED  BY <2>3, <2>5, <3>1
  <2>8. m[k] < n[k] \/ n[k] < m[k]
    <3>1. m[k] \in Nat /\ n[k] \in Nat  BY <2>6
    <3> QED  BY <2>6, <3>1
  <2>9. k \in DOMAIN m /\ k \in DOMAIN n  BY <2>6
  <2> QED  BY <2>7, <2>8, <2>9 DEF Below
<1> QED  BY <1>1, <1>2

LEMMA BelowChains ==
  ASSUME NEW m \in [1 .. 8 -> Nat], NEW n \in [1 .. 8 -> Nat], NEW p \in [1 .. 8 -> Nat],
         Below(m, n), Below(n, p)
  PROVE  Below(m, p)
<1>1. PICK k \in 1 .. 8 : m[k] < n[k] /\ \A l \in 1 .. k - 1 : m[l] = n[l]  BY DEF Below
<1>2. PICK i \in 1 .. 8 : n[i] < p[i] /\ \A l \in 1 .. i - 1 : n[l] = p[l]  BY DEF Below
<1>3. m[k] \in Nat /\ n[k] \in Nat /\ p[k] \in Nat /\ m[i] \in Nat /\ n[i] \in Nat /\ p[i] \in Nat
  OBVIOUS
<1>4. CASE k < i
  <2>1. k \in 1 .. i - 1  BY <1>4
  <2>2. m[k] < p[k]  BY <1>1, <1>2, <2>1
  <2>3. \A l \in 1 .. k - 1 : l \in 1 .. i - 1  BY <1>4
  <2>4. \A l \in 1 .. k - 1 : m[l] = p[l]  BY <1>1, <1>2, <2>3
  <2> QED  BY <2>2, <2>4 DEF Below
<1>5. CASE i < k
  <2>1. i \in 1 .. k - 1  BY <1>5
  <2>2. m[i] < p[i]  BY <1>1, <1>2, <2>1
  <2>3. \A l \in 1 .. i - 1 : l \in 1 .. k - 1  BY <1>5
  <2>4. \A l \in 1 .. i - 1 : m[l] = p[l]  BY <1>1, <1>2, <2>3
  <2> QED  BY <2>2, <2>4 DEF Below
<1>6. CASE i = k
  <2>1. m[k] < p[k]  BY <1>1, <1>2, <1>3, <1>6
  <2>2. \A l \in 1 .. k - 1 : m[l] = p[l]  BY <1>1, <1>2, <1>6
  <2> QED  BY <2>1, <2>2 DEF Below
<1> QED  BY <1>4, <1>5, <1>6

LEMMA SignedIs ==
  ASSUME NEW t \in [1 .. 8 -> Byte]
  PROVE  /\ Signed(t) \in [1 .. 8 -> Nat]
         /\ \A u \in [1 .. 8 -> Byte] : Signed(t) = Signed(u) => t = u
<1> DEFINE first(v) == (v[1] + 128) % 256
<1>1. \A v \in [1 .. 8 -> Byte] :
        /\ Signed(v) = [k \in 1 .. 8 |-> IF k = 1 THEN first(v) ELSE v[k]]
        /\ v[1] \in 0 .. 255
  <2> SUFFICES ASSUME NEW v \in [1 .. 8 -> Byte]
               PROVE  /\ Signed(v) = [k \in 1 .. 8 |-> IF k = 1 THEN first(v) ELSE v[k]]
                      /\ v[1] \in 0 .. 255
    OBVIOUS
  <2>1. v[1] \in 0 .. 255  BY DEF Byte
  <2>2. DOMAIN v = 1 .. 8  OBVIOUS
  <2>3. Signed(v) = [v EXCEPT ![1] = first(v)]  BY DEF Signed
  <2> HIDE DEF first
  <2>4. [v EXCEPT ![1] = first(v)] = [k \in 1 .. 8 |-> IF k = 1 THEN first(v) ELSE v[k]]
    BY <2>2
  <2> QED  BY <2>1, <2>3, <2>4
<1>2. \A v \in [1 .. 8 -> Byte] : first(v) \in Nat  BY <1>1
<1>3. \A v, u \in [1 .. 8 -> Byte] : first(v) = first(u) => v[1] = u[1]
  <2> SUFFICES ASSUME NEW v \in [1 .. 8 -> Byte], NEW u \in [1 .. 8 -> Byte],
                      first(v) = first(u)
               PROVE  v[1] = u[1]
    OBVIOUS
  <2> DEFINE a == v[1]
             b == u[1]
  <2>1. a \in 0 .. 255 /\ b \in 0 .. 255 /\ (a + 128) % 256 = (b + 128) % 256  BY <1>1
  <2> HIDE DEF a, b
  <2>2. a = b  BY <2>1
  <2> QED  BY <2>2 DEF a, b
<1> HIDE DEF first
<1>4. Signed(t) \in [1 .. 8 -> Nat]
  <2>1. \A k \in 1 .. 8 : t[k] \in Nat  BY DEF Byte
  <2> QED  BY <1>1, <1>2, <2>1
<1>5. ASSUME NEW u \in [1 .. 8 -> Byte], Signed(t) = Signed(u) PROVE t = u
  <2>1. first(t) = first(u) /\ \A k \in 2 .. 8 : t[k] = u[k]
    <3>1. Signed(t)[1] = first(t) /\ Signed(u)[1] = first(u)  BY <1>1
    <3>2. \A k \in 2 .. 8 : Signed(t)[k] = t[k] /\ Signed(u)[k] = u[k]  BY <1>1
    <3> QED  BY <1>5, <3>1, <3>2
  <2>2. t[1] = u[1]  BY <1>3, <2>1
  <2>3. \A k \in 1 .. 8 : t[k] = u[k]  BY <2>1, <2>2
  <2> QED  BY <2>3
<1> QED  BY <1>4, <1>5
(***************************************************************************)
(* The order of the detections: by relevance, then time, then as stored.   *)
(***************************************************************************)
LEMMA OrdersByScoreAndTime ==
  ASSUME NEW S \in SUBSET Nat, NEW v, \A x \in S : v[x] \in Nat,
         NEW w, \A x \in S : w[x] \in [1 .. 8 -> Nat], NEW R,
         \A x, y \in S : <<x, y>> \in R <=>
           v[x] > v[y] \/ (v[x] = v[y] /\ (Below(w[x], w[y]) \/ (w[x] = w[y] /\ x < y)))
  PROVE  Orders(R, S)
<1> DEFINE Later(x, y) == Below(w[x], w[y]) \/ (w[x] = w[y] /\ x < y)
<1>1. \A x, y \in S : <<x, y>> \in R <=> v[x] > v[y] \/ (v[x] = v[y] /\ Later(x, y))
  OBVIOUS
<1>2. ASSUME NEW x \in S PROVE ~Later(x, x)
  <2>1. w[x] \in [1 .. 8 -> Nat] /\ x \in Nat  OBVIOUS
  <2>2. ~Below(w[x], w[x])  BY <2>1, BelowIs
  <2> QED  BY <2>1, <2>2
<1>3. ASSUME NEW x \in S, NEW y \in S PROVE x = y \/ Later(x, y) \/ Later(y, x)
  <2>1. w[x] \in [1 .. 8 -> Nat] /\ w[y] \in [1 .. 8 -> Nat] /\ x \in Nat /\ y \in Nat  OBVIOUS
  <2>2. w[x] = w[y] \/ Below(w[x], w[y]) \/ Below(w[y], w[x])  BY <2>1, BelowIs
  <2> QED  BY <2>1, <2>2
<1>4. ASSUME NEW x \in S, NEW y \in S, NEW z \in S, Later(x, y), Later(y, z)
      PROVE  Later(x, z)
  <2>1. /\ w[x] \in [1 .. 8 -> Nat] /\ w[y] \in [1 .. 8 -> Nat] /\ w[z] \in [1 .. 8 -> Nat]
        /\ x \in Nat /\ y \in Nat /\ z \in Nat
    OBVIOUS
  <2>2. CASE Below(w[x], w[y]) /\ Below(w[y], w[z])
    <3>1. Below(w[x], w[z])  BY <2>1, <2>2, BelowChains
    <3> QED  BY <3>1
  <2>3. CASE Below(w[x], w[y]) /\ w[y] = w[z]  BY <2>3
  <2>4. CASE w[x] = w[y] /\ Below(w[y], w[z])  BY <2>4
  <2>5. CASE w[x] = w[y] /\ x < y /\ w[y] = w[z] /\ y < z  BY <2>1, <2>5
  <2> QED  BY <1>4, <2>2, <2>3, <2>4, <2>5
<1> HIDE DEF Later
<1>5. \A x \in S : <<x, x>> \notin R
  <2> SUFFICES ASSUME NEW x \in S PROVE <<x, x>> \notin R  OBVIOUS
  <2>1. v[x] \in Nat  OBVIOUS
  <2>2. ~(v[x] > v[x]) /\ ~Later(x, x)  BY <1>2, <2>1
  <2> QED  BY <1>1, <2>2
<1>6. ASSUME NEW x \in S, NEW y \in S, NEW z \in S, <<x, y>> \in R, <<y, z>> \in R
      PROVE  <<x, z>> \in R
  <2>1. v[x] \in Nat /\ v[y] \in Nat /\ v[z] \in Nat  OBVIOUS
  <2>2. v[x] > v[y] \/ (v[x] = v[y] /\ Later(x, y))  BY <1>1, <1>6
  <2>3. v[y] > v[z] \/ (v[y] = v[z] /\ Later(y, z))  BY <1>1, <1>6
  <2>4. Later(x, y) /\ Later(y, z) => Later(x, z)  BY <1>4
  <2>5. v[x] > v[z] \/ (v[x] = v[z] /\ Later(x, z))  BY <2>1, <2>2, <2>3, <2>4
  <2> QED  BY <1>1, <2>5
<1>7. ASSUME NEW x \in S, NEW y \in S PROVE x = y \/ <<x, y>> \in R \/ <<y, x>> \in R
  <2>1. v[x] \in Nat /\ v[y] \in Nat  OBVIOUS
  <2>2. x = y \/ Later(x, y) \/ Later(y, x)  BY <1>3
  <2>3. \/ x = y \/ v[x] > v[y] \/ (v[x] = v[y] /\ Later(x, y))
        \/ v[y] > v[x] \/ (v[y] = v[x] /\ Later(y, x))
    BY <2>1, <2>2
  <2> QED  BY <1>1, <2>3
<1> QED  BY <1>5, <1>6, <1>7 DEF Orders

\* What the database holds of a list of detections.
AreDated(ds) ==
  /\ Len(ds) \in Nat /\ DOMAIN ds = 1 .. Len(ds)
  /\ \A k \in DOMAIN ds :
       /\ ds[k].timestamp \in [1 .. 8 -> Byte]
       /\ ds[k].relevance_score \in Nat /\ ds[k].confidence \in Nat

PassesTheReport(d) == d.relevance_score >= 5000 /\ d.confidence >= 6000

(***************************************************************************)
(* The report sees the detections that pass its thresholds, and no others. *)
(***************************************************************************)
LEMMA RelevantAre ==
  ASSUME AreDated(detections)
  PROVE  ToSet(RelevantDetections) =
           {detections[k] : k \in {k \in DOMAIN detections : PassesTheReport(detections[k])}}
<1> DEFINE found == {k \in DOMAIN detections :
                       /\ detections[k].relevance_score >= 5000
                       /\ detections[k].confidence >= 6000}
           R == ByRelevanceAndTime(found)
           v == [k \in found |-> detections[k].relevance_score]
           w == [k \in found |-> Signed(detections[k].timestamp)]
           s == Arranged(detections, found, R)
<1>1. RelevantDetections = s  BY DEF RelevantDetections
<1>2. found = {k \in DOMAIN detections : PassesTheReport(detections[k])}
  BY DEF PassesTheReport
<1>3. found \in SUBSET (1 .. Len(detections)) /\ found \in SUBSET Nat /\ Len(detections) \in Nat
  BY DEF AreDated
<1>4. \A k \in found : detections[k].timestamp \in [1 .. 8 -> Byte]
                       /\ detections[k].relevance_score \in Nat
  BY DEF AreDated
<1>5. IsFiniteSet(found)
  <2> DEFINE n == Len(detections)
  <2>1. n \in Nat /\ found \in SUBSET (1 .. n)  BY <1>3
  <2> HIDE DEF n, found
  <2> QED  BY <2>1, PlacesAreFinite
<1>6. Orders(R, found)
  <2>1. \A p \in found \X found : p \in R <=>
          LET d == detections[p[1]]
              e == detections[p[2]]
          IN  \/ d.relevance_score > e.relevance_score
              \/ /\ d.relevance_score = e.relevance_score
                 /\ \/ Below(Signed(d.timestamp), Signed(e.timestamp))
                    \/ d.timestamp = e.timestamp /\ p[1] < p[2]
    <3> HIDE DEF found
    <3> QED  BY DEF ByRelevanceAndTime
  <2> HIDE DEF R, found
  <2>2. \A x \in found : v[x] = detections[x].relevance_score
                         /\ w[x] = Signed(detections[x].timestamp)
    OBVIOUS
  <2> HIDE DEF v, w
  <2>3. \A x \in found : v[x] \in Nat  BY <1>4, <2>2
  <2>4. \A x \in found : w[x] \in [1 .. 8 -> Nat]
    <3> SUFFICES ASSUME NEW x \in found PROVE w[x] \in [1 .. 8 -> Nat]  OBVIOUS
    <3> DEFINE t == detections[x].timestamp
    <3>1. t \in [1 .. 8 -> Byte] /\ w[x] = Signed(t)  BY <1>4, <2>2
    <3> HIDE DEF t
    <3> QED  BY <3>1, SignedIs
  <2>5. ASSUME NEW x \in found, NEW y \in found
        PROVE  detections[x].timestamp = detections[y].timestamp <=> w[x] = w[y]
    <3> DEFINE t == detections[x].timestamp
               u == detections[y].timestamp
    <3>1. t \in [1 .. 8 -> Byte] /\ u \in [1 .. 8 -> Byte]
          /\ w[x] = Signed(t) /\ w[y] = Signed(u)
      BY <1>4, <2>2
    <3> HIDE DEF t, u
    <3>2. Signed(t) = Signed(u) => t = u  BY <3>1, SignedIs
    <3> QED  BY <3>1, <3>2 DEF t, u
  <2>6. \A x, y \in found : <<x, y>> \in R <=>
          v[x] > v[y] \/ (v[x] = v[y] /\ (Below(w[x], w[y]) \/ (w[x] = w[y] /\ x < y)))
    <3> SUFFICES ASSUME NEW x \in found, NEW y \in found
                 PROVE  <<x, y>> \in R <=>
                          v[x] > v[y] \/ (v[x] = v[y] /\ (Below(w[x], w[y]) \/ (w[x] = w[y] /\ x < y)))
      OBVIOUS
    <3>1. <<x, y>> \in R <=>
             \/ detections[x].relevance_score > detections[y].relevance_score
             \/ /\ detections[x].relevance_score = detections[y].relevance_score
                /\ \/ Below(Signed(detections[x].timestamp), Signed(detections[y].timestamp))
                   \/ detections[x].timestamp = detections[y].timestamp /\ x < y
      BY <2>1
    <3> QED  BY <2>2, <2>5, <3>1
  <2> QED  BY <1>3, <2>3, <2>4, <2>6, OrdersByScoreAndTime
<1> DEFINE c == Cardinality(found)
<1>7. \E order : Arrangement(s, order, detections, found, R)
  <2> HIDE DEF found, R
  <2> QED  BY <1>5, <1>6, ArrangedIs
<1> HIDE DEF found, R, s
<1>8. PICK order : Arrangement(s, order, detections, found, R)  BY <1>7
<1>9. /\ c \in Nat
      /\ order \in [1 .. c -> found]
      /\ \A k \in found : \E n \in 1 .. c : order[n] = k
      /\ s = [n \in 1 .. c |-> detections[order[n]]]
  BY <1>8 DEF Arrangement
<1> HIDE DEF c
<1>10. DOMAIN s = 1 .. c /\ \A n \in 1 .. c : s[n] = detections[order[n]] /\ order[n] \in found
  BY <1>9
<1>11. ToSet(s) = {detections[k] : k \in found}
  <2>1. ASSUME NEW d \in ToSet(s) PROVE d \in {detections[k] : k \in found}
    <3>1. PICK n \in 1 .. c : d = s[n]  BY <1>10, <2>1 DEF ToSet
    <3> QED  BY <1>10, <3>1
  <2>2. ASSUME NEW k \in found PROVE detections[k] \in ToSet(s)
    <3>1. PICK n \in 1 .. c : order[n] = k  BY <1>9
    <3>2. detections[k] = s[n] /\ n \in DOMAIN s  BY <1>10, <3>1
    <3> QED  BY <3>2 DEF ToSet
  <2> QED  BY <2>1, <2>2
<1> QED  BY <1>1, <1>2, <1>11
(***************************************************************************)
(* The detections of one record, and those of many in one list.            *)
(***************************************************************************)
IsDetectionOf(d, r) ==
  /\ IsOf(d, r)
  /\ d.relevance_score \in Nat /\ d.confidence \in Nat
  /\ IsKeyRecord(r) \/ MotionEnergy(PayloadInImage(r)) > 3500

IsList(s) == Len(s) \in Nat /\ s = [k \in 1 .. Len(s) |-> s[k]]

LEMMA DetectionsAre ==
  ASSUME NEW r, NEW a, IsAnalysisOf(a, r), NEW s, s = DetectionsOf(a)
  PROVE  /\ IsList(s)
         /\ \A k \in DOMAIN s : IsDetectionOf(s[k], r)
         /\ IsKeyRecord(r) /\ r.payload_len >= 32 => 1 \in DOMAIN s /\ PassesTheReport(s[1])
<1> DEFINE e == a.entities
           n == Len(e)
           T == {s[k] : k \in DOMAIN s}
<1>1. /\ n \in Nat /\ DOMAIN e = 1 .. n
      /\ \A k \in DOMAIN e : e[k].confidence \in Nat
      /\ IsOf(a, r) /\ a.relevance_score \in Nat
      /\ IsKeyRecord(r) /\ r.payload_len >= 32 =>
           a.relevance_score >= 5200 /\ 1 \in DOMAIN e /\ e[1].confidence >= 8000
      /\ e # <<>> => IsKeyRecord(r) \/ MotionEnergy(PayloadInImage(r)) > 3500
  BY DEF IsAnalysisOf
<1>2. s = [k \in DOMAIN e |->
             [block_index     |-> a.block_index,
              channel_id      |-> a.channel_id,
              timestamp       |-> a.timestamp,
              relevance_score |-> a.relevance_score,
              entity_class    |-> e[k].class_label,
              confidence      |-> e[k].confidence,
              bbox            |-> e[k].bbox]]
  BY DEF DetectionsOf
<1> HIDE DEF e
<1>3. DOMAIN s = DOMAIN e
      /\ \A k \in DOMAIN e : /\ s[k].block_index = a.block_index
                             /\ s[k].channel_id = a.channel_id
                             /\ s[k].timestamp = a.timestamp
                             /\ s[k].relevance_score = a.relevance_score
                             /\ s[k].confidence = e[k].confidence
  BY <1>2
<1>4. s = [k \in DOMAIN s |-> s[k]]  BY <1>2
<1> HIDE DEF n
<1>5. Len(s) = n
  <2>1. s \in [1 .. n -> T]  BY <1>1, <1>3, <1>4
  <2> HIDE DEF T
  <2> QED  BY <1>1, <2>1, FunctionIsSeq
<1>6. IsList(s)  BY <1>1, <1>3, <1>4, <1>5 DEF IsList
<1>7. ASSUME NEW k \in DOMAIN s PROVE IsDetectionOf(s[k], r)
  <2>1. e # <<>>
    <3> SUFFICES ASSUME e = <<>> PROVE FALSE  OBVIOUS
    <3>1. DOMAIN e = {}  OBVIOUS
    <3> QED  BY <1>3, <3>1
  <2>2. IsOf(s[k], r)  BY <1>1, <1>3 DEF IsOf
  <2> QED  BY <1>1, <1>3, <2>1, <2>2 DEF IsDetectionOf
<1>8. ASSUME IsKeyRecord(r), r.payload_len >= 32 PROVE 1 \in DOMAIN s /\ PassesTheReport(s[1])
  <2>1. a.relevance_score >= 5200 /\ 1 \in DOMAIN e /\ e[1].confidence >= 8000  BY <1>1, <1>8
  <2>2. s[1].relevance_score = a.relevance_score /\ s[1].confidence = e[1].confidence
    BY <1>3, <2>1
  <2> DEFINE x == a.relevance_score
             y == e[1].confidence
  <2>3. x \in Nat /\ y \in Nat /\ x >= 5200 /\ y >= 8000  BY <1>1, <2>1
  <2> HIDE DEF x, y
  <2>4. x >= 5000 /\ y >= 6000  BY <2>3
  <2> QED  BY <1>3, <2>1, <2>2, <2>4 DEF PassesTheReport, x, y
<1> QED  BY <1>6, <1>7, <1>8

LEMMA FlattenLists ==
  ASSUME NEW n \in Nat, NEW seqs, seqs = [k \in 1 .. n |-> seqs[k]],
         \A k \in 1 .. n : IsList(seqs[k]),
         NEW T, \A k \in 1 .. n : \A j \in DOMAIN seqs[k] : seqs[k][j] \in T
  PROVE  /\ FlattenSeq(seqs) \in Seq(T)
         /\ \A k \in 1 .. n : HasAll(FlattenSeq(seqs), seqs[k])
<1>1. ASSUME NEW k \in 1 .. n PROVE seqs[k] \in Seq(T)
  <2> DEFINE s == seqs[k]
  <2>1. IsList(s) /\ \A j \in DOMAIN s : s[j] \in T  OBVIOUS
  <2> HIDE DEF s
  <2>2. Len(s) \in Nat /\ s = [j \in 1 .. Len(s) |-> s[j]]  BY <2>1 DEF IsList
  <2>3. s \in [1 .. Len(s) -> T]
    <3>1. DOMAIN s = 1 .. Len(s)  BY <2>2
    <3> QED  BY <2>1, <2>2, <3>1
  <2>4. s \in Seq(T)  BY <2>2, <2>3, FunctionIsSeq
  <2> QED  BY <2>4 DEF s
<1>2. seqs \in [1 .. n -> Seq(T)]  BY <1>1
<1>3. seqs \in Seq(Seq(T)) /\ Len(seqs) = n  BY <1>2, FunctionIsSeq
<1>4. FlattenSeq(seqs) \in Seq(T)  BY <1>3, FlattenType
<1>5. ASSUME NEW k \in 1 .. n PROVE HasAll(FlattenSeq(seqs), seqs[k])
  <2>1. k \in 1 .. Len(seqs)  BY <1>3
  <2> QED  BY <1>3, <2>1, FlattenHas
<1> QED  BY <1>4, <1>5

(***************************************************************************)
(* What analyze stores and shows: ds are the detections, top the leads.    *)
(***************************************************************************)
DetectionsTellTheRecords(ds) ==
  /\ \A r \in ToSet(rows) :
       IsKeyRecord(r) /\ IsReadable(r) /\ r.payload_len >= 32 =>
         \E k \in DOMAIN ds : IsOf(ds[k], r) /\ PassesTheReport(ds[k])
  /\ \A k \in DOMAIN ds : \E r \in ToSet(rows) : IsDetectionOf(ds[k], r)

KeyframesBeforeDullFrames(top) ==
  \A r \in ToSet(rows) :
    IsKeyRecord(r) /\ IsReadable(r) /\ r.payload_len >= 32 =>
      \A i \in DOMAIN top : IsDull(top[i]) => \E j \in 1 .. i - 1 : IsOf(top[j], r)

\* The records that can be read, and what is made of each.
AreAnalyzed(readable, analyses) ==
  /\ Len(readable) \in Nat
  /\ DOMAIN readable = 1 .. Len(readable) /\ DOMAIN analyses = 1 .. Len(readable)
  /\ \A k \in 1 .. Len(readable) :
       /\ readable[k] \in ToSet(rows) /\ readable[k] \in Row /\ FitsItsColumns(readable[k])
       /\ IsAnalysisOf(analyses[k], readable[k])
  /\ \A r \in ToSet(rows) : IsReadable(r) => \E k \in 1 .. Len(readable) : readable[k] = r

LEMMA AnalyzedAre ==
  ASSUME ParserInv,
         NEW readable, readable = ByBlock({k \in DOMAIN rows : IsReadable(rows[k])}),
         NEW analyses,
         analyses = [k \in DOMAIN readable |->
                       AnalyzeFrame(readable[k], PayloadInImage(readable[k]),
                                    IsKeyRecord(readable[k]))]
  PROVE  AreAnalyzed(readable, analyses)
<1> DEFINE P == {k \in DOMAIN rows : IsReadable(rows[k])}
           T == {rows[k] : k \in P}
           n == Len(readable)
<1>1. P \in SUBSET (DOMAIN rows) /\ readable = ByBlock(P)  OBVIOUS
<1>2. \A r \in T : r \in ToSet(rows) /\ r \in Row /\ FitsItsColumns(r) /\ IsReadable(r)
  <2> SUFFICES ASSUME NEW k \in P
               PROVE  /\ rows[k] \in ToSet(rows) /\ rows[k] \in Row
                      /\ FitsItsColumns(rows[k]) /\ IsReadable(rows[k])
    OBVIOUS
  <2>1. rows \in Seq(Row)  BY DEF ParserInv, ParserTypeOK
  <2>2. rows[k] \in Row  BY <2>1, LenProperties
  <2>3. FitsItsColumns(rows[k])
    BY DEF ParserInv, RecordsAreOfTheirBlocks, IsOfItsBlock
  <2> QED  BY <2>2, <2>3 DEF ToSet
<1>3. \A r \in ToSet(rows) : IsReadable(r) => \E k \in P : rows[k] = r
  BY DEF ToSet
<1> HIDE DEF P
<1>4. readable \in Seq(T) /\ \A k \in P : Has(readable, rows[k])  BY <1>1, ByBlockHas
<1> HIDE DEF T
<1>5. n \in Nat /\ DOMAIN readable = 1 .. n /\ \A k \in 1 .. n : readable[k] \in T
  BY <1>4, LenProperties
<1>6. DOMAIN analyses = 1 .. n  BY <1>5
<1>7. ASSUME NEW k \in 1 .. n PROVE IsAnalysisOf(analyses[k], readable[k])
  <2> DEFINE r == readable[k]
             a == analyses[k]
  <2>1. r \in Row /\ IsReadable(r)  BY <1>2, <1>5
  <2>2. a = AnalyzeFrame(r, PayloadInImage(r), IsKeyRecord(r))  BY <1>5
  <2> HIDE DEF r, a
  <2>3. IsAnalysisOf(a, r)  BY <2>1, <2>2, AnalysisIs
  <2> QED  BY <2>3 DEF r, a
<1>8. \A r \in ToSet(rows) : IsReadable(r) => \E k \in 1 .. n : readable[k] = r
  BY <1>3, <1>4 DEF Has
<1> QED  BY <1>2, <1>5, <1>6, <1>7, <1>8 DEF AreAnalyzed
LEMMA StoredDetectionsTell ==
  ASSUME NEW readable, NEW analyses, AreAnalyzed(readable, analyses),
         NEW ds, ds = FlattenSeq([k \in DOMAIN analyses |-> DetectionsOf(analyses[k])])
  PROVE  AreDated(ds) /\ DetectionsTellTheRecords(ds)
<1> DEFINE n == Len(readable)
           seqs == [k \in 1 .. n |-> DetectionsOf(analyses[k])]
           T == UNION {{seqs[k][j] : j \in DOMAIN seqs[k]} : k \in 1 .. n}
<1>1. /\ n \in Nat /\ DOMAIN analyses = 1 .. n
      /\ \A k \in 1 .. n :
           /\ readable[k] \in ToSet(rows) /\ readable[k] \in Row /\ FitsItsColumns(readable[k])
           /\ IsAnalysisOf(analyses[k], readable[k])
      /\ \A r \in ToSet(rows) : IsReadable(r) => \E k \in 1 .. n : readable[k] = r
  BY DEF AreAnalyzed
<1> HIDE DEF n
<1>2. ASSUME NEW k \in 1 .. n
      PROVE  /\ IsList(seqs[k])
             /\ \A j \in DOMAIN seqs[k] : IsDetectionOf(seqs[k][j], readable[k])
             /\ IsKeyRecord(readable[k]) /\ readable[k].payload_len >= 32 =>
                  1 \in DOMAIN seqs[k] /\ PassesTheReport(seqs[k][1])
  <2> DEFINE r == readable[k]
             a == analyses[k]
             s == seqs[k]
  <2>1. IsAnalysisOf(a, r) /\ s = DetectionsOf(a)  BY <1>1
  <2> HIDE DEF r, a, s
  <2>2. /\ IsList(s)
        /\ \A j \in DOMAIN s : IsDetectionOf(s[j], r)
        /\ IsKeyRecord(r) /\ r.payload_len >= 32 => 1 \in DOMAIN s /\ PassesTheReport(s[1])
    BY <2>1, DetectionsAre
  <2> QED  BY <2>2 DEF r, s
<1>3. ds = FlattenSeq(seqs) /\ seqs = [k \in 1 .. n |-> seqs[k]]  BY <1>1
<1> HIDE DEF seqs
<1>4. \A k \in 1 .. n : \A j \in DOMAIN seqs[k] : seqs[k][j] \in T  OBVIOUS
<1>5. \A d \in T : \E k \in 1 .. n : IsDetectionOf(d, readable[k])  BY <1>2
<1> HIDE DEF T
<1>6. ds \in Seq(T) /\ \A k \in 1 .. n : HasAll(ds, seqs[k])
  <2>1. n \in Nat  BY <1>1
  <2>2. \A k \in 1 .. n : IsList(seqs[k])  BY <1>2
  <2>3. seqs = [k \in 1 .. n |-> seqs[k]]  BY <1>3
  <2>4. /\ FlattenSeq(seqs) \in Seq(T)
        /\ \A k \in 1 .. n : HasAll(FlattenSeq(seqs), seqs[k])
    BY <1>4, <2>1, <2>2, <2>3, FlattenLists
  <2> QED  BY <1>3, <2>4
<1>7. Len(ds) \in Nat /\ DOMAIN ds = 1 .. Len(ds) /\ \A k \in 1 .. Len(ds) : ds[k] \in T
  BY <1>6, LenProperties
<1>8. ASSUME NEW k \in DOMAIN ds
      PROVE  \E r \in ToSet(rows) : r \in Row /\ FitsItsColumns(r) /\ IsDetectionOf(ds[k], r)
  <2>1. ds[k] \in T  BY <1>7
  <2>2. PICK i \in 1 .. n : IsDetectionOf(ds[k], readable[i])  BY <1>5, <2>1
  <2> QED  BY <1>1, <2>2
<1>9. AreDated(ds)
  <2>1. ASSUME NEW k \in DOMAIN ds
        PROVE  /\ ds[k].timestamp \in [1 .. 8 -> Byte]
               /\ ds[k].relevance_score \in Nat /\ ds[k].confidence \in Nat
    <3>1. PICK r \in ToSet(rows) : r \in Row /\ FitsItsColumns(r) /\ IsDetectionOf(ds[k], r)
      BY <1>8
    <3>2. r.timestamp \in Seq(Byte) /\ Len(r.timestamp) = 8
      BY <3>1 DEF Row, FitsItsColumns
    <3>3. r.timestamp \in [1 .. 8 -> Byte]
      <4> DEFINE t == r.timestamp
      <4>1. t \in Seq(Byte) /\ Len(t) = 8  BY <3>2
      <4> HIDE DEF t
      <4>2. t \in [1 .. Len(t) -> Byte]  BY <4>1, LenProperties
      <4> QED  BY <4>1, <4>2 DEF t
    <3>4. ds[k].timestamp = r.timestamp  BY <3>1 DEF IsDetectionOf, IsOf
    <3> QED  BY <3>1, <3>3, <3>4 DEF IsDetectionOf
  <2> QED  BY <1>7, <2>1 DEF AreDated
<1>10. ASSUME NEW r \in ToSet(rows), IsKeyRecord(r), IsReadable(r), r.payload_len >= 32
       PROVE  \E k \in DOMAIN ds : IsOf(ds[k], r) /\ PassesTheReport(ds[k])
  <2>1. PICK k \in 1 .. n : readable[k] = r  BY <1>1, <1>10
  <2> DEFINE s == seqs[k]
  <2>2. 1 \in DOMAIN s /\ PassesTheReport(s[1]) /\ IsDetectionOf(s[1], r)
    BY <1>2, <1>10, <2>1
  <2>3. IsList(s) /\ HasAll(ds, s)  BY <1>2, <1>6
  <2> HIDE DEF s
  <2>4. DOMAIN s = 1 .. Len(s)
    <3>1. s = [j \in 1 .. Len(s) |-> s[j]]  BY <2>3 DEF IsList
    <3> DEFINE f == [j \in 1 .. Len(s) |-> s[j]]
    <3>2. s = f /\ DOMAIN f = 1 .. Len(s)  BY <3>1
    <3> HIDE DEF f
    <3>3. DOMAIN s = DOMAIN f  BY <3>2
    <3> QED  BY <3>2, <3>3
  <2>5. Has(ds, s[1])  BY <2>2, <2>3, <2>4 DEF HasAll
  <2>6. PICK i \in 1 .. Len(ds) : ds[i] = s[1]  BY <2>5 DEF Has
  <2>7. i \in DOMAIN ds  BY <1>7
  <2>8. IsOf(ds[i], r) /\ PassesTheReport(ds[i])  BY <2>2, <2>6 DEF IsDetectionOf
  <2> QED  BY <2>7, <2>8
<1>11. \A k \in DOMAIN ds : \E r \in ToSet(rows) : IsDetectionOf(ds[k], r)  BY <1>8
<1> QED  BY <1>9, <1>10, <1>11 DEF DetectionsTellTheRecords

LEMMA ShownLeadsTell ==
  ASSUME NEW readable, NEW analyses, AreAnalyzed(readable, analyses),
         NEW top, top = SummarizeAnalytics(analyses, 5000, LimitLeads).top_leads
  PROVE  KeyframesBeforeDullFrames(top)
<1> DEFINE n == Len(readable)
<1>1. /\ n \in Nat /\ DOMAIN analyses = 1 .. n
      /\ \A k \in 1 .. n :
           /\ readable[k] \in ToSet(rows)
           /\ IsAnalysisOf(analyses[k], readable[k])
      /\ \A r \in ToSet(rows) : IsReadable(r) => \E k \in 1 .. n : readable[k] = r
  BY DEF AreAnalyzed
<1> HIDE DEF n
<1>2. \A k \in 1 .. n : analyses[k].relevance_score \in Nat  BY <1>1 DEF IsAnalysisOf
<1>3. ShowsTheHighest(top, analyses)
  <2>1. LimitLeads \in Nat  BY BoundAssumption
  <2> QED  BY <1>1, <1>2, <2>1, TopLeadsAre
<1> SUFFICES ASSUME NEW r \in ToSet(rows), IsKeyRecord(r), IsReadable(r), r.payload_len >= 32,
                    NEW i \in DOMAIN top, IsDull(top[i])
             PROVE  \E j \in 1 .. i - 1 : IsOf(top[j], r)
  BY DEF KeyframesBeforeDullFrames
<1>4. PICK k \in 1 .. n : readable[k] = r  BY <1>1
<1>5. IsOf(analyses[k], r) /\ analyses[k].relevance_score >= 5200
  BY <1>1, <1>4 DEF IsAnalysisOf
<1>6. PICK l \in 1 .. n : top[i] = analyses[l]  BY <1>1, <1>3 DEF ShowsTheHighest
<1>7. IsAnalysisOf(top[i], readable[l]) /\ readable[l] \in ToSet(rows)  BY <1>1, <1>6
<1>8. ~IsKeyRecord(readable[l]) /\ top[i].entities = <<>>
  BY <1>7 DEF IsDull, IsAnalysisOf
<1>9. top[i].relevance_score <= 4000  BY <1>7, <1>8 DEF IsAnalysisOf
<1>10. analyses[k].relevance_score > top[i].relevance_score
  <2>1. analyses[k].relevance_score \in Nat /\ top[i].relevance_score \in Nat
    BY <1>2, <1>6
  <2> QED  BY <1>5, <1>9, <2>1
<1>11. \E j \in 1 .. i - 1 : top[j] = analyses[k]
  BY <1>1, <1>3, <1>10 DEF ShowsTheHighest
<1> QED  BY <1>5, <1>11

(***************************************************************************)
(* After analyze only the report runs: what was stored and shown stands,   *)
(* and so do the records it tells of.                                      *)
(***************************************************************************)
LeadsInv ==
  leads # None =>
    /\ phase \in {"analyzed", "reported"}
    /\ AreDated(detections)
    /\ DetectionsTellTheRecords(detections)
    /\ KeyframesBeforeDullFrames(leads[1].top_leads)

LEMMA AnalyzeTells ==
  ASSUME ParserInv, Analyze
  PROVE  LeadsInv'
<1>1. PICK readable \in {ByBlock({k \in DOMAIN rows : IsReadable(rows[k])})} :
        LET analyses == [k \in DOMAIN readable |->
                           AnalyzeFrame(readable[k], PayloadInImage(readable[k]),
                                        IsKeyRecord(readable[k]))]
        IN  /\ detections' = FlattenSeq([k \in DOMAIN analyses |-> DetectionsOf(analyses[k])])
            /\ leads' = <<SummarizeAnalytics(analyses, 5000, LimitLeads)>>
  BY DEF Analyze
<1> DEFINE analyses == [k \in DOMAIN readable |->
                          AnalyzeFrame(readable[k], PayloadInImage(readable[k]),
                                       IsKeyRecord(readable[k]))]
           sum == SummarizeAnalytics(analyses, 5000, LimitLeads)
<1>2. AreAnalyzed(readable, analyses)
  <2>1. readable = ByBlock({k \in DOMAIN rows : IsReadable(rows[k])})  OBVIOUS
  <2> QED  BY <2>1, AnalyzedAre
<1>3. detections' = FlattenSeq([k \in DOMAIN analyses |-> DetectionsOf(analyses[k])])
      /\ leads' = <<sum>>
  BY <1>1
<1> HIDE DEF analyses
<1>4. \A ds : ds = detections' => AreDated(ds) /\ DetectionsTellTheRecords(ds)
  BY <1>2, <1>3, StoredDetectionsTell
<1>5. \A top : top = sum.top_leads => KeyframesBeforeDullFrames(top)
  BY <1>2, ShownLeadsTell
<1> HIDE DEF sum
<1>6. \A top : top = leads'[1].top_leads => KeyframesBeforeDullFrames(top)
  <2>1. leads'[1] = sum  BY <1>3
  <2> QED  BY <1>5, <2>1
<1>7. phase' = "analyzed" /\ UNCHANGED <<rows, file, block_size>>
  BY DEF Analyze, evidence
<1>8. AreDated(detections)'
  <2>1. AreDated(detections')  BY <1>4
  <2> QED  BY <2>1 DEF AreDated
<1>9. DetectionsTellTheRecords(detections)'
  <2>1. \A ds : ds = detections' => DetectionsTellTheRecords(ds)  BY <1>4
  <2>2. \A r : IsReadable(r)' <=> IsReadable(r)
    BY <1>7 DEF IsReadable, PayloadInImage
  <2>3. \A d, r : IsDetectionOf(d, r)' <=> IsDetectionOf(d, r)
    BY <1>7 DEF IsDetectionOf, PayloadInImage
  <2> QED  BY <1>7, <2>1, <2>2, <2>3 DEF DetectionsTellTheRecords
<1>10. KeyframesBeforeDullFrames(leads[1].top_leads)'
  <2>1. \A top : top = leads'[1].top_leads => KeyframesBeforeDullFrames(top)  BY <1>6
  <2> QED  BY <1>7, <2>1 DEF KeyframesBeforeDullFrames, IsReadable, PayloadInImage, IsDull
<1> QED  BY <1>7, <1>8, <1>9, <1>10 DEF LeadsInv

LEMMA LeadsNext ==
  ASSUME ParserInv, LeadsInv, [Next]_vars
  PROVE  LeadsInv'
<1>1. CASE Analyze  BY <1>1, AnalyzeTells
<1>2. CASE leads = None /\ leads' = None  BY <1>2 DEF LeadsInv
<1>3. CASE UNCHANGED <<leads, detections, rows, file>> /\ phase' \in {phase, "reported"}
  <2> SUFFICES ASSUME leads # None
               PROVE  /\ phase' \in {"analyzed", "reported"}
                      /\ AreDated(detections)'
                      /\ DetectionsTellTheRecords(detections)'
                      /\ KeyframesBeforeDullFrames(leads[1].top_leads)'
    BY <1>3 DEF LeadsInv
  <2>1. phase' \in {"analyzed", "reported"}  BY <1>3 DEF LeadsInv
  <2>2. AreDated(detections)'  BY <1>3 DEF LeadsInv, AreDated
  <2>3. DetectionsTellTheRecords(detections)'
    <3>1. \A r : IsReadable(r)' <=> IsReadable(r)
      BY <1>3 DEF IsReadable, PayloadInImage
    <3>2. \A d, r : IsDetectionOf(d, r)' <=> IsDetectionOf(d, r)
      BY <1>3 DEF IsDetectionOf, PayloadInImage
    <3> QED  BY <1>3, <3>1, <3>2 DEF LeadsInv, DetectionsTellTheRecords
  <2>4. KeyframesBeforeDullFrames(leads[1].top_leads)'
    BY <1>3 DEF LeadsInv, KeyframesBeforeDullFrames, IsReadable, PayloadInImage, IsDull
  <2> QED  BY <2>1, <2>2, <2>3, <2>4
<1>4. CASE Report  BY <1>3, <1>4 DEF Report, evidence
<1>5. CASE phase \notin {"analyzed", "reported"} /\ leads' = leads
  BY <1>2, <1>5 DEF LeadsInv
<1>6. CASE UNCHANGED vars  BY <1>3, <1>6 DEF vars, evidence, examined
<1>7. \/ Analyze \/ Report \/ UNCHANGED vars
      \/ phase \notin {"analyzed", "reported"} /\ leads' = leads
  BY DEF Next, examined, Identify, StartParse, ParseBlock, StoreExtraction, StartCarve, Carve,
         StoreCarved
<1> QED  BY <1>1, <1>4, <1>5, <1>6, <1>7

(***************************************************************************)
(* No keyframe of 32 bytes is lost on the way to the examiner, and no lead *)
(* is of a frame that is neither a keyframe nor moves, for every image,    *)
(* grammar, digest and number of leads shown (analyze_frame,               *)
(* summarize_analytics, query_analytics_detections).                       *)
(***************************************************************************)
THEOREM KeyframesAreLeads == Spec => []EveryKeyframeIsALead
<1>1. Init => LeadsInv  BY DEF Init, LeadsInv
<1>2. ParserInv /\ LeadsInv /\ [Next]_vars => LeadsInv'  BY LeadsNext
<1>3. LeadsInv => EveryKeyframeIsALead
  <2> SUFFICES ASSUME LeadsInv, leads # None PROVE EveryKeyframeIsALead
    BY DEF EveryKeyframeIsALead
  <2> DEFINE relevant == ToSet(RelevantDetections)
             top == leads[1].top_leads
             P == {k \in DOMAIN detections : PassesTheReport(detections[k])}
  <2>1. AreDated(detections) /\ DetectionsTellTheRecords(detections)
        /\ KeyframesBeforeDullFrames(top)
    BY DEF LeadsInv
  <2>2. relevant = {detections[k] : k \in P}  BY <2>1, RelevantAre
  <2> HIDE DEF relevant, top
  <2>3. ASSUME NEW r \in ToSet(rows), IsKeyRecord(r), IsReadable(r), r.payload_len >= 32
        PROVE  \E d \in relevant : IsOf(d, r)
    <3>1. PICK k \in DOMAIN detections : IsOf(detections[k], r) /\ PassesTheReport(detections[k])
      BY <2>1, <2>3 DEF DetectionsTellTheRecords
    <3> QED  BY <2>2, <3>1
  <2>4. ASSUME NEW r \in ToSet(rows), IsKeyRecord(r), IsReadable(r), r.payload_len >= 32,
               NEW i \in DOMAIN top, IsDull(top[i])
        PROVE  \E j \in 1 .. i - 1 : IsOf(top[j], r)
    BY <2>1, <2>4 DEF KeyframesBeforeDullFrames
  <2>5. ASSUME NEW d \in relevant
        PROVE  \E r \in ToSet(rows) :
                 IsOf(d, r) /\ (IsKeyRecord(r) \/ MotionEnergy(PayloadInImage(r)) > 3500)
    <3>1. PICK k \in DOMAIN detections : d = detections[k]  BY <2>2
    <3>2. PICK r \in ToSet(rows) : IsDetectionOf(detections[k], r)
      BY <2>1 DEF DetectionsTellTheRecords
    <3> QED  BY <3>1, <3>2 DEF IsDetectionOf
  <2> QED  BY <2>3, <2>4, <2>5 DEF EveryKeyframeIsALead, relevant, top
<1> QED  BY <1>1, <1>2, <1>3, ParserAlways, PTL DEF Spec
===============================================================================

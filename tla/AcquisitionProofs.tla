-------------------------- MODULE AcquisitionProofs --------------------------
(***************************************************************************)
(* Acquisition, for every evidence, block size, batch size and number of   *)
(* runs: the inductive invariant IInv, and from it that a complete         *)
(* manifest describes one byte string, that success means the evidence,    *)
(* and that every step is a step of the abstract acquisition.              *)
(***************************************************************************)
EXTENDS Acquisition, SharedLemmas

USE ByteAssumption, ImagesAssumption, BlockSizesAssumption, BatchAssumption,
    BoundsAssumption
    DEF HasRoom, AfterRead, AfterEnd, HashesInOrder

(***************************************************************************)
(* A batch has room for at least one byte, and a full batch is made of     *)
(* BatchBlocks whole blocks.                                               *)
(***************************************************************************)
LEMMA CapacityFact ==
  ASSUME NEW b \in BlockSizes \ {0}
  PROVE  /\ b \in Nat \ {0}
         /\ Capacity(b) \in Nat \ {0}
         /\ Capacity(b) = b * BatchBlocks
         /\ BlockCount(Capacity(b), b) = BatchBlocks
<1>1. b \in Nat \ {0}  OBVIOUS
<1>2. b * BatchBlocks \in Nat \ {0} /\ BatchBlocks * b = b * BatchBlocks
  BY <1>1
<1>3. BlockCount(b * BatchBlocks, b) = BatchBlocks
  BY <1>1, <1>2, BlockCountIs
<1> QED  BY <1>1, <1>2, <1>3 DEF Capacity

(***************************************************************************)
(* The first n entries of a buffer are a byte string of length n.          *)
(***************************************************************************)
LEMMA PrefixOfBuffer ==
  ASSUME NEW c \in Nat, NEW f \in [1 .. c -> Byte], NEW n \in 0 .. c
  PROVE  /\ [i \in 1 .. n |-> f[i]] \in Seq(Byte)
         /\ Len([i \in 1 .. n |-> f[i]]) = n
<1>1. [i \in 1 .. n |-> f[i]] \in [1 .. n -> Byte]
  OBVIOUS
<1> QED  BY <1>1, FunctionIsSeq

(***************************************************************************)
(* The valid part of the buffer is a byte string of length filled.         *)
(***************************************************************************)
LEMMA ValidDataType ==
  ASSUME TypeOK
  PROVE  ValidData \in Seq(Byte) /\ Len(ValidData) = filled
BY PrefixOfBuffer, Capacity(block_size) \in Nat DEF TypeOK, ValidData, Capacity

LEMMA BatchChunksType ==
  ASSUME TypeOK, block_size # 0
  PROVE  /\ BatchChunks \in Seq(Seq(Byte))
         /\ Len(BatchChunks) \in Nat
         /\ \A j \in 1 .. Len(BatchChunks) : BatchChunks[j] # NotHashed
<1>1. block_size \in Nat \ {0}  BY DEF TypeOK
<1> QED
  BY <1>1, ValidDataType, BlocksOfType, LenProperties DEF BatchChunks, NotHashed

\* w is v with n bytes of img behind it, those that follow position p.
ReadFrom(w, v, img, p, n) ==
  /\ Len(w) = Len(v) + n
  /\ \A i \in 1 .. Len(v) : w[i] = v[i]
  /\ \A i \in 1 .. n : w[Len(v) + i] = img[p + i]

(***************************************************************************)
(* If h followed by v is a prefix of img, and w is v with the next bytes   *)
(* of img behind it, then h followed by w is the longer prefix.            *)
(***************************************************************************)
LEMMA LongerPrefix ==
  ASSUME NEW S, NEW img \in Seq(S), NEW h \in Seq(S),
         NEW v \in Seq(S), NEW w \in Seq(S), NEW n \in Nat,
         Len(h) + Len(v) + n <= Len(img),
         h \o v = SubSeq(img, 1, Len(h) + Len(v)),
         ReadFrom(w, v, img, Len(h) + Len(v), n)
  PROVE  h \o w = SubSeq(img, 1, Len(h) + Len(v) + n)
<1> DEFINE p == Len(h) + Len(v)
<1> USE DEF ReadFrom
<1>1. Len(h) \in Nat /\ Len(v) \in Nat /\ Len(img) \in Nat
  BY LenProperties
<1>2. /\ SubSeq(img, 1, p + n) \in Seq(S)
      /\ Len(SubSeq(img, 1, p + n)) = p + n
      /\ \A i \in 1 .. p + n : SubSeq(img, 1, p + n)[i] = img[i]
  BY <1>1
<1>3. \A i \in 1 .. p : (h \o v)[i] = img[i]
  BY <1>1
<1>4. h \o w \in Seq(S) /\ Len(h \o w) = p + n
  <2>1. h \o w \in Seq(S) /\ Len(h \o w) = Len(h) + Len(w)
    BY ConcatProperties
  <2> QED  BY <1>1, <2>1
<1>5. ASSUME NEW i \in 1 .. p + n
      PROVE  (h \o w)[i] = img[i]
  <2>1. CASE i <= Len(h)
    <3>1. (h \o w)[i] = h[i] /\ (h \o v)[i] = h[i] /\ i \in 1 .. p
      BY <1>1, <2>1, ConcatProperties
    <3> QED  BY <1>3, <3>1
  <2>2. CASE i > Len(h) /\ i <= p
    <3> DEFINE k == i - Len(h)
    <3>1. k \in 1 .. Len(v) /\ k \in 1 .. Len(w) /\ i \in 1 .. p
      BY <1>1, <2>2
    <3>2. (h \o w)[i] = w[k] /\ (h \o v)[i] = v[k]
      BY <1>1, <2>2, <3>1, ConcatProperties
    <3> QED  BY <1>3, <3>1, <3>2
  <2>3. CASE i > p
    <3> DEFINE k == i - p
    <3>1. k \in 1 .. n /\ i - Len(h) = Len(v) + k /\ p + k = i
      BY <1>1, <2>3
    <3>2. (h \o w)[i] = w[i - Len(h)]
      BY <1>1, <2>3, ConcatProperties
    <3> QED  BY <3>1, <3>2
  <2> QED  BY <1>1, <2>1, <2>2, <2>3
<1> QED  BY <1>2, <1>4, <1>5, SeqEqual

----------------------------------------------------------------------------
\* The steps, one lemma an action.

LEMMA InitInv == Init => IInv
<1> SUFFICES ASSUME Init  PROVE IInv
  OBVIOUS
<1>1. Capacity(0) = 0  BY DEF Capacity
<1>2. TypeOK
  <2>1. raw_buffer \in [1 .. 0 -> Byte]  BY DEF Init
  <2>2. /\ raw_buffer \in [1 .. Capacity(block_size) -> Byte]
        /\ filled \in 0 .. Capacity(block_size)
    BY <1>1, <2>1 DEF Init
  <2>3. hasher \in Seq(Byte) /\ slots \in Seq(Seq(Byte)) /\ block_hashes \in Seq(Seq(Byte))
    BY DEF Init
  <2> QED  BY <2>2, <2>3 DEF Init, TypeOK
<1> QED
  BY <1>2 DEF Init, IInv, ManifestFaithful, ReadInv, UpdateInv, HashInv,
             WriteInv, OutcomeInv

LEMMA OpenInv ==
  ASSUME IInv, NEW b \in BlockSizes, Open(b)
  PROVE  IInv'
<1> USE DEF Open
<1>1. b \in Nat \ {0} /\ Capacity(b) \in Nat \ {0}
  BY CapacityFact
<1>2. TypeOK'
  <2>1. /\ (raw_buffer \in [1 .. Capacity(block_size) -> Byte])'
        /\ (filled \in 0 .. Capacity(block_size))'
    BY <1>1
  <2>2. /\ (hasher \in Seq(Byte))'
        /\ (slots \in Seq(Seq(Byte)))'
        /\ (block_hashes \in Seq(Seq(Byte)))'
    OBVIOUS
  <2>3. image' \in Images /\ touches' \in Nat /\ runs' \in Nat
    BY DEF IInv, TypeOK
  <2>4. changed' \in BOOLEAN /\ pc' = "read" /\ outcome' = "none" /\ block_size' \in BlockSizes
    OBVIOUS
  <2>5. pos' \in Nat /\ total_bytes' \in Nat /\ disk' \in {"absent", "torn", "complete"}
    BY DEF IInv, TypeOK, casedir
  <2> QED  BY <2>1, <2>2, <2>3, <2>4, <2>5 DEF TypeOK
<1>3. ManifestFaithful'
  BY DEF IInv, ManifestFaithful, casedir, Contract!Describes
<1>4. ReadInv'
  <2>1. BlockCount(0, b) = 0
    BY <1>1, BlockCountIs
  <2>2. BlocksOf(<<>>, b) = <<>>
    BY <1>1, <2>1, BlocksOfType DEF BlocksOf
  <2>3. ValidData' = <<>>
    BY DEF ValidData
  <2>4. image' \in Seq(Byte) /\ SubSeq(image', 1, 0) = <<>>
    BY DEF IInv, TypeOK
  <2> QED
    BY <1>1, <2>2, <2>3, <2>4
       DEF ReadInv, Collected, WholeBlocks, Continues
<1> QED
  BY <1>1, <1>2, <1>3, <1>4 DEF IInv, UpdateInv, HashInv, WriteInv, OutcomeInv

LEMMA EndsIdleInv ==
  ASSUME IInv, Refuse \/ Fail \/ Crash
  PROVE  IInv'
<1>1. /\ pc' = "idle" /\ outcome' # "ok" /\ outcome' \in {"none", "ok", "error"}
      /\ runs' \in Nat
      /\ UNCHANGED <<evidence, block_size, stream, casedir>>
  BY DEF IInv, TypeOK, OutcomeInv, Refuse, Fail, Crash
<1>2. TypeOK'
  BY <1>1 DEF IInv, TypeOK, evidence, stream, casedir
<1>3. ManifestFaithful'
  BY <1>1 DEF IInv, ManifestFaithful, casedir
<1> QED
  BY <1>1, <1>2, <1>3
     DEF IInv, ReadInv, UpdateInv, HashInv, WriteInv, OutcomeInv

LEMMA ReadStepInv ==
  ASSUME IInv, NEW n \in 1 .. Capacity(block_size), Read(n)
  PROVE  IInv'
<1> DEFINE cap == Capacity(block_size)
<1>1. /\ block_size \in BlockSizes \ {0} /\ cap \in Nat \ {0}
      /\ filled \in Nat /\ filled + n \in 0 .. cap /\ pos \in Nat
      /\ n \in Nat /\ n + pos <= Len(image) /\ image \in Seq(Byte)
      /\ Len(image) \in Nat /\ hasher \in Seq(Byte)
  BY CapacityFact, LenProperties DEF IInv, TypeOK, Read
<1>2. /\ UNCHANGED <<image, changed, touches, runs, outcome, block_size>>
      /\ UNCHANGED <<hasher, slots, block_hashes, total_bytes, disk, manifest>>
      /\ pos' = pos + n /\ filled' = filled + n
      /\ pc' \in {"read", "update"}
      /\ pc' = "read" <=> filled' < cap
  BY DEF Read, evidence, casedir
<1>3. \A i \in 1 .. cap : raw_buffer'[i] \in Byte
  <2> TAKE i \in 1 .. cap
  <2>1. CASE i \in filled + 1 .. filled + n
    <3>1. pos + (i - filled) \in 1 .. Len(image)
      BY <1>1, <2>1
    <3>2. image[pos + (i - filled)] \in Byte
      BY <1>1, <3>1, ElementOfSeq
    <3> QED  BY <2>1, <3>2 DEF Read
  <2>2. CASE i \notin filled + 1 .. filled + n
    BY <2>2 DEF IInv, TypeOK, Read
  <2> QED  BY <2>1, <2>2
<1>4. raw_buffer' \in [1 .. cap -> Byte]
  BY <1>3 DEF Read
<1>5. TypeOK'
  <2>1. (filled \in 0 .. Capacity(block_size))'
    BY <1>1, <1>2
  <2>2. (raw_buffer \in [1 .. Capacity(block_size) -> Byte])'
    BY <1>2, <1>4
  <2>3. pos' \in Nat
    BY <1>1, <1>2
  <2> QED  BY <1>2, <2>1, <2>2, <2>3 DEF IInv, TypeOK
<1>6. /\ Collected(hasher)' /\ WholeBlocks(hasher)'
  BY <1>2 DEF IInv, ReadInv, Read, Collected, WholeBlocks
<1>7. Continues(hasher)'
  <2> DEFINE v == ValidData
             w == ValidData'
  <2>1. /\ v \in Seq(Byte) /\ Len(v) = filled
        /\ w \in Seq(Byte) /\ Len(w) = filled + n
    <3>1. ValidData' \in Seq(Byte) /\ Len(ValidData') = filled'
      BY <1>1, <1>2, <1>4, PrefixOfBuffer DEF ValidData
    <3> QED  BY <1>2, <3>1, ValidDataType DEF IInv
  <2>2. \A i \in 1 .. filled : w[i] = v[i]
    BY <1>1, <1>2 DEF ValidData, Read
  <2>3. \A i \in 1 .. n : w[filled + i] = image[pos + i]
    <3> TAKE i \in 1 .. n
    <3>1. /\ filled + i \in filled + 1 .. filled + n
          /\ filled + i \in 1 .. cap /\ filled + i \in 1 .. filled'
          /\ pos + ((filled + i) - filled) = pos + i
      BY <1>1, <1>2
    <3>2. w[filled + i] = raw_buffer'[filled + i]
      BY <3>1 DEF ValidData
    <3> QED  BY <3>1, <3>2 DEF Read
  <2>4. pos = Len(hasher) + filled /\ (~changed => hasher \o v = SubSeq(image, 1, pos))
    BY DEF IInv, ReadInv, Read, Continues
  <2> HIDE DEF v, w
  <2>5. ASSUME ~changed  PROVE hasher \o w = SubSeq(image, 1, pos + n)
    <3>1. pos = Len(hasher) + Len(v)
      BY <2>1, <2>4
    <3>2. /\ hasher \o v = SubSeq(image, 1, Len(hasher) + Len(v))
          /\ Len(hasher) + Len(v) + n <= Len(image)
      BY <1>1, <2>1, <2>4, <2>5, <3>1
    <3>3. ReadFrom(w, v, image, Len(hasher) + Len(v), n)
      BY <2>1, <2>2, <2>3, <3>1 DEF ReadFrom
    <3>4. /\ image \in Seq(Byte) /\ hasher \in Seq(Byte)
          /\ v \in Seq(Byte) /\ w \in Seq(Byte) /\ n \in Nat
      BY <1>1, <2>1
    <3>5. hasher \o w = SubSeq(image, 1, Len(hasher) + Len(v) + n)
      BY ONLY <3>2, <3>3, <3>4, LongerPrefix
    <3> QED  BY <3>1, <3>5
  <2>6. pos + n = Len(hasher) + (filled + n)
    BY <1>1, <2>4, LenProperties
  <2> QED  BY <1>1, <1>2, <2>5, <2>6 DEF Continues, w
<1>8. ShortBatchIsLast' \/ pc' = "read"
  BY <1>1, <1>2 DEF ShortBatchIsLast
<1>9. ManifestFaithful'
  BY <1>2 DEF IInv, ManifestFaithful
<1>10. outcome' # "ok"
  BY <1>2 DEF IInv, OutcomeInv, Read
<1> QED
  BY <1>1, <1>2, <1>5, <1>6, <1>7, <1>8, <1>9, <1>10
     DEF IInv, ReadInv, UpdateInv, HashInv, WriteInv, OutcomeInv

LEMMA ReadEndInv ==
  ASSUME IInv, ReadEnd
  PROVE  IInv'
<1>1. /\ UNCHANGED <<evidence, runs, outcome, block_size, stream, casedir>>
      /\ pc = "read" /\ pos >= Len(image)
      /\ pc' = IF filled = 0 THEN "create" ELSE "update"
  BY DEF ReadEnd
<1>2. TypeOK' /\ ManifestFaithful'
  BY <1>1 DEF IInv, TypeOK, ManifestFaithful, evidence, stream, casedir
<1>3. /\ Collected(hasher) /\ WholeBlocks(hasher) /\ Continues(hasher)
      /\ image \in Seq(Byte) /\ hasher \in Seq(Byte)
      /\ Len(image) \in Nat /\ pos \in Nat
  BY <1>1, LenProperties DEF IInv, TypeOK, ReadInv
<1>4. ~changed => pos = Len(image)
  BY <1>1, <1>3 DEF Continues
<1>5. UpdateInv'
  BY <1>1, <1>3, <1>4
     DEF UpdateInv, Collected, WholeBlocks, Continues, ShortBatchIsLast, ValidData,
         evidence, stream
<1>6. WriteInv'
  <2>1. SUFFICES ASSUME filled = 0, ~changed  PROVE hasher = image
    BY <1>1, <1>3 DEF WriteInv, Collected, evidence, stream
  <2>2. ValidData = <<>>
    BY <2>1 DEF ValidData
  <2>3. hasher \o <<>> = SubSeq(image, 1, Len(image))
    BY <1>3, <1>4, <2>1, <2>2 DEF Continues
  <2> QED  BY <1>3, <2>3, ConcatEmptySeq, SubSeqFull
<1>7. outcome' # "ok"
  BY <1>1 DEF IInv, OutcomeInv
<1> QED
  BY <1>1, <1>2, <1>5, <1>6, <1>7 DEF IInv, ReadInv, HashInv, OutcomeInv, stream

(***************************************************************************)
(* Dropping the t that was put behind s gives s back.                      *)
(***************************************************************************)
LEMMA DropSuffix ==
  ASSUME NEW S, NEW s \in Seq(S), NEW t \in Seq(S)
  PROVE  SubSeq(s \o t, 1, Len(s \o t) - Len(t)) = s
<1>1. /\ Len(s) \in Nat /\ Len(t) \in Nat /\ s \o t \in Seq(S)
      /\ Len(s \o t) = Len(s) + Len(t)
  BY LenProperties, ConcatProperties
<1>2. Len(s \o t) - Len(t) = Len(s)
  BY <1>1
<1>3. SubSeq(s \o t, 1, Len(s)) \in Seq(S) /\ Len(SubSeq(s \o t, 1, Len(s))) = Len(s)
  BY <1>1
<1>4. \A i \in 1 .. Len(s) : SubSeq(s \o t, 1, Len(s))[i] = s[i]
  BY <1>1, ConcatProperties
<1>5. SubSeq(s \o t, 1, Len(s)) = s
  BY <1>1, <1>3, <1>4, SeqEqual
<1> QED  BY <1>2, <1>5

LEMMA UpdateStepInv ==
  ASSUME IInv, UpdateHashers
  PROVE  IInv'
<1>1. /\ UNCHANGED <<evidence, runs, outcome, block_size, casedir>>
      /\ UNCHANGED <<pos, raw_buffer, filled, block_hashes, total_bytes>>
      /\ pc = "update" /\ pc' = "hash"
      /\ hasher' = hasher \o ValidData
      /\ slots' = [j \in 1 .. Len(BatchChunks) |-> NotHashed]
      /\ ValidData' = ValidData /\ BatchChunks' = BatchChunks
  BY DEF UpdateHashers, ValidData, BatchChunks
<1>2. /\ hasher \in Seq(Byte) /\ ValidData \in Seq(Byte) /\ Len(ValidData) = filled
      /\ Collected(hasher) /\ WholeBlocks(hasher) /\ Continues(hasher)
      /\ ShortBatchIsLast
      /\ Len(BatchChunks) \in Nat
  BY <1>1, ValidDataType, BatchChunksType DEF IInv, TypeOK, UpdateInv
<1>3. Before' = hasher
  <2>1. SubSeq(hasher \o ValidData, 1, Len(hasher \o ValidData) - Len(ValidData)) = hasher
    BY <1>2, DropSuffix
  <2> QED  BY <1>1, <1>2, <2>1 DEF Before
<1>4. slots' \in Seq(Seq(Byte)) /\ Len(slots') = Len(BatchChunks)
  <2>1. slots' \in [1 .. Len(BatchChunks) -> Seq(Byte)]
    BY <1>1 DEF NotHashed
  <2> QED  BY <1>2, <2>1, FunctionIsSeq
<1>5. TypeOK' /\ ManifestFaithful'
  <2>1. hasher' \in Seq(Byte)
    BY <1>1, <1>2, ConcatProperties
  <2> QED
    BY <1>1, <1>4, <2>1 DEF IInv, TypeOK, ManifestFaithful, evidence, casedir
<1>6. HashInv'
  <2>1. (hasher = Before \o ValidData)'
    BY <1>1, <1>3
  <2>2. /\ Collected(Before)' /\ WholeBlocks(Before)' /\ Continues(Before)'
        /\ ShortBatchIsLast'
    BY <1>1, <1>2, <1>3
       DEF Collected, WholeBlocks, Continues, ShortBatchIsLast, evidence
  <2>3. /\ (Len(slots) = Len(BatchChunks))'
        /\ (\A j \in 1 .. Len(slots) : slots[j] \in {NotHashed, BatchChunks[j]})'
    BY <1>1, <1>4
  <2> QED  BY <2>1, <2>2, <2>3 DEF HashInv
<1>7. outcome' # "ok"
  BY <1>1 DEF IInv, OutcomeInv
<1> QED
  BY <1>1, <1>5, <1>6, <1>7 DEF IInv, ReadInv, UpdateInv, WriteInv, OutcomeInv

LEMMA HashBlockInv ==
  ASSUME IInv, NEW j \in DOMAIN slots, HashBlock(j)
  PROVE  IInv'
<1>1. /\ UNCHANGED <<evidence, runs, pc, outcome, block_size, casedir>>
      /\ UNCHANGED <<pos, raw_buffer, filled, hasher, block_hashes, total_bytes>>
      /\ pc = "hash"
      /\ slots' = [slots EXCEPT ![j] = BatchChunks[j]]
      /\ ValidData' = ValidData /\ BatchChunks' = BatchChunks /\ Before' = Before
  BY DEF HashBlock, ValidData, BatchChunks, Before
<1>2. /\ BatchChunks \in Seq(Seq(Byte)) /\ slots \in Seq(Seq(Byte))
      /\ Len(slots) = Len(BatchChunks) /\ j \in 1 .. Len(slots)
      /\ \A i \in 1 .. Len(slots) : slots[i] \in {NotHashed, BatchChunks[i]}
  BY <1>1, BatchChunksType, LenProperties DEF IInv, TypeOK, HashInv
<1>3. /\ slots' \in Seq(Seq(Byte)) /\ Len(slots') = Len(slots)
      /\ \A i \in 1 .. Len(slots) :
           slots'[i] = IF i = j THEN BatchChunks[j] ELSE slots[i]
  BY <1>1, <1>2, ElementOfSeq, ExceptSeq
<1>4. TypeOK' /\ ManifestFaithful'
  BY <1>1, <1>3 DEF IInv, TypeOK, ManifestFaithful, evidence, casedir
<1>5. HashInv'
  <2>1. /\ (hasher = Before \o ValidData)'
        /\ Collected(Before)' /\ WholeBlocks(Before)' /\ Continues(Before)'
        /\ ShortBatchIsLast'
    BY <1>1
       DEF IInv, HashInv, Collected, WholeBlocks, Continues, ShortBatchIsLast, evidence
  <2>2. /\ (Len(slots) = Len(BatchChunks))'
        /\ (\A i \in 1 .. Len(slots) : slots[i] \in {NotHashed, BatchChunks[i]})'
    BY <1>1, <1>2, <1>3
  <2> QED  BY <2>1, <2>2 DEF HashInv
<1>6. outcome' # "ok"
  BY <1>1 DEF IInv, OutcomeInv
<1> QED
  BY <1>1, <1>4, <1>5, <1>6 DEF IInv, ReadInv, UpdateInv, WriteInv, OutcomeInv

LEMMA CollectInv ==
  ASSUME IInv, Collect
  PROVE  IInv'
<1> DEFINE b == block_size
           m == Len(block_hashes)
           s == Before
           t == ValidData
<1>1. /\ UNCHANGED <<evidence, runs, outcome, block_size, casedir>>
      /\ UNCHANGED <<pos, raw_buffer, hasher>>
      /\ pc = "hash" /\ \A j \in DOMAIN slots : slots[j] # NotHashed
      /\ block_hashes' = block_hashes \o slots
      /\ total_bytes' = total_bytes + filled
      /\ slots' = <<>> /\ filled' = 0
      /\ pc' = IF filled < Capacity(b) THEN "create" ELSE "read"
  BY DEF Collect
<1>2. /\ b \in BlockSizes \ {0} /\ b \in Nat \ {0} /\ Capacity(b) \in Nat \ {0}
      /\ Capacity(b) = b * BatchBlocks /\ BlockCount(Capacity(b), b) = BatchBlocks
      /\ filled \in 0 .. Capacity(b)
  BY <1>1, CapacityFact DEF IInv, TypeOK
<1>3. /\ hasher = s \o t
      /\ block_hashes = BlocksOf(s, b) /\ total_bytes = Len(s)
      /\ Len(s) = b * m
      /\ Continues(s) /\ ShortBatchIsLast
  BY <1>1 DEF IInv, HashInv, Collected, WholeBlocks
<1>4. /\ s \in Seq(Byte) /\ t \in Seq(Byte) /\ Len(t) = filled
      /\ m \in Nat /\ Len(s) \in Nat /\ image \in Seq(Byte) /\ pos \in Nat
  <2>1. hasher \in Seq(Byte) /\ Len(hasher) \in Nat /\ filled \in Nat
    BY <1>2, LenProperties DEF IInv, TypeOK
  <2>2. \A i \in 1 .. Len(hasher) - filled : hasher[i] \in Byte
    BY <2>1, ElementOfSeq
  <2>3. s \in Seq(Byte)
    BY <2>1, <2>2, SubSeqProperties DEF Before
  <2> QED  BY <2>3, ValidDataType, LenProperties DEF IInv, TypeOK
<1>5. slots = BlocksOf(t, b)
  <2>1. /\ slots \in Seq(Seq(Byte)) /\ BatchChunks \in Seq(Seq(Byte))
        /\ Len(slots) = Len(BatchChunks) /\ DOMAIN slots = 1 .. Len(slots)
    BY <1>1, <1>2, BatchChunksType, LenProperties DEF IInv, TypeOK, HashInv
  <2>2. \A j \in 1 .. Len(slots) : slots[j] = BatchChunks[j]
    BY <1>1, <2>1 DEF IInv, HashInv
  <2> QED  BY <2>1, <2>2, SeqEqual DEF BatchChunks
<1>6. /\ BlocksOf(s, b) \in Seq(Seq(Byte)) /\ BlocksOf(t, b) \in Seq(Seq(Byte))
      /\ Len(BlocksOf(t, b)) = BlockCount(filled, b)
  BY <1>2, <1>4, BlocksOfType
<1>7. Collected(hasher)'
  <2>1. BlocksOf(hasher, b) = BlocksOf(s, b) \o BlocksOf(t, b)
    <3> HIDE DEF s, t, b, m
    <3>1. b \in Nat \ {0} /\ m \in Nat /\ FillsBlocks(s, b, m)
      BY <1>2, <1>3, <1>4 DEF FillsBlocks
    <3>2. s \in Seq(Byte) /\ t \in Seq(Byte)  BY <1>4
    <3>3. BlocksOf(s \o t, b) = BlocksOf(s, b) \o BlocksOf(t, b)
      BY <3>1, <3>2, BlocksOfConcat
    <3> QED  BY <1>3, <3>3, Zenon
  <2>2. Len(hasher) = total_bytes + filled
    BY <1>3, <1>4, ConcatProperties
  <2> QED  BY <1>1, <1>3, <1>5, <2>1, <2>2 DEF Collected
<1>8. TypeOK' /\ ManifestFaithful'
  <2>1. block_hashes' \in Seq(Seq(Byte)) /\ slots' \in Seq(Seq(Byte))
    BY <1>1, <1>3, <1>5, <1>6, ConcatProperties
  <2>2. total_bytes' \in Nat /\ filled' \in 0 .. Capacity(block_size)'
    BY <1>1, <1>2, <1>3, <1>4
  <2> QED
    BY <1>1, <2>1, <2>2 DEF IInv, TypeOK, ManifestFaithful, evidence, casedir, Capacity
<1>9. ReadInv'
  <2> SUFFICES ASSUME pc' = "read"  PROVE ReadInv'
    BY DEF ReadInv
  <2>1. filled = Capacity(b)
    BY <1>1, <1>2
  <2>2. WholeBlocks(hasher)'
    <3>1. Len(hasher) = b * m + b * BatchBlocks
      BY <1>2, <1>3, <1>4, <2>1, ConcatProperties
    <3>2. Len(block_hashes') = m + BatchBlocks
      <4>1. Len(BlocksOf(t, b)) = BatchBlocks  BY <1>2, <1>6, <2>1
      <4>2. block_hashes' = BlocksOf(s, b) \o BlocksOf(t, b)  BY <1>1, <1>3, <1>5, Zenon
      <4>3. Len(BlocksOf(s, b)) = m  BY <1>3
      <4> HIDE DEF s, t, b, m
      <4>4. Len(BlocksOf(s, b) \o BlocksOf(t, b)) = m + BatchBlocks
        BY <1>6, <4>1, <4>3, ConcatProperties
      <4> QED  BY <4>2, <4>4, Zenon
    <3>3. b * (m + BatchBlocks) = b * m + b * BatchBlocks
      BY <1>2, <1>4
    <3> QED  BY <1>1, <3>1, <3>2, <3>3 DEF WholeBlocks
  <2>3. Continues(hasher)'
    <3>1. pos = Len(hasher)
      BY <1>3, <1>4, ConcatProperties DEF Continues
    <3>2. ValidData' = <<>>
      BY <1>1 DEF ValidData
    <3>3. hasher \o <<>> = hasher
      BY <1>3, <1>4, ConcatProperties, ConcatEmptySeq
    <3>4. ~changed => pos <= Len(image) /\ hasher = SubSeq(image, 1, pos)
      BY <1>3 DEF Continues
    <3>5. pos = Len(hasher) + 0
      BY <1>4, <3>1
    <3> QED
      BY <1>1, <3>2, <3>3, <3>4, <3>5 DEF Continues, evidence
  <2>4. filled' < Capacity(block_size)'
    BY <1>1, <1>2 DEF Capacity
  <2> QED  BY <1>7, <2>2, <2>3, <2>4 DEF ReadInv
<1>10. WriteInv'
  <2> SUFFICES ASSUME pc' = "create"  PROVE WriteInv'
    BY <1>1 DEF WriteInv
  <2>1. filled < Capacity(b)
    BY <1>1
  <2>2. ~changed => hasher = SubSeq(image, 1, Len(image))
    BY <1>3, <2>1 DEF Continues, ShortBatchIsLast
  <2>3. ~changed => hasher = image
    BY <1>4, <2>2, SubSeqFull
  <2> QED  BY <1>1, <1>7, <2>3 DEF WriteInv, evidence
<1>11. outcome' # "ok"
  BY <1>1 DEF IInv, OutcomeInv
<1> QED
  BY <1>1, <1>2, <1>8, <1>9, <1>10, <1>11 DEF IInv, UpdateInv, HashInv, OutcomeInv

LEMMA CreateManifestInv ==
  ASSUME IInv, CreateManifest
  PROVE  IInv'
<1>1. /\ UNCHANGED <<evidence, runs, outcome, block_size, stream, manifest>>
      /\ pc = "create" /\ pc' = "write" /\ disk' = "torn"
  BY DEF CreateManifest
<1>2. TypeOK' /\ ManifestFaithful'
  BY <1>1 DEF IInv, TypeOK, ManifestFaithful, evidence, stream
<1>3. WriteInv'
  BY <1>1 DEF IInv, WriteInv, Collected, evidence, stream
<1>4. outcome' # "ok"
  BY <1>1 DEF IInv, OutcomeInv
<1> QED
  BY <1>1, <1>2, <1>3, <1>4
     DEF IInv, ReadInv, UpdateInv, HashInv, OutcomeInv

(***************************************************************************)
(* What WriteManifest puts on disk is the manifest of the absorbed bytes.  *)
(***************************************************************************)
LEMMA WrittenManifest ==
  ASSUME IInv, WriteManifest
  PROVE  /\ block_size \in BlockSizes \ {0}
         /\ hasher \in Seq(Byte)
         /\ manifest' = ManifestOf(hasher, block_size)
         /\ ~changed => hasher = image
<1>1. block_size \in BlockSizes \ {0} /\ block_size \in Nat \ {0} /\ hasher \in Seq(Byte)
  BY DEF IInv, TypeOK, WriteManifest
<1>2. /\ block_hashes = BlocksOf(hasher, block_size) /\ total_bytes = Len(hasher)
      /\ ~changed => hasher = image
  BY DEF IInv, WriteInv, Collected, WriteManifest
<1>3. Len(block_hashes) = BlockCount(Len(hasher), block_size)
  BY <1>1, <1>2, BlocksOfType
<1> QED  BY <1>1, <1>2, <1>3 DEF WriteManifest, ManifestOf

LEMMA WriteManifestInv ==
  ASSUME IInv, WriteManifest
  PROVE  IInv'
<1>1. /\ UNCHANGED <<evidence, runs, block_size, stream>>
      /\ pc' = "idle" /\ disk' = "complete" /\ outcome' = "ok"
  BY DEF WriteManifest
<1>2. /\ block_size \in BlockSizes \ {0} /\ hasher \in Seq(Byte)
      /\ manifest' = ManifestOf(hasher, block_size)
      /\ ~changed => hasher = image
  BY WrittenManifest
<1>3. TypeOK'
  BY <1>1 DEF IInv, TypeOK, evidence, stream
<1>4. ManifestFaithful'
  BY <1>2 DEF ManifestFaithful, Contract!Describes, Contract!ManifestOf, ManifestOf,
              Contract!BlocksOf, BlocksOf, Contract!BlockCount, BlockCount,
              Contract!BlockStart, BlockStart, Contract!BlockEnd, BlockEnd
<1>5. OutcomeInv'
  BY <1>1, <1>2 DEF OutcomeInv, evidence, stream
<1> QED
  BY <1>1, <1>3, <1>4, <1>5 DEF IInv, ReadInv, UpdateInv, HashInv, WriteInv

LEMMA TouchInv ==
  ASSUME IInv, Touch
  PROVE  IInv'
<1>1. /\ UNCHANGED <<runs, pc, outcome, block_size, stream, casedir>>
      /\ image' \in Images /\ changed' = TRUE /\ touches' = touches + 1
  BY DEF Touch
<1>2. TypeOK' /\ ManifestFaithful'
  BY <1>1 DEF IInv, TypeOK, ManifestFaithful, stream, casedir
<1>3. ReadInv' /\ UpdateInv'
  BY <1>1 DEF IInv, ReadInv, UpdateInv, Collected, WholeBlocks, Continues,
              ShortBatchIsLast, stream
<1>4. HashInv'
  <2>1. Before' = Before /\ ValidData' = ValidData /\ BatchChunks' = BatchChunks
    BY <1>1 DEF Before, ValidData, BatchChunks, stream
  <2> QED
    BY <1>1, <2>1 DEF IInv, HashInv, Collected, WholeBlocks, Continues,
                      ShortBatchIsLast, stream
<1>5. WriteInv' /\ OutcomeInv'
  BY <1>1 DEF IInv, WriteInv, OutcomeInv, Collected, stream, casedir
<1> QED
  BY <1>1, <1>2, <1>3, <1>4, <1>5 DEF IInv, casedir

LEMMA StutterInv ==
  ASSUME IInv, UNCHANGED vars
  PROVE  IInv'
<1> USE DEF vars, evidence, stream, casedir
<1>1. TypeOK' /\ ManifestFaithful'
  BY DEF IInv, TypeOK, ManifestFaithful
<1>2. ReadInv' /\ UpdateInv' /\ WriteInv' /\ OutcomeInv'
  BY DEF IInv, ReadInv, UpdateInv, WriteInv, OutcomeInv, Collected, WholeBlocks,
         Continues, ShortBatchIsLast, ValidData
<1>3. HashInv'
  BY DEF IInv, HashInv, Collected, WholeBlocks, Continues, ShortBatchIsLast,
         Before, ValidData, BatchChunks
<1> QED  BY <1>1, <1>2, <1>3 DEF IInv

----------------------------------------------------------------------------
\* The theorems.

(***************************************************************************)
(* IInv holds in every reachable state, whatever the evidence, the block   *)
(* and batch sizes, the split of the reads, the order of the workers, and  *)
(* the failures, kills and re-runs of the command.                         *)
(***************************************************************************)
THEOREM Invariance == Spec => []IInv
<1>1. IInv /\ [Next]_vars => IInv'
  <2> SUFFICES ASSUME IInv, [Next]_vars  PROVE IInv'
    OBVIOUS
  <2>1. ASSUME NEW b \in BlockSizes, Open(b)  PROVE IInv'
    BY <2>1, OpenInv
  <2>2. CASE Refuse \/ Fail \/ Crash
    BY <2>2, EndsIdleInv
  <2>3. CASE Streaming
    <3>1. ASSUME NEW n \in 1 .. Capacity(block_size), Read(n)  PROVE IInv'
      BY <3>1, ReadStepInv
    <3>2. ASSUME NEW j \in DOMAIN slots, HashBlock(j)  PROVE IInv'
      BY <3>2, HashBlockInv
    <3> QED
      BY <2>3, <3>1, <3>2, ReadEndInv, UpdateStepInv, CollectInv DEF Streaming
  <2>4. CASE Writing
    BY <2>4, CreateManifestInv, WriteManifestInv DEF Writing
  <2>5. CASE Touch
    BY <2>5, TouchInv
  <2>6. CASE UNCHANGED vars
    BY <2>6, StutterInv
  <2> QED
    BY <2>1, <2>2, <2>3, <2>4, <2>5, <2>6 DEF Next
<1> QED  BY <1>1, InitInv, PTL DEF Spec

(***************************************************************************)
(* Every variable keeps its type (acquisition/src).                        *)
(***************************************************************************)
THEOREM TypeCorrect == Spec => []TypeOK
<1>1. IInv => TypeOK  BY DEF IInv
<1> QED  BY <1>1, Invariance, PTL

(***************************************************************************)
(* A complete manifest.json describes exactly one byte string, block by    *)
(* block (stream_and_hash, write_to_directory).                            *)
(***************************************************************************)
THEOREM ManifestIsFaithful == Spec => []ManifestFaithful
<1>1. IInv => ManifestFaithful  BY DEF IInv
<1> QED  BY <1>1, Invariance, PTL

(***************************************************************************)
(* Success over an evidence nobody touched means that the whole evidence   *)
(* is recorded (acquire_evidence_with_options).                            *)
(***************************************************************************)
THEOREM SuccessMeansEvidence == Spec => []SuccessIsTheEvidence
<1>1. IInv => SuccessIsTheEvidence
  BY DEF IInv, OutcomeInv, SuccessIsTheEvidence
<1> QED  BY <1>1, Invariance, PTL

(***************************************************************************)
(* A step that gives up a complete manifest is the File::create of an      *)
(* acquisition that has read its whole source (write_to_directory).        *)
(***************************************************************************)
THEOREM OldManifestKept == Spec => OldManifestKeptWhileStreaming
<1>1. IInv /\ [Next]_vars => [GivenUpOnlyWhenRead]_vars
  <2> SUFFICES ASSUME IInv, Next  PROVE GivenUpOnlyWhenRead
    BY DEF vars, casedir, GivenUpOnlyWhenRead
  <2>1. CASE CreateManifest
    BY <2>1 DEF CreateManifest, IInv, WriteInv, GivenUpOnlyWhenRead
  <2>2. CASE WriteManifest
    BY <2>2 DEF WriteManifest, GivenUpOnlyWhenRead
  <2>3. CASE ~ Writing
    <3>1. UNCHANGED disk
      BY <2>3 DEF Next, Streaming, Open, Refuse, Read, ReadEnd, UpdateHashers, HashBlock,
                  Collect, Fail, Crash, Touch, casedir
    <3> QED  BY <3>1 DEF GivenUpOnlyWhenRead
  <2> QED  BY <2>1, <2>2, <2>3 DEF Writing
<1> QED  BY <1>1, Invariance, PTL DEF Spec, OldManifestKeptWhileStreaming

(***************************************************************************)
(* The detailed acquisition implements the abstract one: streaming is a    *)
(* stutter, File::create forgets the manifest, and the final write records *)
(* one (AcquisitionSpec, through the mapping of Contract).                 *)
(***************************************************************************)
THEOREM ImplementsContract == Spec => Implements
<1>1. Init => Contract!Init
  BY DEF Init, Contract!Init, Contract!NoRecord
<1>2. IInv /\ [Next]_vars => [Contract!Next]_(Contract!vars)
  <2> SUFFICES ASSUME IInv, Next, ~ UNCHANGED Contract!vars  PROVE Contract!Next
    BY DEF vars, evidence, casedir, Contract!vars
  <2>1. ASSUME NEW b \in BlockSizes, Open(b)  PROVE Contract!Next
    BY <2>1 DEF Open, casedir, Contract!Next, Contract!Open
  <2>2. CASE Touch
    BY <2>2 DEF Touch, casedir, Contract!Next, Contract!Touch
  <2>3. CASE CreateManifest
    BY <2>3 DEF CreateManifest, evidence, Contract!Next, Contract!Forget, Contract!NoRecord
  <2>4. CASE WriteManifest
    <3>1. disk # "complete"
      BY <2>4 DEF WriteManifest, IInv
    <3>2. Contract!Describes(manifest')
      <4>1. ManifestFaithful'
        BY <2>4, WriteManifestInv DEF IInv
      <4> QED  BY <2>4, <4>1 DEF WriteManifest, ManifestFaithful, Contract!Describes
    <3>3. ~changed => manifest'.whole_image = image
      BY <2>4, WrittenManifest DEF ManifestOf
    <3> QED
      BY <2>4, <3>1, <3>2, <3>3
         DEF WriteManifest, evidence, Contract!Next, Contract!Record, Contract!NoRecord
  <2>5. CASE Refuse \/ Streaming \/ Fail \/ Crash
    BY <2>5 DEF Streaming, Refuse, Read, ReadEnd, UpdateHashers, HashBlock, Collect, Fail,
                Crash, evidence, casedir, Contract!vars
  <2> QED  BY <2>1, <2>2, <2>3, <2>4, <2>5 DEF Next, Writing
<1> QED  BY <1>1, <1>2, Invariance, PTL DEF Spec, Implements, Contract!Spec
=============================================================================

------------------------------ MODULE Generator ------------------------------
(***************************************************************************)
(* dvrft-gen/src/main.rs: the synthetic disk image and the ground truth    *)
(* written beside it.  The pseudo-random bytes of the payloads are a       *)
(* parameter, and a digest stands for its preimage.  The checksum of a     *)
(* header, which nothing reads, is left zero.                              *)
(***************************************************************************)
EXTENDS Grammar

CONSTANT DiskBlock   \* BLOCK_SIZE

HeaderSize  == 32
PayloadSize == DiskBlock - HeaderSize

SuperblockMagic == <<67, 52, 68, 86, 82, 0, 1, 0>>   \* C4DVR, version 1
PartitionMagic  == <<67, 52, 80, 84>>                \* C4PT
VideoBlockMagic == <<67, 52, 86, 70>>                \* C4VF

XorScrambleKey == <<212, 168, 126, 49>>

\* to_le_bytes
LittleEndian(n, width) == Reverse(InBytes(n, width))

\* The bytes and zeros behind them, n in all.
Padded(bytes, n) == bytes \o Zeros(n - Len(bytes))

\* The exclusive or of two bytes, and the bit of it that counts p.
XorBit(a, b, p) == IF BitIsSet(a, p) = BitIsSet(b, p) THEN 0 ELSE p

Xor(a, b) ==
  XorBit(a, b, 1) + XorBit(a, b, 2) + XorBit(a, b, 4) + XorBit(a, b, 8)
  + XorBit(a, b, 16) + XorBit(a, b, 32) + XorBit(a, b, 64) + XorBit(a, b, 128)

\* The repeated key over the bytes, also descramble() of the sample plugin.
Xored(bytes) ==
  [k \in DOMAIN bytes |-> Xor(bytes[k], XorScrambleKey[1 + ((k - 1) % 4)])]

----------------------------------------------------------------------------
\* The two blocks of structure.

Superblock(blocks, base) ==
  Padded(SuperblockMagic
         \o LittleEndian(1, 4) \o LittleEndian(DiskBlock, 4)
         \o LittleEndian(blocks, 4) \o LittleEndian(DiskBlock, 8)
         \o LittleEndian(2, 4) \o LittleEndian(base, 8), DiskBlock)

\* The entry of a channel: CH_01_A, CH_02_B.
PartitionEntry(channel, stream_blocks) ==
  LittleEndian(channel, 4)
  \o <<67, 72, 95, 48, 48 + channel, 95, 64 + channel, 0>>
  \o LittleEndian(2, 4) \o LittleEndian(stream_blocks, 4) \o LittleEndian(1, 4)

PartitionTable(blocks) ==
  LET stream_blocks == (blocks - 2) \div 2
      first == Padded(PartitionMagic \o LittleEndian(2, 4), 16)
  IN  Padded(Padded(first \o PartitionEntry(1, stream_blocks), 48)
             \o PartitionEntry(2, stream_blocks), DiskBlock)

----------------------------------------------------------------------------
\* Video blocks, counted from 0, two channels in turn.

ChannelOf(b)    == IF b % 2 = 0 THEN 1 ELSE 2
SequenceOf(b)   == b \div 2
TimestampOf(b, base) == base + 2 * b
IsKeyframeAt(b) == SequenceOf(b) % 10 = 1
IsScrambledAt(b) == b \in 10 .. 13
IsCorruptedAt(b) == b \in 22 .. 23

FlagsOf(b) ==
  (IF IsKeyframeAt(b) THEN 1 ELSE 0)
  + (IF IsScrambledAt(b) THEN 2 ELSE 0)
  + (IF IsCorruptedAt(b) THEN 4 ELSE 0)

\* generate_deterministic_payload: a NAL unit, then noise.
OriginalPayload(b, noise) ==
  <<0, 0, 0, 1, IF IsKeyframeAt(b) THEN 103 ELSE 65>>
  \o [k \in 1 .. PayloadSize - 5 |-> noise[1 + ((k - 1) % Len(noise))]]

Header(b, base) ==
  IF IsCorruptedAt(b)
  THEN Zeros(HeaderSize)
  ELSE Padded(VideoBlockMagic
              \o LittleEndian(ChannelOf(b), 4) \o LittleEndian(TimestampOf(b, base), 8)
              \o LittleEndian(SequenceOf(b), 4) \o LittleEndian(PayloadSize, 4)
              \o LittleEndian(FlagsOf(b), 2), HeaderSize)

VideoBlock(b, base, noise) ==
  Header(b, base)
  \o (IF IsScrambledAt(b) THEN Xored(OriginalPayload(b, noise))
                          ELSE OriginalPayload(b, noise))

----------------------------------------------------------------------------
\* What is written.

DiskImage(blocks, base, noise) ==
  Superblock(blocks, base) \o PartitionTable(blocks)
  \o FlattenSeq([k \in 1 .. blocks - 2 |-> VideoBlock(k + 1, base, noise)])

\* BlockGroundTruth of the blocks of structure and of a video block.
StructureTruth(b, base) ==
  [block_index |-> b, offset |-> b * DiskBlock, channel_id |-> 0,
   timestamp |-> base, sequence_num |-> 0, payload_len |-> 0,
   is_scrambled |-> FALSE, is_corrupted |-> FALSE, original_payload |-> <<>>]

VideoTruth(b, base, noise) ==
  [block_index |-> b, offset |-> b * DiskBlock, channel_id |-> ChannelOf(b),
   timestamp |-> TimestampOf(b, base), sequence_num |-> SequenceOf(b),
   payload_len |-> PayloadSize,
   is_scrambled |-> IsScrambledAt(b), is_corrupted |-> IsCorruptedAt(b),
   original_payload |-> OriginalPayload(b, noise)]

GroundTruth(blocks, base, noise) ==
  [k \in 1 .. blocks |->
     IF k <= 2 THEN StructureTruth(k - 1, base) ELSE VideoTruth(k - 1, base, noise)]
==============================================================================

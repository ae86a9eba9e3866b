----------------------------- MODULE MCExtraction -----------------------------
(***************************************************************************)
(* Bounded instances of Extraction, in five families.                      *)
(***************************************************************************)
EXTENDS Extraction

Rule(at, bytes, weight) == [offset |-> at, bytes |-> bytes, weight |-> weight]
Magic(at, bytes) == [offset |-> at, bytes |-> bytes]

Field(role, type, at) ==
  [role |-> role, type |-> type, offset |-> at, endian |-> "little", masks |-> {}]

Scenario(bytes, size, promised, directory) ==
  [file |-> bytes, block_size |-> size, promised |-> promised, directory |-> directory,
   marks |-> {}, registry |-> <<>>, plugin |-> TRUE, events |-> <<>>,
   truth |-> <<>>]

\* The digest of a payload is what it ends with, zeros before a short one.
MCDigest(payload) == SubSeq(Zeros(4) \o payload, Len(payload) + 1, Len(payload) + 4)

----------------------------------------------------------------------------
\* Generated images under the shipped grammars, scaled to small blocks.

Masks == [scrambled |-> 2, corrupted |-> 4]

Synthetic ==
  [id |-> "synthetic-v1", tier |-> 1, plugin |-> TRUE,
   rules |-> <<Rule(0, SuperblockMagic, {98})>>,
   superblock |-> {Magic(0, SuperblockMagic)},
   partition_table |-> {Magic(0, PartitionMagic)},
   header |-> [size |-> 32, magic |-> Magic(0, VideoBlockMagic),
               fields |-> <<Field("channel_id", "u32", 4), Field("timestamp", "u64", 8),
                            Field("sequence_num", "u32", 16),
                            Field("payload_length", "u32", 20),
                            [Field("flags", "u16", 24) EXCEPT !.masks = {Masks}],
                            Field("header_crc", "u16", 26)>>],
   payload |-> [offset |-> 32, default_length |-> PayloadSize]]

DHAV == <<68, 72, 65, 86>>

Dahua ==
  [id |-> "dahua-v1", tier |-> 2, plugin |-> FALSE,
   rules |-> <<Rule(0, DHAV, {90})>>, superblock |-> {}, partition_table |-> {},
   header |-> [size |-> 24, magic |-> Magic(0, DHAV),
               fields |-> <<[Field("flags", "u16", 4) EXCEPT !.masks = {[keyframe |-> 64512]}],
                            Field("channel_id", "u16", 6), Field("sequence_num", "u32", 8),
                            Field("payload_length", "u32", 12),
                            Field("timestamp", "u32", 16)>>],
   payload |-> [offset |-> 24, default_length |-> 16]]

Base == 1773800000

\* What correlate may have stored.
Events ==
  <<[id |-> 1, event_type |-> "transition", start |-> Base + 8, confidence |-> 9500],
    [id |-> 2, event_type |-> "transition", start |-> Base + 4, confidence |-> 8000],
    [id |-> 3, event_type |-> "global_blackout", start |-> Base + 6, confidence |-> 9900]>>

Generated ==
  {[Scenario(DiskImage(n, Base, noise), DiskBlock, n, directory)
      EXCEPT !.truth = GroundTruth(n, Base, noise), !.plugin = loads, !.events = Events] :
     n \in {32, 35}, loads \in BOOLEAN,
     noise \in {<<144>>, <<0, 0, 1>>, <<0, 0, 0, 1, 65, 7>>},
     directory \in {<<Dahua, Synthetic>>}}

----------------------------------------------------------------------------
\* Every block of seven zeros, ones and headers of keyframes, with every kind
\* of block behind it: none, one too short to be parsed, one cut off in a start
\* code, a whole one.  A grammar for any image takes blocks that begin with two
\* ones for video, and reads nothing from them.

AnyImage ==
  [id |-> "any", tier |-> 1, plugin |-> FALSE,
   rules |-> <<Rule(0, <<>>, {98})>>, superblock |-> {}, partition_table |-> {},
   header |-> [size |-> 5, magic |-> Magic(0, <<1, 1>>), fields |-> <<>>],
   payload |-> [offset |-> 2, default_length |-> 5]]

SecondBlocks ==
  {<<>>, <<0, 0, 1, 101>>, <<1, 101, 0, 0, 1>>, <<0, 0, 1, 0, 0, 1, 101>>}

Streams ==
  {Scenario(first \o second, 7, 2, <<AnyImage>>) :
     first \in [1 .. 7 -> {0, 1, 101}], second \in SecondBlocks}

----------------------------------------------------------------------------
\* Two blocks of ten bytes, the second perhaps short, with every combination
\* of flags and of payload lengths around the end of the block: read by
\* grammars with a field wider than its column, with masks and without, with
\* fields named twice or leading out of the block.

Header6(fields) == [size |-> 6, magic |-> Magic(0, <<9>>), fields |-> fields]

Narrow(fields) ==
  [AnyImage EXCEPT !.plugin = TRUE, !.header = Header6(fields),
                   !.payload = [offset |-> 6, default_length |-> 3],
                   !.superblock = {Magic(1, Undecodable)},
                   !.partition_table = {Magic(0, <<8>>)}]

Wide == <<Field("channel_id", "u64", 1), Field("sequence_num", "u64", 4),
          Field("payload_length", "u8", 3)>>

Readers ==
  {Narrow(Wide \o <<Field("flags", "u32", 4)>>),
   Narrow(<<Field("flags", "u16", 4), Field("none", "string", 0)>> \o Wide
          \o <<[Field("flags", "u16", 4) EXCEPT !.masks = {[scrambled |-> 2]}],
               Field("payload_length", "u16", 9)>>),
   Narrow(<<Field("channel_id", "u16", 1)>> \o Wide
          \o <<[Field("flags", "u16", 4) EXCEPT !.endian = "big",
                                               !.masks = {[scrambled |-> 512]}]>>)}

Block10(magic, length, flags) == <<magic, 2, 3, length, flags, 0, 21, 22, 23, 24>>

Lengths == {0, 2, 4, 5, 10, 11}

Images10 ==
  {Block10(magic, length, flags) \o SubSeq(Block10(9, length2, flags2), 1, cut) :
     magic \in {8, 9}, length \in {2, 4}, flags \in {2, 4},
     length2 \in Lengths, flags2 \in {0, 2, 4, 6}, cut \in {6, 8, 10}}

Fields == {Scenario(image, 10, 3, <<reader>>) : image \in Images10, reader \in Readers}

----------------------------------------------------------------------------
\* Grammars of all tiers that share signatures, in any order, over images that
\* show some of them, a bare stream, or signatures of other formats.

Tiny(id, tier, rules, magics) ==
  [AnyImage EXCEPT !.id = id, !.tier = tier, !.rules = rules, !.superblock = magics]

First    == Tiny("first", 1, <<Rule(0, <<7>>, {94})>>, {Magic(0, <<7>>)})
Both     == Tiny("both", 2, <<Rule(0, <<7>>, {90}), Rule(1, <<5>>, {})>>, {})
Second   == Tiny("second", 2, <<Rule(1, <<5>>, {97}), Rule(90, <<5>>, {99})>>, {})
Hardware == Tiny("hardware", 3, <<Rule(1, <<5>>, {95})>>, {})
Broken   == Tiny("broken", 2, <<Rule(1, <<5>>, {92}), Rule(0, Undecodable, {99})>>, {})
Vague    == Tiny("vague", 3, <<Rule(0, <<7>>, {40})>>, {Magic(0, Undecodable)})

Directories ==
  {<<>>, <<Both>>, <<Second>>, <<Broken>>, <<Hardware>>, <<Vague>>}
  \cup {<<g, h>> : g, h \in {First, Both, Second, Hardware, Vague}}
  \cup {<<First, Hardware, Both>>, <<Broken, Hardware, Second>>}

Openings == {<<>>, <<7>>, <<7, 5>>, <<6, 5>>}

\* A slice or a parameter set of H.264, one of H.265, a forbidden byte, none.
Units == {<<>>, <<0, 0, 1, 65>>, <<0, 0, 1, 103>>, <<0, 0, 0, 1, 66, 0, 0, 1, 103>>,
          <<0, 0, 1, 231>>, <<0, 0, 1>>}

MarksShown ==
  {{}, {"ftyp"}, {"ftyp", "hikv", "PNG"}, {"ftyp", "Dahua", "Axis"}, {"ftyp", "Bosch"},
   {"ftyp", "DHAV", "dhav", "Dahua"}, {"DHAV", "dhav", "Dahua"}, {"AVI", "MPEG-TS"},
   {"EBML"}, {"NTFS", "ext4"}, {"PNG"}, {"JPEG", "CP PLUS"}}

Registries ==
  {<<>>, <<<<Rule(0, <<4>>, 92), Rule(0, <<7>>, 90), Rule(0, <<7, 5>>, 96)>>,
           <<Rule(1, <<5>>, 92)>>>>}

Behind == <<3, 3, 3, 3, 3, 3, 3, 3, 3, 3>>

\* What follows the opening, and the marks: a bare stream or another format,
\* and both in an image too short for one.
Looks ==
  {<<Behind \o unit, {}>> : unit \in Units}
  \cup {<<Behind \o <<0, 0, 1, 65>>, shown>> : shown \in MarksShown}
  \cup {<<<<0, 0, 1, 103>>, {}>>, <<<<>>, {"JPEG", "CP PLUS"}>>}

Devices ==
  {[Scenario(opening \o look[1], 9, 2, directory)
      EXCEPT !.marks = look[2], !.registry = registry] :
     opening \in Openings, look \in Looks, directory \in Directories,
     registry \in Registries}

----------------------------------------------------------------------------
\* A frame of 32 bytes that change little, much or just enough, with a digest at
\* the corners, and a calm keyframe behind it; the payloads are said to be of 31,
\* 32 or 33 bytes.

Frame35(flags, length, step, digest) ==
  <<9, flags, length>> \o [k \in 1 .. 28 |-> step * (k % 2)] \o digest

Watcher ==
  [AnyImage EXCEPT !.header = [size |-> 3, magic |-> Magic(0, <<9>>),
                               fields |-> <<Field("flags", "u8", 1),
                                            Field("payload_length", "u8", 2)>>],
                   !.payload = [offset |-> 3, default_length |-> 32]]

Digests == [1 .. 4 -> {0, 255}] \cup {<<0, 0, 128, 0>>, <<255, 255, 128, 0>>}

Watched ==
  {Scenario(Frame35(flags, length, step, digest) \o Frame35(1, length2, 0, <<0, 0, 0, 0>>),
            35, 2, <<Watcher>>) :
     flags \in {0, 1}, step \in {0, 44, 48, 52, 56, 60, 128, 255},
     digest \in Digests, length \in 31 .. 33, length2 \in 31 .. 32}

MCScenarios == Generated \cup Streams \cup Fields \cup Devices \cup Watched
===============================================================================

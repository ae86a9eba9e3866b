-------------------------------- MODULE Carver --------------------------------
(***************************************************************************)
(* recovery/src/lib.rs: carve_corrupted_blocks reads the blocks it is told *)
(* to scan one after the other into one buffer, each by a single read(),   *)
(* and carve_buffer cuts what was read into frames at the start codes      *)
(* 00 00 01 and 00 00 00 01.  Confidences and the descriptions of NAL      *)
(* units are left out.                                                     *)
(***************************************************************************)
EXTENDS Ordering, SequencesExt

CONSTANTS
  ReadSizes,  \* what a read() may get where there is more
  ShortReads  \* bound: how often a scan gets less than there is

ASSUME ReadSizesAssumption == ReadSizes \subseteq Nat \ {0}

VARIABLES
  file,        \* the evidence
  block_size,  \* of its blocks
  targets,     \* block_indices, counted from 0
  done,        \* blocks scanned
  got,         \* what read() returned for each of them
  buffer,      \* the buffer, which keeps what an earlier read left in it
  frames       \* all_carved

evidence == <<file, block_size>>
carver   == <<targets, done, got, buffer, frames>>

----------------------------------------------------------------------------
\* carve_buffer: positions are counted from 1.

\* i + 4 <= len: four bytes from i on.
InReach(data, i) == i + 3 <= Len(data)

IsLongCode(data, i) ==
  InReach(data, i) /\ SubSeq(data, i, i + 3) = <<0, 0, 0, 1>>

IsShortCode(data, i) ==
  InReach(data, i) /\ SubSeq(data, i, i + 2) = <<0, 0, 1>>

\* The length of the start code at i; 0 if there is none.
CodeLength(data, i) ==
  IF IsLongCode(data, i) THEN 4 ELSE IF IsShortCode(data, i) THEN 3 ELSE 0

\* Mutant: after a short code the scan goes on as after a long one.
StrideFour(data, i) == IF CodeLength(data, i) = 0 THEN 1 ELSE 4

\* How far the scan goes on from i.
Stride(data, i) == IF CodeLength(data, i) = 0 THEN 1 ELSE CodeLength(data, i)

\* start_indices from i on.
StartsFrom(data) ==
  LET scan[i \in 1 .. Len(data) + 5] ==
        IF ~InReach(data, i) THEN <<>>
        ELSE (IF CodeLength(data, i) = 0 THEN <<>> ELSE <<i>>) \o scan[i + Stride(data, i)]
  IN  scan[1]

\* The header byte comes right behind the code.  Bit 7 must be clear, the
\* type is in the low five bits.
IsKeyframe(header) == header < 128 /\ header % 32 \in {5, 7}

Frame(data, from, to, base) ==
  [byte_offset |-> base + from - 1,
   bytes |-> SubSeq(data, from, to),
   is_keyframe |-> IsKeyframe(data[from + CodeLength(data, from)])]

\* A frame for every start, up to the next one or the end; a start code
\* without a header byte before the next one is passed over.
CarveBuffer(data, base) ==
  LET starts == StartsFrom(data)
      LastOf(k) == IF k < Len(starts) THEN starts[k + 1] - 1 ELSE Len(data)
      HasHeader(k) == LastOf(k) >= starts[k] + CodeLength(data, starts[k])
      kept == Filtered([k \in DOMAIN starts |-> k], {k \in DOMAIN starts : HasHeader(k)})
  IN  IF Len(data) < 5
      THEN <<>>
      ELSE [k \in DOMAIN kept |-> Frame(data, starts[kept[k]], LastOf(kept[k]), base)]

----------------------------------------------------------------------------
\* carve_corrupted_blocks.

Idle ==
  /\ targets = <<>>
  /\ done = 0
  /\ got = <<>>
  /\ buffer = <<>>
  /\ frames = <<>>

\* The blocks to scan are given, and a new buffer is made.
Begin(blocks) ==
  /\ targets' = blocks
  /\ done' = 0
  /\ got' = <<>>
  /\ buffer' = [k \in 1 .. block_size |-> 0]
  /\ frames' = <<>>

\* What there is of block b: nothing behind the end.
BytesAt(b) ==
  SubSeq(file, b * block_size + 1,
         IF (b + 1) * block_size <= Len(file) THEN (b + 1) * block_size ELSE Len(file))

\* The first n bytes of it.
Beginning(b, n) == SubSeq(BytesAt(b), 1, n)

\* The scans that got less than there is.
CutShort == {k \in 1 .. done : got[k] < Len(BytesAt(targets[k]))}

\* One read() is made and not repeated: it gets what there is, or less.
ReadLengths(b) ==
  {Len(BytesAt(b))}
  \cup {n \in ReadSizes : n < Len(BytesAt(b)) /\ Cardinality(CutShort) < ShortReads}

\* Mutant: the whole buffer is carved, also when the read was short.
WholeBuffer(read) == buffer'

\* &buffer[..read]
Filled(read) == SubSeq(buffer', 1, Len(read))

CarveBlock ==
  /\ done < Len(targets)
  /\ done' = done + 1
  /\ LET b == targets[done + 1]
     IN  \E n \in ReadLengths(b) :
           LET read == Beginning(b, n)
           IN  /\ got' = Append(got, n)
               /\ buffer' = read \o SubSeq(buffer, n + 1, block_size)
               /\ frames' = IF n = 0 THEN frames
                            ELSE frames \o CarveBuffer(Filled(read), b * block_size)
  /\ UNCHANGED <<evidence, targets>>

----------------------------------------------------------------------------
\* Properties.

Scanned == {targets[k] : k \in 1 .. done}

FramesTypeOK ==
  /\ done \in 0 .. Len(targets) /\ Len(got) = done
  /\ Len(buffer) \in {0, block_size}
  /\ \A k \in DOMAIN frames : frames[k].byte_offset \in Nat /\ Len(frames[k].bytes) >= 4

Overlap(f, g) ==
  f.byte_offset < g.byte_offset + Len(g.bytes) /\ g.byte_offset < f.byte_offset + Len(f.bytes)

(***************************************************************************)
(* A carved frame is in the evidence, byte for byte, where it says it is,  *)
(* also after a short read into the buffer of an earlier block; and no     *)
(* byte is in two frames unless a block was to be scanned twice.  (carve   *)
(* and report read byte_offset and length again to export the clips.)      *)
(***************************************************************************)
FramesAreInTheEvidence ==
  /\ \A k \in DOMAIN frames :
       LET f == frames[k]
       IN  /\ f.byte_offset + Len(f.bytes) <= Len(file)
           /\ f.bytes = SubSeq(file, f.byte_offset + 1, f.byte_offset + Len(f.bytes))
  /\ \A k, l \in DOMAIN frames :
       k # l /\ Overlap(frames[k], frames[l]) =>
         \E i, j \in 1 .. done : i # j /\ targets[i] = targets[j]

\* The places in the file, from 0, of 00 00 01 and a byte behind it in the
\* first n bytes of block b.
Headers(b, n) ==
  LET data == Beginning(b, n)
  IN  {b * block_size + h - 1 :
         h \in {i \in 4 .. Len(data) : SubSeq(data, i - 3, i - 1) = <<0, 0, 1>>}}

\* The header at h is the beginning of another start code, behind which these
\* bytes go on, or of a long one at their end.
NoHeader(b, n, h) ==
  LET data == Beginning(b, n)
      rest == SubSeq(data, h - b * block_size + 1, Len(data))
  IN  /\ Len(rest) >= 4
      /\ SubSeq(rest, 1, 3) = <<0, 0, 1>> \/ SubSeq(rest, 1, 4) = <<0, 0, 0, 1>>

\* NAL units: less than five bytes are not looked at.
NalUnits(b, n) == {h \in Headers(b, n) : n >= 5 /\ ~NoHeader(b, n, h)}

HeaderOf(f) ==
  f.byte_offset + (IF f.bytes[3] = 0 THEN 4 ELSE 3)

(***************************************************************************)
(* Every NAL unit in what was read of the scanned blocks is carved, and    *)
(* nothing else: each header byte behind 00 00 01, with a zero before it   *)
(* or none, is that of a frame, whose type it decides, and each frame has  *)
(* one; although the scan jumps and stops four bytes before the end, and   *)
(* a read may end anywhere (carve_buffer).                                 *)
(***************************************************************************)
EveryNalUnitIsCarved ==
  /\ {HeaderOf(frames[k]) : k \in DOMAIN frames}
       = UNION {NalUnits(targets[k], got[k]) : k \in 1 .. done}
  /\ \A k \in DOMAIN frames :
       frames[k].is_keyframe <=> IsKeyframe(file[HeaderOf(frames[k]) + 1])

(***************************************************************************)
(* Every NAL unit of a block to be scanned is carved: "Carves video frames *)
(* from designated block indices of an evidence image"                     *)
(* (carve_corrupted_blocks, recovery/src/lib.rs:175).                      *)
(***************************************************************************)
ScannedBlocksAreCarved ==
  \A b \in Scanned : \A h \in NalUnits(b, Len(BytesAt(b))) :
    \E k \in DOMAIN frames : HeaderOf(frames[k]) = h
===============================================================================

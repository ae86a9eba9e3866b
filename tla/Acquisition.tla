---------------------------- MODULE Acquisition ----------------------------
(***************************************************************************)
(* acquisition/src: acquire_evidence_with_options.  The evidence source is *)
(* opened, streamed batch by batch through a reused buffer (short reads,   *)
(* end of file, read errors), every batch feeds the whole-image digest in  *)
(* order and is hashed block by block by Rayon workers in any order, and   *)
(* the manifest is written to the case directory.  The process may die     *)
(* between any two steps and the command may be run again.                 *)
(*                                                                         *)
(* A digest stands for its preimage (hash functions are injective here).   *)
(* SHA-256 and MD5 are updated with the same chunk in the same loop, and a *)
(* worker computes BLAKE3 and MD5 of the same chunk: one digest stands for *)
(* each pair.                                                              *)
(***************************************************************************)
EXTENDS Blocks

CONSTANTS
  Byte,         \* the values of a byte
  Images,       \* the contents the evidence source can have
  BlockSizes,   \* the block sizes an examiner may ask for (0 is refused)
  BatchBlocks,  \* DEFAULT_BATCH_BLOCKS: blocks read and hashed together
  MaxRuns,      \* bound: how often the command is run on the directory
  MaxTouches    \* bound: how often somebody else writes the medium

ASSUME ByteAssumption == 0 \in Byte
ASSUME ImagesAssumption == Images \subseteq Seq(Byte)
ASSUME BlockSizesAssumption == BlockSizes \subseteq Nat
ASSUME BatchAssumption == BatchBlocks \in Nat \ {0}
ASSUME BoundsAssumption == MaxRuns \in Nat /\ MaxTouches \in Nat

VARIABLES
  image,        \* the evidence (owned by the outside world)
  changed,      \* history: the evidence changed since the source was opened
  touches,      \* how often it did
  runs,         \* acquisitions started
  pc,           \* where the running acquisition stands, "idle" when none runs
  outcome,      \* what the last acquisition returned: "none", "ok" or "error"
  block_size,   \* options.block_size of the running acquisition
  pos,          \* cursor of the ReadOnlySource
  raw_buffer,   \* the reused batch buffer, never cleared between batches
  filled,       \* bytes_in_batch
  hasher,       \* bytes absorbed by the whole-image hashers so far
  slots,        \* hashes of this batch, filled in by the Rayon workers
  block_hashes, \* all_block_hashes
  total_bytes,  \* total_bytes
  disk,         \* manifest.json: "absent", "torn" or "complete"
  manifest      \* what a complete manifest.json says

stream   == <<pos, raw_buffer, filled, hasher, slots, block_hashes, total_bytes>>
casedir  == <<disk, manifest>>
evidence == <<image, changed, touches>>
vars     == <<evidence, runs, pc, outcome, block_size, stream, casedir>>

Contract == INSTANCE AcquisitionSpec
              WITH record <- IF disk = "complete"
                             THEN [present |-> TRUE, manifest |-> manifest]
                             ELSE [present |-> FALSE]

NotHashed == <<>>   \* a slot no worker has filled: no block is empty

----------------------------------------------------------------------------
\* Batch geometry.

Capacity(b) == BatchBlocks * b

\* Mutant: the whole reused buffer is hashed, the stale tail included.
WholeBuffer == raw_buffer

\* valid_data: the part of the reused buffer that this batch has filled.
ValidData == [i \in 1 .. filled |-> raw_buffer[i]]

\* chunks: valid_data sliced into blocks; a worker hashes one of them.
BatchChunks == BlocksOf(ValidData, block_size)

----------------------------------------------------------------------------
Init ==
  /\ image \in Images
  /\ changed = FALSE
  /\ touches = 0
  /\ runs = 0
  /\ pc = "idle"
  /\ outcome = "none"
  /\ block_size = 0
  /\ pos = 0
  /\ raw_buffer = <<>>
  /\ filled = 0
  /\ hasher = <<>>
  /\ slots = <<>>
  /\ block_hashes = <<>>
  /\ total_bytes = 0
  /\ disk = "absent"
  /\ manifest = <<>>

\* The source opens and the options are accepted: fresh hashers, a zeroed
\* buffer, the cursor at the start of the evidence.
Open(b) ==
  /\ pc = "idle"
  /\ runs < MaxRuns
  /\ b # 0
  /\ runs' = runs + 1
  /\ pc' = "read"
  /\ outcome' = "none"
  /\ block_size' = b
  /\ changed' = FALSE
  /\ pos' = 0
  /\ raw_buffer' = [i \in 1 .. Capacity(b) |-> 0]
  /\ filled' = 0
  /\ hasher' = <<>>
  /\ slots' = <<>>
  /\ block_hashes' = <<>>
  /\ total_bytes' = 0
  /\ UNCHANGED <<image, touches, casedir>>

\* The source does not open (SourceNotFound, PermissionDenied) or the block
\* size is zero (InvalidBlockSize): nothing was read or written.
Refuse ==
  /\ pc = "idle"
  /\ runs < MaxRuns
  /\ runs' = runs + 1
  /\ outcome' = "error"
  /\ UNCHANGED <<evidence, pc, block_size, stream, casedir>>

\* Mutant: the buffer is taken to be empty at every read.
AnyRoom(n) == n <= Capacity(block_size)

\* read() is given the free tail of the buffer.
HasRoom(n) == n <= Capacity(block_size) - filled

\* Mutant: a short read is taken for the end of the batch.
ShortReadEnds(n) == "update"

\* The inner loop goes on until the batch is full.
AfterRead(n) == IF filled + n < Capacity(block_size) THEN "read" ELSE "update"

\* read() returned n > 0 bytes, possibly fewer than the buffer has room for.
Read(n) ==
  /\ pc = "read"
  /\ HasRoom(n)
  /\ n <= Len(image) - pos
  /\ raw_buffer' = [i \in 1 .. Capacity(block_size) |->
                      IF i \in filled + 1 .. filled + n
                      THEN image[pos + (i - filled)]
                      ELSE raw_buffer[i]]
  /\ pos' = pos + n
  /\ filled' = filled + n
  /\ pc' = AfterRead(n)
  /\ UNCHANGED <<evidence, runs, outcome, block_size, hasher, slots, block_hashes,
                 total_bytes, casedir>>

\* Mutant: end of file is retried as if the read had been interrupted.
EndRetried == "read"

\* With an empty batch the outer loop ends too; otherwise the partial batch is
\* processed.
AfterEnd == IF filled = 0 THEN "create" ELSE "update"

\* read() returned 0: end of the evidence.
ReadEnd ==
  /\ pc = "read"
  /\ pos >= Len(image)
  /\ pc' = AfterEnd
  /\ UNCHANGED <<evidence, runs, outcome, block_size, stream, casedir>>

\* The hashers absorb the chunks of the batch in order.
UpdateHashers ==
  /\ pc = "update"
  /\ hasher' = hasher \o ValidData
  /\ slots' = [j \in 1 .. Len(BatchChunks) |-> NotHashed]
  /\ pc' = "hash"
  /\ UNCHANGED <<evidence, runs, outcome, block_size, pos, raw_buffer, filled,
                 block_hashes, total_bytes, casedir>>

\* Some Rayon worker hashes one block of the batch; the workers are unordered.
HashBlock(j) ==
  /\ pc = "hash"
  /\ slots[j] = NotHashed
  /\ slots' = [slots EXCEPT ![j] = BatchChunks[j]]
  /\ UNCHANGED <<evidence, runs, pc, outcome, block_size, pos, raw_buffer, filled, hasher,
                 block_hashes, total_bytes, casedir>>

\* Mutant: the hashes of a batch end up in front of the earlier ones.
HashesInFront == slots \o block_hashes

\* collect() keeps the order of the blocks.
HashesInOrder == block_hashes \o slots

\* The hashes of the batch are collected.  A batch that is not full was the
\* last one.
Collect ==
  /\ pc = "hash"
  /\ \A j \in DOMAIN slots : slots[j] # NotHashed
  /\ block_hashes' = HashesInOrder
  /\ total_bytes' = total_bytes + filled
  /\ slots' = <<>>
  /\ filled' = 0
  /\ pc' = IF filled < Capacity(block_size) THEN "create" ELSE "read"
  /\ UNCHANGED <<evidence, runs, outcome, block_size, pos, raw_buffer, hasher, casedir>>

\* File::create truncates the manifest of an earlier acquisition.
CreateManifest ==
  /\ pc = "create"
  /\ disk' = "torn"
  /\ pc' = "write"
  /\ UNCHANGED <<evidence, runs, outcome, block_size, stream, manifest>>

\* write_all succeeds: the manifest is on disk.
WriteManifest ==
  /\ pc = "write"
  /\ disk' = "complete"
  /\ manifest' = [total_bytes |-> total_bytes,
                  whole_image |-> hasher,
                  block_size  |-> block_size,
                  block_count |-> Len(block_hashes),
                  block_hashes |-> block_hashes]
  /\ pc' = "idle"
  /\ outcome' = "ok"
  /\ UNCHANGED <<evidence, runs, block_size, stream>>

\* Mutant of Fail: a read error ends the stream as end of file does.
ErrorEndsStream ==
  /\ pc = "read"
  /\ pc' = "create"
  /\ UNCHANGED <<evidence, runs, outcome, block_size, stream, casedir>>

\* Any system call of the run fails (ReadError, OutputDirectoryError,
\* ManifestWriteError) and the error is returned: what was written stays.
Fail ==
  /\ pc \in {"read", "create", "write"}
  /\ pc' = "idle"
  /\ outcome' = "error"
  /\ UNCHANGED <<evidence, runs, block_size, stream, casedir>>

\* The process is killed.
Crash ==
  /\ pc # "idle"
  /\ pc' = "idle"
  /\ UNCHANGED <<evidence, runs, outcome, block_size, stream, casedir>>

\* External: somebody else writes the medium, at any time.
Touch ==
  /\ touches < MaxTouches
  /\ touches' = touches + 1
  /\ changed' = TRUE
  /\ image' \in Images
  /\ UNCHANGED <<runs, pc, outcome, block_size, stream, casedir>>

Streaming ==
  \/ \E n \in 1 .. Capacity(block_size) : Read(n)
  \/ ReadEnd
  \/ UpdateHashers
  \/ \E j \in DOMAIN slots : HashBlock(j)
  \/ Collect

Writing == CreateManifest \/ WriteManifest

Next ==
  \/ \E b \in BlockSizes : Open(b)
  \/ Refuse
  \/ Streaming
  \/ Writing
  \/ Fail
  \/ Crash
  \/ Touch

Spec == Init /\ [][Next]_vars

\* The process runs: each of its steps is eventually taken while it is alive.
\* Nothing forces an examiner to start it, nor it to fail or to be killed.
FairSpec == Spec /\ WF_vars(Streaming) /\ WF_vars(Writing)

----------------------------------------------------------------------------
\* Properties.

TypeOK ==
  /\ image \in Images
  /\ changed \in BOOLEAN
  /\ touches \in Nat
  /\ runs \in Nat
  /\ pc \in {"idle", "read", "update", "hash", "create", "write"}
  /\ outcome \in {"none", "ok", "error"}
  /\ block_size \in BlockSizes \cup {0}
  /\ pos \in Nat
  /\ filled \in 0 .. Capacity(block_size)
  /\ raw_buffer \in [1 .. Capacity(block_size) -> Byte]
  /\ hasher \in Seq(Byte)
  /\ slots \in Seq(Seq(Byte))
  /\ block_hashes \in Seq(Seq(Byte))
  /\ total_bytes \in Nat
  /\ disk \in {"absent", "torn", "complete"}

(***************************************************************************)
(* Whatever the order in which the workers finished, however the reads     *)
(* were split and whatever happened to the medium meanwhile, a complete    *)
(* manifest.json describes ONE byte string: its block hashes are those of  *)
(* consecutive blocks of exactly the bytes under the whole-image digest,   *)
(* and its sizes and counts are theirs.  Nothing stale in the reused       *)
(* buffer was hashed, no byte twice, none left out (stream_and_hash).      *)
(***************************************************************************)
ManifestFaithful ==
  disk = "complete" => Contract!Describes(manifest)

(***************************************************************************)
(* An acquisition that reported success over a medium nobody wrote since   *)
(* it was opened has recorded the whole evidence, in the block size asked  *)
(* for.  It fails if any short read, partial batch or batch boundary loses *)
(* a byte, and if success is reported over another manifest.               *)
(***************************************************************************)
SuccessIsTheEvidence ==
  outcome = "ok" /\ ~changed =>
    /\ disk = "complete"
    /\ manifest = ManifestOf(image, block_size)

(***************************************************************************)
(* A manifest an examiner could already rely on is given up only by an     *)
(* acquisition that has read the whole of its source without an error: a   *)
(* read error or a kill while streaming leaves the old manifest.           *)
(***************************************************************************)
GivenUpOnlyWhenRead ==
  disk = "complete" /\ disk' # "complete" =>
    /\ pc = "create"
    /\ changed \/ hasher = image

OldManifestKeptWhileStreaming == [][GivenUpOnlyWhenRead]_vars

\* Every step of the command is one the abstract acquisition may take.
Implements == Contract!Spec

(***************************************************************************)
(* A streaming acquisition ends: with an outcome, or killed.  No order of  *)
(* the workers and no split of the reads keeps it going for ever.          *)
(***************************************************************************)
AcquisitionEnds == pc # "idle" ~> pc = "idle"

----------------------------------------------------------------------------
(***************************************************************************)
(* The inductive invariant: what the loop of stream_and_hash keeps.  s is  *)
(* the string of bytes of the batches collected so far.                    *)
(***************************************************************************)
Collected(s) ==
  /\ block_hashes = BlocksOf(s, block_size)
  /\ total_bytes = Len(s)

\* Batches before the last one end at a block boundary.
WholeBlocks(s) == Len(s) = block_size * Len(block_hashes)

\* The current batch continues the evidence where the collected ones end.
Continues(s) ==
  /\ pos = Len(s) + filled
  /\ ~changed => /\ pos <= Len(image)
                 /\ s \o ValidData = SubSeq(image, 1, pos)

\* A batch that is not full reaches to the end of the evidence.
ShortBatchIsLast ==
  filled < Capacity(block_size) /\ ~changed => pos = Len(image)

ReadInv ==
  pc = "read" =>
    /\ Collected(hasher) /\ WholeBlocks(hasher) /\ Continues(hasher)
    /\ filled < Capacity(block_size)

UpdateInv ==
  pc = "update" =>
    /\ Collected(hasher) /\ WholeBlocks(hasher) /\ Continues(hasher)
    /\ ShortBatchIsLast

\* While the workers run, the hashers are one batch ahead of the block hashes.
Before == SubSeq(hasher, 1, Len(hasher) - filled)

HashInv ==
  pc = "hash" =>
    /\ hasher = Before \o ValidData
    /\ Collected(Before) /\ WholeBlocks(Before) /\ Continues(Before)
    /\ ShortBatchIsLast
    /\ Len(slots) = Len(BatchChunks)
    /\ \A j \in 1 .. Len(slots) : slots[j] \in {NotHashed, BatchChunks[j]}

WriteInv ==
  pc \in {"create", "write"} =>
    /\ Collected(hasher)
    /\ ~changed => hasher = image

OutcomeInv ==
  outcome = "ok" =>
    /\ pc = "idle" /\ disk = "complete" /\ block_size # 0
    /\ manifest = ManifestOf(hasher, block_size)
    /\ ~changed => hasher = image

IInv ==
  /\ TypeOK
  /\ ManifestFaithful
  /\ pc # "idle" => block_size # 0
  /\ pc = "write" => disk # "complete"
  /\ ReadInv
  /\ UpdateInv
  /\ HashInv
  /\ WriteInv
  /\ OutcomeInv
=============================================================================

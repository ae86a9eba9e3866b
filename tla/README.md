# A formal model of the DVR/NVR forensics platform

TLA+ modules, TLC configurations and TLAPS proofs kept beside the Rust workspace
in `src/engine`. Paths below are relative to `src/engine/crates` unless they
start with `src/`.

1. [The system](#1-the-system)
2. [Modules and code](#2-modules-and-code)
3. [Runs](#3-runs)
4. [Fairness](#4-fairness)
5. [Proofs](#5-proofs)
6. [Where code and documentation part](#6-where-code-and-documentation-part)
7. [Not modelled](#7-not-modelled)
8. [Plan](#8-plan)

## 1. The system

The platform takes evidence from the disk of a video recorder without writing to
it: it hashes the *evidence image* block by block, parses it by a
grammar, recovers frames, correlates cameras and prints a certificate. All of it works
on a *case directory*:

| file | written by | read by |
| --- | --- | --- |
| `manifest.json` | acquire | every other command but query and correlate |
| `case.db` (SQLite, WAL, foreign keys on) | parse, carve, correlate, analyze, verify (audit rows) | all but acquire |
| `report/certificate.pdf`, `forensic_report.json`, `forensic_report.md`, `clips/` | report | the workstation |

Two programs call the library crates: `dvrft`, one process per subcommand, and
`gui`, a web server with a page. Nothing locks the case directory but SQLite.

| component | state it keeps | operations | what makes it hard | what makes it correct |
| --- | --- | --- | --- | --- |
| acquisition | batch buffer, two running digests, block hashes, `manifest.json` | open, read a batch, hash whole (in order) and per block (Rayon, any order), write the manifest | short reads, partial last block and batch, a reused buffer, errors and kills in the middle, re-runs over an old manifest | a complete manifest is the digest of one string of bytes, the evidence if it stood still |
| sandbox | wasmtime engine, ticker thread, epoch deadline, guest memory | load, descramble one block | a guest that never returns, wild pointers, deadlines in ticks, a host dropped while its thread goes on | the parse ends and the host survives; one block's failure or bytes never become another's |
| parser: `parse_case`, `verify`, `case.db` | rows of five tables, one transaction per store | parse, verify, store and query | other commands at work, an image that shrinks, grows or changes, re-runs | extractions are whole, verdicts neither miss nor invent, nothing is taken back |
| parser: detection, interpreter, demuxer | none | choose a grammar, read the fields of a block, split records into channels, list missing numbers | fields of any width, place and byte order, lengths that leave the block, records in any order, duplicates, packed numbers | records say what the bytes say; the gaps are the missing numbers |
| recovery | one buffer | carve blocks | start codes of two lengths, the end of a block, stale bytes, reads that get a part of a block | the frames are the NAL units, byte for byte |
| correlation | none | merge, transitions, blackouts | early exit of a loop, signed differences, rows of several parses | every move once, blackouts are silent |
| reporting | files of `report/`, `clips/` | gather, one timeline of four kinds of entries, export clips, certify, document | five queries at different times, clips read again from the medium, torn clips, files one after the other, kills, entries without a time | never more than the database has, and the format of an item that is there; certificate first, and with its clips; what has a time in its place |
| dvrft | none between processes | nine subcommands | all of the above, side by side | each command ends; the directory stays consistent |
| gui | `last_case_dir`; the page: current case, shown case and digest, open requests | acquire, parse, timeline, report, download | a page that does not wait, requests in any order, a kill | what is served after a report is that report |
| identify | none | name the device of an image by its first bytes | grammars, registry and containers weighed against each other, other rules than those of parse | identify and parse agree where the bytes are of one format |
| analytics | none | motion, entities and their boxes, scores, the leads | three sets of thresholds in three places | boxes lie in the picture, no keyframe is lost among the leads |
| dvrft-gen, XOR plugin | none | a disk image and its ground truth; descramble a payload | written apart from the grammar and the code that read it | what is generated is what is recovered |

The hazards these give rise to are listed, at their lines, in `PROJECT.json`.

## 2. Modules and code

```
Blocks <- AcquisitionSpec <- (refined by) Acquisition <- MCAcquisition
Blocks, Ordering <- CaseDb <- CaseCommands <- MCCaseCommands
Sandbox <- MCSandbox                       Gui <- MCGui
Ordering <- Demux, Correlation <- Footage <- MCFootage
Grammar <- Identify, Generator, Timeline;  Ordering <- Carver, Analytics
Carver, Identify, Generator, Analytics, Timeline <- Extraction <- MCExtraction

Blocks, Ordering <- SharedLemmas
Acquisition, SharedLemmas <- AcquisitionProofs
CaseCommands, SharedLemmas <- CaseCommandsProofs <- CaseEvidenceProofs
Footage, SharedLemmas <- FootageProofs     Extraction, SharedLemmas <- ExtractionProofs
Sandbox <- SandboxProofs                   Gui <- GuiProofs
```

**Ordering** says what the standard library's filters and stable sorts return, as
operators that can be reasoned about: `Filtered` is a recursive function,
`Arranged` counts for each place how many come before it. A stable sort is one by
a strict order of places, in which equal keys are told apart by their number.

**Blocks** cuts bytes into blocks and says what a manifest of them is. A digest
is represented by what it is a digest of, so two digests are equal exactly when
their preimages are: hashes are assumed to be free of collisions, nothing else.

**AcquisitionSpec** is the contract of `acquire`: five steps, no buffer.
**Acquisition** (`acquisition/src/block_stream.rs`, `manifest.rs`, `source.rs`)
has a `phase` for each place in `stream_and_hash`: `Read` is one `read()` into
the batch buffer (any number of bytes up to what is asked for), `ReadEnd` its
end of file, `UpdateHashers` the two whole-image digests, `HashBlock` one Rayon
task, `Collect` the ordered `collect()`, `CreateManifest` and `WriteManifest`
the truncation and the writing of the file, which may stop in between. `Fail`
is an I/O error at any of them, `Crash` a kill, `Touch` somebody else writing
the medium. The refinement `Contract` maps a torn manifest to no record; the
history variable `changed` says whether the medium stood still.

**Sandbox** (`sandbox/src/lib.rs` and the loop of `parse_case` around it) has
two threads: the parse, with the stages of `descramble()` in `call`, and the
ticker, with time passing in units and `left` ticks to the deadline. The guest
answers, fails, returns any pointer, leaves anything in its memory, or does
nothing.

**CaseDb** has the tables of `case.db` as sequences and each storing method of
`CaseDatabase` as one operator, a committed transaction. **CaseCommands** runs
the commands of `dvrft/src/main.rs` as processes: `job[p]` is what the process
holds in memory (the manifest it read, the blocks read so far, the rows it is
to store), so that state read early and used late is stale in the model as it
is in the code. Every command reads the manifest, reads the image block by
block, and stores in one transaction; `Abort` is an error or a kill between any
two steps, `Touch` the medium. A block is *too small* below the header length,
*corrupted* if its first byte is not one of `SoundBytes`. A report exports the
carved frames one by one into `clips`, reading each again from the medium
(`ReportClip`), and fails when one cannot be read (`ReportUnreadable`); it
holds them by the row they came from and takes the one that `ComesFirst` by its
offset. What it knows of the case it asks by five statements, each a step of its own,
between which other commands store: the records (`ReportStart`), the carved frames
(`ReportCarved`), the events, the detections above the thresholds of 0.50 and 0.60
(`ReportLeads`; `AnalyzeScan` chooses which are) and, after the clips, the format
(`ReportExported`). A clip is created or truncated (`ReportClip`) and written then
(`ReportClipWritten`): all of it, or a beginning, after which the report is over (a
full disk, a kill), or over what another report has put into the same file
(`WrittenOver`). A clip is named by its number and offset; its kind, which is also
in the name, is left out. A query's WHERE is `Filtered`. With `Before` the case begins
with an image that has been acquired.

**Demux** and **Correlation** translate `demux.rs` and `correlation/src/lib.rs` as
pure operators; **Footage** puts them behind `parse`, `correlate` and `report` of one image, with the
discontinuities of `reporting/src/timeline.rs`. Timestamps keep their width: a
difference is taken as signed with half the range as parameter `Half`; sequence
numbers end at `SeqMax`, where the addition panics (`checked`) or wraps.

**Extraction** follows the bytes of one image through the commands: `Identify`;
`StartParse`, `ParseBlock` for each block and `StoreExtraction`; `StartCarve`,
`Carve` for each block and `StoreCarved`; `Analyze`; `Report`. The buffers of
`parse_case` (`page`) and of the carver keep what an earlier read left in them,
and a block is multiplied or counted into an offset where the code does so. What
the commands compute is in six modules without behaviour of their own:

* **Grammar** (`detect.rs`, `interpreter.rs`, `ast.rs`): a grammar file as a
  record, which grammar is chosen, and what a block becomes by it. Numbers are
  byte strings, the highest byte first, so that a `u64` and its truncation to
  32 or 16 bits need no large integers.
* **Identify** (`identify/src/lib.rs`): candidates with a tier and a confidence
  in hundredths, and the best of them. The start codes of bare streams are
  looked for in the bytes; which signatures of other formats and texts of
  vendors the bytes show is part of a scenario (`marks`).
* **Generator** (`dvrft-gen/src/main.rs`, and the XOR of
  `src/plugins/c4_xor_descrambler`): the disk image byte for byte, with its
  ground truth. A digest is again what it is a digest of.
* **Carver** (`recovery/src/lib.rs`): the loop over blocks, with its one buffer,
  and the scan for start codes as a recursive function. Each block is read by one
  `read()` that is not repeated (`ReadLengths`): it gets what there is of the block,
  or one of `ReadSizes`, at most `ShortReads` times in a scan. The history variable
  `got` says how much each read got.
* **Analytics** (`analytics/src/lib.rs`): scores in ten-thousandths, sides of
  boxes in 1/25500 of the picture, in which all constants of the code are whole
  numbers. The bytes of BLAKE3 are a parameter (`Digest`).
* **Timeline** (`reporting/src/timeline.rs`): an entry for each record, carved
  frame, event and detection, sorted as the code sorts them.

CaseCommands and Extraction meet at the tables: CaseCommands has the commands
side by side over blocks it does not look into, Extraction one after the other
over bytes it does.

**Gui** (`gui/src/main.rs`, `gui/web/index.html`) has the page and the server.
The page's requests are `waiting`, in the server's hands (`serving`), or
answered and not heard (`answers`); they are taken in any order because a
browser opens several connections. Reports write their files one by one.

What all of them leave out: wording, layout, logging, timestamps of the
examination, floating-point confidences, the calendar of a normalized
timestamp, paths other than the default ones. Reads of `CaseCommands` are of whole
blocks; the scans of `carve` and `analyze` over the image are one step each, as
is each SQL statement and the comparison of `verify` with the database. Of
`Extraction`, `parse_case` repeats its reads until the block is full, and its blocks
are whole; the probes that identify (`identify/src/lib.rs:614`) and detection
(`parser/src/detect.rs:19`) make are single reads too, and are taken as whole here.

## 3. Runs

Every property of a passing run is shown to be able to fail: `PROJECT.json`
names a mutant of a modelled definition (marked *Mutant* in the modules) that
violates it.

| run | states | question |
| --- | --- | --- |
| `acquisition` | 14 400 | does a complete manifest describe one string of bytes, the evidence if it stood still; is the old manifest kept until the source is read; does it refine the contract and end |
| `sandbox` | 79 500 | does a parse end with guests that do not, unless one makes the host panic; is no call interrupted with two ticks or more of its time left; does a block get its own bytes or none |
| `case_evidence` | 1.7 million | acquire, parse, verify and query side by side: a verdict *pristine* means all acquired bytes are there; no false alarm; extractions are whole |
| `case_database` | 357 000 | all eight commands side by side over an image that was acquired and may shrink: no orphaned rows, tables only grow, reports are of the case and have their clips, a clip is the beginning of a carved frame, and every command ends |
| `footage` | 185 000 | gaps, transitions, blackouts and discontinuities against reference definitions and each other |
| `extraction` | 1.2 million | is a generated image recovered, block by block; do identify and parse agree; does the plugin get the payload of its block; are the damaged blocks scanned, and the frames the NAL units of what was read, byte for byte, wherever the reads end; do boxes lie in the picture, keyframes become leads, and does the timeline tell the recording |
| `gui` | 264 000 | after a report is heard of, that report is served; the certificate is never older than the documents; requests are answered |
| `verify_grown`, `sandbox_panic`, `carve_short_read`, `timeline_order`, `blackout_missed` | | section 6 |

The bounds, and why they are enough:

* `acquisition`: two blocks to a batch, blocks of one and two bytes, images of
  zero to five bytes with all bytes different: empty, less than a block, a batch
  exactly, a partial block in the second and third batch. Two runs, so that a
  second one meets the manifest of the first, and one change of the medium.
* `sandbox`: a tick of two units, timeouts below one tick, one, one and a half
  and three; two blocks, to see what one call leaves to the next; pointers
  inside, at the last place, past it, and negative with and without overflow.
* `case_*`: two processes, so that every pair of commands overlaps. In
  `case_evidence` four commands, after which something has been acquired, parsed
  and verified while a fourth goes on. `case_database` begins with an acquired
  image, so that three commands are parse, carve and report, one after the other
  or the last two beside another; one change of the medium, to an image that is
  altered, grown, truncated or ends in a stump. The processes are
  interchangeable; symmetry is used only where no liveness is checked.
* `footage`: all images of up to four of ten records in any order, repeated or
  not, parsed up to twice. `Half` is 8 against times up to 13, so that
  differences beyond half the range occur; the largest sequence number is 3 and
  is among the records, so that the overflow occurs.
* `extraction`: five families of scenarios, each with its own grammar directory.
  *Generated*: disks of 32 and 35 blocks of 72 bytes, so that the scrambled
  blocks 10 to 13 and the damaged 22 and 23 occur, with the shipped grammar,
  with and without the plugin, with payloads full of start codes or without.
  *Streams*: every block of seven bytes of three kinds (zero, one, a keyframe's
  header), which holds two start codes of any length with a header, before four
  second blocks. *Fields*: fields of every type, byte order
  and mask, past the end of the block, lengths of zero, of the block and
  beyond it, short last blocks. *Devices*: which rules of two grammars match,
  with which weights and tiers, beside containers, streams, registry entries.
  *Watched*: payloads from still to restless, of 31 to 33 bytes as each frame
  says for itself, with digests at both ends of the range. Two parses, so that rows
  double; twenty leads, as in the code; a probe
  of 80 bytes (64 KiB in the code) and a head of 64 (4 KiB), beyond which a
  signature is not seen. One read of a scan may get a part of its block: six bytes,
  which of a small stream is all but the last byte and of a generated block less
  than its header, or 40 bytes of a generated block, its header and eight bytes of
  the payload.
* `gui`: two cases and three requests (an acquisition, a report, one more in
  any order and at any time), one kill. Four requests without a kill were
  explored too, without an error.

`CHECK_DEADLOCK FALSE` stands in each configuration: the systems stop when
their bounded commands, runs or clicks are used up.

## 4. Fairness

* Acquisition: weak fairness of `Streaming` and `Writing`, a process that has
  begun goes on; none of errors, kills, restarts or the medium.
* Sandbox: weak fairness of the parse, the ticker thread and time. The guest
  owes nothing; `Interrupt` is fair, since compiled guest code checks the epoch
  at every loop and function entry. That the parse ends rests on the ticker
  never stopping: the host is dropped after loading, and its flag stays set.
  `ParseEnds` counts "done" and "failed" as ends, not a panic of the host, and
  is about guests whose pointers do not overflow the bound check: for the others see
  `sandbox_panic`.
* CaseCommands: weak fairness of each command's steps; none of starting one,
  of aborts, or the medium. Of the properties only `EveryCommandEnds` needs it.
* Gui: weak fairness of the server's loop and of the page hearing answers; none
  of clicks or kills.
* Footage and Extraction: none, and no liveness is claimed of them.

## 5. Proofs

Eight modules are checked by TLAPS, for every value of the constants, from the
assumptions named in the modules they are about and from nothing else: images
are strings of bytes, sizes, bounds and ticks are naturals (a block size of 0,
which an examiner can type, included in `Acquisition`), and there are any
processes, cases and sources. All theorems are about `Spec`,
without fairness. Where an invariant is not inductive, the parts of the inductive
one that TLC can evaluate were checked on a run before they were proved.

What the proofs share is in `SharedLemmas`: blocks and what is cut into them,
`ArrangedIs` and `FilteredArranges` (a sort or filter returns the elements at the
places it is given, each once, in order), and `FlattenIs`. The library's
induction rules take an operator as a parameter, which the provers do not
instantiate; that a recursive function exists, and what it computes, is shown by a
least counterexample instead (`Smallest`).

### Acquisition (`SharedLemmas`, `AcquisitionProofs`)

| theorem | says |
| --- | --- |
| `TypeCorrect` | `Spec => []TypeOK` |
| `ManifestIsFaithful` | a complete manifest is the chunked digest of one string |
| `SuccessMeansEvidence` | a success over a medium that stood still recorded the evidence |
| `OldManifestKept` | a complete manifest is given up only after the source was read to its end |
| `ImplementsContract` | `Spec => Contract!Spec` |
| `Invariance` | `Spec => []IInv`, which they rest on |

None of these is inductive: that the manifest is right in the end says nothing
of a batch half read. `IInv` adds, for each phase of a batch, what holds
*before* it: the bytes hashed so far are a prefix of the evidence (`Before`),
the valid part of the buffer continues that prefix (`ReadInv`, `Continues`),
the digests contain the batch once and only after `UpdateHashers` (`UpdateInv`,
`HashInv`), what was collected is the prefix cut into blocks (`Collected`),
each batch but the last is whole blocks (`WholeBlocks`), a batch that is not
ended the file (`ShortBatchIsLast`), and what is being written is the result
(`WriteInv`, `OutcomeInv`). The step that carries the argument is `CollectInv`,
by the lemma `BlocksOfConcat`: cutting `s \o t` into blocks is cutting `s` and
cutting `t`, provided `s` is whole blocks. That is why a short *read* must not
end a batch and why only the last batch may be partial. Refinement is shown
step by step: reading and hashing map to stutters, `CreateManifest` to `Forget`,
`WriteManifest` to `Record`.

### Sandbox (`SandboxProofs`)

| theorem | says |
| --- | --- |
| `TypeCorrect` | `Spec => []TypeOK` |
| `WatchdogIsPatient` | a call is interrupted only with less than two ticks of its time left |
| `BlocksKeepTheirOwnBytes` | what is recorded as descrambled of a block comes from its own call |
| `ParseDecidesEveryBlock` | a parse that is done has decided every block |
| `Invariance` | `Spec => []IInv`, which they rest on |

That the watchdog is patient says nothing of a call that still runs. `ClockInv`
does: the time a call has run is at least that of the ticks counted since its
deadline was set (`Ticks(timeout) - left`), less the one that was under way at
that moment, plus what has passed of the one under way now. It holds only while
less than the timeout has passed, since time is not counted further. `CallInv`
follows the bytes: the guest's memory is owned by the block in hand from the
write on, the output from the read on, and a result stands until `descramble`
returns; `LoopInv` says that blocks before the one in hand are decided and those
from it on are not.

### The case directory (`CaseCommandsProofs`, `CaseEvidenceProofs`)

| theorem | says |
| --- | --- |
| `TypesInvariant` | what a command holds at which place, and what tables and files consist of |
| `TypeCorrect` | `Spec => []TypeOK` |
| `NothingIsTakenBack` | `DatabaseOnlyGrows`, an action property |
| `NoRowIsOrphaned` | every row has its evidence item |
| `ReportsAreOfTheCase` | no report on disk claims more than the database has, and one that claims anything names the format of an item that is there |
| `CertificatesHaveTheirClips` | the frames a certificate counts have clips; over a medium nobody wrote, each clip is the beginning of a carved frame |
| `PristineHasEveryByte` | *pristine* means that every acquired byte is there |
| `ExtractionsAreWhole` | no half extractions, no mixed ones, and the digests of all blocks |
| `NoAlarmIsFalse` | a verification of a medium nobody wrote says *pristine* |

`TypeInv` (`WorldInv`, `FilesInv`, `JobsInv`, `OpenInv`, `HistoryInv`) is the
ground: `RowsTyped` says what a command's `rows` are by command and place, since
the same field holds offsets, frames, counts or a verdict; `OpenInv`, that whoever
writes the database has opened it. `DbStepCases` reduces a step to what it does to which table. Above it:

* *Orphans*: `HasParent` is tested in the transaction that adds the rows, and
  no item is ever removed (`EvidenceStays`, from `NothingIsTakenBack`).
* *Reports*: a report on disk is bounded by the database because the process
  that wrote it was. `CountsInv` bounds what is held in memory by the tables, at each
  place of the report, and tables only grow, also the set of detections above the
  thresholds. For the format, which is asked for last: whoever counted something saw
  a table that was not empty, rows have their item (`Parents`, `ItemsInv`), and items
  are never removed.
* *Clips*: `NumbersInv` relates the frames still to be exported to the numbers in
  `clips`: those below `rows[2] - Cardinality(DOMAIN frames)` are there. A later
  report that is killed tears or empties a file of the same number, so that the
  numbers stay although the contents may not. `BytesInv` adds, for a medium
  nobody wrote, that frames in tables and memory have the bytes at their place
  (`Sound`), and that what is in a file is the beginning of a carved frame
  (`Untorn`). The writes of two reports into one file go over each other, and both
  write what the image has there (`WrittenOverSound`).
* *Pristine*: `HeldInv` says of each command that what it has read is the
  beginning of the image, if it saw but one; the history variable `held` knows
  which it saw. The verdict compares what was read with what was acquired.
* *Whole extractions and no false alarm*: `StillInv` holds as long as nobody
  wrote the medium: the manifest on disk and in every process describes it,
  all evidence items are of it, and the blocks each parse and verification has
  read are its blocks up to where it is (`BlocksRead`), all of them once the loop is
  over. That the loop of a parse ends neither early nor late
  is the arithmetic of `CountedBlocksEnd`. `ExtractionInv` gives the witnesses
  of `ExtractionIsWhole`, and adds that every record has its item: else a new
  item could take up rows that are there. A verification over such a database finds
  nothing to deny, also while other commands add to it, because the rows of
  every item of its block size are those of the blocks it has read.

### Streams, transitions, blackouts (`FootageProofs`)

| theorem | says |
| --- | --- |
| `FootageInductive` | `Spec => []IInv`, which the others rest on |
| `FootageTypes` | `Spec => []TypeOK` |
| `MissingNumbersReported` | the gaps of a stream are the numbers between its lowest and highest that no record has, unless the largest `u32` occurs twice |
| `MovesFoundOnce` | the transitions are the moves between cameras within the window, each once |
| `BlackoutsSilent` | in a blackout no camera has a record |
| `BlackoutsReported` | a blackout with no damaged record in it, longer than the report lets pass, lies within a discontinuity of the report but for two seconds |

The invariant itself is small, since the commands compute from tables: `rows` are
the extraction once for each parse (`RowsRecordTheImage`), the streams are of it
(`StreamsAreOfTheImage`), and events and discontinuities are what was computed of
an earlier, shorter table (`EventsAreOfAnEarlierState`,
`AlertsAreOfAnEarlierState`): a second parse does not take them back. The work is
in the operators. `GapsAreTheMissingNumbers` follows from neighbours in a sorted
stream having no number between them; `EveryMoveIsFoundOnce` needs that the loop,
which stops at the first pair beyond the window, meets a move's pair before it
stops, which holds because times ascend along the merged list, and that no
difference wraps within the window, `Window < Half`: half the range of the
numbers (`GapsAssumption`). Records have times and numbers of their width
(`ExtractionsAssumption`).

### From bytes to leads (`ExtractionProofs`)

| theorem | says |
| --- | --- |
| `ExtractionTypes` | `Spec => []TypeOK`, `FramesTypeOK` included |
| `PayloadsDescrambled` | the plugin gets the payload of the block in hand, and every one that lies in its block |
| `FramesFoundAgain` | the bytes of a carved frame are in the image at its offset, and frames of blocks scanned once do not overlap |
| `NalUnitsCarved` | every NAL unit in what was read of the scanned blocks has its frame, and every frame is one |
| `DamageScanned` | carve scans what parse found damaged, or everything |
| `IdentifyNamesWhatParseReads` | identify and parse agree where the bytes are of one format |
| `BoxesInThePicture` | boxes lie in the picture, for digests of four bytes |
| `KeyframesAreLeads` | no readable keyframe of 32 bytes is lost among the leads |

Scenarios are assumed to be what the commands can meet: the image is bytes, the
block size is not zero (with zero, `parse_case` reads nothing), and grammars are
what serde lets through (`IsGrammar`). Nothing is assumed of what a grammar says:
fields may be of any type, place, order and mask.

* `ParserInv`: one buffer serves all blocks, so what stands behind the bytes that
  were read is of an earlier block; `DescrambledIsItsPayload` holds because
  `BlockSlice` cuts it off. That needs the offset that `parse_case` *counts* to be
  the block number *times* the block size, or the end of the image
  (`LoopStandsAtABlock`), and of every record that it is of its block
  (`RecordsAreOfTheirBlocks`). The last fact is also what `DamageScanned` needs:
  the carver multiplies where the parser counts. That the XOR is undone by itself
  is shown bit by bit (`XorBits`, `XorUndone`).
* `CarverInv`: `CarvedFramesAre` says of one buffer that the starts `StartsFrom`
  finds are start codes, do not overlap, and miss none but the short code within a
  long one, by a least counterexample from the end of the buffer. The loop then
  needs that its targets are those it began with, and that frames of different
  blocks are apart; what each read got, it keeps in `got` (`ReadsAreOfTheirBlocks`),
  and all that is said of the frames is said of the beginning of a block that was
  read (`BeginningIs`). That this is the whole block nobody can prove: see
  `carve_short_read`.
* *Agreement*: `FoundInTheDirectory` keeps what identify and detection answered.
  A grammar with one signature of weight 90 has at least 105 in the score; a
  format without grammar is of tier 3 and has 99 at most (`StrongScore`,
  `WeakScore`), so the one signalled grammar is the best of all candidates.
* *Leads*: `LeadsInv` says what was stored and shown while nothing but a report
  can follow. `MotionIs` bounds the motion; a keyframe with an entity then scores
  5200 or more, a dull frame 4000 or less (`RelevanceIs`), and the stable sorts of
  analyze and of the query lose nothing (`TopLeadsAre`, `RelevantAre`), also
  where stored times are signed (`BelowChains`, `SignedIs`).

Preparing these proofs changed two properties, which were false beyond the
bounds of the run. Of an empty image only parse could name a grammar, by an empty
signature, so `IdentifyAndParseAgree` asks for a byte; and a keyframe is not
before *every* lead without an entity: see section 6.

### Workstation (`GuiProofs`)

| theorem | says |
| --- | --- |
| `TypeCorrect` | `Spec => []TypeOK` |
| `HeardReportIsServed` | a report that may be relied on is the one that is served |
| `CertificateFirst` | no document is of a later report than the certificate |
| `Invariance` | `Spec => []IInv`, which they rest on |

`ServingInv` says how far the report in hand has written its files: those before
the next one are its own, the others are older. `SettledInv` is the rely condition
of the page: from the click on *generate* until it may no longer rely on the
report, whatever is waiting, in the server's hands or answered but not heard is
about the same case, and but one of them is a report. For that, requests must
be told apart (`UniqueInv`) and reports counted (`CountInv`: stamps begun and
requests waiting are no more than the clicks), since a file's stamp is compared with `stamps`.

### Only model-checked

* `AcquisitionEnds`, `ParseEnds`, `EveryCommandEnds`, `EveryRequestIsHeard`:
  liveness needs fairness and ENABLED.
* `GroundTruthRecovered` and `TimelineTellsTheRecording`: they relate an image to
  the truth the generator wrote with it, over the recursive construction of both
  and the digits of numbers in them. The run has disks of 32 and 35 blocks, in
  which every kind of block the generator makes occurs; and the timeline sorts
  with `SortSeq`, of which the prover has no definition.

## 6. Where code and documentation part

Five runs show a violation of what the repository says of itself.

* `verify_grown`: verify reads as many blocks as the manifest counts and calls
  an image *pristine / untampered* that has grown behind the last, full block.
* `sandbox_panic`: a guest that returns a pointer just below zero as the place of its
  buffer ends the host by a panic, in the bound check or behind it, though the "host
  process is isolated from guest panics, infinite loops, and traps".
* `carve_short_read`: the carver reads a block by a single `read()`, where all
  other commands repeat it until the block is full. What a short read leaves out is
  not scanned, and nothing says so. `EveryNalUnitIsCarved` is of what was read.
* `timeline_order`: "Sort timeline chronologically" puts correlated events, whose
  timestamp is 0, behind all entries with one, although they say when they
  began. `TimelineTellsTheRecording` has only entries without any time at the end.
* `blackout_missed`: only gaps of the lowest-numbered channel are tried, so an
  outage of all cameras that begins with a recording of another can be missed.

Seen while modelling, without a run: the page says an acquisition is complete
and names its case when the progress bar ends, also if it failed, while the
download button of an earlier report stays; `/api/parse` does not parse but
lists what was parsed; plugin timeouts of 500 ms in the documents are 200 ms by
default; the grammar specification's BCD encoding is not implemented; the
report's BLAKE3 is the hash of the first block. And, of the other parts:

* verify compares the rows of all evidence items with blocks of the manifest of the
  day. Acquire, parse, acquire again with another block size: an untouched medium
  raises "EVIDENCE ALTERED". `NoFalseAlarm` asks for one block size in the database.
* `is_pristine` is a constant in the report (`reporting/src/lib.rs:117`), and the
  digests the architecture document calls "re-verified at reporting" are copied from
  the manifest, whatever has become of the medium.
* Transitions subtract raw timestamps (`correlation/src/lib.rs:134`); for the Dahua
  grammar these are packed dates, and `delta_secs` and the window are not seconds.
* The page reads `sha256` and `md5` of a manifest whose fields are
  `whole_image_sha256` and `whole_image_md5` (`gui/web/index.html:493`), and always
  shows the literal digests written as a fallback.

Of the commands in `Extraction`:

* identify takes a grammar of which *any* rule matches and prefers tiers 1, 2,
  0, 3; parse wants *all* rules and the highest tier. Equal grammars are told
  apart by the order of `read_dir`. Below the threshold, identify answers
  "unrecognized" even if a candidate of a lower tier is above it.
* A superblock's declared offset is not used, only its magic's, so a Hikvision
  master sector at 0x200 becomes a damaged block and its bonus is never given.
* A payload length is accepted up to the length of the whole block, so a
  payload may run into the next one; the plugin is not given it, analyze reads
  it. Scrambled payloads are analysed as they lie in the image, also when they
  were descrambled.
* carve multiplies block numbers of the database by the block size of the
  manifest of the day, which another acquisition may have changed.
* analyze's list of leads "(Relevance >= x)" is not filtered by x, and its
  `--min_confidence` is not used; `query` prints the number of rows it shows
  (at most 50 by default) as the number of matches; timestamps are stored as
  signed numbers, so that those above half the range are before all others in
  `--start` and `--end`. A second analyze doubles its detections.
* Motion alone can put a frame first: a restless keyframe of less than 32 bytes,
  in which analyze looks for nothing, scores up to 6000 and is listed before a
  calm keyframe with an entity, which has 5200.
* Exported clips are not compared with the digests of the carved frames, and
  clips of earlier reports stay in the directory.

## 7. Not modelled

* Of `identify`: names, models and chipsets, the texts it looks for (given as
  marks), the fallback paths of the grammar directory and the registry.
* Of `analytics`: rounding. Scores are rounded down to a ten-thousandth: what
  the code's floating-point numbers do closer to a threshold than that is not
  told apart. Attributes are text.
* Of `dvrft-gen`: the pseudo-random numbers (a parameter) and the checksum of a
  header, which nothing reads.
* Of the parser: how a raw timestamp is decoded into a date (`normalize_timestamp`),
  YAML, escapes in signatures, and the search for an image that
  was moved since it was acquired.
* PDF layout, the documents' text, and what ffmpeg makes of a clip: wording and
  pure I/O.
* The ticker thread that a parse leaves behind in a long-lived process
  (`sandbox/src/lib.rs:65`): a leak no state of one parse shows.
* Filters of `query`, custom database paths, and a `dvrft` command beside a
  running workstation: two reports of one case at a time mix their files, and
  nothing is claimed of them; `Gui` has one server and no command line.

## 8. Plan

Done, in this order: Blocks, AcquisitionSpec, Acquisition and their proofs (the
manifest is what everything else rests on); Sandbox; CaseDb and CaseCommands;
Demux, Correlation, Footage; Gui; Carver; Grammar, Identify,
Generator, Extraction; Analytics, Timeline; the clips of a report.

To extend: the search for a moved image, which each command does for itself; the
filters of `query` over signed timestamps; a command line beside a running
workstation.

Proved, in this order: Acquisition; Sandbox; Gui; the case directory, all safety
properties of the four modules; Footage and its operators; Extraction, with the
carver, detection and analytics.

To prove next:

1. `GroundTruthRecovered`: block by block, with `InBytes` unrolled and the shipped
   grammar as a definition; its carving part from `HeadersAreCarved`.
2. `TimelineTellsTheRecording`, after that, with `Arranged` in place of `SortSeq`.

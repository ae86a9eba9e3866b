---------------------------- MODULE CaseCommands ----------------------------
(***************************************************************************)
(* dvrft (dvrft/src/main.rs) over one case directory: every command is a   *)
(* process of its own, and they share the evidence image, manifest.json,   *)
(* case.db and report/ without any lock but that of SQLite.  A command     *)
(* reads the manifest once, reads the image block by block and the         *)
(* database by single statements, and commits in one transaction.  It may  *)
(* be killed between any two steps.                                        *)
(***************************************************************************)
EXTENDS CaseDb

CONSTANTS
  Byte,         \* the values of a byte
  Images,       \* the contents the evidence can have
  BlockSizes,   \* the block sizes an examiner asks for
  Before,       \* those in which the image was acquired before; {} for a new case
  StartByte,    \* a byte that starts a NAL unit
  Procs,        \* commands that can run at the same time
  Commands,     \* the commands that are run
  MaxCommands,  \* bound: commands started
  MaxTouches    \* bound: how often somebody else writes the medium

ASSUME ImagesAssumption == Images \subseteq Seq(Byte)
ASSUME BlockSizesAssumption == BlockSizes \subseteq Nat \ {0} /\ Before \subseteq BlockSizes
ASSUME HeaderAssumption == HeaderLen \in Nat \ {0}
ASSUME CommandsAssumption ==
  Commands \subseteq {"acquire", "parse", "verify", "carve", "query", "correlate",
                      "analyze", "report"}
ASSUME BoundsAssumption == MaxCommands \in Nat /\ MaxTouches \in Nat

VARIABLES
  image,        \* the evidence (owned by the outside world)
  touches,      \* how often it was changed
  disk,         \* manifest.json: "absent", "torn" or "complete"
  manifest,     \* what a complete manifest.json says
  dbfile,       \* case.db exists
  db,           \* its committed content
  certificate,  \* report/certificate.pdf, or NoFile
  documents,    \* report/forensic_report.md and .json, or NoFile
  clips,        \* the files in report/clips
  job,          \* job[p]: the command p runs, and what it holds in memory
  held,         \* history: contents the evidence had while p's command ran
  verdict,      \* verdict[p]: what the last verify of p returned
  started       \* commands started

casedir == <<disk, manifest, dbfile, db, certificate, documents, clips>>
vars    == <<image, touches, casedir, job, held, verdict, started>>

NoFile     == [present |-> FALSE]
NoManifest == [block_count |-> 0]
NoVerdict  == [given |-> FALSE]

\* What the process of command cmd holds that has not read the image yet.  m: the
\* manifest; got: the blocks read, each with the place it was read at; read: all
\* their bytes; rows: what the database answered or is to be given; frames:
\* carved frames that are not exported yet, by their row; dbpath: case.db was
\* there.
Holding(cmd, pc, m, rows) ==
  [cmd |-> cmd, pc |-> pc, m |-> m, got |-> <<>>, read |-> <<>>, rows |-> rows,
   frames |-> <<>>, dbpath |-> FALSE]

Idle == Holding("none", "idle", NoManifest, <<>>)

----------------------------------------------------------------------------
\* Reading the image in blocks, as parse_case and verify_case_integrity do.

\* Mutant: one block more than the manifest counts.
OneBlockMore(j) == Len(j.got) <= j.m.block_count

\* block_index < manifest.block_count
BlocksRemain(j) == Len(j.got) < j.m.block_count

\* The next bytes of the image: fewer than a block, or none, at its end.
NextBlock(j) ==
  LET from == Len(j.read) + 1
      to   == Len(j.read) + j.m.block_size
  IN  SubSeq(image, from, IF to <= Len(image) THEN to ELSE Len(image))

WithBlock(j) ==
  [j EXCEPT !.got  = Append(@, [at |-> Len(j.read) + 1, data |-> NextBlock(j)]),
            !.read = @ \o NextBlock(j)]

\* read_bytes == 0
AtEnd(j) == NextBlock(j) = <<>>

----------------------------------------------------------------------------
\* Steps common to the commands.

Init ==
  /\ image \in Images
  /\ touches = 0
  /\ disk = IF Before = {} THEN "absent" ELSE "complete"
  /\ manifest \in IF Before = {} THEN {NoManifest} ELSE {ManifestOf(image, b) : b \in Before}
  /\ dbfile = FALSE
  /\ db = EmptyDb
  /\ certificate = NoFile
  /\ documents = NoFile
  /\ clips = {}
  /\ job = [p \in Procs |-> Idle]
  /\ held = [p \in Procs |-> {}]
  /\ verdict = [p \in Procs |-> NoVerdict]
  /\ started = 0

\* p starts a command and holds j after its first step.
Begin(p, j) ==
  /\ j.cmd \in Commands
  /\ job[p] = Idle
  /\ started < MaxCommands
  /\ started' = started + 1
  /\ job' = [job EXCEPT ![p] = j]
  /\ held' = [held EXCEPT ![p] = {image}]
  /\ verdict' = [verdict EXCEPT ![p] = NoVerdict]
  /\ UNCHANGED <<image, touches>>

At(p, c, pc) == job[p].cmd = c /\ job[p].pc = pc

\* p goes on with j in memory.
Continue(p, j) ==
  /\ job' = [job EXCEPT ![p] = j]
  /\ UNCHANGED <<image, touches, held, verdict, started>>

Finish(p) ==
  /\ job' = [job EXCEPT ![p] = Idle]
  /\ held' = [held EXCEPT ![p] = {}]
  /\ UNCHANGED <<image, touches, verdict, started>>

\* A command that reads the manifest starts with it: without a complete one
\* it fails at once, which changes nothing.
ManifestRead == disk = "complete"

\* CaseDatabase::open creates the file and its tables.
OpensDb == dbfile' = TRUE
FilesKept == UNCHANGED <<disk, manifest, certificate, documents, clips>>

\* An error is returned, or the process is killed.  Nothing is undone; an
\* uncommitted transaction never was.
Abort(p) ==
  /\ job[p] # Idle
  /\ Finish(p)
  /\ UNCHANGED casedir

\* External: somebody else writes the medium.
Touch ==
  /\ touches < MaxTouches
  /\ touches' = touches + 1
  /\ image' \in Images \ {image}
  /\ held' = [p \in Procs |-> IF job[p] = Idle THEN held[p] ELSE held[p] \cup {image'}]
  /\ UNCHANGED <<casedir, job, verdict, started>>

----------------------------------------------------------------------------
\* dvrft acquire: module Acquisition has the streaming in full.  Here the image
\* is read block by block; the manifest describes the bytes that were read,
\* is truncated first and written then.

AcquireStart(p, b) ==
  /\ Begin(p, Holding("acquire", "stream", ManifestOf(<<>>, b), <<>>))
  /\ UNCHANGED casedir

AcquireBlock(p) ==
  /\ At(p, "acquire", "stream")
  /\ ~AtEnd(job[p])
  /\ Continue(p, WithBlock(job[p]))
  /\ UNCHANGED casedir

AcquireRead(p) ==
  /\ At(p, "acquire", "stream")
  /\ AtEnd(job[p])
  /\ Continue(p, Holding("acquire", "create",
                         ManifestOf(job[p].read, job[p].m.block_size), <<>>))
  /\ UNCHANGED casedir

AcquireCreate(p) ==
  /\ At(p, "acquire", "create")
  /\ disk' = "torn"
  /\ Continue(p, [job[p] EXCEPT !.pc = "write"])
  /\ UNCHANGED <<manifest, dbfile, db, certificate, documents, clips>>

\* Written over a manifest that another acquisition completed in between, the
\* tail of a longer one remains.
AcquireWrite(p) ==
  /\ At(p, "acquire", "write")
  /\ disk' \in IF disk = "torn" THEN {"complete"} ELSE {"complete", "torn"}
  /\ manifest' = job[p].m
  /\ Finish(p)
  /\ UNCHANGED <<dbfile, db, certificate, documents, clips>>

----------------------------------------------------------------------------
\* dvrft parse: parse_case.

ParseStart(p) ==
  /\ ManifestRead
  /\ Begin(p, Holding("parse", "read", manifest, <<>>))
  /\ UNCHANGED casedir

ParseBlock(p) ==
  /\ At(p, "parse", "read")
  /\ BlocksRemain(job[p]) /\ ~AtEnd(job[p])
  /\ ~TooSmall(NextBlock(job[p]))
  /\ Continue(p, WithBlock(job[p]))
  /\ UNCHANGED casedir

\* Mutant: a block that is too small ends the loop, and what was read is kept.
StopAtTooSmall(p) ==
  /\ At(p, "parse", "read")
  /\ BlocksRemain(job[p]) /\ ~AtEnd(job[p])
  /\ TooSmall(NextBlock(job[p]))
  /\ Continue(p, [job[p] EXCEPT !.pc = "store"])
  /\ UNCHANGED casedir

\* interpret_block returns BlockTooSmall: the parse fails, nothing is stored.
ParseRefused(p) ==
  /\ At(p, "parse", "read")
  /\ BlocksRemain(job[p]) /\ ~AtEnd(job[p])
  /\ TooSmall(NextBlock(job[p]))
  /\ Finish(p)
  /\ UNCHANGED casedir

\* Mutant of ParseRead: at the end of the image, read() is called for ever.
ParseSpins(p) ==
  /\ At(p, "parse", "read")
  /\ ~BlocksRemain(job[p])
  /\ Continue(p, [job[p] EXCEPT !.pc = "store"])
  /\ UNCHANGED casedir

\* The loop is over: all blocks of the manifest are read, or the image ended.
ParseRead(p) ==
  /\ At(p, "parse", "read")
  /\ ~BlocksRemain(job[p]) \/ AtEnd(job[p])
  /\ Continue(p, [job[p] EXCEPT !.pc = "store"])
  /\ UNCHANGED casedir

ParseStore(p) ==
  /\ At(p, "parse", "store")
  /\ OpensDb
  /\ db' = StoreExtraction(db, job[p].m, job[p].got)
  /\ Finish(p)
  /\ FilesKept

----------------------------------------------------------------------------
\* dvrft verify: verify_case_integrity.

VerifyStart(p) ==
  /\ ManifestRead
  /\ Begin(p, Holding("verify", "read", manifest, <<>>))
  /\ UNCHANGED casedir

VerifyBlock(p) ==
  /\ At(p, "verify", "read")
  /\ BlocksRemain(job[p]) /\ ~AtEnd(job[p])
  /\ Continue(p, WithBlock(job[p]))
  /\ UNCHANGED casedir

\* def_p.exists(): from here on the database is looked at, or it is not.
VerifyRead(p) ==
  /\ At(p, "verify", "read")
  /\ ~BlocksRemain(job[p]) \/ AtEnd(job[p])
  /\ Continue(p, [job[p] EXCEPT !.pc = "compare", !.dbpath = dbfile])
  /\ UNCHANGED casedir

BlockDiscrepancies(j) ==
  {k \in DOMAIN j.got : k \in DOMAIN j.m.block_hashes /\ j.got[k].data # j.m.block_hashes[k]}

\* Mutant: the last block read counts as beyond the image.
RecordsBeyondLast(j) ==
  {i \in DOMAIN db.records :
     LET r == db.records[i]
     IN  r.block_index >= Len(j.got) \/ j.got[r.block_index].data # r.hash}

\* Rows of the database, of every evidence item, that the image denies.
DbDiscrepancies(j) ==
  {i \in DOMAIN db.records :
     LET r == db.records[i]
     IN  r.block_index > Len(j.got) \/ j.got[r.block_index].data # r.hash}

\* Mutant: the whole-image digests are left out of the verdict.
BlocksAgree(j, dbrows) == BlockDiscrepancies(j) = {} /\ dbrows = {}

\* is_pristine
IsPristine(j, dbrows) ==
  /\ j.read = j.m.whole_image
  /\ BlockDiscrepancies(j) = {}
  /\ dbrows = {}

\* The verdict; a database that cannot be opened or queried denies nothing.
VerifyCompare(p) ==
  /\ At(p, "verify", "compare")
  /\ \E dbrows \in {{}} \cup (IF job[p].dbpath THEN {DbDiscrepancies(job[p])} ELSE {}) :
       /\ verdict' = [verdict EXCEPT ![p] =
                        [given       |-> TRUE,
                         is_pristine |-> IsPristine(job[p], dbrows),
                         m           |-> job[p].m,
                         held        |-> held[p],
                         block_sizes |-> {db.evidence[e].block_size : e \in DOMAIN db.evidence}]]
       /\ job' = [job EXCEPT ![p] = [job[p] EXCEPT !.pc = "audit",
                                                   !.rows = <<IsPristine(job[p], dbrows)>>]]
  /\ UNCHANGED <<image, touches, casedir, held, started>>

\* The audit row is written if there is a database; a failure is ignored.
VerifyAudit(p) ==
  /\ At(p, "verify", "audit")
  /\ \/ job[p].dbpath /\ db' = LogAudit(db, job[p].rows[1])
     \/ UNCHANGED db
  /\ Finish(p)
  /\ UNCHANGED <<disk, manifest, dbfile, certificate, documents, clips>>

----------------------------------------------------------------------------
\* dvrft carve: run_carve.

\* The blocks to scan: the corrupted ones, or all of them if none is known.
TargetBlocks ==
  IF CorruptedBlocks(db) = <<>>
  THEN [k \in 1 .. manifest.block_count |-> k]
  ELSE CorruptedBlocks(db)

CarveStart(p) ==
  /\ ManifestRead
  /\ OpensDb
  /\ Begin(p, Holding("carve", "scan", manifest, TargetBlocks))
  /\ UNCHANGED db
  /\ FilesKept

\* Where block k of size b of the image shows a NAL unit.
StartsIn(k, b) ==
  {i \in BlockStart(k, b) .. BlockEnd(Len(image), k, b) : image[i] = StartByte}

\* The frame from there to the end of the block; Carver has the cutting in full.
FrameIn(k, b) ==
  LET at == Min(StartsIn(k, b))
  IN  [at |-> at, bytes |-> SubSeq(image, at, BlockEnd(Len(image), k, b))]

\* carve_corrupted_blocks: the frames of those blocks that show one.
Found(j) ==
  LET b     == j.m.block_size
      found == Filtered(j.rows, {i \in DOMAIN j.rows : StartsIn(j.rows[i], b) # {}})
  IN  [i \in DOMAIN found |-> FrameIn(found[i], b)]

CarveScan(p) ==
  /\ At(p, "carve", "scan")
  /\ Continue(p, [job[p] EXCEPT !.pc = "store", !.rows = Found(job[p])])
  /\ UNCHANGED casedir

\* The frames belong to the primary evidence item; without one the command
\* fails.  Clips exported afterwards are not part of the case directory.
CarveStore(p) ==
  /\ At(p, "carve", "store")
  /\ IF HasParent(db, job[p].rows)
     THEN db' = StoreCarved(db, job[p].rows)
     ELSE UNCHANGED db
  /\ Finish(p)
  /\ UNCHANGED dbfile
  /\ FilesKept

----------------------------------------------------------------------------
\* dvrft query, correlate and analyze.

\* run_query opens the database, and so makes one, and reads.
Query(p) ==
  /\ "query" \in Commands
  /\ job[p] = Idle
  /\ started < MaxCommands
  /\ started' = started + 1
  /\ OpensDb
  /\ UNCHANGED <<image, touches, db, job, held, verdict>>
  /\ FilesKept

\* The correlation finds events in the records, or none; none in no records.
CorrelateStart(p) ==
  /\ OpensDb
  /\ \E found \in {<<>>} \cup (IF db.records = <<>> THEN {} ELSE {<<"event">>}) :
       Begin(p, Holding("correlate", "store", NoManifest, found))
  /\ UNCHANGED db
  /\ FilesKept

\* The result of store_correlated_events is ignored.
CorrelateStore(p) ==
  /\ At(p, "correlate", "store")
  /\ \/ HasParent(db, job[p].rows) /\ db' = StoreEvents(db, job[p].rows)
     \/ UNCHANGED db
  /\ Finish(p)
  /\ UNCHANGED dbfile
  /\ FilesKept

AnalyzeStart(p) ==
  /\ ManifestRead
  /\ OpensDb
  /\ Begin(p, Holding("analyze", "scan", manifest, db.records))
  /\ UNCHANGED db
  /\ FilesKept

\* The payloads that can still be read.
Readable(j) ==
  LET ends(r) == r.byte_offset + Len(r.hash) - 1
  IN  Filtered(j.rows, {i \in DOMAIN j.rows : ends(j.rows[i]) <= Len(image)})

\* The detections of some records; those of the places `good` are above the
\* thresholds of the report.  Analytics has the scores in full.
DetectionsOf(shown, good) ==
  [i \in DOMAIN shown |-> [block_index |-> shown[i].block_index, relevant |-> i \in good]]

\* They are analysed, and show something or not.
AnalyzeScan(p) ==
  /\ At(p, "analyze", "scan")
  /\ \E shown \in {<<>>, Readable(job[p])} : \E good \in SUBSET DOMAIN shown :
       Continue(p, [job[p] EXCEPT !.pc = "store", !.rows = DetectionsOf(shown, good)])
  /\ UNCHANGED casedir

AnalyzeStore(p) ==
  /\ At(p, "analyze", "store")
  /\ IF HasParent(db, job[p].rows)
     THEN db' = StoreDetections(db, job[p].rows)
     ELSE UNCHANGED db
  /\ Finish(p)
  /\ UNCHANGED dbfile
  /\ FilesKept

----------------------------------------------------------------------------
\* dvrft report: generate_case_report.

\* What the examination found, by four queries: the records,
ReportStart(p) ==
  /\ ManifestRead
  /\ OpensDb
  /\ Begin(p, Holding("report", "carved", manifest, <<Len(db.records)>>))
  /\ UNCHANGED db
  /\ FilesKept

\* the carved frames, which are kept,
ReportCarved(p) ==
  /\ At(p, "report", "carved")
  /\ Continue(p, [job[p] EXCEPT !.pc = "events", !.frames = CarvedFrames(db),
                                !.rows = Append(@, Len(db.carved))])
  /\ UNCHANGED casedir

\* the events,
ReportEvents(p) ==
  /\ At(p, "report", "events")
  /\ Continue(p, [job[p] EXCEPT !.pc = "leads", !.rows = Append(@, Len(db.events))])
  /\ UNCHANGED casedir

\* and the leads.
ReportLeads(p) ==
  /\ At(p, "report", "leads")
  /\ Continue(p, [job[p] EXCEPT !.pc = "export",
                                !.rows = Append(@, Cardinality(Relevant(db)))])
  /\ UNCHANGED casedir

\* export_clips: the frames are exported in their order.
FrameEnd(frame) == frame.at + Len(frame.bytes) - 1

IsNext(j, i) == i \in DOMAIN j.frames /\ ComesFirst(j.frames, i)

\* The number of the clip that is exported next, and the clips but one.
ClipNumber(j) == j.rows[2] - Cardinality(DOMAIN j.frames)
ClipsBut(n, at) == {c \in clips : c.n # n \/ c.at # at}

\* The next frame is read again from the image into a buffer, and its file,
\* named by number and offset (and by its kind, left out), is created or truncated.
ReportClip(p) ==
  /\ At(p, "report", "export")
  /\ \E i \in DOMAIN job[p].frames :
       LET frame == job[p].frames[i]
           n     == ClipNumber(job[p])
       IN  /\ IsNext(job[p], i)
           /\ FrameEnd(frame) <= Len(image)
           /\ clips' = ClipsBut(n, frame.at) \cup {[n |-> n, at |-> frame.at, bytes |-> <<>>]}
           /\ Continue(p, [job[p] EXCEPT
                !.pc = "clip",
                !.frames[i].bytes = SubSeq(image, frame.at, FrameEnd(frame))])
  /\ UNCHANGED <<disk, manifest, dbfile, db, certificate, documents>>

Exported(j, i) == [j EXCEPT !.pc = "export", !.frames = [k \in DOMAIN @ \ {i} |-> @[k]]]

\* What is in a file of content old after the first k bytes of new are written
\* to it from its beginning.
WrittenOver(old, new, k) == SubSeq(new, 1, k) \o SubSeq(old, k + 1, Len(old))

\* write_all: all of the buffer, or the first bytes of it when the disk is full or
\* the process is killed, which ends the report.  Another report may have opened
\* the same file and written it.
ReportClipWritten(p) ==
  /\ At(p, "report", "clip")
  /\ \E i \in DOMAIN job[p].frames :
       LET frame == job[p].frames[i]
           n     == ClipNumber(job[p])
       IN  /\ IsNext(job[p], i)
           /\ \E c \in clips, k \in 0 .. Len(frame.bytes) :
                /\ c.n = n /\ c.at = frame.at
                /\ clips' = ClipsBut(n, frame.at)
                             \cup {[c EXCEPT !.bytes = WrittenOver(@, frame.bytes, k)]}
                /\ IF k = Len(frame.bytes) THEN Continue(p, Exported(job[p], i)) ELSE Finish(p)
  /\ UNCHANGED <<disk, manifest, dbfile, db, certificate, documents>>

\* Mutant of ReportUnreadable: the frame is left out.
ReportPassesOver(p) ==
  /\ At(p, "report", "export")
  /\ \E i \in DOMAIN job[p].frames :
       /\ IsNext(job[p], i)
       /\ FrameEnd(job[p].frames[i]) > Len(image)
       /\ Continue(p, Exported(job[p], i))
  /\ UNCHANGED casedir

\* read_exact fails: there is no report.
ReportUnreadable(p) ==
  /\ At(p, "report", "export")
  /\ \E i \in DOMAIN job[p].frames :
       /\ IsNext(job[p], i)
       /\ FrameEnd(job[p].frames[i]) > Len(image)
  /\ Finish(p)
  /\ UNCHANGED casedir

\* Mutant of ReportExported: the format is looked up only if there were records.
ReportExportedByRecords(p) ==
  /\ At(p, "report", "export")
  /\ DOMAIN job[p].frames = {}
  /\ Continue(p, [job[p] EXCEPT !.pc = "certify",
                    !.rows = Append(@, IF @[1] = 0 THEN 0 ELSE FormatItem(db))])
  /\ UNCHANGED casedir

\* All frames are exported; the format to be named is looked up.
ReportExported(p) ==
  /\ At(p, "report", "export")
  /\ DOMAIN job[p].frames = {}
  /\ Continue(p, [job[p] EXCEPT !.pc = "certify", !.rows = Append(@, FormatItem(db))])
  /\ UNCHANGED casedir

\* is_pristine is TRUE whatever the image holds.
ReportOf(j) == [present |-> TRUE, is_pristine |-> TRUE, whole_image |-> j.m.whole_image,
                counts |-> SubSeq(j.rows, 1, 4), item |-> j.rows[5]]

ReportCertify(p) ==
  /\ At(p, "report", "certify")
  /\ certificate' = ReportOf(job[p])
  /\ Continue(p, [job[p] EXCEPT !.pc = "document"])
  /\ UNCHANGED <<disk, manifest, dbfile, db, documents, clips>>

ReportDocument(p) ==
  /\ At(p, "report", "document")
  /\ documents' = ReportOf(job[p])
  /\ Finish(p)
  /\ UNCHANGED <<disk, manifest, dbfile, db, certificate, clips>>

----------------------------------------------------------------------------
AcquireStep(p) == AcquireBlock(p) \/ AcquireRead(p) \/ AcquireCreate(p) \/ AcquireWrite(p)
ParseStep(p) == ParseBlock(p) \/ ParseRefused(p) \/ ParseRead(p) \/ ParseStore(p)
VerifyStep(p) == VerifyBlock(p) \/ VerifyRead(p) \/ VerifyCompare(p) \/ VerifyAudit(p)
CarveStep(p) == CarveScan(p) \/ CarveStore(p)
AnalyzeStep(p) == AnalyzeScan(p) \/ AnalyzeStore(p)
ReportStep(p) ==
  \/ ReportCarved(p) \/ ReportEvents(p) \/ ReportLeads(p)
  \/ ReportClip(p) \/ ReportClipWritten(p) \/ ReportUnreadable(p) \/ ReportExported(p)
  \/ ReportCertify(p) \/ ReportDocument(p)

Start(p) ==
  \/ \E b \in BlockSizes : AcquireStart(p, b)
  \/ ParseStart(p) \/ VerifyStart(p) \/ CarveStart(p) \/ Query(p) \/ CorrelateStart(p)
  \/ AnalyzeStart(p) \/ ReportStart(p)

\* A step of a command that has started.
Step(p) ==
  \/ AcquireStep(p)
  \/ ParseStep(p) \/ VerifyStep(p) \/ CarveStep(p) \/ CorrelateStore(p) \/ AnalyzeStep(p)
  \/ ReportStep(p)

Next ==
  \/ \E p \in Procs : Start(p) \/ Step(p) \/ Abort(p)
  \/ Touch

Spec == Init /\ [][Next]_vars

\* A command that has been started runs.
FairSpec == Spec /\ \A p \in Procs : WF_vars(Step(p))

----------------------------------------------------------------------------
\* Properties.

TypeOK ==
  /\ image \in Images
  /\ touches \in 0 .. MaxTouches
  /\ disk \in {"absent", "torn", "complete"}
  /\ disk = "complete" => manifest.block_size \in BlockSizes
  /\ dbfile \in BOOLEAN
  /\ ~dbfile => db = EmptyDb
  /\ \A i \in DOMAIN db.records : db.records[i].block_index \in Nat \ {0}
  /\ \A p \in Procs :
       /\ job[p].cmd \in Commands \cup {"none"}
       /\ held[p] \subseteq Images
       /\ job[p].cmd # "acquire" => Len(job[p].got) <= job[p].m.block_count
  /\ started \in 0 .. MaxCommands

(***************************************************************************)
(* A verdict "pristine" over an image that stood still meanwhile means     *)
(* that the image begins with every byte that was acquired, whatever ran   *)
(* beside the verification (verify_case_integrity).                        *)
(***************************************************************************)
PristineMeansAllAcquiredBytes ==
  \A p \in Procs : \A img \in Images :
    verdict[p].given /\ verdict[p].is_pristine /\ verdict[p].held = {img} =>
      LET whole == verdict[p].m.whole_image
      IN  Len(whole) <= Len(img) /\ SubSeq(img, 1, Len(whole)) = whole

(***************************************************************************)
(* No false alarm: as long as nobody ever wrote the medium, a verification *)
(* that returns says "pristine", whatever was parsed how often before or   *)
(* while it ran.  It holds for one block size in the database, that of the *)
(* manifest: a re-acquisition in another block size makes every older row  *)
(* a discrepancy (verify_case_integrity compares the rows of all items).   *)
(***************************************************************************)
NoFalseAlarm ==
  \A p \in Procs :
    /\ touches = 0
    /\ verdict[p].given
    /\ verdict[p].block_sizes \subseteq {verdict[p].m.block_size}
    => verdict[p].is_pristine

(***************************************************************************)
(* An evidence item has the records of a run of blocks from the first on,  *)
(* each once and stored together; while the medium was never written, of   *)
(* every block of what was acquired, with its digest.  Kills, short        *)
(* blocks, re-runs and other commands never leave half an extraction, nor  *)
(* mix two (parse_case).                                                   *)
(***************************************************************************)
RowsOf(e) == {i \in DOMAIN db.records : db.records[i].evidence_id = e}

ExtractionIsWhole ==
  \A e \in DOMAIN db.evidence :
    LET item == db.evidence[e]
    IN  \E first, n \in 0 .. Len(db.records) :
          /\ RowsOf(e) = first + 1 .. first + n
          /\ n <= item.block_count
          /\ \A k \in 1 .. n : db.records[first + k].block_index = k
          /\ touches = 0 =>
               [k \in 1 .. n |-> db.records[first + k].hash]
                 = BlocksOf(item.whole_image, item.block_size)

(***************************************************************************)
(* Every carved frame, event and detection belongs to an evidence item     *)
(* that is there, though the commands that store them fall back to item 1  *)
(* and may run before, or beside, the first parse (foreign keys).          *)
(***************************************************************************)
NoOrphans ==
  \A table \in {"carved", "events", "detections"} : \A i \in DOMAIN db[table] :
    db[table][i].evidence_id \in DOMAIN db.evidence

(***************************************************************************)
(* Nothing that was recorded is taken back: every table of the case        *)
(* database only grows, through re-runs, kills and commands side by side.  *)
(***************************************************************************)
GrowsFrom(t, u) == Len(t) <= Len(u) /\ SubSeq(u, 1, Len(t)) = t

DatabaseOnlyGrows ==
  [][\A table \in DOMAIN db : GrowsFrom(db[table], db'[table])]_vars

(***************************************************************************)
(* A report is of the case: it claims no more records, frames, events or   *)
(* leads than the database has, though it counts them by four statements   *)
(* beside the commands that write them and stays on disk when they go on;  *)
(* and if it claims anything, the format it names is that of an evidence   *)
(* item, not the one named for an empty case.  The format is asked for     *)
(* long after the rows, and there may have been no records yet when these  *)
(* were counted (generate_case_report).                                    *)
(***************************************************************************)
ReportIsOfTheCase ==
  \A report \in {certificate, documents} : report.present =>
    /\ \A i \in 1 .. 4 :
         report.counts[i] <= <<Len(db.records), Len(db.carved), Len(db.events),
                               Cardinality(Relevant(db))>>[i]
    /\ (\E i \in 1 .. 4 : report.counts[i] > 0) => report.item \in DOMAIN db.evidence

(***************************************************************************)
(* A certificate on disk has its clips: for each frame it counts there is  *)
(* a file of that number in report/clips, whatever happened to the medium  *)
(* between carving, exporting and certifying, and whatever later report    *)
(* was killed; and as long as nobody wrote the medium, what is in a file   *)
(* is the beginning of a carved frame: nothing else, also after a report   *)
(* was killed in the middle of a file, or two reports wrote the same one   *)
(* (generate_case_report).                                                 *)
(***************************************************************************)
CertificateHasItsClips ==
  /\ certificate.present => 0 .. certificate.counts[2] - 1 \subseteq {c.n : c \in clips}
  /\ touches = 0 =>
       \A c \in clips : \E i \in DOMAIN db.carved :
         /\ db.carved[i].what.at = c.at
         /\ GrowsFrom(c.bytes, db.carved[i].what.bytes)

(***************************************************************************)
(* A command that was started comes to an end, also over an image that     *)
(* shrinks below what the manifest says while it is read.                  *)
(***************************************************************************)
EveryCommandEnds == \A p \in Procs : job[p] # Idle ~> job[p] = Idle

(***************************************************************************)
(* "[OK] PRISTINE / UNTAMPERED EVIDENCE" (run_verify) means that the       *)
(* evidence is what was acquired, no byte more and no byte less.           *)
(***************************************************************************)
PristineMeansUnaltered ==
  \A p \in Procs : \A img \in Images :
    verdict[p].given /\ verdict[p].is_pristine /\ verdict[p].held = {img} =>
      img = verdict[p].m.whole_image
=============================================================================

------------------------- MODULE CaseCommandsProofs -------------------------
(***************************************************************************)
(* CaseCommands, for every set of processes, commands, images and block    *)
(* sizes, and any number of commands and changes of the medium.            *)
(***************************************************************************)
EXTENDS CaseCommands, SharedLemmas

USE ImagesAssumption, BlockSizesAssumption, HeaderAssumption, CommandsAssumption,
    BoundsAssumption

----------------------------------------------------------------------------
\* What the tables, a command in memory and the files consist of.

Bytes     == Seq(Byte)
Place     == Nat \ {0}
Manifests == {ManifestOf(s, b) : s \in Bytes, b \in BlockSizes}
Block     == [at : Place, data : Bytes \ {<<>>}]
Item      == [whole_image : Bytes, block_size : BlockSizes, block_count : Nat]
Record    == [evidence_id : Place, block_index : Place, byte_offset : Place,
              hash : Bytes, is_corrupted : BOOLEAN]
Frame     == [at : Place, bytes : Bytes]
Detection == [block_index : Place, relevant : BOOLEAN]
Rows(S)   == [evidence_id : {1}, what : S]

Databases ==
  [evidence   : Seq(Item),
   records    : Seq(Record),
   carved     : Seq(Rows(Frame)),
   events     : Seq(Rows({"event"})),
   detections : Seq(Rows(Detection)),
   audits     : Seq(BOOLEAN)]

FinitePlaces == {places \in SUBSET Place : IsFiniteSet(places)}

Frames == UNION {[places -> Frame] : places \in FinitePlaces}

Tables ==
  Seq(Nat) \cup Seq(BOOLEAN) \cup Seq({"event"}) \cup Seq(Frame) \cup Seq(Record)
    \cup Seq(Detection)

Jobs ==
  [cmd    : Commands \cup {"none"},
   pc     : {"idle", "stream", "create", "write", "read", "store", "compare", "audit",
             "scan", "carved", "events", "leads", "export", "clip", "certify", "document"},
   m      : Manifests \cup {NoManifest},
   got    : Seq(Block),
   read   : Bytes,
   rows   : Tables,
   frames : Frames,
   dbpath : BOOLEAN]

\* How many numbers a report holds, by where it is.
RowsAt(pc) ==
  IF pc = "carved" THEN 1
  ELSE IF pc = "events" THEN 2
  ELSE IF pc = "leads" THEN 3
  ELSE IF pc \in {"export", "clip"} THEN 4
  ELSE 5

\* The rows a command holds, by what it does and where it is.
RowsTyped(j) ==
  /\ j.cmd = "carve" /\ j.pc = "scan" => j.rows \in Seq(Place)
  /\ j.cmd = "carve" /\ j.pc = "store" => j.rows \in Seq(Frame)
  /\ j.cmd = "correlate" => j.rows \in Seq({"event"})
  /\ j.cmd = "analyze" /\ j.pc = "scan" => j.rows \in Seq(Record)
  /\ j.cmd = "analyze" /\ j.pc = "store" => j.rows \in Seq(Detection)
  /\ j.cmd = "verify" /\ j.pc = "audit" => Len(j.rows) = 1 /\ j.rows \in Seq(BOOLEAN)
  /\ j.cmd = "report" => j.rows \in Seq(Nat) /\ Len(j.rows) = RowsAt(j.pc)

\* Only those that read the image block by block hold blocks.
ReadingTyped(j) ==
  /\ j.cmd # "acquire" => Len(j.got) <= j.m.block_count
  /\ j.cmd \notin {"none", "correlate"} => j.m \in Manifests

JobTyped(j) ==
  /\ j \in Jobs
  /\ j.cmd = "none" => j = Idle
  /\ ReadingTyped(j)
  /\ RowsTyped(j)

Verdicts ==
  [given : {TRUE}, is_pristine : BOOLEAN, m : Manifests, held : SUBSET Images,
   block_sizes : SUBSET BlockSizes]

Reports ==
  [present : {TRUE}, is_pristine : {TRUE}, whole_image : Bytes, counts : Seq(Nat), item : Nat]

WorldInv ==
  /\ image \in Images
  /\ touches \in 0 .. MaxTouches
  /\ started \in 0 .. MaxCommands

FilesInv ==
  /\ disk \in {"absent", "torn", "complete"}
  /\ manifest \in Manifests \cup {NoManifest}
  /\ disk = "complete" => manifest \in Manifests
  /\ dbfile \in BOOLEAN
  /\ ~dbfile => db = EmptyDb
  /\ db \in Databases
  /\ certificate \in Reports \cup {NoFile}
  /\ documents \in Reports \cup {NoFile}
  /\ clips \subseteq [n : Int, at : Place, bytes : Bytes]

JobsInv == job \in [Procs -> Jobs] /\ \A p \in Procs : JobTyped(job[p])

\* Who opened the database, or saw that it is there, finds it there.
OpenInv ==
  \A p \in Procs :
    job[p].dbpath \/ job[p].cmd \in {"carve", "correlate", "analyze", "report"} => dbfile

HistoryInv ==
  /\ held \in [Procs -> SUBSET Images]
  /\ verdict \in [Procs -> Verdicts \cup {NoVerdict}]

TypeInv == WorldInv /\ FilesInv /\ JobsInv /\ OpenInv /\ HistoryInv

----------------------------------------------------------------------------
\* Facts about manifests, blocks and jobs.

LEMMA ManifestIs ==
  ASSUME NEW s \in Bytes, NEW b \in BlockSizes
  PROVE  /\ ManifestOf(s, b) \in Manifests
         /\ ManifestOf(s, b).whole_image = s
         /\ ManifestOf(s, b).block_size = b
         /\ ManifestOf(s, b).block_count = BlockCount(Len(s), b)
         /\ ManifestOf(s, b).block_hashes = BlocksOf(s, b)
<1>1. ManifestOf(s, b) \in Manifests  BY DEF Manifests
<1> QED  BY <1>1 DEF ManifestOf

LEMMA ManifestFields ==
  ASSUME NEW m \in Manifests
  PROVE  /\ m.whole_image \in Bytes
         /\ m.block_size \in BlockSizes /\ m.block_size \in Place
         /\ m.block_count \in Nat
         /\ m.block_count = BlockCount(Len(m.whole_image), m.block_size)
         /\ m.block_hashes = BlocksOf(m.whole_image, m.block_size)
         /\ m = ManifestOf(m.whole_image, m.block_size)
<1>1. PICK s \in Bytes, b \in BlockSizes : m = ManifestOf(s, b)  BY DEF Manifests
<1>2. b \in Place  BY DEF Place
<1>3. BlockCount(Len(s), b) \in Nat  BY <1>2, BlockCountFact, LenProperties DEF Bytes, Place
<1>4. m.whole_image = s /\ m.block_size = b /\ m.block_count = BlockCount(Len(s), b)
  BY <1>1, ManifestIs
<1>5. m.block_hashes = BlocksOf(s, b)  BY <1>1, ManifestIs
<1> QED  BY <1>1, <1>2, <1>3, <1>4, <1>5

LEMMA CountOfAnyManifest ==
  ASSUME NEW m \in Manifests \cup {NoManifest}
  PROVE  m.block_count \in Nat
<1>1. NoManifest.block_count = 0  BY DEF NoManifest
<1> QED  BY <1>1, ManifestFields

LEMMA NoFrames == <<>> \in Frames
<1>1. <<>> \in [{} -> Frame]  OBVIOUS
<1>2. {} \in FinitePlaces  BY FS_EmptySet DEF FinitePlaces
<1> QED  BY <1>1, <1>2 DEF Frames

LEMMA NoRows ==
  /\ <<>> \in Tables
  /\ \A S : <<>> \in Seq(S)
  /\ Len(<<>>) = 0
<1>1. \A S : <<>> \in Seq(S)  BY EmptySeq
<1>2. Len(<<>>) = 0  BY EmptySeq
<1> QED  BY <1>1, <1>2 DEF Tables

LEMMA IdleTyped ==
  /\ JobTyped(Idle)
  /\ Idle.cmd = "none" /\ Idle.m = NoManifest /\ Idle.got = <<>> /\ Idle.read = <<>>
  /\ Idle.rows = <<>>
<1>1. Idle \in Jobs
  BY NoFrames, NoRows DEF Idle, Holding, Jobs, Bytes
<1>2. ReadingTyped(Idle)
  BY NoRows DEF Idle, Holding, ReadingTyped, NoManifest
<1>3. RowsTyped(Idle)
  BY DEF Idle, Holding, RowsTyped
<1>4. /\ Idle.cmd = "none" /\ Idle.m = NoManifest /\ Idle.got = <<>> /\ Idle.read = <<>>
      /\ Idle.rows = <<>>
  BY DEF Idle, Holding
<1> QED  BY <1>1, <1>2, <1>3, <1>4 DEF JobTyped

(***************************************************************************)
(* The next bytes of the image continue what was read.                     *)
(***************************************************************************)
LEMMA NextBlockIs ==
  ASSUME NEW j \in Jobs, j.m \in Manifests, image \in Images
  PROVE  /\ NextBlock(j) \in Bytes
         /\ \E to \in Nat :
              /\ to <= Len(image) /\ to <= Len(j.read) + j.m.block_size
              /\ to = Len(image) \/ to = Len(j.read) + j.m.block_size
              /\ NextBlock(j) = SubSeq(image, Len(j.read) + 1, to)
              /\ Len(NextBlock(j)) = IF Len(j.read) < to THEN to - Len(j.read) ELSE 0
<1> DEFINE from == Len(j.read) + 1
           end  == Len(j.read) + j.m.block_size
           to   == IF end <= Len(image) THEN end ELSE Len(image)
<1>1. image \in Bytes /\ Len(image) \in Nat  BY LenProperties DEF Bytes
<1>2. Len(j.read) \in Nat  BY LenProperties DEF Jobs, Bytes
<1>3. j.m.block_size \in Nat  BY ManifestFields DEF Place
<1>4. from \in Nat /\ end \in Nat /\ to \in Nat  BY <1>1, <1>2, <1>3
<1>5. \A i \in from .. to : image[i] \in Byte
  <2>1. \A i \in 1 .. Len(image) : image[i] \in Byte  BY <1>1, ElementOfSeq DEF Bytes
  <2> QED  BY <1>1, <1>2, <1>3, <2>1
<1>6. NextBlock(j) = SubSeq(image, from, to)  BY DEF NextBlock
<1>7. /\ SubSeq(image, from, to) \in Seq(Byte)
      /\ Len(SubSeq(image, from, to)) = IF from <= to THEN to - from + 1 ELSE 0
  <2> HIDE DEF from, to
  <2> QED  BY <1>4, <1>5, SubSeqProperties
<1>8. /\ to <= Len(image) /\ to <= end
      /\ to = Len(image) \/ to = end
  BY <1>1, <1>4
<1>9. Len(NextBlock(j)) = IF Len(j.read) < to THEN to - Len(j.read) ELSE 0
  <2>1. Len(NextBlock(j)) = IF from <= to THEN to - from + 1 ELSE 0
    <3> HIDE DEF from, to
    <3> QED  BY <1>6, <1>7
  <2> HIDE DEF to
  <2>2. from <= to <=> Len(j.read) < to  BY <1>2, <1>4
  <2>3. to - from + 1 = to - Len(j.read)  BY <1>2, <1>4
  <2> HIDE DEF from
  <2> QED  BY <2>1, <2>2, <2>3
<1> HIDE DEF to
<1> QED  BY <1>4, <1>6, <1>7, <1>8, <1>9 DEF Bytes

LEMMA WithBlockIs ==
  ASSUME NEW j \in Jobs, j.m \in Manifests, image \in Images, ~AtEnd(j)
  PROVE  /\ WithBlock(j) \in Jobs
         /\ WithBlock(j).got = Append(j.got, [at |-> Len(j.read) + 1, data |-> NextBlock(j)])
         /\ WithBlock(j).read = j.read \o NextBlock(j)
         /\ WithBlock(j).cmd = j.cmd /\ WithBlock(j).pc = j.pc /\ WithBlock(j).m = j.m
         /\ WithBlock(j).rows = j.rows /\ WithBlock(j).frames = j.frames
         /\ [at |-> Len(j.read) + 1, data |-> NextBlock(j)] \in Block
         /\ Len(WithBlock(j).got) = Len(j.got) + 1
<1> DEFINE next == [at |-> Len(j.read) + 1, data |-> NextBlock(j)]
<1>1. NextBlock(j) \in Bytes \ {<<>>}  BY NextBlockIs DEF AtEnd
<1>2. Len(j.read) + 1 \in Place  BY LenProperties DEF Jobs, Bytes, Place
<1>3. next \in Block  BY <1>1, <1>2 DEF Block
<1>4. j.got \in Seq(Block) /\ j.read \in Bytes  BY DEF Jobs
<1>5. Append(j.got, next) \in Seq(Block) /\ Len(Append(j.got, next)) = Len(j.got) + 1
  BY <1>3, <1>4, AppendProperties
<1>6. j.read \o NextBlock(j) \in Bytes  BY <1>1, <1>4, ConcatProperties DEF Bytes
<1>7. WithBlock(j) = [j EXCEPT !.got = Append(j.got, next), !.read = j.read \o NextBlock(j)]
  BY DEF WithBlock
<1> HIDE DEF next
<1>8. /\ WithBlock(j) \in Jobs
      /\ WithBlock(j).got = Append(j.got, next)
      /\ WithBlock(j).read = j.read \o NextBlock(j)
      /\ WithBlock(j).cmd = j.cmd /\ WithBlock(j).pc = j.pc /\ WithBlock(j).m = j.m
      /\ WithBlock(j).rows = j.rows /\ WithBlock(j).frames = j.frames
  BY <1>5, <1>6, <1>7 DEF Jobs
<1> QED  BY <1>3, <1>5, <1>8 DEF next

----------------------------------------------------------------------------
\* Facts about the tables.

LEMMA RecordsOfIs ==
  ASSUME NEW e \in Place, NEW blocks \in Seq(Block)
  PROVE  /\ RecordsOf(e, blocks) \in Seq(Record)
         /\ Len(RecordsOf(e, blocks)) = Len(blocks)
         /\ \A k \in 1 .. Len(blocks) :
              /\ RecordsOf(e, blocks)[k].evidence_id = e
              /\ RecordsOf(e, blocks)[k].block_index = k
              /\ RecordsOf(e, blocks)[k].hash = blocks[k].data
<1> DEFINE row(k) == [evidence_id  |-> e,
                      block_index  |-> k,
                      byte_offset  |-> blocks[k].at,
                      hash         |-> blocks[k].data,
                      is_corrupted |-> IsCorrupted(blocks[k].data)]
<1>1. Len(blocks) \in Nat  BY LenProperties
<1>2. ASSUME NEW k \in 1 .. Len(blocks) PROVE row(k) \in Record
  <2>1. blocks[k] \in Block  BY ElementOfSeq
  <2>2. blocks[k].at \in Place /\ blocks[k].data \in Bytes  BY <2>1 DEF Block
  <2>3. IsCorrupted(blocks[k].data) \in BOOLEAN  BY DEF IsCorrupted
  <2>4. k \in Place  BY <1>1 DEF Place
  <2> QED  BY <2>2, <2>3, <2>4 DEF Record
<1>3. RecordsOf(e, blocks) = [k \in 1 .. Len(blocks) |-> row(k)]  BY DEF RecordsOf
<1>4. \A k \in 1 .. Len(blocks) : /\ row(k).evidence_id = e
                                  /\ row(k).block_index = k
                                  /\ row(k).hash = blocks[k].data
  OBVIOUS
<1> HIDE DEF row
<1>5. RecordsOf(e, blocks) \in [1 .. Len(blocks) -> Record]  BY <1>2, <1>3
<1>6. RecordsOf(e, blocks) \in Seq(Record) /\ Len(RecordsOf(e, blocks)) = Len(blocks)
  BY <1>1, <1>5, FunctionIsSeq
<1>7. \A k \in 1 .. Len(blocks) : RecordsOf(e, blocks)[k] = row(k)  BY <1>3
<1> QED  BY <1>4, <1>6, <1>7

LEMMA EvidenceOfIs ==
  ASSUME NEW m \in Manifests
  PROVE  /\ EvidenceOf(m) \in Item
         /\ EvidenceOf(m).whole_image = m.whole_image
         /\ EvidenceOf(m).block_size = m.block_size
         /\ EvidenceOf(m).block_count = m.block_count
BY ManifestFields DEF EvidenceOf, Item

LEMMA OwnedIs ==
  ASSUME NEW d, NEW S, NEW rows \in Seq(S)
  PROVE  /\ Owned(d, rows) \in Seq(Rows(S))
         /\ Len(Owned(d, rows)) = Len(rows)
         /\ \A i \in 1 .. Len(rows) : /\ Owned(d, rows)[i].what = rows[i]
                                      /\ Owned(d, rows)[i].evidence_id = 1
<1> DEFINE row(i) == [evidence_id |-> 1, what |-> rows[i]]
<1>1. Len(rows) \in Nat  BY LenProperties
<1>2. ASSUME NEW i \in 1 .. Len(rows) PROVE row(i) \in Rows(S)
  <2>1. rows[i] \in S  BY ElementOfSeq
  <2> QED  BY <2>1 DEF Rows
<1>3. Owned(d, rows) = [i \in 1 .. Len(rows) |-> row(i)]  BY DEF Owned, PrimaryEvidence
<1>4. \A i \in 1 .. Len(rows) : row(i).what = rows[i] /\ row(i).evidence_id = 1
  OBVIOUS
<1> HIDE DEF row
<1>5. Owned(d, rows) \in [1 .. Len(rows) -> Rows(S)]  BY <1>2, <1>3
<1>6. Owned(d, rows) \in Seq(Rows(S)) /\ Len(Owned(d, rows)) = Len(rows)
  BY <1>1, <1>5, FunctionIsSeq
<1>7. \A i \in 1 .. Len(rows) : Owned(d, rows)[i] = row(i)  BY <1>3
<1> QED  BY <1>4, <1>6, <1>7

LEMMA EmptyDbTyped == EmptyDb \in Databases
BY NoRows DEF EmptyDb, Databases

LEMMA StoreExtractionIs ==
  ASSUME NEW d \in Databases, NEW m \in Manifests, NEW blocks \in Seq(Block)
  PROVE  /\ StoreExtraction(d, m, blocks) \in Databases
         /\ StoreExtraction(d, m, blocks) =
              [d EXCEPT !.evidence = Append(d.evidence, EvidenceOf(m)),
                        !.records = d.records \o RecordsOf(Len(d.evidence) + 1, blocks)]
<1> DEFINE e == Len(d.evidence) + 1
<1>1. d.evidence \in Seq(Item) /\ d.records \in Seq(Record)  BY DEF Databases
<1>2. e \in Place  BY <1>1, LenProperties DEF Place
<1>3. RecordsOf(e, blocks) \in Seq(Record)  BY <1>2, RecordsOfIs
<1>4. Append(d.evidence, EvidenceOf(m)) \in Seq(Item)
  BY <1>1, EvidenceOfIs, AppendProperties
<1>5. d.records \o RecordsOf(e, blocks) \in Seq(Record)  BY <1>1, <1>3, ConcatProperties
<1>6. StoreExtraction(d, m, blocks) =
        [d EXCEPT !.evidence = Append(d.evidence, EvidenceOf(m)),
                  !.records = d.records \o RecordsOf(e, blocks)]
  BY DEF StoreExtraction
<1> HIDE DEF e
<1>7. StoreExtraction(d, m, blocks) \in Databases  BY <1>4, <1>5, <1>6 DEF Databases
<1> QED  BY <1>6, <1>7 DEF e

LEMMA StoreRowsAre ==
  ASSUME NEW d \in Databases
  PROVE  /\ \A rows \in Seq(Frame) :
              /\ StoreCarved(d, rows) \in Databases
              /\ StoreCarved(d, rows) = [d EXCEPT !.carved = d.carved \o Owned(d, rows)]
         /\ \A rows \in Seq({"event"}) :
              /\ StoreEvents(d, rows) \in Databases
              /\ StoreEvents(d, rows) = [d EXCEPT !.events = d.events \o Owned(d, rows)]
         /\ \A rows \in Seq(Detection) :
              /\ StoreDetections(d, rows) \in Databases
              /\ StoreDetections(d, rows) =
                   [d EXCEPT !.detections = d.detections \o Owned(d, rows)]
         /\ \A pristine \in BOOLEAN :
              /\ LogAudit(d, pristine) \in Databases
              /\ LogAudit(d, pristine) = [d EXCEPT !.audits = Append(d.audits, pristine)]
<1>1. ASSUME NEW rows \in Seq(Frame)
      PROVE  /\ StoreCarved(d, rows) \in Databases
             /\ StoreCarved(d, rows) = [d EXCEPT !.carved = d.carved \o Owned(d, rows)]
  <2>1. Owned(d, rows) \in Seq(Rows(Frame)) /\ d.carved \in Seq(Rows(Frame))
    BY OwnedIs DEF Databases
  <2>2. d.carved \o Owned(d, rows) \in Seq(Rows(Frame))  BY <2>1, ConcatProperties
  <2> QED  BY <2>2 DEF StoreCarved, Databases
<1>2. ASSUME NEW rows \in Seq({"event"})
      PROVE  /\ StoreEvents(d, rows) \in Databases
             /\ StoreEvents(d, rows) = [d EXCEPT !.events = d.events \o Owned(d, rows)]
  <2>1. Owned(d, rows) \in Seq(Rows({"event"})) /\ d.events \in Seq(Rows({"event"}))
    BY OwnedIs DEF Databases
  <2>2. d.events \o Owned(d, rows) \in Seq(Rows({"event"}))  BY <2>1, ConcatProperties
  <2> QED  BY <2>2 DEF StoreEvents, Databases
<1>3. ASSUME NEW rows \in Seq(Detection)
      PROVE  /\ StoreDetections(d, rows) \in Databases
             /\ StoreDetections(d, rows) =
                  [d EXCEPT !.detections = d.detections \o Owned(d, rows)]
  <2>1. Owned(d, rows) \in Seq(Rows(Detection)) /\ d.detections \in Seq(Rows(Detection))
    BY OwnedIs DEF Databases
  <2>2. d.detections \o Owned(d, rows) \in Seq(Rows(Detection))  BY <2>1, ConcatProperties
  <2> QED  BY <2>2 DEF StoreDetections, Databases
<1>4. ASSUME NEW pristine \in BOOLEAN
      PROVE  /\ LogAudit(d, pristine) \in Databases
             /\ LogAudit(d, pristine) = [d EXCEPT !.audits = Append(d.audits, pristine)]
  <2>1. Append(d.audits, pristine) \in Seq(BOOLEAN)  BY AppendProperties DEF Databases
  <2> QED  BY <2>1 DEF LogAudit, Databases
<1> QED  BY <1>1, <1>2, <1>3, <1>4

(***************************************************************************)
(* What the queries return.                                                *)
(***************************************************************************)
LEMMA CarvedFramesAre ==
  ASSUME NEW d \in Databases
  PROVE  /\ CarvedFrames(d) \in Frames
         /\ DOMAIN CarvedFrames(d) = 1 .. Len(d.carved)
         /\ \A i \in 1 .. Len(d.carved) : CarvedFrames(d)[i] = d.carved[i].what
<1>1. d.carved \in Seq(Rows(Frame))  BY DEF Databases
<1>2. Len(d.carved) \in Nat /\ DOMAIN d.carved = 1 .. Len(d.carved)  BY <1>1, LenProperties
<1>3. \A i \in 1 .. Len(d.carved) : d.carved[i] \in Rows(Frame)  BY <1>1, ElementOfSeq
<1>4. \A i \in 1 .. Len(d.carved) : d.carved[i].what \in Frame  BY <1>3 DEF Rows
<1>5. CarvedFrames(d) \in [1 .. Len(d.carved) -> Frame]  BY <1>2, <1>4 DEF CarvedFrames
<1>6. 1 .. Len(d.carved) \in FinitePlaces
  <2>1. 1 .. Len(d.carved) \in SUBSET Place  BY <1>2 DEF Place
  <2>2. IsFiniteSet(1 .. Len(d.carved))  BY <1>2, PlacesAreFinite
  <2> QED  BY <2>1, <2>2 DEF FinitePlaces
<1>7. CarvedFrames(d) \in Frames  BY <1>5, <1>6 DEF Frames
<1> QED  BY <1>2, <1>7 DEF CarvedFrames

LEMMA CorruptedBlocksAre ==
  ASSUME NEW d \in Databases
  PROVE  CorruptedBlocks(d) \in Seq(Place)
<1> DEFINE keep == {i \in DOMAIN d.records : d.records[i].is_corrupted}
           corrupted == Filtered(d.records, keep)
           kept == {d.records[k] : k \in keep}
<1>1. d.records \in Seq(Record)  BY DEF Databases
<1>2. kept \subseteq Record  BY <1>1, ElementOfSeq
<1>3. corrupted \in Seq(kept)
  <2>1. keep \in SUBSET (DOMAIN d.records)  OBVIOUS
  <2> HIDE DEF keep
  <2> QED  BY <1>1, <2>1, FilteredType
<1>4. CorruptedBlocks(d) = [i \in 1 .. Len(corrupted) |-> corrupted[i].block_index]
  BY DEF CorruptedBlocks
<1> HIDE DEF corrupted, kept
<1>5. Len(corrupted) \in Nat  BY <1>3, LenProperties
<1>6. ASSUME NEW i \in 1 .. Len(corrupted) PROVE corrupted[i].block_index \in Place
  <2>1. corrupted[i] \in Record  BY <1>2, <1>3, ElementOfSeq
  <2> QED  BY <2>1 DEF Record
<1>7. CorruptedBlocks(d) \in [1 .. Len(corrupted) -> Place]  BY <1>4, <1>6
<1> QED  BY <1>5, <1>7, FunctionIsSeq

LEMMA SeqOfFewer ==
  ASSUME NEW S, NEW T, S \subseteq T, NEW s \in Seq(S)
  PROVE  s \in Seq(T)
<1>1. Len(s) \in Nat /\ s \in [1 .. Len(s) -> S]  BY LenProperties
<1>2. s \in [1 .. Len(s) -> T]  BY <1>1
<1> QED  BY <1>1, <1>2, FunctionIsSeq

(***************************************************************************)
(* The frame of a block is bytes of the image, at a place of the image.    *)
(***************************************************************************)
LEMMA FrameInIs ==
  ASSUME NEW k \in Place, NEW b \in Place, image \in Images, StartsIn(k, b) # {}
  PROVE  /\ FrameIn(k, b) \in Frame
         /\ FrameEnd(FrameIn(k, b)) <= Len(image)
         /\ FrameIn(k, b).bytes = SubSeq(image, FrameIn(k, b).at, FrameEnd(FrameIn(k, b)))
<1> DEFINE end == BlockEnd(Len(image), k, b)
           at == Min(StartsIn(k, b))
           frame == FrameIn(k, b)
<1>1. image \in Bytes /\ Len(image) \in Nat  BY LenProperties DEF Bytes
<1>2. BlockStart(k, b) \in Place
  <2>1. (k - 1) * b \in Nat  BY DEF Place
  <2> QED  BY <2>1 DEF BlockStart, Place
<1>3. end \in Nat /\ end <= Len(image)
  <2>1. k * b \in Nat  BY DEF Place
  <2> QED  BY <1>1, <2>1 DEF BlockEnd
<1>4. at \in StartsIn(k, b)
  <2>1. StartsIn(k, b) \in SUBSET Nat  BY <1>2, <1>3 DEF StartsIn, Place
  <2>2. \E x \in StartsIn(k, b) : \A y \in StartsIn(k, b) : x <= y  BY <2>1, Smallest
  <2> QED  BY <2>2 DEF Min
<1>5. at \in Place /\ at <= end  BY <1>2, <1>3, <1>4 DEF StartsIn, Place
<1>6. frame.at = at /\ frame.bytes = SubSeq(image, at, end) /\ frame = [at |-> at, bytes |-> SubSeq(image, at, end)]
  BY DEF FrameIn
<1> HIDE DEF at, end, frame
<1>7. \A i \in at .. end : image[i] \in Byte
  <2>1. \A i \in 1 .. Len(image) : image[i] \in Byte  BY <1>1, ElementOfSeq DEF Bytes
  <2> QED  BY <1>1, <1>3, <1>5, <2>1 DEF Place
<1>8. /\ SubSeq(image, at, end) \in Bytes
      /\ Len(SubSeq(image, at, end)) = end - at + 1
  BY <1>3, <1>5, <1>7, SubSeqProperties DEF Place, Bytes
<1>9. frame.at + Len(frame.bytes) - 1 = end
  <2>1. Len(frame.bytes) = end - at + 1  BY <1>6, <1>8
  <2> QED  BY <1>3, <1>5, <1>6, <2>1 DEF Place
<1>10. frame \in Frame  BY <1>5, <1>6, <1>8 DEF Frame
<1>11. frame.bytes = SubSeq(image, frame.at, FrameEnd(frame)) /\ FrameEnd(frame) <= Len(image)
  BY <1>3, <1>6, <1>9 DEF FrameEnd
<1> QED  BY <1>10, <1>11 DEF frame

LEMMA FoundIs ==
  ASSUME NEW j, j.rows \in Seq(Place), j.m \in Manifests, image \in Images
  PROVE  /\ Found(j) \in Seq(Frame)
         /\ \A i \in 1 .. Len(Found(j)) :
              /\ FrameEnd(Found(j)[i]) <= Len(image)
              /\ Found(j)[i].bytes = SubSeq(image, Found(j)[i].at, FrameEnd(Found(j)[i]))
<1> DEFINE b == j.m.block_size
           keep == {i \in DOMAIN j.rows : StartsIn(j.rows[i], b) # {}}
           kept == {j.rows[k] : k \in keep}
           found == Filtered(j.rows, keep)
<1>1. b \in Place  BY ManifestFields
<1>2. \A k \in kept : k \in Place /\ StartsIn(k, b) # {}  BY ElementOfSeq
<1>3. found \in Seq(kept)
  <2>1. keep \in SUBSET (DOMAIN j.rows)  OBVIOUS
  <2> HIDE DEF keep
  <2> QED  BY <2>1, FilteredType
<1>4. Found(j) = [i \in DOMAIN found |-> FrameIn(found[i], b)]  BY DEF Found
<1> HIDE DEF b, kept, found
<1>5. Len(found) \in Nat /\ DOMAIN found = 1 .. Len(found)  BY <1>3, LenProperties
<1>6. ASSUME NEW i \in 1 .. Len(found)
      PROVE  /\ FrameIn(found[i], b) \in Frame
             /\ FrameEnd(FrameIn(found[i], b)) <= Len(image)
             /\ FrameIn(found[i], b).bytes =
                  SubSeq(image, FrameIn(found[i], b).at, FrameEnd(FrameIn(found[i], b)))
  <2>1. found[i] \in kept  BY <1>3, ElementOfSeq
  <2>2. found[i] \in Place /\ StartsIn(found[i], b) # {}  BY <1>2, <2>1
  <2> QED  BY <1>1, <2>2, FrameInIs
<1>7. Found(j) \in [1 .. Len(found) -> Frame]  BY <1>4, <1>5, <1>6
<1>8. Found(j) \in Seq(Frame) /\ Len(Found(j)) = Len(found)  BY <1>5, <1>7, FunctionIsSeq
<1>9. \A i \in 1 .. Len(found) : Found(j)[i] = FrameIn(found[i], b)  BY <1>4, <1>5
<1> QED  BY <1>6, <1>8, <1>9

LEMMA ReadableIs ==
  ASSUME NEW j, j.rows \in Seq(Record)
  PROVE  Readable(j) \in Seq(Record)
<1> DEFINE keep == {i \in DOMAIN j.rows :
                      j.rows[i].byte_offset + Len(j.rows[i].hash) - 1 <= Len(image)}
           kept == {j.rows[k] : k \in keep}
<1>1. kept \subseteq Record  BY ElementOfSeq
<1>2. Filtered(j.rows, keep) \in Seq(kept)
  <2>1. keep \in SUBSET (DOMAIN j.rows)  OBVIOUS
  <2> HIDE DEF keep
  <2> QED  BY <2>1, FilteredType
<1>3. Readable(j) = Filtered(j.rows, keep)  BY DEF Readable
<1> HIDE DEF kept, keep
<1> QED  BY <1>1, <1>2, <1>3, SeqOfFewer

LEMMA DetectionsAre ==
  ASSUME NEW shown \in Seq(Record), NEW good
  PROVE  DetectionsOf(shown, good) \in Seq(Detection)
<1> DEFINE row(i) == [block_index |-> shown[i].block_index, relevant |-> i \in good]
<1>1. Len(shown) \in Nat /\ DOMAIN shown = 1 .. Len(shown)  BY LenProperties
<1>2. ASSUME NEW i \in 1 .. Len(shown) PROVE row(i) \in Detection
  <2>1. shown[i] \in Record  BY ElementOfSeq
  <2>2. shown[i].block_index \in Place /\ (i \in good) \in BOOLEAN  BY <2>1 DEF Record
  <2> QED  BY <2>2 DEF Detection
<1>3. DetectionsOf(shown, good) = [i \in 1 .. Len(shown) |-> row(i)]
  BY <1>1 DEF DetectionsOf
<1> HIDE DEF row
<1>4. DetectionsOf(shown, good) \in [1 .. Len(shown) -> Detection]  BY <1>2, <1>3
<1> QED  BY <1>1, <1>4, FunctionIsSeq

LEMMA TargetBlocksAre ==
  ASSUME db \in Databases, manifest \in Manifests
  PROVE  TargetBlocks \in Seq(Place)
<1>1. CorruptedBlocks(db) \in Seq(Place)  BY CorruptedBlocksAre
<1>2. manifest.block_count \in Nat  BY ManifestFields
<1>3. [k \in 1 .. manifest.block_count |-> k] \in [1 .. manifest.block_count -> Place]
  BY <1>2 DEF Place
<1>4. [k \in 1 .. manifest.block_count |-> k] \in Seq(Place)  BY <1>2, <1>3, FunctionIsSeq
<1> QED  BY <1>1, <1>4 DEF TargetBlocks

----------------------------------------------------------------------------
\* What a command holds after each of its steps.

Started(p, j) ==
  /\ job[p] = Idle
  /\ j.cmd \in Commands
  /\ started' \in 0 .. MaxCommands
  /\ job' = [job EXCEPT ![p] = j]
  /\ held' = [held EXCEPT ![p] = {image}]
  /\ verdict' = [verdict EXCEPT ![p] = NoVerdict]
  /\ UNCHANGED <<image, touches>>

LEMMA BeginStarts ==
  ASSUME WorldInv, NEW p \in Procs, NEW j, Begin(p, j)
  PROVE  Started(p, j)
<1>1. started' \in 0 .. MaxCommands  BY DEF Begin, WorldInv
<1> QED  BY <1>1 DEF Begin, Started

LEMMA StartsAs ==
  ASSUME WorldInv, FilesInv, NEW p \in Procs
  PROVE  /\ \A b \in BlockSizes :
              AcquireStart(p, b) =>
                Started(p, Holding("acquire", "stream", ManifestOf(<<>>, b), <<>>))
         /\ ParseStart(p) =>
              manifest \in Manifests /\ Started(p, Holding("parse", "read", manifest, <<>>))
         /\ VerifyStart(p) =>
              manifest \in Manifests /\ Started(p, Holding("verify", "read", manifest, <<>>))
         /\ CarveStart(p) =>
              /\ manifest \in Manifests
              /\ Started(p, Holding("carve", "scan", manifest, TargetBlocks))
         /\ CorrelateStart(p) =>
              \E found \in Seq({"event"}) :
                /\ found # <<>> => db.records # <<>>
                /\ Started(p, Holding("correlate", "store", NoManifest, found))
         /\ AnalyzeStart(p) =>
              /\ manifest \in Manifests
              /\ Started(p, Holding("analyze", "scan", manifest, db.records))
         /\ ReportStart(p) =>
              /\ manifest \in Manifests
              /\ Started(p, Holding("report", "carved", manifest, <<Len(db.records)>>))
<1>0. ManifestRead => manifest \in Manifests  BY DEF ManifestRead, FilesInv
<1>1. ASSUME CorrelateStart(p)
      PROVE  \E found \in Seq({"event"}) :
               /\ found # <<>> => db.records # <<>>
               /\ Started(p, Holding("correlate", "store", NoManifest, found))
  <2>1. PICK found \in {<<>>} \cup (IF db.records = <<>> THEN {} ELSE {<<"event">>}) :
          Begin(p, Holding("correlate", "store", NoManifest, found))
    BY <1>1 DEF CorrelateStart
  <2>2. Started(p, Holding("correlate", "store", NoManifest, found))
    BY <2>1, BeginStarts
  <2>3. <<"event">> \in Seq({"event"}) /\ <<>> \in Seq({"event"})  OBVIOUS
  <2>4. found \in Seq({"event"})  BY <2>1, <2>3
  <2>5. found # <<>> => db.records # <<>>  BY <2>1
  <2> QED  BY <2>2, <2>4, <2>5
<1> QED
  BY <1>0, <1>1, BeginStarts
     DEF AcquireStart, ParseStart, VerifyStart, CarveStart, AnalyzeStart, ReportStart

\* The program counters of a command.
PCs(c) ==
  IF c = "acquire" THEN {"stream", "create", "write"}
  ELSE IF c = "parse" THEN {"read", "store"}
  ELSE IF c = "verify" THEN {"read", "compare", "audit"}
  ELSE IF c \in {"carve", "analyze"} THEN {"scan", "store"}
  ELSE IF c = "correlate" THEN {"store"}
  ELSE IF c = "report" THEN {"carved", "events", "leads", "export", "clip", "certify", "document"}
  ELSE {}

LEMMA HoldingTyped ==
  ASSUME NEW c \in Commands, NEW pc \in PCs(c), NEW rows \in Tables,
         NEW m \in Manifests \cup {NoManifest}, c # "correlate" => m \in Manifests,
         RowsTyped(Holding(c, pc, m, rows))
  PROVE  JobTyped(Holding(c, pc, m, rows))
<1> DEFINE j == Holding(c, pc, m, rows)
<1>1. pc \in {"idle", "stream", "create", "write", "read", "store", "compare", "audit",
              "scan", "carved", "events", "leads", "export", "clip", "certify", "document"}
  BY DEF PCs
<1>2. j \in Jobs
  BY <1>1, NoFrames, NoRows DEF Holding, Jobs, Bytes
<1>3. j.cmd = c /\ j.m = m /\ j.got = <<>>  BY DEF Holding
<1>4. ReadingTyped(j)
  BY <1>3, NoRows, CountOfAnyManifest DEF ReadingTyped
<1>5. j.cmd # "none"  BY <1>3
<1> QED  BY <1>2, <1>4, <1>5 DEF JobTyped

LEMMA JobFields ==
  ASSUME NEW j \in Jobs
  PROVE  /\ j.got \in Seq(Block) /\ Len(j.got) \in Nat
         /\ j.read \in Bytes /\ Len(j.read) \in Nat
         /\ j.m \in Manifests \cup {NoManifest}
         /\ j.rows \in Tables
         /\ j.frames \in Frames
         /\ j.dbpath \in BOOLEAN
         /\ j.cmd \in Commands \cup {"none"}
<1>1. /\ j.got \in Seq(Block) /\ j.read \in Seq(Byte) /\ j.m \in Manifests \cup {NoManifest}
      /\ j.rows \in Tables /\ j.frames \in Frames /\ j.cmd \in Commands \cup {"none"}
  BY DEF Jobs, Bytes
<1>2. j.dbpath \in BOOLEAN  BY DEF Jobs
<1> QED  BY <1>1, <1>2, LenProperties DEF Bytes

LEMMA PcMoves ==
  ASSUME NEW j, JobTyped(j), j.cmd # "none", NEW pc \in PCs(j.cmd),
         RowsTyped([j EXCEPT !.pc = pc])
  PROVE  /\ JobTyped([j EXCEPT !.pc = pc])
         /\ [j EXCEPT !.pc = pc] \in Jobs
         /\ [j EXCEPT !.pc = pc].pc = pc
         /\ [j EXCEPT !.pc = pc].cmd = j.cmd /\ [j EXCEPT !.pc = pc].m = j.m
         /\ [j EXCEPT !.pc = pc].got = j.got /\ [j EXCEPT !.pc = pc].read = j.read
         /\ [j EXCEPT !.pc = pc].rows = j.rows /\ [j EXCEPT !.pc = pc].frames = j.frames
<1> DEFINE n == [j EXCEPT !.pc = pc]
<1>1. pc \in {"idle", "stream", "create", "write", "read", "store", "compare", "audit",
              "scan", "carved", "events", "leads", "export", "clip", "certify", "document"}
  BY DEF PCs
<1>2. /\ n \in Jobs
      /\ n.pc = pc /\ n.cmd = j.cmd /\ n.m = j.m /\ n.got = j.got /\ n.read = j.read
      /\ n.rows = j.rows /\ n.frames = j.frames
  BY <1>1 DEF JobTyped, Jobs
<1>3. ReadingTyped(n)  BY <1>2 DEF JobTyped, ReadingTyped
<1> HIDE DEF n
<1>4. RowsTyped(n)  BY DEF n
<1>5. JobTyped(n)  BY <1>2, <1>3, <1>4 DEF JobTyped
<1> QED  BY <1>2, <1>5 DEF n

(***************************************************************************)
(* New rows come with a new place in the command.                          *)
(***************************************************************************)
LEMMA RowsMove ==
  ASSUME NEW j, JobTyped(j), j.cmd # "none", NEW pc \in PCs(j.cmd), NEW rows \in Tables,
         NEW n, n = [j EXCEPT !.pc = pc, !.rows = rows],
         RowsTyped(n)
  PROVE  /\ JobTyped(n) /\ n \in Jobs
         /\ n.pc = pc /\ n.cmd = j.cmd /\ n.m = j.m
         /\ n.got = j.got /\ n.read = j.read
         /\ n.rows = rows /\ n.frames = j.frames
<1>1. pc \in {"idle", "stream", "create", "write", "read", "store", "compare", "audit",
              "scan", "carved", "events", "leads", "export", "clip", "certify", "document"}
  BY DEF PCs
<1>2. /\ n \in Jobs
      /\ n.pc = pc /\ n.cmd = j.cmd /\ n.m = j.m /\ n.got = j.got /\ n.read = j.read
      /\ n.rows = rows /\ n.frames = j.frames
  BY <1>1 DEF JobTyped, Jobs
<1>3. ReadingTyped(n)  BY <1>2 DEF JobTyped, ReadingTyped
<1> QED  BY <1>2, <1>3 DEF JobTyped

LEMMA ExportedIs ==
  ASSUME NEW j \in Jobs, NEW i
  PROVE  /\ Exported(j, i) \in Jobs
         /\ Exported(j, i).pc = "export" /\ Exported(j, i).cmd = j.cmd
         /\ Exported(j, i).m = j.m
         /\ Exported(j, i).got = j.got /\ Exported(j, i).read = j.read
         /\ Exported(j, i).rows = j.rows
         /\ Exported(j, i).frames = [k \in DOMAIN j.frames \ {i} |-> j.frames[k]]
<1> DEFINE left == [k \in DOMAIN j.frames \ {i} |-> j.frames[k]]
<1>1. PICK places \in FinitePlaces : j.frames \in [places -> Frame]  BY DEF Jobs, Frames
<1>2. left \in [places \ {i} -> Frame]  BY <1>1
<1>3. places \ {i} \in FinitePlaces  BY FS_RemoveElement DEF FinitePlaces
<1>4. left \in Frames  BY <1>2, <1>3 DEF Frames
<1>5. Exported(j, i) = [j EXCEPT !.pc = "export", !.frames = left]  BY DEF Exported
<1> HIDE DEF left
<1>6. /\ Exported(j, i) \in Jobs
      /\ Exported(j, i).pc = "export" /\ Exported(j, i).cmd = j.cmd /\ Exported(j, i).m = j.m
      /\ Exported(j, i).got = j.got /\ Exported(j, i).read = j.read
      /\ Exported(j, i).rows = j.rows
      /\ Exported(j, i).frames = left
  BY <1>4, <1>5 DEF Jobs
<1> QED  BY <1>6 DEF left

----------------------------------------------------------------------------
\* Types are kept.

LEMMA OneJob ==
  ASSUME JobsInv, NEW p \in Procs, NEW j, JobTyped(j), job' = [job EXCEPT ![p] = j]
  PROVE  /\ JobsInv'
         /\ job'[p] = j
         /\ \A q \in Procs : q # p => job'[q] = job[q]
<1>1. j \in Jobs  BY DEF JobTyped
<1>2. /\ job' \in [Procs -> Jobs]
      /\ job'[p] = j
      /\ \A q \in Procs : q # p => job'[q] = job[q]
  BY <1>1 DEF JobsInv
<1>3. \A q \in Procs : JobTyped(job'[q])  BY <1>2 DEF JobsInv
<1> QED  BY <1>2, <1>3 DEF JobsInv

LEMMA StartsTyped ==
  ASSUME TypeInv, NEW p \in Procs, NEW j, Started(p, j), JobTyped(j)
  PROVE  JobsInv' /\ HistoryInv' /\ WorldInv'
<1>1. JobsInv'  BY OneJob DEF TypeInv, Started
<1>2. {image} \in SUBSET Images  BY DEF TypeInv, WorldInv
<1>3. HistoryInv'  BY <1>2 DEF TypeInv, HistoryInv, Started
<1>4. WorldInv'  BY DEF TypeInv, WorldInv, Started
<1> QED  BY <1>1, <1>3, <1>4

LEMMA StartKeepsTypes ==
  ASSUME TypeInv, NEW p \in Procs, Start(p)
  PROVE  JobsInv' /\ HistoryInv' /\ WorldInv'
<1> USE DEF TypeInv
<1>1. CASE \E b \in BlockSizes : AcquireStart(p, b)
  <2>1. PICK b \in BlockSizes : AcquireStart(p, b)  BY <1>1
  <2> DEFINE j == Holding("acquire", "stream", ManifestOf(<<>>, b), <<>>)
  <2>2. Started(p, j)  BY <2>1, StartsAs
  <2>3. ManifestOf(<<>>, b) \in Manifests  BY NoRows, ManifestIs DEF Bytes
  <2>4. j.cmd = "acquire"  BY DEF Holding
  <2>5. RowsTyped(j)  BY <2>4 DEF RowsTyped
  <2>6. "acquire" \in Commands  BY <2>2, <2>4 DEF Started
  <2>7. JobTyped(j)  BY <2>3, <2>5, <2>6, HoldingTyped, NoRows DEF PCs
  <2> QED  BY <2>2, <2>7, StartsTyped
<1>2. CASE ParseStart(p)
  <2> DEFINE j == Holding("parse", "read", manifest, <<>>)
  <2>1. manifest \in Manifests /\ Started(p, j)  BY <1>2, StartsAs
  <2>2. j.cmd = "parse"  BY DEF Holding
  <2>3. RowsTyped(j)  BY <2>2 DEF RowsTyped
  <2>4. "parse" \in Commands  BY <2>1, <2>2 DEF Started
  <2>5. JobTyped(j)  BY <2>1, <2>3, <2>4, HoldingTyped, NoRows DEF PCs
  <2> QED  BY <2>1, <2>5, StartsTyped
<1>3. CASE VerifyStart(p)
  <2> DEFINE j == Holding("verify", "read", manifest, <<>>)
  <2>1. manifest \in Manifests /\ Started(p, j)  BY <1>3, StartsAs
  <2>2. j.cmd = "verify" /\ j.pc = "read"  BY DEF Holding
  <2>3. RowsTyped(j)  BY <2>2 DEF RowsTyped
  <2>4. "verify" \in Commands  BY <2>1, <2>2 DEF Started
  <2>5. JobTyped(j)  BY <2>1, <2>3, <2>4, HoldingTyped, NoRows DEF PCs
  <2> QED  BY <2>1, <2>5, StartsTyped
<1>4. CASE CarveStart(p)
  <2> DEFINE j == Holding("carve", "scan", manifest, TargetBlocks)
  <2>1. manifest \in Manifests /\ Started(p, j)  BY <1>4, StartsAs
  <2>2. j.cmd = "carve" /\ j.pc = "scan" /\ j.rows = TargetBlocks  BY DEF Holding
  <2>3. TargetBlocks \in Seq(Place)  BY <2>1, TargetBlocksAre DEF FilesInv
  <2>4. TargetBlocks \in Tables
    <3>1. TargetBlocks \in Seq(Nat)  BY <2>3, SeqOfFewer DEF Place
    <3> QED  BY <3>1 DEF Tables
  <2>5. RowsTyped(j)  BY <2>2, <2>3 DEF RowsTyped
  <2>6. "carve" \in Commands  BY <2>1, <2>2 DEF Started
  <2>7. JobTyped(j)  BY <2>1, <2>4, <2>5, <2>6, HoldingTyped DEF PCs
  <2> QED  BY <2>1, <2>7, StartsTyped
<1>5. CASE Query(p)
  BY <1>5 DEF Query, JobsInv, HistoryInv, WorldInv
<1>6. CASE CorrelateStart(p)
  <2>1. PICK found \in Seq({"event"}) :
          Started(p, Holding("correlate", "store", NoManifest, found))
    BY <1>6, StartsAs
  <2> DEFINE j == Holding("correlate", "store", NoManifest, found)
  <2>2. j.cmd = "correlate" /\ j.rows = found  BY DEF Holding
  <2>3. RowsTyped(j)  BY <2>1, <2>2 DEF RowsTyped
  <2>4. "correlate" \in Commands  BY <2>1, <2>2 DEF Started
  <2>5. found \in Tables  BY DEF Tables
  <2>6. JobTyped(j)  BY <2>3, <2>4, <2>5, HoldingTyped DEF PCs
  <2> QED  BY <2>1, <2>6, StartsTyped
<1>7. CASE AnalyzeStart(p)
  <2> DEFINE j == Holding("analyze", "scan", manifest, db.records)
  <2>1. manifest \in Manifests /\ Started(p, j)  BY <1>7, StartsAs
  <2>2. j.cmd = "analyze" /\ j.pc = "scan" /\ j.rows = db.records  BY DEF Holding
  <2>3. db.records \in Seq(Record)  BY DEF FilesInv, Databases
  <2>4. RowsTyped(j)  BY <2>2, <2>3 DEF RowsTyped
  <2>5. "analyze" \in Commands  BY <2>1, <2>2 DEF Started
  <2>6. db.records \in Tables  BY <2>3 DEF Tables
  <2>7. JobTyped(j)  BY <2>1, <2>4, <2>5, <2>6, HoldingTyped DEF PCs
  <2> QED  BY <2>1, <2>7, StartsTyped
<1>8. CASE ReportStart(p)
  <2> DEFINE count == <<Len(db.records)>>
             j == Holding("report", "carved", manifest, count)
  <2>1. manifest \in Manifests /\ Started(p, j)  BY <1>8, StartsAs
  <2>2. j.cmd = "report" /\ j.pc = "carved" /\ j.rows = count  BY DEF Holding
  <2>3. Len(db.records) \in Nat  BY LenProperties DEF FilesInv, Databases
  <2>4. count \in Seq(Nat) /\ Len(count) = 1  BY <2>3
  <2> HIDE DEF count
  <2>5. RowsTyped(j)  BY <2>2, <2>4 DEF RowsTyped, RowsAt
  <2>6. "report" \in Commands  BY <2>1, <2>2 DEF Started
  <2>7. count \in Tables  BY <2>4 DEF Tables
  <2>8. JobTyped(j)  BY <2>1, <2>5, <2>6, <2>7, HoldingTyped DEF PCs
  <2> QED  BY <2>1, <2>8, StartsTyped
<1> QED  BY <1>1, <1>2, <1>3, <1>4, <1>5, <1>6, <1>7, <1>8 DEF Start

LEMMA ContinueTyped ==
  ASSUME TypeInv, NEW p \in Procs, NEW j, Continue(p, j), JobTyped(j)
  PROVE  JobsInv' /\ HistoryInv' /\ WorldInv'
<1>1. JobsInv'  BY OneJob DEF TypeInv, Continue
<1>2. HistoryInv' /\ WorldInv'  BY DEF TypeInv, HistoryInv, WorldInv, Continue
<1> QED  BY <1>1, <1>2

LEMMA FinishTyped ==
  ASSUME TypeInv, NEW p \in Procs, Finish(p)
  PROVE  JobsInv' /\ HistoryInv' /\ WorldInv'
<1>1. JobsInv'  BY OneJob, IdleTyped DEF TypeInv, Finish
<1>2. HistoryInv' /\ WorldInv'  BY DEF TypeInv, HistoryInv, WorldInv, Finish
<1> QED  BY <1>1, <1>2

LEMMA AtFacts ==
  ASSUME JobsInv, NEW p \in Procs, NEW c, NEW pc, At(p, c, pc)
  PROVE  /\ job[p] \in Jobs /\ JobTyped(job[p]) /\ job[p].cmd = c /\ job[p].pc = pc
         /\ c # "none" => c \in Commands
         /\ c \notin {"none", "correlate"} => job[p].m \in Manifests
BY DEF At, JobsInv, JobTyped, ReadingTyped, Jobs

(***************************************************************************)
(* A block that is read keeps the types.                                   *)
(***************************************************************************)
LEMMA WithBlockTyped ==
  ASSUME TypeInv, NEW p \in Procs, NEW c \in {"acquire", "parse", "verify"}, NEW pc,
         At(p, c, pc), ~AtEnd(job[p]), c # "acquire" => BlocksRemain(job[p]),
         c = "verify" => pc = "read"
  PROVE  JobTyped(WithBlock(job[p]))
<1> DEFINE j == job[p]
           n == WithBlock(j)
<1>1. j \in Jobs /\ j.m \in Manifests /\ j.cmd = c /\ c \in Commands /\ j.pc = pc /\ JobTyped(j)
  BY AtFacts DEF TypeInv
<1>2. /\ n \in Jobs /\ n.cmd = c /\ n.m = j.m /\ n.rows = j.rows /\ n.pc = pc
      /\ Len(n.got) = Len(j.got) + 1
  BY <1>1, WithBlockIs DEF TypeInv, WorldInv
<1>3. Len(j.got) \in Nat /\ j.m.block_count \in Nat  BY <1>1, JobFields, ManifestFields
<1>4. c # "acquire" => Len(j.got) < j.m.block_count  BY DEF BlocksRemain
<1> HIDE DEF n, j
<1>5. ReadingTyped(n)  BY <1>1, <1>2, <1>3, <1>4 DEF ReadingTyped
<1>6. RowsTyped(n)  BY <1>1, <1>2 DEF RowsTyped
<1>7. JobTyped(n)  BY <1>2, <1>5, <1>6 DEF JobTyped
<1> QED  BY <1>7 DEF n, j

LEMMA AcquireKeepsTypes ==
  ASSUME TypeInv, NEW p \in Procs, AcquireStep(p)
  PROVE  JobsInv' /\ HistoryInv' /\ WorldInv'
<1>0. JobsInv  BY DEF TypeInv
<1>1. CASE AcquireBlock(p)
  BY <1>1, WithBlockTyped, ContinueTyped DEF AcquireBlock
<1>2. CASE AcquireRead(p)
  <2> DEFINE m == ManifestOf(job[p].read, job[p].m.block_size)
             j == Holding("acquire", "create", m, <<>>)
  <2>1. job[p] \in Jobs /\ job[p].m \in Manifests /\ "acquire" \in Commands
    BY <1>0, <1>2, AtFacts DEF AcquireRead
  <2>2. m \in Manifests  BY <2>1, JobFields, ManifestFields, ManifestIs
  <2>3. j.cmd = "acquire"  BY DEF Holding
  <2>4. RowsTyped(j)  BY <2>3 DEF RowsTyped
  <2>5. JobTyped(j)  BY <2>1, <2>2, <2>4, HoldingTyped, NoRows DEF PCs
  <2>6. Continue(p, j)  BY <1>2 DEF AcquireRead
  <2> QED  BY <2>5, <2>6, ContinueTyped
<1>3. CASE AcquireCreate(p)
  <2> DEFINE j == job[p]
             n == [j EXCEPT !.pc = "write"]
  <2>1. JobTyped(j) /\ j.cmd = "acquire" /\ j \in Jobs
    BY <1>0, <1>3, AtFacts DEF AcquireCreate
  <2>2. n.cmd = "acquire"  BY <2>1 DEF Jobs
  <2>3. RowsTyped(n)  BY <2>2 DEF RowsTyped
  <2>4. JobTyped(n)  BY <2>1, <2>3, PcMoves DEF PCs
  <2>5. Continue(p, n)  BY <1>3 DEF AcquireCreate
  <2> QED  BY <2>4, <2>5, ContinueTyped
<1>4. CASE AcquireWrite(p)
  BY <1>4, FinishTyped DEF AcquireWrite
<1> QED  BY <1>1, <1>2, <1>3, <1>4 DEF AcquireStep

LEMMA ParseKeepsTypes ==
  ASSUME TypeInv, NEW p \in Procs, ParseStep(p)
  PROVE  JobsInv' /\ HistoryInv' /\ WorldInv'
<1>0. JobsInv  BY DEF TypeInv
<1>1. CASE ParseBlock(p)
  BY <1>1, WithBlockTyped, ContinueTyped DEF ParseBlock
<1>2. CASE ParseRefused(p)
  BY <1>2, FinishTyped DEF ParseRefused
<1>3. CASE ParseRead(p)
  <2> DEFINE j == job[p]
             n == [j EXCEPT !.pc = "store"]
  <2>1. JobTyped(j) /\ j.cmd = "parse" /\ j \in Jobs
    BY <1>0, <1>3, AtFacts DEF ParseRead
  <2>2. n.cmd = "parse"  BY <2>1 DEF Jobs
  <2>3. RowsTyped(n)  BY <2>2 DEF RowsTyped
  <2>4. JobTyped(n)  BY <2>1, <2>3, PcMoves DEF PCs
  <2>5. Continue(p, n)  BY <1>3 DEF ParseRead
  <2> QED  BY <2>4, <2>5, ContinueTyped
<1>4. CASE ParseStore(p)
  BY <1>4, FinishTyped DEF ParseStore
<1> QED  BY <1>1, <1>2, <1>3, <1>4 DEF ParseStep

\* What VerifyCompare puts down as the verdict.
VerdictOf(p, pristine) ==
  [given       |-> TRUE,
   is_pristine |-> pristine,
   m           |-> job[p].m,
   held        |-> held[p],
   block_sizes |-> {db.evidence[e].block_size : e \in DOMAIN db.evidence}]

LEMMA VerdictTyped ==
  ASSUME TypeInv, NEW p \in Procs, job[p].m \in Manifests, NEW pristine \in BOOLEAN
  PROVE  VerdictOf(p, pristine) \in Verdicts
<1>1. db.evidence \in Seq(Item)  BY DEF TypeInv, FilesInv, Databases
<1>2. \A e \in DOMAIN db.evidence : db.evidence[e] \in Item
  BY <1>1, ElementOfSeq, LenProperties
<1>3. {db.evidence[e].block_size : e \in DOMAIN db.evidence} \in SUBSET BlockSizes
  BY <1>2 DEF Item
<1>4. held[p] \in SUBSET Images  BY DEF TypeInv, HistoryInv
<1> QED  BY <1>3, <1>4 DEF VerdictOf, Verdicts

LEMMA VerifyKeepsTypes ==
  ASSUME TypeInv, NEW p \in Procs, VerifyStep(p)
  PROVE  JobsInv' /\ HistoryInv' /\ WorldInv'
<1>0. JobsInv  BY DEF TypeInv
<1>1. CASE VerifyBlock(p)
  BY <1>1, WithBlockTyped, ContinueTyped DEF VerifyBlock
<1>2. CASE VerifyRead(p)
  <2> DEFINE j == job[p]
             n == [j EXCEPT !.pc = "compare", !.dbpath = dbfile]
  <2>1. JobTyped(j) /\ j.cmd = "verify" /\ j \in Jobs
    BY <1>0, <1>2, AtFacts DEF VerifyRead
  <2>2. dbfile \in BOOLEAN  BY DEF TypeInv, FilesInv
  <2>3. n \in Jobs  BY <2>1, <2>2 DEF Jobs
  <2>4. n.cmd = "verify" /\ n.pc = "compare" /\ n.m = j.m /\ n.got = j.got
    BY <2>1 DEF Jobs
  <2>5. ReadingTyped(n)  BY <2>1, <2>4 DEF JobTyped, ReadingTyped
  <2>6. RowsTyped(n)  BY <2>4 DEF RowsTyped
  <2>7. JobTyped(n)  BY <2>3, <2>4, <2>5, <2>6 DEF JobTyped
  <2>8. Continue(p, n)  BY <1>2 DEF VerifyRead
  <2> QED  BY <2>7, <2>8, ContinueTyped
<1>3. CASE VerifyCompare(p)
  <2>1. PICK dbrows : /\ verdict' = [verdict EXCEPT ![p] = VerdictOf(p, IsPristine(job[p], dbrows))]
                      /\ job' = [job EXCEPT ![p] = [job[p] EXCEPT !.pc = "audit",
                                                     !.rows = <<IsPristine(job[p], dbrows)>>]]
    BY <1>3 DEF VerifyCompare, VerdictOf
  <2> DEFINE pristine == IsPristine(job[p], dbrows)
             j == job[p]
             n == [j EXCEPT !.pc = "audit", !.rows = <<pristine>>]
  <2>2. JobTyped(j) /\ j.cmd = "verify" /\ j \in Jobs /\ j.m \in Manifests
    BY <1>0, <1>3, AtFacts DEF VerifyCompare
  <2>3. pristine \in BOOLEAN  BY DEF IsPristine
  <2> HIDE DEF pristine
  <2>4. VerdictOf(p, pristine) \in Verdicts  BY <2>2, <2>3, VerdictTyped
  <2>5. <<pristine>> \in Seq(BOOLEAN) /\ Len(<<pristine>>) = 1  BY <2>3
  <2>6. <<pristine>> \in Tables  BY <2>5 DEF Tables
  <2>7. n.cmd = "verify" /\ n.pc = "audit" /\ n.rows = <<pristine>>  BY <2>2 DEF Jobs
  <2>8. RowsTyped(n)  BY <2>5, <2>7 DEF RowsTyped
  <2>9. JobTyped(n)  BY <2>2, <2>6, <2>8, RowsMove DEF PCs
  <2>10. JobsInv'
    <3>1. job' = [job EXCEPT ![p] = n]  BY <2>1 DEF pristine
    <3> QED  BY <1>0, <2>9, <3>1, OneJob
  <2>11. HistoryInv'
    <3>1. verdict' = [verdict EXCEPT ![p] = VerdictOf(p, pristine)]  BY <2>1 DEF pristine
    <3>2. held' = held  BY <1>3 DEF VerifyCompare
    <3> QED  BY <2>4, <3>1, <3>2 DEF TypeInv, HistoryInv
  <2>12. WorldInv'  BY <1>3 DEF VerifyCompare, TypeInv, WorldInv
  <2> QED  BY <2>10, <2>11, <2>12
<1>4. CASE VerifyAudit(p)
  BY <1>4, FinishTyped DEF VerifyAudit
<1> QED  BY <1>1, <1>2, <1>3, <1>4 DEF VerifyStep

LEMMA CarveKeepsTypes ==
  ASSUME TypeInv, NEW p \in Procs, CarveStep(p)
  PROVE  JobsInv' /\ HistoryInv' /\ WorldInv'
<1>0. JobsInv  BY DEF TypeInv
<1>1. CASE CarveScan(p)
  <2> DEFINE j == job[p]
             rows == Found(j)
             n == [j EXCEPT !.pc = "store", !.rows = rows]
  <2>1. JobTyped(j) /\ j.cmd = "carve" /\ j.pc = "scan" /\ j \in Jobs /\ j.m \in Manifests
    BY <1>0, <1>1, AtFacts DEF CarveScan
  <2>2. j.rows \in Seq(Place)  BY <2>1 DEF JobTyped, RowsTyped
  <2>3. rows \in Seq(Frame)  BY <2>1, <2>2, FoundIs DEF TypeInv, WorldInv
  <2> HIDE DEF rows
  <2>4. rows \in Tables  BY <2>3 DEF Tables
  <2>5. n.cmd = "carve" /\ n.pc = "store" /\ n.rows = rows  BY <2>1 DEF Jobs
  <2>6. RowsTyped(n)  BY <2>3, <2>5 DEF RowsTyped
  <2>7. JobTyped(n)  BY <2>1, <2>4, <2>6, RowsMove DEF PCs
  <2>8. Continue(p, n)  BY <1>1 DEF CarveScan, rows
  <2> QED  BY <2>7, <2>8, ContinueTyped
<1>2. CASE CarveStore(p)
  BY <1>2, FinishTyped DEF CarveStore
<1> QED  BY <1>1, <1>2 DEF CarveStep

LEMMA AnalyzeKeepsTypes ==
  ASSUME TypeInv, NEW p \in Procs, AnalyzeStep(p)
  PROVE  JobsInv' /\ HistoryInv' /\ WorldInv'
<1>0. JobsInv  BY DEF TypeInv
<1>1. CASE AnalyzeScan(p)
  <2>0. PICK shown \in {<<>>, Readable(job[p])} : \E good :
          Continue(p, [job[p] EXCEPT !.pc = "store", !.rows = DetectionsOf(shown, good)])
    BY <1>1 DEF AnalyzeScan
  <2>1. PICK good :
          Continue(p, [job[p] EXCEPT !.pc = "store", !.rows = DetectionsOf(shown, good)])
    BY <2>0
  <2> DEFINE j == job[p]
             rows == DetectionsOf(shown, good)
             n == [j EXCEPT !.pc = "store", !.rows = rows]
  <2>2. JobTyped(j) /\ j.cmd = "analyze" /\ j.pc = "scan" /\ j \in Jobs
    BY <1>0, <1>1, AtFacts DEF AnalyzeScan
  <2>3. j.rows \in Seq(Record)  BY <2>2 DEF JobTyped, RowsTyped
  <2>4. rows \in Seq(Detection)
    <3>1. shown \in Seq(Record)  BY <2>1, <2>3, ReadableIs, NoRows
    <3> QED  BY <3>1, DetectionsAre
  <2> HIDE DEF rows
  <2>5. rows \in Tables  BY <2>4 DEF Tables
  <2>6. n.cmd = "analyze" /\ n.pc = "store" /\ n.rows = rows  BY <2>2 DEF Jobs
  <2>7. RowsTyped(n)  BY <2>4, <2>6 DEF RowsTyped
  <2>8. JobTyped(n)  BY <2>2, <2>5, <2>7, RowsMove DEF PCs
  <2>9. Continue(p, n)  BY <2>1 DEF rows
  <2> QED  BY <2>8, <2>9, ContinueTyped
<1>2. CASE AnalyzeStore(p)
  BY <1>2, FinishTyped DEF AnalyzeStore
<1> QED  BY <1>1, <1>2 DEF AnalyzeStep

LEMMA CountsAre ==
  ASSUME db \in Databases
  PROVE  /\ Len(db.records) \in Nat /\ Len(db.carved) \in Nat /\ Len(db.events) \in Nat
         /\ IsFiniteSet(Relevant(db)) /\ Cardinality(Relevant(db)) \in Nat
         /\ FormatItem(db) \in {0, 1}
         /\ FormatItem(db) = 0 <=> db.evidence = <<>>
<1>1. /\ db.records \in Seq(Record) /\ db.carved \in Seq(Rows(Frame))
      /\ db.events \in Seq(Rows({"event"})) /\ db.detections \in Seq(Rows(Detection))
  BY DEF Databases
<1>2. Len(db.records) \in Nat /\ Len(db.carved) \in Nat /\ Len(db.events) \in Nat
  BY <1>1, LenProperties
<1>3. IsFiniteSet(Relevant(db))
  <2>1. Len(db.detections) \in Nat /\ DOMAIN db.detections = 1 .. Len(db.detections)
    BY <1>1, LenProperties
  <2>2. Relevant(db) \subseteq 1 .. Len(db.detections)  BY <2>1 DEF Relevant
  <2> QED  BY <2>1, <2>2, PlacesAreFinite, FS_Subset
<1>4. Cardinality(Relevant(db)) \in Nat  BY <1>3, FS_CardinalityType
<1>5. FormatItem(db) = IF db.evidence = <<>> THEN 0 ELSE 1  BY DEF FormatItem, PrimaryEvidence
<1> QED  BY <1>2, <1>3, <1>4, <1>5

(***************************************************************************)
(* The four steps of a report that add a number to those it holds.         *)
(***************************************************************************)
ReportCounts(p) == ReportCarved(p) \/ ReportEvents(p) \/ ReportLeads(p) \/ ReportExported(p)

\* What is asked for at which place, and what place comes next.
Asked(pc, next, c) ==
  \/ pc = "carved" /\ next = "events" /\ c = Len(db.carved)
  \/ pc = "events" /\ next = "leads" /\ c = Len(db.events)
  \/ pc = "leads" /\ next = "export" /\ c = Cardinality(Relevant(db))
  \/ pc = "export" /\ next = "certify" /\ c = FormatItem(db)

\* j with one number more.
CountedAs(j, n, c) ==
  /\ n \in Jobs /\ n.cmd = j.cmd /\ n.m = j.m /\ n.got = j.got /\ n.read = j.read
  /\ n.rows = Append(j.rows, c)
  /\ n.frames = IF j.pc = "carved" THEN CarvedFrames(db) ELSE j.frames
  /\ Asked(j.pc, n.pc, c)

LEMMA CountedIs ==
  ASSUME db \in Databases, NEW j \in Jobs, j.rows \in Seq(Nat), NEW pc, NEW c \in Nat,
         Asked(j.pc, pc, c),
         NEW n, n = IF j.pc = "carved"
                    THEN [j EXCEPT !.pc = pc, !.frames = CarvedFrames(db),
                                   !.rows = Append(j.rows, c)]
                    ELSE [j EXCEPT !.pc = pc, !.rows = Append(j.rows, c)]
  PROVE  CountedAs(j, n, c) /\ n.pc = pc
<1>1. Append(j.rows, c) \in Tables  BY AppendProperties DEF Tables
<1>2. CarvedFrames(db) \in Frames  BY CarvedFramesAre
<1>3. pc \in {"events", "leads", "export", "certify"}  BY DEF Asked
<1> DEFINE rows == Append(j.rows, c)
           frames == CarvedFrames(db)
<1> HIDE DEF rows, frames
<1>4. /\ n \in Jobs /\ n.cmd = j.cmd /\ n.m = j.m /\ n.got = j.got /\ n.read = j.read
      /\ n.pc = pc /\ n.rows = rows
      /\ n.frames = IF j.pc = "carved" THEN frames ELSE j.frames
  <2>1. CASE j.pc = "carved"
    <3>1. n = [j EXCEPT !.pc = pc, !.frames = frames, !.rows = rows]  BY <2>1 DEF rows, frames
    <3> QED  BY <1>1, <1>2, <1>3, <2>1, <3>1 DEF Jobs, rows, frames
  <2>2. CASE j.pc # "carved"
    <3>1. n = [j EXCEPT !.pc = pc, !.rows = rows]  BY <2>2 DEF rows
    <3> QED  BY <1>1, <1>3, <2>2, <3>1 DEF Jobs, rows
  <2> QED  BY <2>1, <2>2
<1> QED  BY <1>4 DEF CountedAs, rows, frames

LEMMA CountedTyped ==
  ASSUME NEW j, JobTyped(j), j.cmd = "report", NEW c \in Nat, NEW n, CountedAs(j, n, c)
  PROVE  JobTyped(n)
<1>1. j.rows \in Seq(Nat) /\ Len(j.rows) = RowsAt(j.pc)  BY DEF JobTyped, RowsTyped
<1>2. n.rows \in Seq(Nat) /\ Len(n.rows) = Len(j.rows) + 1
  BY <1>1, AppendProperties DEF CountedAs
<1>3. RowsAt(n.pc) = RowsAt(j.pc) + 1  BY DEF CountedAs, Asked, RowsAt
<1>4. n.cmd = "report"  BY DEF CountedAs
<1>5. RowsTyped(n)  BY <1>1, <1>2, <1>3, <1>4 DEF RowsTyped
<1>6. ReadingTyped(n)  BY DEF CountedAs, JobTyped, ReadingTyped
<1> QED  BY <1>4, <1>5, <1>6 DEF JobTyped, CountedAs

LEMMA CountsTaken ==
  ASSUME TypeInv, NEW p \in Procs, ReportCounts(p)
  PROVE  /\ job[p].cmd = "report" /\ JobTyped(job[p]) /\ job[p] \in Jobs
         /\ ReportExported(p) => job[p].pc = "export" /\ DOMAIN job[p].frames = {}
         /\ \E n : \E c \in Nat : Continue(p, n) /\ JobTyped(n) /\ CountedAs(job[p], n, c)
         /\ ReportExported(p) \/ job[p].pc # "export"
<1> DEFINE j == job[p]
<1>0. db \in Databases /\ JobsInv  BY DEF TypeInv, FilesInv
<1>1. /\ j.cmd = "report" /\ JobTyped(j) /\ j \in Jobs
      /\ ReportCarved(p) => j.pc = "carved"
      /\ ReportEvents(p) => j.pc = "events"
      /\ ReportLeads(p) => j.pc = "leads"
      /\ ReportExported(p) => j.pc = "export"
  BY <1>0, AtFacts DEF ReportCounts, ReportCarved, ReportEvents, ReportLeads, ReportExported
<1>2. j.rows \in Seq(Nat)  BY <1>1 DEF JobTyped, RowsTyped
<1>3. \E pc, n : \E c \in Nat :
        /\ Continue(p, n)
        /\ Asked(j.pc, pc, c)
        /\ n = IF j.pc = "carved"
               THEN [j EXCEPT !.pc = pc, !.frames = CarvedFrames(db), !.rows = Append(j.rows, c)]
               ELSE [j EXCEPT !.pc = pc, !.rows = Append(j.rows, c)]
  <2>1. CASE ReportCarved(p)
    <3>1. Asked(j.pc, "events", Len(db.carved)) /\ Len(db.carved) \in Nat
      BY <1>0, <1>1, <2>1, CountsAre DEF Asked
    <3>2. Continue(p, [j EXCEPT !.pc = "events", !.frames = CarvedFrames(db),
                                !.rows = Append(j.rows, Len(db.carved))])
      BY <2>1 DEF ReportCarved
    <3> HIDE DEF j
    <3> QED  BY <1>1, <2>1, <3>1, <3>2
  <2>2. CASE ReportEvents(p)
    <3>1. Asked(j.pc, "leads", Len(db.events)) /\ Len(db.events) \in Nat
      BY <1>0, <1>1, <2>2, CountsAre DEF Asked
    <3>2. Continue(p, [j EXCEPT !.pc = "leads", !.rows = Append(j.rows, Len(db.events))])
      BY <2>2 DEF ReportEvents
    <3> HIDE DEF j
    <3> QED  BY <1>1, <2>2, <3>1, <3>2
  <2>3. CASE ReportLeads(p)
    <3>1. /\ Asked(j.pc, "export", Cardinality(Relevant(db)))
          /\ Cardinality(Relevant(db)) \in Nat
      BY <1>0, <1>1, <2>3, CountsAre DEF Asked
    <3>2. Continue(p, [j EXCEPT !.pc = "export",
                                !.rows = Append(j.rows, Cardinality(Relevant(db)))])
      BY <2>3 DEF ReportLeads
    <3> HIDE DEF j
    <3> QED  BY <1>1, <2>3, <3>1, <3>2
  <2>4. CASE ReportExported(p)
    <3>1. Asked(j.pc, "certify", FormatItem(db)) /\ FormatItem(db) \in Nat
      BY <1>0, <1>1, <2>4, CountsAre DEF Asked
    <3>2. Continue(p, [j EXCEPT !.pc = "certify", !.rows = Append(j.rows, FormatItem(db))])
      BY <2>4 DEF ReportExported
    <3> HIDE DEF j
    <3> QED  BY <1>1, <2>4, <3>1, <3>2
  <2> QED  BY <2>1, <2>2, <2>3, <2>4 DEF ReportCounts
<1>4. PICK pc, n : \E c \in Nat :
        /\ Continue(p, n)
        /\ Asked(j.pc, pc, c)
        /\ n = IF j.pc = "carved"
               THEN [j EXCEPT !.pc = pc, !.frames = CarvedFrames(db), !.rows = Append(j.rows, c)]
               ELSE [j EXCEPT !.pc = pc, !.rows = Append(j.rows, c)]
  BY <1>3
<1>5. PICK c \in Nat :
        /\ Continue(p, n)
        /\ Asked(j.pc, pc, c)
        /\ n = IF j.pc = "carved"
               THEN [j EXCEPT !.pc = pc, !.frames = CarvedFrames(db), !.rows = Append(j.rows, c)]
               ELSE [j EXCEPT !.pc = pc, !.rows = Append(j.rows, c)]
  BY <1>4
<1> HIDE DEF j
<1>6. CountedAs(j, n, c)  BY <1>0, <1>1, <1>2, <1>5, CountedIs
<1>7. JobTyped(n)  BY <1>1, <1>6, CountedTyped
<1>8. ReportExported(p) => DOMAIN j.frames = {}  BY DEF ReportExported, j
<1>9. ReportExported(p) \/ j.pc # "export"  BY <1>1 DEF ReportCounts
<1> QED  BY <1>1, <1>5, <1>6, <1>7, <1>8, <1>9 DEF j

LEMMA ExportedTyped ==
  ASSUME NEW j, JobTyped(j), j.cmd = "report", j.pc \in {"export", "clip"}, NEW i
  PROVE  JobTyped(Exported(j, i))
<1> DEFINE n == Exported(j, i)
<1>1. j \in Jobs  BY DEF JobTyped
<1>2. /\ n \in Jobs /\ n.cmd = "report" /\ n.pc = "export" /\ n.m = j.m /\ n.got = j.got
      /\ n.rows = j.rows
  BY <1>1, ExportedIs
<1> HIDE DEF n
<1>3. ReadingTyped(n)  BY <1>2 DEF JobTyped, ReadingTyped
<1>4. RowsTyped(n)  BY <1>2 DEF JobTyped, RowsTyped, RowsAt
<1>5. JobTyped(n)  BY <1>2, <1>3, <1>4 DEF JobTyped
<1> QED  BY <1>5 DEF n

(***************************************************************************)
(* The bytes that are read for a clip, and the job that holds them.        *)
(***************************************************************************)
LEMMA FramesOf ==
  ASSUME NEW frames \in Frames
  PROVE  /\ IsFiniteSet(DOMAIN frames) /\ DOMAIN frames \subseteq Place
         /\ Cardinality(DOMAIN frames) \in Nat
         /\ \A i \in DOMAIN frames : frames[i] \in Frame
         /\ frames \in [DOMAIN frames -> Frame] /\ DOMAIN frames \in FinitePlaces
<1>1. PICK places \in FinitePlaces : frames \in [places -> Frame]  BY DEF Frames
<1>2. DOMAIN frames = places /\ IsFiniteSet(places) /\ places \subseteq Place
  BY <1>1 DEF FinitePlaces
<1>3. Cardinality(places) \in Nat  BY <1>2, FS_CardinalityType
<1> QED  BY <1>1, <1>2, <1>3

LEMMA BufferIs ==
  ASSUME image \in Images, NEW frame \in Frame, FrameEnd(frame) <= Len(image)
  PROVE  /\ SubSeq(image, frame.at, FrameEnd(frame)) \in Bytes
         /\ Len(SubSeq(image, frame.at, FrameEnd(frame))) = Len(frame.bytes)
         /\ \A k \in 1 .. Len(frame.bytes) :
              SubSeq(image, frame.at, FrameEnd(frame))[k] = image[frame.at + k - 1]
<1>1. image \in Bytes /\ Len(image) \in Nat  BY LenProperties DEF Bytes
<1>2. frame.at \in Place /\ Len(frame.bytes) \in Nat
  BY LenProperties DEF Frame, Bytes
<1> DEFINE from == frame.at
           to == FrameEnd(frame)
<1>3. from \in Place /\ to \in Int /\ to = from + Len(frame.bytes) - 1 /\ to <= Len(image)
  BY <1>2 DEF FrameEnd, Place
<1>4. \A k \in 1 .. Len(image) : image[k] \in Byte  BY <1>1, ElementOfSeq DEF Bytes
<1> HIDE DEF from, to
<1>5. \A k \in from .. to : image[k] \in Byte  BY <1>1, <1>3, <1>4 DEF Place
<1>6. /\ SubSeq(image, from, to) \in Seq(Byte)
      /\ Len(SubSeq(image, from, to)) = IF from <= to THEN to - from + 1 ELSE 0
      /\ \A k \in 1 .. to - from + 1 : SubSeq(image, from, to)[k] = image[from + k - 1]
  BY <1>3, <1>5, SubSeqProperties DEF Place
<1>7. (IF from <= to THEN to - from + 1 ELSE 0) = Len(frame.bytes)
      /\ to - from + 1 = Len(frame.bytes)
  BY <1>2, <1>3 DEF Place
<1> QED  BY <1>6, <1>7 DEF from, to, Bytes

\* The frames with what was read for one of them.
Read(frames, i) ==
  [frames EXCEPT ![i] = [at    |-> frames[i].at,
                         bytes |-> SubSeq(image, frames[i].at, FrameEnd(frames[i]))]]

LEMMA ReadTyped ==
  ASSUME image \in Images, NEW frames \in Frames, NEW i \in DOMAIN frames,
         FrameEnd(frames[i]) <= Len(image)
  PROVE  Read(frames, i) \in Frames
<1> DEFINE read == SubSeq(image, frames[i].at, FrameEnd(frames[i]))
           f == [at |-> frames[i].at, bytes |-> read]
<1>1. frames[i] \in Frame  BY FramesOf
<1>2. read \in Bytes  BY <1>1, BufferIs
<1>3. f \in Frame  BY <1>1, <1>2 DEF Frame
<1>4. Read(frames, i) = [frames EXCEPT ![i] = f]  BY DEF Read
<1> HIDE DEF f
<1>5. DOMAIN frames \in FinitePlaces /\ frames \in [DOMAIN frames -> Frame]  BY FramesOf
<1>6. [frames EXCEPT ![i] = f] \in [DOMAIN frames -> Frame]  BY <1>3, <1>5
<1> QED  BY <1>4, <1>5, <1>6 DEF Frames

LEMMA ClipOpens ==
  ASSUME NEW p, ReportClip(p)
  PROVE  \E frames : Continue(p, [job[p] EXCEPT !.pc = "clip", !.frames = frames])
BY DEF ReportClip

LEMMA ReportClipIs ==
  ASSUME TypeInv, NEW p \in Procs, ReportClip(p)
  PROVE  /\ At(p, "report", "export") /\ JobTyped(job[p]) /\ job[p] \in Jobs
         /\ \E i \in DOMAIN job[p].frames : \E n :
              LET frame == job[p].frames[i]
              IN  /\ IsNext(job[p], i)
                  /\ FrameEnd(frame) <= Len(image)
                  /\ clips' = ClipsBut(ClipNumber(job[p]), frame.at)
                       \cup {[n |-> ClipNumber(job[p]), at |-> frame.at, bytes |-> <<>>]}
                  /\ Continue(p, n) /\ JobTyped(n) /\ n \in Jobs
                  /\ n.cmd = "report" /\ n.pc = "clip" /\ n.m = job[p].m
                  /\ n.got = job[p].got /\ n.read = job[p].read /\ n.rows = job[p].rows
                  /\ n.frames = Read(job[p].frames, i)
<1> DEFINE j == job[p]
<1>1. At(p, "report", "export")  BY DEF ReportClip
<1>2. j \in Jobs /\ JobTyped(j) /\ j.cmd = "report" /\ j.pc = "export"
  BY <1>1, AtFacts DEF TypeInv
<1>3. PICK i \in DOMAIN j.frames :
        /\ IsNext(j, i)
        /\ FrameEnd(j.frames[i]) <= Len(image)
        /\ clips' = ClipsBut(ClipNumber(j), j.frames[i].at)
             \cup {[n |-> ClipNumber(j), at |-> j.frames[i].at, bytes |-> <<>>]}
        /\ Continue(p, [j EXCEPT
             !.pc = "clip",
             !.frames[i].bytes = SubSeq(image, j.frames[i].at, FrameEnd(j.frames[i]))])
  BY DEF ReportClip
<1> DEFINE frames == Read(j.frames, i)
           n == [j EXCEPT !.pc = "clip", !.frames = frames]
<1>4. image \in Images /\ j.frames \in Frames  BY <1>2 DEF TypeInv, WorldInv, Jobs
<1>5. frames \in Frames  BY <1>3, <1>4, ReadTyped
<1>6. Continue(p, n)
  <2>1. j.frames[i] \in Frame  BY <1>3, <1>4, FramesOf
  <2> DEFINE b == SubSeq(image, j.frames[i].at, FrameEnd(j.frames[i]))
  <2>2. frames = [j.frames EXCEPT ![i].bytes = b]
    <3>1. [j.frames[i] EXCEPT !.bytes = b] = [at |-> j.frames[i].at, bytes |-> b]
      <4> DEFINE f == j.frames[i]
      <4>1. f = [at |-> f.at, bytes |-> f.bytes]  BY <2>1 DEF Frame
      <4> HIDE DEF b, f
      <4>2. [f EXCEPT !.bytes = b] = [at |-> f.at, bytes |-> b]  BY <4>1
      <4> QED  BY <4>2 DEF f
    <3>2. [j.frames EXCEPT ![i].bytes = b] = [j.frames EXCEPT ![i] = [@ EXCEPT !.bytes = b]]
      OBVIOUS
    <3> QED  BY <3>1, <3>2 DEF Read
  <2>3. n = [j EXCEPT !.pc = "clip", !.frames[i].bytes = b]  BY <2>2
  <2> QED  BY <1>3, <2>3
<1> HIDE DEF frames
<1>7. /\ n \in Jobs /\ n.cmd = "report" /\ n.pc = "clip" /\ n.m = j.m /\ n.got = j.got
      /\ n.read = j.read /\ n.rows = j.rows /\ n.frames = frames
  BY <1>2, <1>5 DEF Jobs
<1> HIDE DEF n
<1>8. ReadingTyped(n)  BY <1>2, <1>7 DEF JobTyped, ReadingTyped
<1>9. RowsTyped(n)  BY <1>2, <1>7 DEF JobTyped, RowsTyped, RowsAt
<1>10. JobTyped(n)  BY <1>7, <1>8, <1>9 DEF JobTyped
<1>11. n.frames = Read(j.frames, i)  BY <1>7 DEF frames
<1> HIDE DEF j
<1>12. \E m : /\ Continue(p, m) /\ JobTyped(m) /\ m \in Jobs
              /\ m.cmd = "report" /\ m.pc = "clip" /\ m.m = j.m
              /\ m.got = j.got /\ m.read = j.read /\ m.rows = j.rows
              /\ m.frames = Read(j.frames, i)
  BY <1>6, <1>7, <1>10, <1>11
<1> QED  BY <1>1, <1>2, <1>3, <1>12 DEF j

LEMMA ReportClipWrittenIs ==
  ASSUME TypeInv, NEW p \in Procs, ReportClipWritten(p)
  PROVE  /\ At(p, "report", "clip") /\ JobTyped(job[p]) /\ job[p] \in Jobs
         /\ \E i \in DOMAIN job[p].frames, c \in clips :
              LET frame == job[p].frames[i]
              IN  \E k \in 0 .. Len(frame.bytes) :
                    /\ IsNext(job[p], i)
                    /\ c.n = ClipNumber(job[p]) /\ c.at = frame.at
                    /\ clips' = ClipsBut(ClipNumber(job[p]), frame.at)
                         \cup {[c EXCEPT !.bytes = WrittenOver(c.bytes, frame.bytes, k)]}
                    /\ \/ Finish(p)
                       \/ Continue(p, Exported(job[p], i)) /\ JobTyped(Exported(job[p], i))
<1>1. At(p, "report", "clip")  BY DEF ReportClipWritten
<1>2. job[p] \in Jobs /\ JobTyped(job[p]) /\ job[p].cmd = "report" /\ job[p].pc = "clip"
  BY <1>1, AtFacts DEF TypeInv
<1>3. \A i : JobTyped(Exported(job[p], i))  BY <1>2, ExportedTyped
<1>4. PICK i \in DOMAIN job[p].frames :
        LET frame == job[p].frames[i]
        IN  /\ IsNext(job[p], i)
            /\ \E c \in clips, k \in 0 .. Len(frame.bytes) :
                /\ c.n = ClipNumber(job[p]) /\ c.at = frame.at
                /\ clips' = ClipsBut(ClipNumber(job[p]), frame.at)
                             \cup {[c EXCEPT !.bytes = WrittenOver(@, frame.bytes, k)]}
                /\ Finish(p) \/ Continue(p, Exported(job[p], i))
  BY DEF ReportClipWritten
<1> QED  BY <1>1, <1>2, <1>3, <1>4

LEMMA ReportKeepsTypes ==
  ASSUME TypeInv, NEW p \in Procs, ReportStep(p)
  PROVE  JobsInv' /\ HistoryInv' /\ WorldInv'
<1>0. JobsInv  BY DEF TypeInv
<1>1. CASE ReportCounts(p)
  BY <1>1, CountsTaken, ContinueTyped
<1>2. CASE ReportClip(p)
  BY <1>2, ReportClipIs, ContinueTyped
<1>3. CASE ReportClipWritten(p)
  BY <1>3, ReportClipWrittenIs, ContinueTyped, FinishTyped
<1>4. CASE ReportUnreadable(p)
  BY <1>4, FinishTyped DEF ReportUnreadable
<1>5. CASE ReportCertify(p)
  <2> DEFINE j == job[p]
             n == [j EXCEPT !.pc = "document"]
  <2>1. JobTyped(j) /\ j.cmd = "report" /\ j.pc = "certify" /\ j \in Jobs
    BY <1>0, <1>5, AtFacts DEF ReportCertify
  <2>2. n.cmd = "report" /\ n.pc = "document" /\ n.rows = j.rows  BY <2>1 DEF Jobs
  <2>3. RowsTyped(n)  BY <2>1, <2>2 DEF JobTyped, RowsTyped, RowsAt
  <2>4. JobTyped(n)  BY <2>1, <2>3, PcMoves DEF PCs
  <2>5. Continue(p, n)  BY <1>5 DEF ReportCertify
  <2> QED  BY <2>4, <2>5, ContinueTyped
<1>6. CASE ReportDocument(p)
  BY <1>6, FinishTyped DEF ReportDocument
<1> QED  BY <1>1, <1>2, <1>3, <1>4, <1>5, <1>6 DEF ReportStep, ReportCounts

LEMMA TouchKeepsTypes ==
  ASSUME TypeInv, Touch
  PROVE  JobsInv' /\ HistoryInv' /\ WorldInv'
<1>1. JobsInv'  BY DEF TypeInv, JobsInv, Touch
<1>2. image' \in Images /\ touches' \in 0 .. MaxTouches /\ started' = started
  BY DEF TypeInv, WorldInv, Touch
<1>3. HistoryInv'  BY <1>2 DEF TypeInv, HistoryInv, Touch
<1>4. WorldInv'  BY <1>2 DEF TypeInv, WorldInv
<1> QED  BY <1>1, <1>3, <1>4

----------------------------------------------------------------------------
\* Which step changes which file.

FilesStep ==
  /\ UNCHANGED <<disk, manifest>> \/ \E p \in Procs : AcquireCreate(p) \/ AcquireWrite(p)
  /\ UNCHANGED certificate \/ \E p \in Procs : ReportCertify(p)
  /\ UNCHANGED documents \/ \E p \in Procs : ReportDocument(p)
  /\ UNCHANGED clips \/ \E p \in Procs : ReportClip(p) \/ ReportClipWritten(p)
  /\ UNCHANGED dbfile \/ dbfile' = TRUE

DbStep ==
  \/ UNCHANGED db
  \/ /\ dbfile' = TRUE
     /\ \E p \in Procs : /\ At(p, "parse", "store")
                         /\ db' = StoreExtraction(db, job[p].m, job[p].got)
  \/ \E p \in Procs : /\ At(p, "verify", "audit") /\ job[p].dbpath
                      /\ db' = LogAudit(db, job[p].rows[1])
                      /\ UNCHANGED dbfile
  \/ \E p \in Procs : /\ At(p, "carve", "store") /\ HasParent(db, job[p].rows)
                      /\ db' = StoreCarved(db, job[p].rows)
                      /\ UNCHANGED dbfile
  \/ \E p \in Procs : /\ At(p, "correlate", "store") /\ HasParent(db, job[p].rows)
                      /\ db' = StoreEvents(db, job[p].rows)
                      /\ UNCHANGED dbfile
  \/ \E p \in Procs : /\ At(p, "analyze", "store") /\ HasParent(db, job[p].rows)
                      /\ db' = StoreDetections(db, job[p].rows)
                      /\ UNCHANGED dbfile

LEMMA NextSteps ==
  ASSUME [Next]_vars
  PROVE  FilesStep /\ DbStep
<1>1. CASE UNCHANGED vars
  BY <1>1 DEF vars, casedir, FilesStep, DbStep
<1>2. CASE Touch
  BY <1>2 DEF Touch, casedir, FilesStep, DbStep
<1>3. ASSUME NEW p \in Procs, Start(p) PROVE FilesStep /\ DbStep
  <2>1. CASE \E b \in BlockSizes : AcquireStart(p, b)
    BY <2>1 DEF AcquireStart, casedir, FilesStep, DbStep
  <2>2. CASE ParseStart(p) \/ VerifyStart(p)
    BY <2>2 DEF ParseStart, VerifyStart, casedir, FilesStep, DbStep
  <2>3. CASE CarveStart(p) \/ Query(p) \/ CorrelateStart(p) \/ AnalyzeStart(p) \/ ReportStart(p)
    BY <2>3 DEF CarveStart, Query, CorrelateStart, AnalyzeStart, ReportStart,
                FilesKept, OpensDb, FilesStep, DbStep
  <2> QED  BY <1>3, <2>1, <2>2, <2>3 DEF Start
<1>4. ASSUME NEW p \in Procs, Abort(p) PROVE FilesStep /\ DbStep
  BY <1>4 DEF Abort, casedir, FilesStep, DbStep
<1>5. ASSUME NEW p \in Procs, AcquireStep(p) PROVE FilesStep /\ DbStep
  BY <1>5 DEF AcquireStep, AcquireBlock, AcquireRead, AcquireCreate, AcquireWrite, casedir,
              FilesStep, DbStep
<1>6. ASSUME NEW p \in Procs, ParseStep(p) PROVE FilesStep /\ DbStep
  <2>1. CASE ParseStore(p)
    BY <2>1 DEF ParseStore, FilesKept, OpensDb, FilesStep, DbStep
  <2> QED  BY <1>6, <2>1 DEF ParseStep, ParseBlock, ParseRefused, ParseRead, casedir,
                             FilesStep, DbStep
<1>7. ASSUME NEW p \in Procs, VerifyStep(p) PROVE FilesStep /\ DbStep
  <2>1. CASE VerifyAudit(p)
    BY <2>1 DEF VerifyAudit, FilesStep, DbStep
  <2> QED  BY <1>7, <2>1 DEF VerifyStep, VerifyBlock, VerifyRead, VerifyCompare, casedir,
                             FilesStep, DbStep
<1>8. ASSUME NEW p \in Procs, CarveStep(p) PROVE FilesStep /\ DbStep
  BY <1>8 DEF CarveStep, CarveScan, CarveStore, FilesKept, casedir, FilesStep, DbStep
<1>9. ASSUME NEW p \in Procs, CorrelateStore(p) PROVE FilesStep /\ DbStep
  BY <1>9 DEF CorrelateStore, FilesKept, FilesStep, DbStep
<1>10. ASSUME NEW p \in Procs, AnalyzeStep(p) PROVE FilesStep /\ DbStep
  BY <1>10 DEF AnalyzeStep, AnalyzeScan, AnalyzeStore, FilesKept, casedir, FilesStep, DbStep
<1>11. ASSUME NEW p \in Procs, ReportStep(p) PROVE FilesStep /\ DbStep
  <2>1. CASE ReportClip(p) \/ ReportClipWritten(p)
    BY <2>1 DEF ReportClip, ReportClipWritten, FilesStep, DbStep
  <2>2. CASE ReportCertify(p)
    BY <2>2 DEF ReportCertify, FilesStep, DbStep
  <2>3. CASE ReportDocument(p)
    BY <2>3 DEF ReportDocument, FilesStep, DbStep
  <2> QED  BY <1>11, <2>1, <2>2, <2>3 DEF ReportStep, ReportCarved, ReportEvents, ReportLeads,
                           ReportUnreadable, ReportExported, casedir, FilesStep, DbStep
<1> QED
  BY <1>1, <1>2, <1>3, <1>4, <1>5, <1>6, <1>7, <1>8, <1>9, <1>10, <1>11 DEF Next, Step

LEMMA NoDbAtWork ==
  ASSUME FilesInv, ~dbfile
  PROVE  db.evidence = <<>> /\ db.records = <<>>
BY DEF FilesInv, EmptyDb

LEMMA NoParent ==
  ASSUME NEW d \in Databases, d.evidence = <<>>, NEW rows, HasParent(d, rows)
  PROVE  rows = <<>>
<1>1. 1 \notin DOMAIN d.evidence  OBVIOUS
<1> QED  BY <1>1 DEF HasParent, PrimaryEvidence

----------------------------------------------------------------------------
\* A step is one of one process.

Untouched(p, q) ==
  job'[q] = job[q] /\ held'[q] = held[q] /\ verdict'[q] = verdict[q]

LEMMA OthersStay ==
  ASSUME TypeInv, NEW p \in Procs, Start(p) \/ Step(p) \/ Abort(p)
  PROVE  /\ UNCHANGED <<image, touches>>
         /\ \A q \in Procs \ {p} : Untouched(p, q)
<1> USE DEF TypeInv, JobsInv, HistoryInv
<1> DEFINE Stays == /\ UNCHANGED <<image, touches>>
                    /\ \A q \in Procs \ {p} : Untouched(p, q)
<1> SUFFICES Stays  OBVIOUS
<1>1. ASSUME NEW j, Begin(p, j) PROVE Stays
  BY <1>1 DEF Begin, Untouched
<1>2. ASSUME NEW j, Continue(p, j) PROVE Stays
  BY <1>2 DEF Continue, Untouched
<1>3. ASSUME Finish(p) PROVE Stays
  BY <1>3 DEF Finish, Untouched
<1>4. ASSUME VerifyCompare(p) PROVE Stays
  <2>1. PICK dbrows, v, j : /\ verdict' = [verdict EXCEPT ![p] = v]
                            /\ job' = [job EXCEPT ![p] = j]
    BY <1>4 DEF VerifyCompare
  <2> QED  BY <1>4, <2>1 DEF VerifyCompare, Untouched
<1>5. ASSUME Query(p) PROVE Stays
  BY <1>5 DEF Query, Untouched
<1> HIDE DEF Stays
<1>6. CASE Start(p)
  BY <1>1, <1>5, <1>6 DEF Start, AcquireStart, ParseStart, VerifyStart, CarveStart,
     CorrelateStart, AnalyzeStart, ReportStart
<1>7. CASE AcquireStep(p) \/ ParseStep(p)
  BY <1>2, <1>3, <1>7 DEF AcquireStep, AcquireBlock, AcquireRead, AcquireCreate, AcquireWrite,
     ParseStep, ParseBlock, ParseRefused, ParseRead, ParseStore
<1>8. CASE VerifyStep(p)
  BY <1>2, <1>3, <1>4, <1>8 DEF VerifyStep, VerifyBlock, VerifyRead, VerifyAudit
<1>9. CASE CarveStep(p) \/ CorrelateStore(p) \/ AnalyzeStep(p)
  BY <1>2, <1>3, <1>9 DEF CarveStep, CarveScan, CarveStore, CorrelateStore, AnalyzeStep,
     AnalyzeScan, AnalyzeStore
<1>10. CASE ReportStep(p)
  <2>1. CASE ReportClip(p)  BY <1>2, <2>1 DEF ReportClip
  <2>2. CASE ReportClipWritten(p)
    <3>1. (\E n : Continue(p, n)) \/ Finish(p)  BY <2>2 DEF ReportClipWritten
    <3> QED  BY <1>2, <1>3, <3>1
  <2> QED  BY <1>2, <1>3, <1>10, <2>1, <2>2 DEF ReportStep, ReportCarved, ReportEvents,
     ReportLeads, ReportUnreadable, ReportExported, ReportCertify, ReportDocument
<1>11. CASE Abort(p)
  BY <1>3, <1>11 DEF Abort
<1> QED  BY <1>6, <1>7, <1>8, <1>9, <1>10, <1>11 DEF Step

LEMMA NextCases ==
  ASSUME TypeInv, Next
  PROVE  \/ Touch
         \/ \E p \in Procs : /\ Start(p) \/ Step(p) \/ Abort(p)
                             /\ UNCHANGED <<image, touches>>
                             /\ \A q \in Procs \ {p} : Untouched(p, q)
BY OthersStay DEF Next

(***************************************************************************)
(* What a step leaves of the command and of what it knows of the database. *)
(***************************************************************************)
LEMMA StepKeepsCommand ==
  ASSUME TypeInv, NEW p \in Procs, Step(p)
  PROVE  \/ job'[p] = Idle
         \/ /\ job'[p].cmd = job[p].cmd
            /\ ~job[p].dbpath /\ ~dbfile => ~job'[p].dbpath
<1> DEFINE j == job[p]
           Kept == \/ job'[p] = Idle
                   \/ /\ job'[p].cmd = j.cmd
                      /\ ~j.dbpath /\ ~dbfile => ~job'[p].dbpath
<1> SUFFICES Kept  OBVIOUS
<1>0. j \in Jobs /\ p \in DOMAIN job  BY DEF TypeInv, JobsInv
<1>1. ASSUME NEW n, Continue(p, n) PROVE job'[p] = n
  BY <1>0, <1>1 DEF Continue
<1>2. ASSUME Finish(p) PROVE Kept
  BY <1>0, <1>2 DEF Finish
<1>3. ASSUME Continue(p, WithBlock(j)) PROVE Kept
  <2>1. job'[p].cmd = j.cmd /\ job'[p].dbpath = j.dbpath
    BY <1>0, <1>1, <1>3 DEF WithBlock, Jobs
  <2> QED  BY <2>1
<1>4. ASSUME NEW pc, Continue(p, [j EXCEPT !.pc = pc]) PROVE Kept
  <2>1. job'[p].cmd = j.cmd /\ job'[p].dbpath = j.dbpath
    BY <1>0, <1>1, <1>4 DEF Jobs
  <2> QED  BY <2>1
<1>5. ASSUME NEW pc, NEW rows, job' = [job EXCEPT ![p] = [j EXCEPT !.pc = pc, !.rows = rows]]
      PROVE  Kept
  <2>1. job'[p] = [j EXCEPT !.pc = pc, !.rows = rows]  BY <1>0, <1>5
  <2>2. job'[p].cmd = j.cmd /\ job'[p].dbpath = j.dbpath  BY <1>0, <2>1 DEF Jobs
  <2> QED  BY <2>2
<1>6. CASE AcquireRead(p)
  <2>1. job'[p].cmd = "acquire" /\ ~job'[p].dbpath
    BY <1>1, <1>6 DEF AcquireRead, Holding
  <2> QED  BY <1>6, <2>1 DEF AcquireRead, At
<1>7. CASE VerifyRead(p)
  <2>1. job'[p] = [j EXCEPT !.pc = "compare", !.dbpath = dbfile]
    BY <1>1, <1>7 DEF VerifyRead
  <2>2. job'[p].cmd = j.cmd /\ job'[p].dbpath = dbfile  BY <1>0, <2>1 DEF Jobs
  <2> QED  BY <2>2
<1>8. CASE VerifyCompare(p)
  <2>1. PICK rows : job' = [job EXCEPT ![p] = [j EXCEPT !.pc = "audit", !.rows = rows]]
    BY <1>8 DEF VerifyCompare
  <2> QED  BY <1>5, <2>1
<1>9. CASE ReportCarved(p)
  <2>1. job'[p].cmd = j.cmd /\ job'[p].dbpath = j.dbpath
    BY <1>0, <1>1, <1>9 DEF ReportCarved, Jobs
  <2> QED  BY <2>1
<1>10. CASE ReportClip(p) \/ ReportClipWritten(p)
  <2>1. CASE ReportClip(p)
    <3>1. PICK frames : Continue(p, [j EXCEPT !.pc = "clip", !.frames = frames])
      BY <2>1, ClipOpens
    <3>2. job'[p].cmd = j.cmd /\ job'[p].dbpath = j.dbpath  BY <1>0, <1>1, <3>1 DEF Jobs
    <3> QED  BY <3>2
  <2>2. CASE ReportClipWritten(p)
    <3>1. PICK i : Finish(p) \/ Continue(p, Exported(j, i))  BY <2>2 DEF ReportClipWritten
    <3>2. CASE Continue(p, Exported(j, i))
      <4>1. job'[p].cmd = j.cmd /\ job'[p].dbpath = j.dbpath
        BY <1>0, <1>1, <3>2 DEF Exported, Jobs
      <4> QED  BY <4>1
    <3> QED  BY <1>2, <3>1, <3>2
  <2> QED  BY <1>10, <2>1, <2>2
<1>11. CASE CarveScan(p)
  BY <1>5, <1>11 DEF CarveScan, Continue
<1>12. CASE AnalyzeScan(p)
  BY <1>5, <1>12 DEF AnalyzeScan, Continue
<1> HIDE DEF Kept, j
<1>13. CASE AcquireStep(p)
  <2>1. AcquireBlock(p) => Continue(p, WithBlock(j))  BY DEF AcquireBlock, j
  <2>2. AcquireCreate(p) => Continue(p, [j EXCEPT !.pc = "write"])  BY DEF AcquireCreate, j
  <2>3. AcquireWrite(p) => Finish(p)  BY DEF AcquireWrite
  <2> QED  BY <1>2, <1>3, <1>4, <1>6, <1>13, <2>1, <2>2, <2>3 DEF AcquireStep
<1>14. CASE ParseStep(p)
  <2>1. ParseBlock(p) => Continue(p, WithBlock(j))  BY DEF ParseBlock, j
  <2>2. ParseRead(p) => Continue(p, [j EXCEPT !.pc = "store"])  BY DEF ParseRead, j
  <2>3. ParseRefused(p) \/ ParseStore(p) => Finish(p)  BY DEF ParseRefused, ParseStore
  <2> QED  BY <1>2, <1>3, <1>4, <1>14, <2>1, <2>2, <2>3 DEF ParseStep
<1>15. CASE VerifyStep(p)
  <2>1. VerifyBlock(p) => Continue(p, WithBlock(j))  BY DEF VerifyBlock, j
  <2>2. VerifyAudit(p) => Finish(p)  BY DEF VerifyAudit
  <2> QED  BY <1>2, <1>3, <1>7, <1>8, <1>15, <2>1, <2>2 DEF VerifyStep
<1>16. CASE CarveStep(p) \/ CorrelateStore(p) \/ AnalyzeStep(p)
  <2>1. CarveStore(p) \/ CorrelateStore(p) \/ AnalyzeStore(p) => Finish(p)
    BY DEF CarveStore, CorrelateStore, AnalyzeStore
  <2> QED  BY <1>2, <1>11, <1>12, <1>16, <2>1 DEF CarveStep, AnalyzeStep
<1>17. CASE ReportStep(p)
  <2>1. ReportEvents(p) \/ ReportLeads(p) \/ ReportExported(p) =>
          \E pc, rows : job' = [job EXCEPT ![p] = [j EXCEPT !.pc = pc, !.rows = rows]]
    BY DEF ReportEvents, ReportLeads, ReportExported, Continue, j
  <2>2. ReportCertify(p) => Continue(p, [j EXCEPT !.pc = "document"])  BY DEF ReportCertify, j
  <2>3. ReportUnreadable(p) \/ ReportDocument(p) => Finish(p)
    BY DEF ReportUnreadable, ReportDocument
  <2> QED  BY <1>2, <1>4, <1>5, <1>9, <1>10, <1>17, <2>1, <2>2, <2>3 DEF ReportStep
<1> QED  BY <1>13, <1>14, <1>15, <1>16, <1>17 DEF Step

(***************************************************************************)
(* What a process holds after the first step of a command.                 *)
(***************************************************************************)
StartHolds(p) ==
  \/ \E b \in BlockSizes :
       job'[p] = Holding("acquire", "stream", ManifestOf(<<>>, b), <<>>)
  \/ /\ manifest \in Manifests
     /\ \/ job'[p] = Holding("parse", "read", manifest, <<>>)
        \/ job'[p] = Holding("verify", "read", manifest, <<>>)
        \/ job'[p] = Holding("carve", "scan", manifest, TargetBlocks)
        \/ job'[p] = Holding("analyze", "scan", manifest, db.records)
        \/ job'[p] = Holding("report", "carved", manifest, <<Len(db.records)>>)
  \/ \E found \in Seq({"event"}) :
       job'[p] = Holding("correlate", "store", NoManifest, found)

LEMMA StartIs ==
  ASSUME TypeInv, NEW p \in Procs, Start(p)
  PROVE  \/ Untouched(p, p)
         \/ held'[p] = {image} /\ verdict'[p] = NoVerdict /\ StartHolds(p)
<1> USE DEF TypeInv, JobsInv, HistoryInv
<1>1. ASSUME NEW j, Started(p, j)
      PROVE  held'[p] = {image} /\ verdict'[p] = NoVerdict /\ job'[p] = j
  BY <1>1 DEF Started
<1>2. CASE Query(p)  BY <1>2 DEF Query, Untouched
<1>3. CASE \E b \in BlockSizes : AcquireStart(p, b)
  <2>1. PICK b \in BlockSizes : AcquireStart(p, b)  BY <1>3
  <2>2. Started(p, Holding("acquire", "stream", ManifestOf(<<>>, b), <<>>))  BY <2>1, StartsAs
  <2> QED  BY <1>1, <2>2 DEF StartHolds
<1>4. CASE ParseStart(p)
  <2>1. manifest \in Manifests /\ Started(p, Holding("parse", "read", manifest, <<>>))
    BY <1>4, StartsAs
  <2> QED  BY <1>1, <2>1 DEF StartHolds
<1>5. CASE VerifyStart(p)
  <2>1. manifest \in Manifests /\ Started(p, Holding("verify", "read", manifest, <<>>))
    BY <1>5, StartsAs
  <2> QED  BY <1>1, <2>1 DEF StartHolds
<1>6. CASE CarveStart(p)
  <2>1. manifest \in Manifests /\ Started(p, Holding("carve", "scan", manifest, TargetBlocks))
    BY <1>6, StartsAs
  <2> QED  BY <1>1, <2>1 DEF StartHolds
<1>7. CASE AnalyzeStart(p)
  <2>1. manifest \in Manifests /\ Started(p, Holding("analyze", "scan", manifest, db.records))
    BY <1>7, StartsAs
  <2> QED  BY <1>1, <2>1 DEF StartHolds
<1>8. CASE ReportStart(p)
  <2>1. /\ manifest \in Manifests
        /\ Started(p, Holding("report", "carved", manifest, <<Len(db.records)>>))
    BY <1>8, StartsAs
  <2> QED  BY <1>1, <2>1 DEF StartHolds
<1>9. CASE CorrelateStart(p)
  <2>1. PICK found \in Seq({"event"}) :
          Started(p, Holding("correlate", "store", NoManifest, found))
    BY <1>9, StartsAs
  <2> QED  BY <1>1, <2>1 DEF StartHolds
<1> QED  BY <1>2, <1>3, <1>4, <1>5, <1>6, <1>7, <1>8, <1>9 DEF Start

LEMMA HoldingIs ==
  ASSUME NEW c, NEW pc, NEW m, NEW rows
  PROVE  /\ Holding(c, pc, m, rows).cmd = c /\ Holding(c, pc, m, rows).pc = pc
         /\ Holding(c, pc, m, rows).m = m /\ Holding(c, pc, m, rows).rows = rows
         /\ Holding(c, pc, m, rows).got = <<>> /\ Holding(c, pc, m, rows).read = <<>>
         /\ Holding(c, pc, m, rows).frames = <<>>
BY DEF Holding

(***************************************************************************)
(* A step is one of the command that runs.                                 *)
(***************************************************************************)
LEMMA StepOf ==
  ASSUME NEW p \in Procs, Step(p)
  PROVE  \/ AcquireStep(p) /\ job[p].cmd = "acquire"
         \/ ParseStep(p) /\ job[p].cmd = "parse"
         \/ VerifyStep(p) /\ job[p].cmd = "verify"
         \/ CarveStep(p) /\ job[p].cmd = "carve"
         \/ CorrelateStore(p) /\ job[p].cmd = "correlate"
         \/ AnalyzeStep(p) /\ job[p].cmd = "analyze"
         \/ ReportStep(p) /\ job[p].cmd = "report"
<1>1. AcquireStep(p) => job[p].cmd = "acquire"
  BY DEF AcquireStep, AcquireBlock, AcquireRead, AcquireCreate, AcquireWrite, At
<1>2. ParseStep(p) => job[p].cmd = "parse"
  BY DEF ParseStep, ParseBlock, ParseRefused, ParseRead, ParseStore, At
<1>3. VerifyStep(p) => job[p].cmd = "verify"
  BY DEF VerifyStep, VerifyBlock, VerifyRead, VerifyCompare, VerifyAudit, At
<1>4. CarveStep(p) => job[p].cmd = "carve"  BY DEF CarveStep, CarveScan, CarveStore, At
<1>5. CorrelateStore(p) => job[p].cmd = "correlate"  BY DEF CorrelateStore, At
<1>6. AnalyzeStep(p) => job[p].cmd = "analyze"  BY DEF AnalyzeStep, AnalyzeScan, AnalyzeStore, At
<1>7. ReportStep(p) => job[p].cmd = "report"
  <2>1. ReportClip(p) \/ ReportClipWritten(p) => job[p].cmd = "report"
    BY DEF ReportClip, ReportClipWritten, At
  <2> QED  BY <2>1 DEF ReportStep, ReportCarved, ReportEvents, ReportLeads, ReportUnreadable,
                       ReportExported, ReportCertify, ReportDocument, At
<1> QED  BY <1>1, <1>2, <1>3, <1>4, <1>5, <1>6, <1>7 DEF Step

(***************************************************************************)
(* What a step is to process q: none of its own, the medium changed, or    *)
(* one that starts, continues or ends its command.                         *)
(***************************************************************************)
LEMMA MoveOf ==
  ASSUME TypeInv, [Next]_vars, NEW q \in Procs
  PROVE  \/ UNCHANGED <<image, touches>> /\ Untouched(q, q)
         \/ Touch
         \/ UNCHANGED <<image, touches>> /\ (Start(q) \/ Step(q) \/ Abort(q))
<1>1. CASE UNCHANGED vars  BY <1>1 DEF vars, Untouched
<1>2. CASE Next
  <2>1. CASE Touch  BY <2>1
  <2>2. ASSUME NEW p \in Procs, Start(p) \/ Step(p) \/ Abort(p), UNCHANGED <<image, touches>>,
               \A r \in Procs \ {p} : Untouched(p, r)
        PROVE  UNCHANGED <<image, touches>> /\ (Untouched(q, q) \/ Start(q) \/ Step(q) \/ Abort(q))
    <3>1. CASE q = p  BY <2>2, <3>1
    <3>2. CASE q # p  BY <2>2, <3>2 DEF Untouched
    <3> QED  BY <3>1, <3>2
  <2> QED  BY <1>2, <2>1, <2>2, NextCases
<1> QED  BY <1>1, <1>2

LEMMA OpenKept ==
  ASSUME TypeInv, Next
  PROVE  OpenInv'
<1> DEFINE Opens(j) == j.dbpath \/ j.cmd \in {"carve", "correlate", "analyze", "report"}
<1>1. \A q \in Procs : Opens(job[q]) => dbfile  BY DEF TypeInv, OpenInv
<1>2. dbfile => dbfile'  BY NextSteps DEF FilesStep
<1>3. ~Opens(Idle)  BY DEF Idle, Holding
<1>4. SUFFICES ASSUME NEW q \in Procs, Opens(job'[q]) PROVE dbfile'
  BY DEF OpenInv
<1>5. CASE job'[q] = job[q]
  BY <1>1, <1>2, <1>4, <1>5
<1>6. CASE job'[q] # job[q]
  <2>1. PICK p \in Procs : /\ Start(p) \/ Step(p) \/ Abort(p)
                           /\ \A r \in Procs \ {p} : Untouched(p, r)
    BY <1>6, NextCases DEF Touch
  <2>2. q = p  BY <1>6, <2>1 DEF Untouched
  <2>3. p \in DOMAIN job /\ job[p] \in Jobs  BY DEF TypeInv, JobsInv
  <2>4. CASE Abort(p)
    <3>1. job'[p] = Idle  BY <2>3, <2>4 DEF Abort, Finish
    <3> QED  BY <1>3, <1>4, <2>2, <3>1
  <2>5. CASE Start(p)
    <3>1. ASSUME NEW j, Begin(p, j) PROVE job'[p] = j
      BY <2>3, <3>1 DEF Begin
    <3>2. CASE CarveStart(p) \/ CorrelateStart(p) \/ AnalyzeStart(p) \/ ReportStart(p) \/ Query(p)
      BY <3>2 DEF CarveStart, CorrelateStart, AnalyzeStart, ReportStart, Query, OpensDb
    <3>3. ASSUME \E b \in BlockSizes : AcquireStart(p, b) PROVE ~Opens(job'[p])
      <4>1. PICK b \in BlockSizes :
              job'[p] = Holding("acquire", "stream", ManifestOf(<<>>, b), <<>>)
        BY <3>1, <3>3 DEF AcquireStart
      <4> QED  BY <4>1 DEF Holding
    <3>4. ASSUME ParseStart(p) PROVE ~Opens(job'[p])
      <4>1. job'[p] = Holding("parse", "read", manifest, <<>>)
        BY <3>1, <3>4 DEF ParseStart
      <4> QED  BY <4>1 DEF Holding
    <3>5. ASSUME VerifyStart(p) PROVE ~Opens(job'[p])
      <4>1. job'[p] = Holding("verify", "read", manifest, <<>>)
        BY <3>1, <3>5 DEF VerifyStart
      <4> QED  BY <4>1 DEF Holding
    <3> HIDE DEF Opens
    <3> QED  BY <1>4, <2>2, <2>5, <3>2, <3>3, <3>4, <3>5 DEF Start
  <2>6. CASE Step(p)
    <3>1. \/ job'[p] = Idle
          \/ /\ job'[p].cmd = job[p].cmd
             /\ ~job[p].dbpath /\ ~dbfile => ~job'[p].dbpath
      BY <2>6, StepKeepsCommand
    <3>2. CASE job'[p] = Idle  BY <1>3, <1>4, <2>2, <3>2
    <3>3. CASE /\ job'[p].cmd = job[p].cmd
               /\ ~job[p].dbpath /\ ~dbfile => ~job'[p].dbpath
      <4>1. ~dbfile => ~Opens(job[p])  BY <1>1
      <4>2. ~dbfile => ~Opens(job'[p])  BY <3>3, <4>1
      <4> HIDE DEF Opens
      <4> QED  BY <1>2, <1>4, <2>2, <4>2
    <3> QED  BY <3>1, <3>2, <3>3
  <2> HIDE DEF Opens
  <2> QED  BY <2>1, <2>4, <2>5, <2>6
<1> QED  BY <1>5, <1>6

(***************************************************************************)
(* What is stored in a step, with its type.                                *)
(***************************************************************************)
LEMMA StoredTypes ==
  ASSUME TypeInv, NEW p \in Procs
  PROVE  /\ At(p, "parse", "store") => job[p].m \in Manifests /\ job[p].got \in Seq(Block)
         /\ At(p, "verify", "audit") => job[p].rows[1] \in BOOLEAN
         /\ At(p, "carve", "store") => job[p].rows \in Seq(Frame) /\ dbfile
         /\ At(p, "correlate", "store") => job[p].rows \in Seq({"event"}) /\ dbfile
         /\ At(p, "analyze", "store") => job[p].rows \in Seq(Detection) /\ dbfile
<1>0. JobsInv /\ JobTyped(job[p]) /\ RowsTyped(job[p]) /\ job[p] \in Jobs
  BY DEF TypeInv, JobsInv, JobTyped
<1>1. job[p].got \in Seq(Block)  BY <1>0, JobFields
<1>2. At(p, "parse", "store") => job[p].m \in Manifests  BY <1>0, AtFacts
<1>3. ASSUME At(p, "verify", "audit") PROVE job[p].rows[1] \in BOOLEAN
  <2>1. job[p].rows \in Seq(BOOLEAN) /\ Len(job[p].rows) = 1  BY <1>0, <1>3 DEF RowsTyped, At
  <2> QED  BY <2>1, ElementOfSeq
<1>4. /\ At(p, "carve", "store") => job[p].rows \in Seq(Frame)
      /\ At(p, "correlate", "store") => job[p].rows \in Seq({"event"})
      /\ At(p, "analyze", "store") => job[p].rows \in Seq(Detection)
  BY <1>0 DEF RowsTyped, At
<1>5. job[p].cmd \in {"carve", "correlate", "analyze"} => dbfile  BY DEF TypeInv, OpenInv
<1> QED  BY <1>1, <1>2, <1>3, <1>4, <1>5 DEF At

LEMMA DbKept ==
  ASSUME TypeInv, DbStep
  PROVE  db' \in Databases
<1>0. db \in Databases  BY DEF TypeInv, FilesInv
<1>1. CASE UNCHANGED db  BY <1>0, <1>1
<1>2. ASSUME NEW p \in Procs, At(p, "parse", "store"),
             db' = StoreExtraction(db, job[p].m, job[p].got)
      PROVE  db' \in Databases
  BY <1>0, <1>2, StoredTypes, StoreExtractionIs
<1>3. ASSUME NEW p \in Procs, At(p, "verify", "audit"), db' = LogAudit(db, job[p].rows[1])
      PROVE  db' \in Databases
  <2>1. job[p].rows[1] \in BOOLEAN  BY <1>3, StoredTypes
  <2> QED  BY <1>0, <1>3, <2>1, StoreRowsAre
<1>4. ASSUME NEW p \in Procs, At(p, "carve", "store"), db' = StoreCarved(db, job[p].rows)
      PROVE  db' \in Databases
  BY <1>0, <1>4, StoredTypes, StoreRowsAre
<1>5. ASSUME NEW p \in Procs, At(p, "correlate", "store"), db' = StoreEvents(db, job[p].rows)
      PROVE  db' \in Databases
  BY <1>0, <1>5, StoredTypes, StoreRowsAre
<1>6. ASSUME NEW p \in Procs, At(p, "analyze", "store"), db' = StoreDetections(db, job[p].rows)
      PROVE  db' \in Databases
  BY <1>0, <1>6, StoredTypes, StoreRowsAre
<1> QED  BY <1>1, <1>2, <1>3, <1>4, <1>5, <1>6 DEF DbStep

LEMMA EmptyDbKept ==
  ASSUME TypeInv, [Next]_vars, ~dbfile'
  PROVE  db' = EmptyDb
<1>1. FilesStep /\ DbStep  BY NextSteps
<1>2. dbfile \in BOOLEAN /\ ~dbfile  BY <1>1 DEF FilesStep, TypeInv, FilesInv
<1>3. db = EmptyDb  BY <1>2 DEF TypeInv, FilesInv
<1>4. \A p \in Procs : At(p, "verify", "audit") /\ job[p].dbpath => dbfile
  BY DEF TypeInv, OpenInv
<1>5. UNCHANGED db  BY <1>1, <1>2, <1>4, StoredTypes DEF DbStep
<1> QED  BY <1>3, <1>5

LEMMA ReportOfIs ==
  ASSUME NEW j, JobTyped(j), j.cmd = "report", j.pc \in {"certify", "document"}
  PROVE  /\ ReportOf(j) \in Reports /\ ReportOf(j).present
         /\ \A i \in 1 .. 4 : ReportOf(j).counts[i] = j.rows[i]
         /\ ReportOf(j).item = j.rows[5]
<1>1. j.m \in Manifests /\ j.rows \in Seq(Nat) /\ Len(j.rows) = 5
  BY DEF JobTyped, ReadingTyped, RowsTyped, RowsAt
<1>2. j.m.whole_image \in Bytes  BY <1>1, ManifestFields
<1>3. \A i \in 1 .. 5 : j.rows[i] \in Nat  BY <1>1, ElementOfSeq
<1>4. /\ SubSeq(j.rows, 1, 4) \in Seq(Nat)
      /\ \A i \in 1 .. 4 : SubSeq(j.rows, 1, 4)[i] = j.rows[i]
  <2>1. \A i \in 1 .. 4 : j.rows[i] \in Nat  BY <1>3
  <2>2. /\ SubSeq(j.rows, 1, 4) \in Seq(Nat)
        /\ \A i \in 1 .. 4 - 1 + 1 : SubSeq(j.rows, 1, 4)[i] = j.rows[1 + i - 1]
    BY <2>1, SubSeqProperties
  <2> QED  BY <2>2
<1> QED  BY <1>1, <1>2, <1>3, <1>4 DEF ReportOf, Reports

LEMMA WrittenOverIs ==
  ASSUME NEW old \in Bytes, NEW new \in Bytes, NEW k \in 0 .. Len(new)
  PROVE  /\ WrittenOver(old, new, k) \in Bytes
         /\ Len(WrittenOver(old, new, k)) = IF k <= Len(old) THEN Len(old) ELSE k
         /\ \A l \in 1 .. Len(WrittenOver(old, new, k)) :
              WrittenOver(old, new, k)[l] = IF l <= k THEN new[l] ELSE old[l]
<1> DEFINE s == SubSeq(new, 1, k)
           t == SubSeq(old, k + 1, Len(old))
<1>1. old \in Seq(Byte) /\ new \in Seq(Byte) /\ Len(old) \in Nat /\ Len(new) \in Nat
  BY LenProperties DEF Bytes
<1>2. k \in Nat /\ k <= Len(new)  BY <1>1
<1>3. \A l \in 1 .. Len(old) : old[l] \in Byte  BY <1>1, ElementOfSeq
<1>4. \A l \in 1 .. Len(new) : new[l] \in Byte  BY <1>1, ElementOfSeq
<1>5. s \in Seq(Byte) /\ Len(s) = k /\ \A l \in 1 .. k : s[l] = new[l]
  <2>1. \A l \in 1 .. k : new[l] \in Byte  BY <1>1, <1>2, <1>4
  <2>2. /\ s \in Seq(Byte)
        /\ Len(s) = IF 1 <= k THEN k - 1 + 1 ELSE 0
        /\ \A l \in 1 .. k - 1 + 1 : s[l] = new[1 + l - 1]
    BY <1>2, <2>1, SubSeqProperties
  <2> HIDE DEF s
  <2> QED  BY <1>2, <2>2
<1>6. /\ t \in Seq(Byte) /\ Len(t) = IF k <= Len(old) THEN Len(old) - k ELSE 0
      /\ \A l \in 1 .. Len(old) - k : t[l] = old[k + l]
  <2>1. \A l \in k + 1 .. Len(old) : old[l] \in Byte  BY <1>1, <1>2, <1>3
  <2>2. /\ t \in Seq(Byte)
        /\ Len(t) = IF k + 1 <= Len(old) THEN Len(old) - (k + 1) + 1 ELSE 0
        /\ \A l \in 1 .. Len(old) - (k + 1) + 1 : t[l] = old[k + 1 + l - 1]
    BY <1>1, <1>2, <2>1, SubSeqProperties
  <2> HIDE DEF t
  <2>3. Len(t) = IF k <= Len(old) THEN Len(old) - k ELSE 0
    <3>1. CASE k + 1 <= Len(old)
      <4>1. Len(t) = Len(old) - (k + 1) + 1  BY <2>2, <3>1
      <4> QED  BY <1>1, <1>2, <3>1, <4>1
    <3>2. CASE ~(k + 1 <= Len(old))
      <4>1. Len(t) = 0  BY <2>2, <3>2
      <4>2. k = Len(old) \/ ~(k <= Len(old))  BY <1>1, <1>2, <3>2
      <4> QED  BY <1>1, <1>2, <4>1, <4>2
    <3> QED  BY <3>1, <3>2
  <2>4. ASSUME NEW l \in 1 .. Len(old) - k PROVE t[l] = old[k + l]
    <3>1. l \in 1 .. Len(old) - (k + 1) + 1 /\ k + 1 + l - 1 = k + l  BY <1>1, <1>2
    <3> QED  BY <2>2, <3>1
  <2> QED  BY <2>2, <2>3, <2>4
<1>7. WrittenOver(old, new, k) = s \o t  BY DEF WrittenOver
<1> HIDE DEF s, t
<1>8. /\ s \o t \in Seq(Byte) /\ Len(s \o t) = Len(s) + Len(t)
      /\ \A l \in 1 .. Len(s) + Len(t) :
           (s \o t)[l] = IF l <= Len(s) THEN s[l] ELSE t[l - Len(s)]
  BY <1>5, <1>6, ConcatProperties
<1>9. Len(s \o t) = IF k <= Len(old) THEN Len(old) ELSE k
  BY <1>1, <1>2, <1>5, <1>6, <1>8
<1>10. ASSUME NEW l \in 1 .. Len(s \o t)
       PROVE  (s \o t)[l] = IF l <= k THEN new[l] ELSE old[l]
  <2>1. CASE l <= k  BY <1>2, <1>5, <1>6, <1>8, <1>9, <2>1
  <2>2. CASE l > k
    <3>1. (s \o t)[l] = t[l - k] /\ l - k \in 1 .. Len(old) - k
      BY <1>1, <1>2, <1>5, <1>6, <1>8, <1>9, <2>2
    <3>2. t[l - k] = old[k + (l - k)]  BY <1>6, <3>1
    <3>3. k + (l - k) = l  BY <1>1, <1>2, <1>9
    <3> QED  BY <2>2, <3>1, <3>2, <3>3, <1>2, <1>9
  <2> QED  BY <1>1, <1>2, <1>9, <2>1, <2>2
<1> QED  BY <1>7, <1>8, <1>9, <1>10 DEF Bytes

LEMMA ClipNumberIs ==
  ASSUME NEW j, JobTyped(j), j.cmd = "report", j.pc \in {"export", "clip"}
  PROVE  ClipNumber(j) \in Int
<1>1. j.rows \in Seq(Nat) /\ Len(j.rows) = 4  BY DEF JobTyped, RowsTyped, RowsAt
<1>2. j.rows[2] \in Nat  BY <1>1, ElementOfSeq
<1>3. j.frames \in Frames  BY DEF JobTyped, Jobs
<1>4. Cardinality(DOMAIN j.frames) \in Nat  BY <1>3, FramesOf
<1> QED  BY <1>2, <1>4 DEF ClipNumber

LEMMA ClipsKept ==
  ASSUME TypeInv, NEW p \in Procs, ReportClip(p) \/ ReportClipWritten(p)
  PROVE  clips' \subseteq [n : Int, at : Place, bytes : Bytes]
<1> DEFINE Clip == [n : Int, at : Place, bytes : Bytes]
<1>1. clips \subseteq Clip  BY DEF TypeInv, FilesInv
<1>2. CASE ReportClip(p)
  <2>1. PICK i \in DOMAIN job[p].frames :
          clips' = ClipsBut(ClipNumber(job[p]), job[p].frames[i].at)
            \cup {[n |-> ClipNumber(job[p]), at |-> job[p].frames[i].at, bytes |-> <<>>]}
    BY <1>2, ReportClipIs
  <2>2. JobTyped(job[p]) /\ job[p].cmd = "report" /\ job[p].pc = "export" /\ job[p] \in Jobs
    BY <1>2, ReportClipIs DEF At
  <2>3. ClipNumber(job[p]) \in Int  BY <2>2, ClipNumberIs
  <2>4. job[p].frames[i].at \in Place  BY <2>1, <2>2, FramesOf DEF Jobs, Frame
  <2>5. <<>> \in Bytes  BY NoRows DEF Bytes
  <2> QED  BY <1>1, <2>1, <2>3, <2>4, <2>5 DEF ClipsBut
<1>3. CASE ReportClipWritten(p)
  <2>1. PICK i \in DOMAIN job[p].frames, c \in clips : \E k \in 0 .. Len(job[p].frames[i].bytes) :
          clips' = ClipsBut(ClipNumber(job[p]), job[p].frames[i].at)
            \cup {[c EXCEPT !.bytes = WrittenOver(c.bytes, job[p].frames[i].bytes, k)]}
    BY <1>3, ReportClipWrittenIs
  <2>2. PICK k \in 0 .. Len(job[p].frames[i].bytes) :
          clips' = ClipsBut(ClipNumber(job[p]), job[p].frames[i].at)
            \cup {[c EXCEPT !.bytes = WrittenOver(c.bytes, job[p].frames[i].bytes, k)]}
    BY <2>1
  <2>3. job[p] \in Jobs  BY <1>3, ReportClipWrittenIs
  <2>4. job[p].frames[i].bytes \in Bytes  BY <2>1, <2>3, FramesOf DEF Jobs, Frame
  <2>5. c \in Clip /\ c.bytes \in Bytes  BY <1>1, <2>1
  <2>6. WrittenOver(c.bytes, job[p].frames[i].bytes, k) \in Bytes
    BY <2>2, <2>4, <2>5, WrittenOverIs
  <2>7. [c EXCEPT !.bytes = WrittenOver(c.bytes, job[p].frames[i].bytes, k)] \in Clip
    BY <2>5, <2>6
  <2> QED  BY <1>1, <2>2, <2>7 DEF ClipsBut
<1> QED  BY <1>2, <1>3

LEMMA FilesTyped ==
  ASSUME TypeInv, [Next]_vars
  PROVE  FilesInv'
<1>0. FilesStep /\ DbStep /\ FilesInv  BY NextSteps DEF TypeInv
<1>1. dbfile' \in BOOLEAN  BY <1>0 DEF FilesStep, FilesInv
<1>2. ~dbfile' => db' = EmptyDb  BY EmptyDbKept
<1>3. db' \in Databases  BY <1>0, DbKept
<1>4. /\ disk' \in {"absent", "torn", "complete"}
      /\ manifest' \in Manifests \cup {NoManifest}
      /\ disk' = "complete" => manifest' \in Manifests
  <2>1. CASE UNCHANGED <<disk, manifest>>  BY <1>0, <2>1 DEF FilesInv
  <2>2. ASSUME NEW p \in Procs, AcquireCreate(p)
        PROVE  /\ disk' = "torn" /\ manifest' = manifest
    BY <2>2 DEF AcquireCreate
  <2>3. ASSUME NEW p \in Procs, AcquireWrite(p)
        PROVE  disk' \in {"complete", "torn"} /\ manifest' \in Manifests
    <3>1. At(p, "acquire", "write")  BY <2>3 DEF AcquireWrite
    <3>2. job[p].m \in Manifests  BY <3>1, AtFacts DEF TypeInv
    <3> QED  BY <2>3, <3>2 DEF AcquireWrite
  <2> QED  BY <1>0, <2>1, <2>2, <2>3 DEF FilesStep, FilesInv
<1>5. certificate' \in Reports \cup {NoFile}
  <2>1. ASSUME NEW p \in Procs, ReportCertify(p) PROVE certificate' \in Reports
    <3>1. At(p, "report", "certify") /\ certificate' = ReportOf(job[p])
      BY <2>1 DEF ReportCertify
    <3> QED  BY <3>1, AtFacts, ReportOfIs DEF TypeInv
  <2> QED  BY <1>0, <2>1 DEF FilesStep, FilesInv
<1>6. documents' \in Reports \cup {NoFile}
  <2>1. ASSUME NEW p \in Procs, ReportDocument(p) PROVE documents' \in Reports
    <3>1. At(p, "report", "document") /\ documents' = ReportOf(job[p])
      BY <2>1 DEF ReportDocument
    <3> QED  BY <3>1, AtFacts, ReportOfIs DEF TypeInv
  <2> QED  BY <1>0, <2>1 DEF FilesStep, FilesInv
<1>7. clips' \subseteq [n : Int, at : Place, bytes : Bytes]
  BY <1>0, ClipsKept DEF FilesStep, FilesInv
<1> QED  BY <1>1, <1>2, <1>3, <1>4, <1>5, <1>6, <1>7 DEF FilesInv

LEMMA AbortKeepsTypes ==
  ASSUME TypeInv, NEW p \in Procs, Abort(p) \/ CorrelateStore(p)
  PROVE  JobsInv' /\ HistoryInv' /\ WorldInv'
BY FinishTyped DEF Abort, CorrelateStore

LEMMA TypesKept ==
  ASSUME TypeInv, [Next]_vars
  PROVE  TypeInv'
<1>1. CASE UNCHANGED vars
  <2>1. JobsInv' /\ HistoryInv' /\ WorldInv' /\ OpenInv'
    BY <1>1 DEF TypeInv, JobsInv, HistoryInv, WorldInv, OpenInv, vars, casedir
  <2> QED  BY <2>1, FilesTyped DEF TypeInv
<1>2. CASE Next
  <2>1. JobsInv' /\ HistoryInv' /\ WorldInv'
    BY <1>2, StartKeepsTypes, AcquireKeepsTypes, ParseKeepsTypes, VerifyKeepsTypes,
       CarveKeepsTypes, AnalyzeKeepsTypes, ReportKeepsTypes, AbortKeepsTypes, TouchKeepsTypes
       DEF Next, Step
  <2> QED  BY <1>2, <2>1, FilesTyped, OpenKept DEF TypeInv
<1> QED  BY <1>1, <1>2

LEMMA TypesInit ==
  ASSUME Init
  PROVE  TypeInv
<1>1. WorldInv  BY DEF Init, WorldInv
<1>2. db \in Databases /\ db = EmptyDb  BY EmptyDbTyped DEF Init
<1>3. manifest \in Manifests \cup {NoManifest} /\ (disk = "complete" => manifest \in Manifests)
  <2>1. CASE Before = {}  BY <2>1 DEF Init
  <2>2. CASE Before # {}
    <3>1. PICK b \in Before : manifest = ManifestOf(image, b)  BY <2>2 DEF Init
    <3>2. image \in Bytes /\ b \in BlockSizes  BY <1>1, <3>1 DEF WorldInv, Bytes
    <3> QED  BY <3>1, <3>2, ManifestIs
  <2> QED  BY <2>1, <2>2
<1>4. FilesInv  BY <1>2, <1>3 DEF Init, FilesInv
<1>5. JobsInv
  <2>1. Idle \in Jobs /\ JobTyped(Idle)  BY IdleTyped DEF JobTyped
  <2> QED  BY <2>1 DEF Init, JobsInv
<1>6. OpenInv  BY DEF Init, OpenInv, Idle, Holding
<1>7. HistoryInv  BY DEF Init, HistoryInv
<1> QED  BY <1>1, <1>4, <1>5, <1>6, <1>7 DEF TypeInv

(***************************************************************************)
(* Whatever runs beside it, is killed or run again: a command holds the    *)
(* rows, blocks and manifest that belong to the place it has reached, and  *)
(* the tables and files hold what such commands can have written           *)
(* (dvrft/src/main.rs, CaseDatabase).                                      *)
(***************************************************************************)
THEOREM TypesInvariant == Spec => []TypeInv
<1>1. Init => TypeInv  BY TypesInit
<1>2. TypeInv /\ [Next]_vars => TypeInv'  BY TypesKept
<1> QED  BY <1>1, <1>2, PTL DEF Spec

LEMMA TypesImplyTypeOK ==
  ASSUME TypeInv
  PROVE  TypeOK
<1>1. disk = "complete" => manifest.block_size \in BlockSizes
  BY ManifestFields DEF TypeInv, FilesInv
<1>2. \A i \in DOMAIN db.records : db.records[i].block_index \in Nat \ {0}
  <2>1. db.records \in Seq(Record)  BY DEF TypeInv, FilesInv, Databases
  <2>2. \A i \in DOMAIN db.records : db.records[i] \in Record
    BY <2>1, LenProperties, ElementOfSeq
  <2> QED  BY <2>2 DEF Record, Place
<1>3. ASSUME NEW p \in Procs
      PROVE  /\ job[p].cmd \in Commands \cup {"none"}
             /\ held[p] \subseteq Images
             /\ job[p].cmd # "acquire" => Len(job[p].got) <= job[p].m.block_count
  <2>1. JobTyped(job[p]) /\ job[p] \in Jobs  BY DEF TypeInv, JobsInv
  <2>2. held[p] \subseteq Images  BY DEF TypeInv, HistoryInv
  <2> QED  BY <2>1, <2>2 DEF JobTyped, ReadingTyped, Jobs
<1> QED  BY <1>1, <1>2, <1>3 DEF TypeOK, TypeInv, WorldInv, FilesInv

(***************************************************************************)
(* Commands side by side, killed anywhere, over a medium somebody writes,  *)
(* never hold more blocks than their manifest counts, and a complete       *)
(* manifest is that of one string in a block size somebody asked for.      *)
(***************************************************************************)
THEOREM TypeCorrect == Spec => []TypeOK
BY TypesInvariant, TypesImplyTypeOK, PTL

----------------------------------------------------------------------------
\* The tables only grow.

LEMMA GrowsByConcat ==
  ASSUME NEW S, NEW t \in Seq(S), NEW v \in Seq(S)
  PROVE  GrowsFrom(t, t \o v)
<1>1. Len(t) \in Nat /\ Len(v) \in Nat  BY LenProperties
<1>2. /\ t \o v \in Seq(S) /\ Len(t \o v) = Len(t) + Len(v)
      /\ \A k \in 1 .. Len(t) : (t \o v)[k] = t[k]
  BY <1>1, ConcatProperties
<1> DEFINE w == t \o v
           n == Len(t)
<1> HIDE DEF w
<1>3. \A k \in 1 .. n : w[k] \in S  BY <1>2, ElementOfSeq DEF w
<1>4. /\ SubSeq(w, 1, n) \in Seq(S)
      /\ Len(SubSeq(w, 1, n)) = IF 1 <= n THEN n - 1 + 1 ELSE 0
      /\ \A k \in 1 .. n - 1 + 1 : SubSeq(w, 1, n)[k] = w[1 + k - 1]
  BY <1>1, <1>3, SubSeqProperties
<1>5. Len(SubSeq(w, 1, n)) = n  BY <1>1, <1>4
<1>6. \A k \in 1 .. n : SubSeq(w, 1, n)[k] = t[k]  BY <1>1, <1>2, <1>4 DEF w
<1>7. SubSeq(w, 1, n) = t  BY <1>4, <1>5, <1>6, SeqEqual
<1>8. n <= Len(w)  BY <1>1, <1>2 DEF w
<1> QED  BY <1>7, <1>8 DEF GrowsFrom, w

LEMMA GrowsByAppend ==
  ASSUME NEW S, NEW t \in Seq(S), NEW e \in S
  PROVE  GrowsFrom(t, Append(t, e))
<1>1. Append(t, e) = t \o <<e>> /\ <<e>> \in Seq(S)  BY AppendIsConcat
<1> QED  BY <1>1, GrowsByConcat

LEMMA GrowsFromItself ==
  ASSUME NEW S, NEW t \in Seq(S)
  PROVE  GrowsFrom(t, t)
BY SubSeqFull, LenProperties DEF GrowsFrom

DbGrows ==
  /\ GrowsFrom(db.evidence, db'.evidence)
  /\ GrowsFrom(db.records, db'.records)
  /\ GrowsFrom(db.carved, db'.carved)
  /\ GrowsFrom(db.events, db'.events)
  /\ GrowsFrom(db.detections, db'.detections)
  /\ GrowsFrom(db.audits, db'.audits)

(***************************************************************************)
(***************************************************************************)
(* What a step adds to which table.                                        *)
(***************************************************************************)
TablesKept(tables) == \A table \in tables : db'[table] = db[table]

Extracts(p) ==
  /\ At(p, "parse", "store")
  /\ db'.evidence = Append(db.evidence, EvidenceOf(job[p].m))
  /\ db'.records = db.records \o RecordsOf(Len(db.evidence) + 1, job[p].got)
  /\ TablesKept({"carved", "events", "detections", "audits"})

Audits(p) ==
  /\ At(p, "verify", "audit")
  /\ db'.audits = Append(db.audits, job[p].rows[1])
  /\ TablesKept({"evidence", "records", "carved", "events", "detections"})

Adds(p, c, table) ==
  /\ At(p, c, "store") /\ HasParent(db, job[p].rows)
  /\ db'[table] = db[table] \o Owned(db, job[p].rows)
  /\ TablesKept({"evidence", "records", "carved", "events", "detections", "audits"} \ {table})

LEMMA DbStepCases ==
  ASSUME TypeInv, DbStep
  PROVE  \/ UNCHANGED db
         \/ \E p \in Procs : \/ Extracts(p) \/ Audits(p)
                             \/ Adds(p, "carve", "carved")
                             \/ Adds(p, "correlate", "events")
                             \/ Adds(p, "analyze", "detections")
<1>0. db \in Databases  BY DEF TypeInv, FilesInv
<1>1. ASSUME NEW p \in Procs, At(p, "parse", "store"),
             db' = StoreExtraction(db, job[p].m, job[p].got)
      PROVE  Extracts(p)
  <2> DEFINE evidence == Append(db.evidence, EvidenceOf(job[p].m))
             records == db.records \o RecordsOf(Len(db.evidence) + 1, job[p].got)
  <2>1. job[p].m \in Manifests /\ job[p].got \in Seq(Block)  BY <1>1, StoredTypes
  <2>2. db' = [db EXCEPT !.evidence = evidence, !.records = records]
    BY <1>0, <1>1, <2>1, StoreExtractionIs
  <2> HIDE DEF evidence, records
  <2>3. /\ db'.evidence = evidence /\ db'.records = records
        /\ TablesKept({"carved", "events", "detections", "audits"})
    BY <1>0, <2>2 DEF Databases, TablesKept
  <2> QED  BY <1>1, <2>3 DEF Extracts, evidence, records
<1>2. ASSUME NEW p \in Procs, At(p, "verify", "audit"), db' = LogAudit(db, job[p].rows[1])
      PROVE  Audits(p)
  <2> DEFINE audits == Append(db.audits, job[p].rows[1])
  <2>1. job[p].rows[1] \in BOOLEAN  BY <1>2, StoredTypes
  <2>2. db' = [db EXCEPT !.audits = audits]  BY <1>0, <1>2, <2>1, StoreRowsAre
  <2> HIDE DEF audits
  <2>3. /\ db'.audits = audits
        /\ TablesKept({"evidence", "records", "carved", "events", "detections"})
    BY <1>0, <2>2 DEF Databases, TablesKept
  <2> QED  BY <1>2, <2>3 DEF Audits, audits
<1>3. ASSUME NEW p \in Procs, At(p, "carve", "store"), HasParent(db, job[p].rows),
             db' = StoreCarved(db, job[p].rows)
      PROVE  Adds(p, "carve", "carved")
  <2> DEFINE carved == db.carved \o Owned(db, job[p].rows)
  <2>1. job[p].rows \in Seq(Frame)  BY <1>3, StoredTypes
  <2>2. db' = [db EXCEPT !.carved = carved]  BY <1>0, <1>3, <2>1, StoreRowsAre
  <2> HIDE DEF carved
  <2>3. db'.carved = carved /\ TablesKept({"evidence", "records", "events", "detections", "audits"})
    BY <1>0, <2>2 DEF Databases, TablesKept
  <2> QED  BY <1>3, <2>3 DEF Adds, TablesKept, carved
<1>4. ASSUME NEW p \in Procs, At(p, "correlate", "store"), HasParent(db, job[p].rows),
             db' = StoreEvents(db, job[p].rows)
      PROVE  Adds(p, "correlate", "events")
  <2> DEFINE events == db.events \o Owned(db, job[p].rows)
  <2>1. job[p].rows \in Seq({"event"})  BY <1>4, StoredTypes
  <2>2. db' = [db EXCEPT !.events = events]  BY <1>0, <1>4, <2>1, StoreRowsAre
  <2> HIDE DEF events
  <2>3. db'.events = events /\ TablesKept({"evidence", "records", "carved", "detections", "audits"})
    BY <1>0, <2>2 DEF Databases, TablesKept
  <2> QED  BY <1>4, <2>3 DEF Adds, TablesKept, events
<1>5. ASSUME NEW p \in Procs, At(p, "analyze", "store"), HasParent(db, job[p].rows),
             db' = StoreDetections(db, job[p].rows)
      PROVE  Adds(p, "analyze", "detections")
  <2> DEFINE detections == db.detections \o Owned(db, job[p].rows)
  <2>1. job[p].rows \in Seq(Detection)  BY <1>5, StoredTypes
  <2>2. db' = [db EXCEPT !.detections = detections]  BY <1>0, <1>5, <2>1, StoreRowsAre
  <2> HIDE DEF detections
  <2>3. db'.detections = detections /\ TablesKept({"evidence", "records", "carved", "events", "audits"})
    BY <1>0, <2>2 DEF Databases, TablesKept
  <2> QED  BY <1>5, <2>3 DEF Adds, TablesKept, detections
<1> QED  BY <1>1, <1>2, <1>3, <1>4, <1>5 DEF DbStep

LEMMA DbStepGrows ==
  ASSUME TypeInv, DbStep
  PROVE  DbGrows
<1>0. /\ db \in Databases
      /\ db.evidence \in Seq(Item) /\ db.records \in Seq(Record)
      /\ db.carved \in Seq(Rows(Frame)) /\ db.events \in Seq(Rows({"event"}))
      /\ db.detections \in Seq(Rows(Detection)) /\ db.audits \in Seq(BOOLEAN)
  BY DEF TypeInv, FilesInv, Databases
<1>1. /\ GrowsFrom(db.evidence, db.evidence) /\ GrowsFrom(db.records, db.records)
      /\ GrowsFrom(db.carved, db.carved) /\ GrowsFrom(db.events, db.events)
      /\ GrowsFrom(db.detections, db.detections) /\ GrowsFrom(db.audits, db.audits)
  BY <1>0, GrowsFromItself
<1>2. CASE UNCHANGED db  BY <1>1, <1>2 DEF DbGrows
<1>3. ASSUME NEW p \in Procs, Extracts(p) PROVE DbGrows
  <2>1. job[p].m \in Manifests /\ job[p].got \in Seq(Block)  BY <1>3, StoredTypes DEF Extracts
  <2>2. Len(db.evidence) + 1 \in Place  BY <1>0, LenProperties DEF Place
  <2>3. RecordsOf(Len(db.evidence) + 1, job[p].got) \in Seq(Record)  BY <2>1, <2>2, RecordsOfIs
  <2>4. EvidenceOf(job[p].m) \in Item  BY <2>1, EvidenceOfIs
  <2>5. GrowsFrom(db.evidence, db'.evidence)  BY <1>0, <1>3, <2>4, GrowsByAppend DEF Extracts
  <2>6. GrowsFrom(db.records, db'.records)  BY <1>0, <1>3, <2>3, GrowsByConcat DEF Extracts
  <2>7. TablesKept({"carved", "events", "detections", "audits"})  BY <1>3 DEF Extracts
  <2> QED  BY <1>1, <2>5, <2>6, <2>7 DEF DbGrows, TablesKept
<1>4. ASSUME NEW p \in Procs, Audits(p) PROVE DbGrows
  <2>1. job[p].rows[1] \in BOOLEAN  BY <1>4, StoredTypes DEF Audits
  <2>2. GrowsFrom(db.audits, db'.audits)  BY <1>0, <1>4, <2>1, GrowsByAppend DEF Audits
  <2>3. TablesKept({"evidence", "records", "carved", "events", "detections"})
    BY <1>4 DEF Audits
  <2> QED  BY <1>1, <2>2, <2>3 DEF DbGrows, TablesKept
<1>5. ASSUME NEW p \in Procs, Adds(p, "carve", "carved") PROVE DbGrows
  <2>1. job[p].rows \in Seq(Frame)  BY <1>5, StoredTypes DEF Adds
  <2>2. Owned(db, job[p].rows) \in Seq(Rows(Frame))  BY <2>1, OwnedIs
  <2>3. GrowsFrom(db.carved, db'.carved)  BY <1>0, <1>5, <2>2, GrowsByConcat DEF Adds
  <2>4. TablesKept({"evidence", "records", "events", "detections", "audits"})
    BY <1>5 DEF Adds, TablesKept
  <2> QED  BY <1>1, <2>3, <2>4 DEF DbGrows, TablesKept
<1>6. ASSUME NEW p \in Procs, Adds(p, "correlate", "events") PROVE DbGrows
  <2>1. job[p].rows \in Seq({"event"})  BY <1>6, StoredTypes DEF Adds
  <2>2. Owned(db, job[p].rows) \in Seq(Rows({"event"}))  BY <2>1, OwnedIs
  <2>3. GrowsFrom(db.events, db'.events)  BY <1>0, <1>6, <2>2, GrowsByConcat DEF Adds
  <2>4. TablesKept({"evidence", "records", "carved", "detections", "audits"})
    BY <1>6 DEF Adds, TablesKept
  <2> QED  BY <1>1, <2>3, <2>4 DEF DbGrows, TablesKept
<1>7. ASSUME NEW p \in Procs, Adds(p, "analyze", "detections") PROVE DbGrows
  <2>1. job[p].rows \in Seq(Detection)  BY <1>7, StoredTypes DEF Adds
  <2>2. Owned(db, job[p].rows) \in Seq(Rows(Detection))  BY <2>1, OwnedIs
  <2>3. GrowsFrom(db.detections, db'.detections)  BY <1>0, <1>7, <2>2, GrowsByConcat DEF Adds
  <2>4. TablesKept({"evidence", "records", "carved", "events", "audits"})
    BY <1>7 DEF Adds, TablesKept
  <2> QED  BY <1>1, <2>3, <2>4 DEF DbGrows, TablesKept
<1> QED  BY <1>2, <1>3, <1>4, <1>5, <1>6, <1>7, DbStepCases

(***************************************************************************)
(* Nothing that was recorded is taken back: no command, killed anywhere or *)
(* run again, removes or changes a row of any table (CaseDatabase).        *)
(***************************************************************************)
THEOREM NothingIsTakenBack == Spec => DatabaseOnlyGrows
<1>1. ASSUME TypeInv, [Next]_vars
      PROVE  \A table \in DOMAIN db : GrowsFrom(db[table], db'[table])
  <2>1. DbGrows  BY <1>1, NextSteps, DbStepGrows
  <2>2. DOMAIN db = {"evidence", "records", "carved", "events", "detections", "audits"}
    BY <1>1 DEF TypeInv, FilesInv, Databases
  <2> QED  BY <2>1, <2>2 DEF DbGrows
<1>2. TypeInv /\ [Next]_vars
        => [\A table \in DOMAIN db : GrowsFrom(db[table], db'[table])]_vars
  BY <1>1
<1> QED  BY <1>2, TypesInvariant, PTL DEF Spec, DatabaseOnlyGrows
=============================================================================

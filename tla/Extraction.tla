------------------------------ MODULE Extraction ------------------------------
(***************************************************************************)
(* What becomes of the bytes of an evidence image: identify names the      *)
(* device, parse chooses a grammar and makes a record of every block,      *)
(* descrambling payloads on the way, carve looks for video in the blocks   *)
(* that parse could not read, analyze scores the payloads, and report puts *)
(* all of it on one timeline.  The commands run one after the other;       *)
(* CaseCommands has them side by side.                                     *)
(***************************************************************************)
EXTENDS Carver, Identify, Generator, Analytics, Timeline

CONSTANTS
  Scenarios,  \* what the commands find: [file, block_size, marks, promised,
              \* directory, registry, plugin, events, truth]
  ProbeSize,  \* bytes detection and identification look at
  LimitLeads, \* leads that analyze shows
  MaxParses   \* bound on the parses of one image

ASSUME ScenariosAssumption ==
  \A s \in Scenarios :
    /\ s.file \in Seq(Byte)
    /\ s.block_size \in Nat \ {0} /\ s.promised \in Nat /\ s.plugin \in BOOLEAN
    /\ Len(s.directory) \in Nat /\ DOMAIN s.directory = 1 .. Len(s.directory)
    /\ \A k \in DOMAIN s.directory : IsGrammar(s.directory[k])

ASSUME BoundAssumption == MaxParses \in Nat /\ LimitLeads \in Nat

VARIABLES
  given,       \* the rest of the scenario: marks of the image, block count of
               \* the manifest, grammar directory, registry, whether the
               \* plugin loads, correlated events of the database, ground
               \* truth of a generated image
  phase,       \* the command at work
  identified,  \* what identify answered
  grammar,     \* the one detected, none before
  index,       \* block_index
  offset,      \* current_offset
  page,        \* the buffer of parse_case
  records,     \* of the current parse
  rows,        \* extracted_records of case.db
  parses,      \* commands run
  carved,      \* carved_records of case.db
  detections,  \* analytics_detections of case.db
  leads,       \* what analyze sums up, or None
  timeline     \* that of the report, or None

parser   == <<grammar, index, offset, page, records>>
examined == <<carved, detections, leads, timeline>>
vars     == <<evidence, given, phase, identified, parser, rows, parses, carver, examined>>

\* Else the two hold one result: <<it>>.
None == <<>>

----------------------------------------------------------------------------
\* identify

Probe == SubSeq(file, 1, Min({ProbeSize, Len(file)}))

Init ==
  /\ \E s \in Scenarios :
       /\ file = s.file
       /\ block_size = s.block_size
       /\ given = [marks |-> s.marks, promised |-> s.promised, directory |-> s.directory,
                   registry |-> s.registry, plugin |-> s.plugin,
                   events |-> s.events, truth |-> s.truth]
  /\ phase = "new"
  /\ identified = Unrecognized
  /\ grammar = {}
  /\ index = 0
  /\ offset = 0
  /\ page = <<>>
  /\ records = <<>>
  /\ rows = <<>>
  /\ parses = 0
  /\ carved = <<>>
  /\ detections = <<>>
  /\ leads = None
  /\ timeline = None
  /\ Idle

Identify ==
  /\ phase = "new"
  /\ phase' = "ready"
  /\ identified' \in IdentifyDevice(given.directory, given.registry, given.marks, Probe)
  /\ UNCHANGED <<evidence, given, parser, rows, parses, carver, examined>>

----------------------------------------------------------------------------
\* parse_case

\* A grammar is detected and a buffer made, or the command ends.
StartParse ==
  /\ phase = "ready"
  /\ parses < MaxParses
  /\ parses' = parses + 1
  /\ grammar' = DetectGrammar(given.directory, Probe)
  /\ phase' = IF grammar' = {} THEN "ready" ELSE "parse"
  /\ index' = 0
  /\ offset' = 0
  /\ page' = Zeros(block_size)
  /\ records' = <<>>
  /\ UNCHANGED <<evidence, given, identified, rows, carver, examined>>

\* read() until the buffer is full or the image ends.
NextBytes == SubSeq(file, offset + 1, Min({offset + block_size, Len(file)}))

\* block_slice: the part of the buffer that was read.
\* Mutant: the whole buffer.
WholePage(block) == page'

BlockSlice(block) == SubSeq(page', 1, Len(block))

\* The payload that is handed to the plugin: it must lie in the block.
ScrambledPayload(record, slice) ==
  LET from == record.payload_offset - record.byte_offset
  IN  IF from + record.payload_len <= Len(slice)
      THEN SubSeq(slice, from + 1, from + record.payload_len)
      ELSE <<>>

\* The plugin refuses a payload of no bytes; a failure is a warning.
Descramble(record, g, slice) ==
  LET payload == ScrambledPayload(record, slice)
  IN  IF record.is_scrambled /\ g.plugin /\ given.plugin /\ payload # <<>>
      THEN [record EXCEPT !.descrambled = {Xored(payload)}]
      ELSE record

\* The loop over the blocks: an error of the interpreter ends the command.
ParseBlock ==
  /\ phase = "parse"
  /\ index < given.promised
  /\ NextBytes # <<>>
  /\ page' = NextBytes \o SubSeq(page, Len(NextBytes) + 1, block_size)
  /\ \E g \in grammar :
       LET slice  == BlockSlice(NextBytes)
           record == InterpretBlock(g, index, offset, slice)
       IN  IF record = {}
           THEN /\ phase' = "ready"
                /\ UNCHANGED <<index, offset, records>>
           ELSE /\ \E r \in record : records' = Append(records, Descramble(r, g, slice))
                /\ index' = index + 1
                /\ offset' = offset + Len(slice)
                /\ UNCHANGED phase
  /\ UNCHANGED <<evidence, given, identified, grammar, rows, parses, carver, examined>>

\* The end of the loop, and store_case_extraction.
StoreExtraction ==
  /\ phase = "parse"
  /\ index = given.promised \/ NextBytes = <<>>
  /\ rows' = rows \o records
  /\ phase' = "ready"
  /\ UNCHANGED <<evidence, given, identified, parser, parses, carver, examined>>

----------------------------------------------------------------------------
\* run_carve

Damaged == Filtered(rows, {k \in DOMAIN rows : rows[k].is_corrupted})

\* Mutant: the blocks the extraction has, not those the manifest counts.
DamagedOrParsed ==
  IF Damaged # <<>>
  THEN [k \in DOMAIN Damaged |-> Damaged[k].block_index]
  ELSE [k \in DOMAIN rows |-> k - 1]

\* The damaged blocks in the order of their numbers, one for each row; all
\* blocks of the manifest if there are none.
TargetBlocks ==
  IF Damaged # <<>>
  THEN LET blocks == [k \in DOMAIN Damaged |-> Damaged[k].block_index]
       IN  Arranged(blocks, DOMAIN blocks,
             {p \in (DOMAIN blocks) \X (DOMAIN blocks) :
                \/ blocks[p[1]] < blocks[p[2]]
                \/ blocks[p[1]] = blocks[p[2]] /\ p[1] < p[2]})
  ELSE [k \in 1 .. given.promised |-> k - 1]

StartCarve ==
  /\ phase = "ready"
  /\ phase' = "carve"
  /\ Begin(TargetBlocks)
  /\ UNCHANGED <<evidence, given, identified, parser, rows, parses, examined>>

Carve ==
  /\ phase = "carve"
  /\ CarveBlock
  /\ UNCHANGED <<given, phase, identified, parser, rows, parses, examined>>

\* store_carved_records: frames belong to an evidence item, which a parse made.
StoreCarved ==
  /\ phase = "carve"
  /\ done = Len(targets)
  /\ phase' = "carved"
  /\ carved' = IF rows = <<>> THEN <<>> ELSE frames
  /\ UNCHANGED <<evidence, given, identified, parser, rows, parses, carver,
                 detections, leads, timeline>>

----------------------------------------------------------------------------
\* run_analyze and the timeline of generate_case_report.

\* ORDER BY block_index, rows of equal blocks as stored: the rows at the given
\* places.  No row has a number that the manifest does not count.
ByBlock(places) ==
  FlattenSeq([b \in 1 .. given.promised |->
                Filtered(rows, {k \in places : rows[k].block_index = b - 1})])

\* query_all_records
AllRecords == ByBlock(DOMAIN rows)

\* The payload as the image has it, which is not there to its end behind the
\* end of the image.
PayloadInImage(r) ==
  SubSeq(file, r.payload_offset + 1,
         Min({r.payload_offset + r.payload_len, Len(file)}))

\* read_exact fills the buffer.
IsReadable(r) == r.payload_len > 0 /\ Len(PayloadInImage(r)) = r.payload_len

IsKeyRecord(r) == ValueOf(r.flags) % 2 = 1

\* A row for every entity of an analysis.
DetectionsOf(a) ==
  [k \in DOMAIN a.entities |->
     [block_index     |-> a.block_index,
      channel_id      |-> a.channel_id,
      timestamp       |-> a.timestamp,
      relevance_score |-> a.relevance_score,
      entity_class    |-> a.entities[k].class_label,
      confidence      |-> a.entities[k].confidence,
      bbox            |-> a.entities[k].bbox]]

Analyze ==
  /\ phase \in {"ready", "carved"}
  /\ phase' = "analyzed"
  /\ \E readable \in {ByBlock({k \in DOMAIN rows : IsReadable(rows[k])})} :
       LET analyses == [k \in DOMAIN readable |->
                          AnalyzeFrame(readable[k], PayloadInImage(readable[k]),
                                       IsKeyRecord(readable[k]))]
       IN  /\ detections' = FlattenSeq([k \in DOMAIN analyses |-> DetectionsOf(analyses[k])])
           /\ leads' = <<SummarizeAnalytics(analyses, 5000, LimitLeads)>>
  /\ UNCHANGED <<evidence, given, identified, parser, rows, parses, carver, carved, timeline>>

\* query_analytics_detections(0.50, 0.60): by relevance, then by time, which
\* is stored as a signed number; rows of equal keys as stored.
Signed(timestamp) == [timestamp EXCEPT ![1] = (timestamp[1] + 128) % 256]

ByRelevanceAndTime(places) ==
  {p \in places \X places :
     LET d == detections[p[1]]
         e == detections[p[2]]
     IN  \/ d.relevance_score > e.relevance_score
         \/ /\ d.relevance_score = e.relevance_score
            /\ \/ Below(Signed(d.timestamp), Signed(e.timestamp))
               \/ d.timestamp = e.timestamp /\ p[1] < p[2]}

RelevantDetections ==
  LET found == {k \in DOMAIN detections :
                  /\ detections[k].relevance_score >= 5000
                  /\ detections[k].confidence >= 6000}
  IN  Arranged(detections, found, ByRelevanceAndTime(found))

\* Carved frames come by offset; those with the same are of a block carved twice.
Report ==
  /\ phase \in {"ready", "carved", "analyzed"}
  /\ phase' = "reported"
  /\ timeline' = <<ReconstructTimeline(AllRecords,
                      SortSeq(carved, LAMBDA f, g : f.byte_offset < g.byte_offset),
                      given.events, RelevantDetections)>>
  /\ UNCHANGED <<evidence, given, identified, parser, rows, parses, carver,
                 carved, detections, leads>>

Next ==
  \/ Identify
  \/ StartParse \/ ParseBlock \/ StoreExtraction
  \/ StartCarve \/ Carve \/ StoreCarved
  \/ Analyze
  \/ Report

Spec == Init /\ [][Next]_vars

----------------------------------------------------------------------------
\* Properties.

\* Every number has its width, every record its kind, also when a grammar
\* declares a field wider than the column it is for.
TypeOK ==
  /\ phase \in {"new", "ready", "parse", "carve", "carved", "analyzed", "reported"}
  /\ Len(page) \in {0, block_size}
  /\ parses \in 0 .. MaxParses
  /\ index \in 0 .. given.promised
  /\ offset \in 0 .. Len(file)
  /\ \A k \in DOMAIN records :
       LET r == records[k]
       IN  /\ Len(r.channel_id) = 4 /\ Len(r.timestamp) = 8
           /\ Len(r.sequence_num) = 4 /\ Len(r.flags) = 2
           /\ r.payload_len \in Nat /\ r.payload_offset >= r.byte_offset
           /\ r.is_scrambled \in BOOLEAN /\ r.is_corrupted \in BOOLEAN
  /\ FramesTypeOK

(***************************************************************************)
(* What the plugin gets is the payload of the block in hand, as the image  *)
(* has it, although one buffer serves all blocks; and no scrambled payload *)
(* that lies in its block is left out while the plugin loads.  A payload   *)
(* whose length leads out of its block stays scrambled.  (parse_case,      *)
(* parser/src/lib.rs:184.)                                                 *)
(***************************************************************************)
LiesInItsBlock(r) ==
  /\ r.payload_len > 0
  /\ r.payload_offset + r.payload_len <= Min({r.byte_offset + block_size, Len(file)})

DescrambledIsItsPayload ==
  \A k \in DOMAIN records :
    LET r == records[k]
    IN  /\ r.descrambled # {} <=>
             /\ r.is_scrambled
             /\ given.plugin /\ \A g \in grammar : g.plugin
             /\ LiesInItsBlock(r)
        /\ \A bytes \in r.descrambled : Xored(bytes) = PayloadInImage(r)

(***************************************************************************)
(* carve reads what parse found damaged: the extents it scans, of the      *)
(* block size and the count in the manifest, are those the corrupted       *)
(* records name by their offsets; each as often as it was parsed.  With no *)
(* such record it scans every byte of the acquired blocks.  Which it scans *)
(* is settled before the first of them, with done = 0.  (run_carve,        *)
(* main.rs:480; the parser counts bytes, the carver multiplies.)           *)
(***************************************************************************)
DamagedBlocksAreScanned ==
  phase = "carve" /\ done = 0 =>
    LET Extents == {targets[k] * block_size : k \in DOMAIN targets}
        Corrupted == {rows[k].byte_offset : k \in {k \in DOMAIN rows : rows[k].is_corrupted}}
    IN  IF Corrupted # {}
        THEN Extents = Corrupted /\ Len(targets) = Len(Damaged)
        ELSE \A n \in 0 .. Min({Len(file), given.promised * block_size}) - 1 :
               \E e \in Extents : n \in e .. e + block_size - 1

(***************************************************************************)
(* The round trip of a generated image: parsed with the shipped grammar it *)
(* gives back the ground truth, block by block: channel, time, number,     *)
(* flags and payload, the scrambled ones after the plugin; a zeroed header *)
(* is found as damage, and carving it gives the beginning of the very      *)
(* payload the header was taken from, if the read got so far as to a NAL   *)
(* unit in it.  (dvrft-gen against parser, sandbox plugin and recovery.)   *)
(***************************************************************************)
Plain(r) == IF r.descrambled = {} THEN {PayloadInImage(r)} ELSE r.descrambled

Recovered(r, t) ==
  /\ r.block_index = t.block_index
  /\ r.byte_offset = t.offset
  /\ r.is_corrupted = t.is_corrupted
  /\ r.is_scrambled = (t.is_scrambled /\ ~t.is_corrupted)
  /\ t.payload_len > 0 =>
       /\ r.payload_len = t.payload_len
       /\ given.plugin \/ ~t.is_scrambled => Plain(r) = {t.original_payload}
  /\ r.block_type = "video_frame" =>
       /\ r.channel_id = InBytes(t.channel_id, 4)
       /\ r.timestamp = InBytes(t.timestamp, 8)
       /\ r.sequence_num = InBytes(t.sequence_num, 4)
  /\ r.block_type = (IF t.block_index = 0 THEN "superblock"
                     ELSE IF t.block_index = 1 THEN "partition_table"
                     ELSE IF t.is_corrupted THEN "unallocated_or_corrupted"
                     ELSE "video_frame")

GroundTruthRecovered ==
  given.truth # <<>> =>
    /\ \A k \in DOMAIN rows : Recovered(rows[k], given.truth[rows[k].block_index + 1])
    /\ Len(rows) \in {n * Len(given.truth) : n \in 0 .. MaxParses}
    /\ rows # <<>> =>
         \A n \in {n \in 1 .. done : got[n] >= HeaderSize + 5} : \E k \in DOMAIN frames :
           LET t == given.truth[targets[n] + 1]
           IN  /\ frames[k].byte_offset = t.offset + HeaderSize
               /\ IsPrefix(frames[k].bytes, t.original_payload)
               /\ frames[k].is_keyframe <=> t.original_payload[5] = 103

(***************************************************************************)
(* identify and parse agree.  They read the same directory by different    *)
(* rules: identify takes any rule that matches, weighs it against          *)
(* containers and the registry and prefers low tiers, parse wants all      *)
(* rules and the highest tier.  Where the image shows the rules of one     *)
(* grammar of tier 1 or 2 only, at a weight of 90 or more, and is neither  *)
(* branded MP4 nor in the registry, identify names it, whatever bare       *)
(* stream, container or file system the bytes look like besides, and parse *)
(* takes it if all its rules match.  Of an empty image only parse could    *)
(* say anything, by an empty signature.  (identify_device,                 *)
(* detect_grammar.)                                                        *)
(***************************************************************************)
Signalled ==
  {k \in DOMAIN given.directory :
     \E r \in DOMAIN given.directory[k].rules :
       HasBytes(Probe, given.directory[k].rules[r])}

IdentifyAndParseAgree ==
  \A k \in DOMAIN given.directory :
    LET g == given.directory[k]
    IN  /\ Probe # <<>>
        /\ Signalled = {k}
        /\ g.tier \in {1, 2}
        /\ \E r \in DOMAIN g.rules : HasBytes(Probe, g.rules[r]) /\ WeightOf(g.rules[r]) >= 90
        /\ given.registry = <<>>
        /\ "ftyp" \notin given.marks
        => /\ phase # "new" => identified.grammar = {g.id} /\ identified.tier = g.tier
           /\ phase = "parse" => grammar = {g}

(***************************************************************************)
(* A box that is stored for an entity lies in the picture and is one: it   *)
(* has a width and a height, whatever digest it is made of, also that of   *)
(* a second entity, which is placed across from the first.                 *)
(* (analyze_frame, analytics/src/lib.rs:139.)                              *)
(***************************************************************************)
BoxesAreInThePicture ==
  \A k \in DOMAIN detections :
    LET box == detections[k].bbox
    IN  /\ 0 <= box.x_min /\ box.x_min < box.x_max /\ box.x_max <= Side
        /\ 0 <= box.y_min /\ box.y_min < box.y_max /\ box.y_max <= Side

(***************************************************************************)
(* No keyframe is lost on the way to the examiner: one whose payload can   *)
(* be read and has 32 bytes passes the thresholds of the report however    *)
(* little moves in it, and analyze shows it before any other frame in      *)
(* which it found nothing; a restless keyframe of less than 32 bytes, in   *)
(* which it does not look for anything, may come first.  What the report   *)
(* counts as a lead is of a record, with its channel and time, that is a   *)
(* keyframe or in which something moves.  (analyze_frame scores,           *)
(* summarize_analytics ranks and cuts off, and query_analytics_detections  *)
(* filters, by three sets of thresholds.)                                  *)
(***************************************************************************)
IsOf(found, r) ==
  /\ found.block_index = r.block_index
  /\ found.channel_id = r.channel_id
  /\ found.timestamp = r.timestamp

\* Of no keyframe, and nothing was found in it.
IsDull(found) ==
  /\ found.entities = <<>>
  /\ \A r \in ToSet(rows) : IsOf(found, r) => ~IsKeyRecord(r)

EveryKeyframeIsALead ==
  leads # None =>
    LET relevant == ToSet(RelevantDetections)
        top == leads[1].top_leads
    IN  /\ \A r \in ToSet(rows) :
             IsKeyRecord(r) /\ IsReadable(r) /\ r.payload_len >= 32 =>
               /\ \E d \in relevant : IsOf(d, r)
               /\ \A i \in DOMAIN top :
                    IsDull(top[i]) => \E j \in 1 .. i - 1 : IsOf(top[j], r)
        /\ \A d \in relevant : \E r \in ToSet(rows) :
             /\ IsOf(d, r)
             /\ IsKeyRecord(r) \/ MotionEnergy(PayloadInImage(r)) > 3500

\* The places of the timeline that entries of some types have.
EntriesOf(types) == {k \in DOMAIN timeline[1] : timeline[1][k].entry_type \in types}

\* What the generator wrote into the block of an entry, and the entries of the
\* frames it recorded.
TruthOf(k) == given.truth[timeline[1][k].of + 1]
RecordedFrames ==
  {k \in EntriesOf({"video_frame"}) : TruthOf(k).payload_len > 0 /\ ~TruthOf(k).is_corrupted}

(***************************************************************************)
(* The timeline of a report tells what a generated image recorded: every   *)
(* block once for each parse; flagged, and only those, are the ones with a *)
(* destroyed header and, while the plugin does not load, the scrambled     *)
(* ones; the frames follow each other as they were recorded, and what has  *)
(* no time, carved frames and blocks without a header, is behind them.     *)
(* Where events are is the next property.                                  *)
(* (reconstruct_timeline against dvrft-gen, parser and plugin.)            *)
(***************************************************************************)
TimelineTellsTheRecording ==
  timeline # None /\ given.truth # <<>> =>
    LET Frames  == EntriesOf({"video_frame"})
        Undated == (Frames \ RecordedFrames) \cup EntriesOf({"carved_frame"})
    IN  /\ \A t \in ToSet(given.truth) :
             Cardinality({k \in Frames : TruthOf(k) = t}) * Len(given.truth) = Len(rows)
        /\ \A k \in Frames :
             timeline[1][k].flagged <=>
               TruthOf(k).is_corrupted \/ (TruthOf(k).is_scrambled /\ ~given.plugin)
        /\ \A k, l \in RecordedFrames : k < l => TruthOf(k).timestamp <= TruthOf(l).timestamp
        /\ \A k \in RecordedFrames, l \in Undated : k < l

(***************************************************************************)
(* "Sort timeline chronologically (by normalized timestamp string or       *)
(* timestamp)" (timeline.rs:137): an event, which has the time it began    *)
(* at, lies between the frames recorded before and after that time.  The   *)
(* sort of reconstruct_timeline does not do this: an event's timestamp is  *)
(* 0, which it takes for u64::MAX before it looks at the text.             *)
(***************************************************************************)
EventsAreInTheirPlace ==
  timeline # None /\ given.truth # <<>> =>
    \A k \in RecordedFrames, l \in EntriesOf({"correlated_transition",
                                              "correlated_global_blackout"}) :
      /\ TruthOf(k).timestamp < timeline[1][l].text => k < l
      /\ timeline[1][l].text < TruthOf(k).timestamp => l < k
===============================================================================

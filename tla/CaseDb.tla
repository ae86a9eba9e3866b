------------------------------- MODULE CaseDb -------------------------------
(***************************************************************************)
(* parser/src/db.rs: the tables of case.db and what each operation of      *)
(* CaseDatabase does to them.  A table is the sequence of its rows in the  *)
(* order of their ids: AUTOINCREMENT ids start at 1, nothing deletes a row *)
(* and a rolled back transaction gives its ids back.  The table cases has  *)
(* one row for the one case name of a directory and is left out.           *)
(***************************************************************************)
EXTENDS Blocks, Ordering, SequencesExt

CONSTANTS
  HeaderLen,   \* bytes a block needs for its header
  SoundBytes   \* first bytes of a block with a sound header

EmptyDb ==
  [evidence   |-> <<>>,   \* evidence_items
   records    |-> <<>>,   \* extracted_records
   carved     |-> <<>>,   \* carved_records
   events     |-> <<>>,   \* correlated_events
   detections |-> <<>>,   \* analytics_detections
   audits     |-> <<>>]   \* verification_audit_log

\* What interpret_block makes of a block: a record, or BlockTooSmall.
TooSmall(data)    == Len(data) < HeaderLen
IsCorrupted(data) == data[1] \notin SoundBytes

\* The rows of an extraction; a block is what was read, and where.
RecordsOf(e, blocks) ==
  [k \in 1 .. Len(blocks) |->
     [evidence_id  |-> e,
      block_index  |-> k,
      byte_offset  |-> blocks[k].at,
      hash         |-> blocks[k].data,
      is_corrupted |-> IsCorrupted(blocks[k].data)]]

EvidenceOf(m) ==
  [whole_image |-> m.whole_image,
   block_size  |-> m.block_size,
   block_count |-> m.block_count]

\* Mutant: the item of the last parse is replaced by that of the next.
ReplaceExtraction(d, m, blocks) ==
  [d EXCEPT !.evidence = <<EvidenceOf(m)>>,
            !.records  = RecordsOf(1, blocks)]

\* store_case_extraction: one transaction, always a new evidence item.
StoreExtraction(d, m, blocks) ==
  [d EXCEPT !.evidence = Append(@, EvidenceOf(m)),
            !.records  = @ \o RecordsOf(Len(d.evidence) + 1, blocks)]

\* query_records(corrupted_only): the blocks to carve, of every evidence item.
CorruptedBlocks(d) ==
  LET corrupted == Filtered(d.records, {i \in DOMAIN d.records : d.records[i].is_corrupted})
  IN  [i \in 1 .. Len(corrupted) |-> corrupted[i].block_index]

\* get_primary_evidence_id().unwrap_or(1): the first row of the table, which
\* has id 1 since ids start there and no row is deleted, or 1 without a row.
PrimaryEvidence(d) == 1

\* Mutant: foreign keys are not enforced.
AnyParent(d, rows) == TRUE

\* PRAGMA foreign_keys = ON: a row needs the evidence item it refers to, no
\* row needs none.
HasParent(d, rows) == rows = <<>> \/ PrimaryEvidence(d) \in DOMAIN d.evidence

Owned(d, rows) ==
  [i \in 1 .. Len(rows) |-> [evidence_id |-> PrimaryEvidence(d), what |-> rows[i]]]

StoreCarved(d, rows)     == [d EXCEPT !.carved = @ \o Owned(d, rows)]
StoreEvents(d, rows)     == [d EXCEPT !.events = @ \o Owned(d, rows)]
StoreDetections(d, rows) == [d EXCEPT !.detections = @ \o Owned(d, rows)]

\* query_carved_records: by byte_offset, and rows of one offset as they lie.
CarvedFrames(d) == [i \in DOMAIN d.carved |-> d.carved[i].what]

ComesFirst(frames, i) ==
  \A k \in DOMAIN frames :
    frames[i].at < frames[k].at \/ (frames[i].at = frames[k].at /\ i <= k)

\* query_analytics_detections(0.50, 0.60): the detections that pass both
\* thresholds, of every evidence item.
Relevant(d) == {i \in DOMAIN d.detections : d.detections[i].what.relevant}

\* get_primary_evidence_grammar_and_tier(): the item whose format a report names,
\* or 0 without a row, where "synthetic-v1" of tier 1 is named.
FormatItem(d) == IF d.evidence = <<>> THEN 0 ELSE PrimaryEvidence(d)

LogAudit(d, pristine) == [d EXCEPT !.audits = Append(@, pristine)]
=============================================================================

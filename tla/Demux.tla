-------------------------------- MODULE Demux --------------------------------
(***************************************************************************)
(* parser/src/demux.rs: demux_records splits the records of one extraction *)
(* into a stream per camera channel, in the order of their sequence        *)
(* numbers, and lists the numbers that are missing.  A record is           *)
(* [ch, ts, seq, corrupted]; its place in the extraction is its block.     *)
(***************************************************************************)
EXTENDS Ordering, SequencesExt

CONSTANT SeqMax   \* u32::MAX

ASSUME SeqMaxAssumption == SeqMax \in Nat

\* The places of the records of channel c.
Bucket(records, c) == {k \in DOMAIN records : records[k].ch = c}

\* Mutant: streams are put in the order of the time stamps.
ByTimestamp(records) ==
  {p \in (DOMAIN records) \X (DOMAIN records) :
     LET r == records[p[1]]
         s == records[p[2]]
     IN  r.ts < s.ts \/ (r.ts = s.ts /\ p[1] < p[2])}

\* sort_by_key((sequence_num, timestamp)), a stable sort.
BySequence(records) ==
  {p \in (DOMAIN records) \X (DOMAIN records) :
     LET r == records[p[1]]
         s == records[p[2]]
     IN  \/ r.seq < s.seq
         \/ r.seq = s.seq /\ r.ts < s.ts
         \/ r.seq = s.seq /\ r.ts = s.ts /\ p[1] < p[2]}

Stream(records, c) == Arranged(records, Bucket(records, c), BySequence(records))

\* prev + 1 in 32 bits.
Following(prev) == IF prev = SeqMax THEN 0 ELSE prev + 1

\* (prev + 1)..sequence_num, in order.
Skipped(prev, next) ==
  IF next > Following(prev)
  THEN [k \in 1 .. next - Following(prev) |-> Following(prev) + k - 1]
  ELSE <<>>

SequenceGaps(stream) ==
  FlattenSeq([k \in 1 .. Len(stream) - 1 |-> Skipped(stream[k].seq, stream[k + 1].seq)])

\* prev + 1 is computed for every record but the last.
AdditionOverflows(stream) == \E k \in 1 .. Len(stream) - 1 : stream[k].seq = SeqMax

Channels(records) == {records[k].ch : k \in DOMAIN records} \ {0}

\* Mutant: the ends of the stream are taken for its extremes.
EndsOfStream(stream) == <<Head(stream).ts, Last(stream).ts>>

\* min_timestamp and max_timestamp.
TimeSpan(stream) ==
  LET times == {stream[k].ts : k \in DOMAIN stream}
  IN  <<Min(times), Max(times)>>

DemuxRecords(records) ==
  [c \in Channels(records) |->
     LET stream == Stream(records, c)
     IN  [total_blocks  |-> Len(stream),
          time_span     |-> TimeSpan(stream),
          sequence_gaps |-> SequenceGaps(stream)]]
=============================================================================

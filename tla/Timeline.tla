------------------------------ MODULE Timeline ------------------------------
(***************************************************************************)
(* reporting/src/timeline.rs: the one timeline of a report, made of the    *)
(* records, the carved frames, the correlated events and the detections.   *)
(* An entry says what it is `of`: a block, an offset or an event.  The     *)
(* texts are left out.  The alerts are in module Footage.                  *)
(***************************************************************************)
EXTENDS Grammar

\* text: what normalized_timestamp says, in seconds; CARVED_UNINDEXED is behind
\* all years.  It counts only where the timestamp is zero.
Unindexed == 2147483647

Entry(type, timestamp, text, channels, of, flagged) ==
  [entry_type |-> type, timestamp |-> timestamp,
   text |-> IF timestamp = Zeros(8) THEN text ELSE 0,
   channel_id |-> channels, of |-> of, flagged |-> flagged]

\* Mutant: a block that was descrambled is flagged too.
ScrambledEntry(r) ==
  Entry("video_frame", r.timestamp, 0, {r.channel_id}, r.block_index,
        r.is_corrupted \/ r.is_scrambled)

RecordEntry(r) ==
  Entry("video_frame", r.timestamp, 0, {r.channel_id}, r.block_index,
        r.is_corrupted \/ (r.is_scrambled /\ r.descrambled = {}))

CarvedEntry(f) ==
  Entry("carved_frame", Zeros(8), Unindexed, {}, f.byte_offset, TRUE)

EventEntry(e) ==
  Entry("correlated_" \o e.event_type, Zeros(8), e.start, {}, e.id,
        e.event_type = "global_blackout" \/ e.confidence >= 9000)

\* A detection that is relevant enough.
LeadEntries(d) ==
  IF d.relevance_score < 5000 THEN <<>>
  ELSE <<Entry("analytics_lead", d.timestamp, 0, {d.channel_id}, d.block_index,
               d.relevance_score >= 7500)>>

\* As numbers, the highest byte first.
Below(m, n) ==
  \E k \in DOMAIN m : m[k] < n[k] /\ \A l \in 1 .. k - 1 : m[l] = n[l]

\* The order of the timeline, in which u64::MAX stands for no time.
ComesBefore(a, b) ==
  LET Time(e) == IF e.timestamp = Zeros(8) THEN [k \in 1 .. 8 |-> 255] ELSE e.timestamp
  IN  \/ Below(Time(a), Time(b))
      \/ Time(a) = Time(b) /\ a.text < b.text

\* The entries of all four kinds, sorted; the sort is stable.

ReconstructTimeline(records, carved, events, analytics) ==
  LET entries == [k \in DOMAIN records |-> RecordEntry(records[k])]
                 \o [k \in DOMAIN carved |-> CarvedEntry(carved[k])]
                 \o [k \in DOMAIN events |-> EventEntry(events[k])]
                 \o FlattenSeq([k \in DOMAIN analytics |-> LeadEntries(analytics[k])])
      order == SortSeq([k \in DOMAIN entries |-> k],
                 LAMBDA k, l :
                   \/ ComesBefore(entries[k], entries[l])
                   \/ ~ComesBefore(entries[l], entries[k]) /\ k < l)
  IN  [k \in DOMAIN order |-> entries[order[k]]]
=============================================================================

------------------------------- MODULE Footage -------------------------------
(***************************************************************************)
(* What becomes of the records of one piece of evidence: parse demuxes     *)
(* them and appends them to the database, correlate derives events from    *)
(* all rows of the database, and report derives discontinuity alerts from  *)
(* them (reporting/src/timeline.rs).  parse may be run again.              *)
(***************************************************************************)
EXTENDS Demux, Correlation

CONSTANTS
  Extractions,   \* the records an evidence image can yield
  Window,        \* --window: seconds between the ends of a transition
  BlackoutGap,   \* --blackout-gap: seconds
  ExpectedGap,   \* max_expected_gap_secs of the report
  MaxParses      \* bound: how often parse is run

\* What parse_case hands on: u64, u32 and i64 numbers.
Times == 0 .. 2 * Half - 1

Record == [ch : Nat, ts : Times, seq : 0 .. SeqMax, corrupted : BOOLEAN]

ASSUME ExtractionsAssumption == Extractions \subseteq Seq(Record)
ASSUME GapsAssumption ==
  Window \in Int /\ Window < Half /\ BlackoutGap \in Int /\ ExpectedGap \in Nat
ASSUME MaxParsesAssumption == MaxParses \in Nat

VARIABLES
  extraction,   \* the records parse_case finds in the image
  checked,      \* the build panics on overflow (the debug profile)
  parses,       \* how often parse was run
  streams,      \* what its last run that ended well printed, or None
  rows,         \* extracted_records of case.db
  events,       \* what the last correlate found, or None
  alerts        \* the discontinuities of the last report, or None

vars == <<extraction, checked, parses, streams, rows, events, alerts>>

\* Else the three hold one result: <<it>>.
None == <<>>

Init ==
  /\ extraction \in Extractions
  /\ checked \in BOOLEAN
  /\ parses = 0
  /\ streams = None
  /\ rows = <<>>
  /\ events = None
  /\ alerts = None

Overflowing == {c \in Channels(extraction) : AdditionOverflows(Stream(extraction, c))}

\* The rows an extraction adds to a table of `count' rows.
RowsOf(records, count) ==
  [k \in DOMAIN records |->
     [id |-> count + k, block |-> k, ch |-> records[k].ch, ts |-> records[k].ts,
      seq |-> records[k].seq, corrupted |-> records[k].corrupted]]

\* demux_records comes first, so a panic in it stores nothing.
Parse ==
  /\ parses < MaxParses
  /\ parses' = parses + 1
  /\ \/ /\ Overflowing # {} /\ checked
        /\ UNCHANGED <<streams, rows>>
     \/ /\ Overflowing = {} \/ ~checked
        /\ streams' = <<DemuxRecords(extraction)>>
        /\ rows' = rows \o RowsOf(extraction, Len(rows))
  /\ UNCHANGED <<extraction, checked, events, alerts>>

Events(r) ==
  [transitions |-> DetectTransitions(MergeTimeline(r), Window),
   blackouts   |-> DetectGlobalBlackouts(r, BlackoutGap)]

Correlate ==
  /\ rows # <<>>
  /\ events' = <<Events(rows)>>
  /\ UNCHANGED <<extraction, checked, parses, streams, rows, alerts>>

----------------------------------------------------------------------------
\* reconstruct_timeline: gaps between successive time stamps of any records.

Dated(r) == {k \in DOMAIN r : r[k].ts > 0}

\* Mutant: the rows are taken in the order they come in.
Unsorted(r) == Filtered(r, Dated(r))

SortedByTime(r) == Arranged(r, Dated(r), ByTime(r))

Discontinuities(r) ==
  LET s == SortedByTime(r)
  IN  {[start |-> s[k].ts, end |-> s[k + 1].ts, affected |-> {s[k].ch, s[k + 1].ch}] :
         k \in {l \in 1 .. Len(s) - 1 : s[l + 1].ts - s[l].ts > ExpectedGap}}

Report ==
  /\ rows # <<>>
  /\ alerts' = <<Discontinuities(rows)>>
  /\ UNCHANGED <<extraction, checked, parses, streams, rows, events>>

Next == Parse \/ Correlate \/ Report

Spec == Init /\ [][Next]_vars

----------------------------------------------------------------------------
\* Properties.

Footages == {extraction[k] : k \in DOMAIN extraction}
ValidOnes == {r \in Footages : IsValid(r)}

TypeOK ==
  /\ extraction \in Extractions
  /\ checked \in BOOLEAN
  /\ parses \in 0 .. MaxParses
  /\ Len(rows) <= parses * Len(extraction)
  /\ streams # None =>
       \A c \in DOMAIN streams[1] :
         streams[1][c].time_span[1] <= streams[1][c].time_span[2]
  /\ events # None => \A b \in events[1].blackouts : b.start <= b.end

(***************************************************************************)
(* The sequence numbers reported as missing are those, and only those,     *)
(* between the lowest and the highest number of the channel that no record *)
(* of it carries, in order and each once, whatever the order and the       *)
(* duplicates of the records in the image.  Where the largest 32-bit       *)
(* number occurs twice the addition overflows, and nothing is promised.    *)
(***************************************************************************)
GapsAreTheMissingNumbers ==
  streams # None =>
    \A c \in (DOMAIN streams[1]) \ Overflowing :
      LET carried == {r.seq : r \in {x \in Footages : x.ch = c}}
          gaps    == streams[1][c].sequence_gaps
      IN  /\ ToSet(gaps) = (Min(carried) .. Max(carried)) \ carried
          /\ \A k, l \in DOMAIN gaps : k < l => gaps[k] < gaps[l]

(***************************************************************************)
(* correlate finds every move from one camera to another within the        *)
(* window, no other, and each once, however often the image was parsed     *)
(* into the database it reads, and although it stops looking at the first  *)
(* event out of the window and counts in signed numbers.                   *)
(***************************************************************************)
Moves ==
  {<<p[1].ch, p[2].ch, p[1].ts, p[2].ts>> : p \in
     {q \in ValidOnes \X ValidOnes :
        q[1].ch # q[2].ch /\ q[2].ts - q[1].ts \in 1 .. Window}}

MoveOf(t) == <<t.from.ch, t.to.ch, t.from.ts, t.to.ts>>

EveryMoveIsFoundOnce ==
  events # None =>
    /\ {MoveOf(t) : t \in events[1].transitions} = Moves
    /\ \A t, u \in events[1].transitions : MoveOf(t) = MoveOf(u) => t = u

(***************************************************************************)
(* In a blackout that correlate reports no camera recorded anything, but   *)
(* for the second at each end that is let pass, and it is as long as was   *)
(* asked for, in whatever order the records lie in the image.              *)
(***************************************************************************)
BlackoutsAreSilent ==
  events # None =>
    \A b \in events[1].blackouts :
      /\ b.end - b.start >= BlackoutGap
      /\ \A r \in ValidOnes : ~(b.start + 1 < r.ts /\ r.ts < b.end - 1)

(***************************************************************************)
(* Two crates look for outages with two algorithms: whatever correlate     *)
(* calls a blackout, unless a damaged record or the start of time lies in  *)
(* it, the report of the same database shows as a discontinuity that       *)
(* covers all of it but the two seconds that are let pass.                 *)
(***************************************************************************)
ReportShowsBlackouts ==
  events # None /\ alerts # None =>
    \A b \in events[1].blackouts :
      /\ b.start > 0
      /\ b.end - b.start - 2 > ExpectedGap
      /\ ~ \E r \in Footages : ~IsValid(r) /\ b.start <= r.ts /\ r.ts <= b.end
      => \E a \in alerts[1] : a.start <= b.start + 1 /\ a.end >= b.end - 1

(***************************************************************************)
(* "Detects simultaneous gaps across all camera channels exceeding         *)
(* min_gap_secs" (detect_global_blackouts): any time of that length in     *)
(* which no camera recorded, between two recordings, is in a blackout.     *)
(***************************************************************************)
EveryGapIsABlackout ==
  events # None =>
    \A r, s \in ValidOnes :
      /\ s.ts - r.ts > BlackoutGap
      /\ \A x \in ValidOnes : ~(r.ts < x.ts /\ x.ts < s.ts)
      => \E b \in events[1].blackouts : b.start <= r.ts /\ b.end >= s.ts
=============================================================================

----------------------------- MODULE Correlation -----------------------------
(***************************************************************************)
(* correlation/src/lib.rs: the timeline of all channels, the transitions   *)
(* of activity from one camera to another, and the blackouts of all of     *)
(* them.  Timestamps are u64, differences are cast to i64.  Confidences    *)
(* are left out.                                                           *)
(***************************************************************************)
EXTENDS Ordering, SequencesExt

CONSTANT Half   \* 2^63: half the range of a timestamp

ASSUME HalfAssumption == Half \in Nat \ {0}

\* (n as i64) of n below 2 * Half.
AsSigned(n) == IF n < Half THEN n ELSE n - 2 * Half

IsValid(r) == r.ch > 0 /\ ~r.corrupted

----------------------------------------------------------------------------
\* merge_timeline and detect_transitions.

\* By timestamp, channel, sequence number, block; the sort is stable.
Precedes(rows) ==
  {p \in (DOMAIN rows) \X (DOMAIN rows) :
     LET r == rows[p[1]]
         s == rows[p[2]]
     IN  \/ r.ts < s.ts
         \/ r.ts = s.ts /\ r.ch < s.ch
         \/ r.ts = s.ts /\ r.ch = s.ch /\ r.seq < s.seq
         \/ r.ts = s.ts /\ r.ch = s.ch /\ r.seq = s.seq /\ r.block < s.block
         \/ r.ts = s.ts /\ r.ch = s.ch /\ r.seq = s.seq /\ r.block = s.block /\ p[1] < p[2]}

MergeTimeline(rows) == Arranged(rows, DOMAIN rows, Precedes(rows))

\* The inner loop looks at the events behind event i up to the first one that
\* is out of the window.
LookedAt(events, i, window) ==
  {j \in i + 1 .. Len(events) :
     \A k \in i + 1 .. j : AsSigned(events[k].ts - events[i].ts) <= window}

Candidates(events, window) ==
  {t \in (DOMAIN events) \X (DOMAIN events) :
     /\ t[2] \in LookedAt(events, t[1], window)
     /\ events[t[1]].ch # events[t[2]].ch
     /\ AsSigned(events[t[2]].ts - events[t[1]].ts) > 0}

Key(events, t) ==
  <<events[t[1]].ch, events[t[2]].ch, events[t[1]].ts, events[t[2]].ts>>

\* Mutant: no deduplication.
EveryOne(events, found) == found

\* Of the candidates with the same key, the first one found.
FirstOfEachKey(events, found) ==
  {t \in found :
     \A u \in found : Key(events, u) = Key(events, t) =>
       t[1] < u[1] \/ (t[1] = u[1] /\ t[2] <= u[2])}

Transition(events, t) ==
  [from |-> events[t[1]], to |-> events[t[2]],
   delta_secs |-> AsSigned(events[t[2]].ts - events[t[1]].ts)]

ValidEvents(timeline) ==
  Filtered(timeline, {k \in DOMAIN timeline : IsValid(timeline[k])})

DetectTransitions(timeline, window) ==
  LET events == ValidEvents(timeline)
  IN  IF window <= 0
      THEN {}
      ELSE {Transition(events, t) : t \in FirstOfEachKey(events, Candidates(events, window))}

----------------------------------------------------------------------------
\* detect_global_blackouts.

ValidRows(rows) == {k \in DOMAIN rows : IsValid(rows[k])}

ActiveChannels(rows) == {rows[k].ch : k \in ValidRows(rows)}

\* The places of the valid rows of channel c.
RowsOfChannel(rows, c) == {k \in ValidRows(rows) : rows[k].ch = c}

\* sort_by_key(timestamp), a stable sort.
ByTime(rows) ==
  {p \in (DOMAIN rows) \X (DOMAIN rows) :
     \/ rows[p[1]].ts < rows[p[2]].ts
     \/ rows[p[1]].ts = rows[p[2]].ts /\ p[1] < p[2]}

\* Mutant: the times of a channel stay in the order of the rows.
TimesAsFound(rows, c) == Filtered(rows, RowsOfChannel(rows, c))

ChannelTimes(rows, c) == Arranged(rows, RowsOfChannel(rows, c), ByTime(rows))

\* Channel c has no recording between the two, a second at each end let pass.
Silent(rows, c, from, to) ==
  \A k \in DOMAIN ChannelTimes(rows, c) :
    LET t == ChannelTimes(rows, c)[k].ts IN ~(t > from + 1 /\ t < to - 1)

\* The gaps of the channel with the lowest number in which the others are silent.
DetectGlobalBlackouts(rows, min_gap) ==
  IF ActiveChannels(rows) = {} \/ min_gap <= 0
  THEN {}
  ELSE LET primary == Min(ActiveChannels(rows))
           times   == ChannelTimes(rows, primary)
           IsGap(i) ==
             /\ AsSigned(times[i + 1].ts - times[i].ts) >= min_gap
             /\ \A c \in ActiveChannels(rows) \ {primary} :
                  Silent(rows, c, times[i].ts, times[i + 1].ts)
       IN  {[start |-> times[i].ts, end |-> times[i + 1].ts] :
              i \in {k \in 1 .. Len(times) - 1 : IsGap(k)}}
=============================================================================

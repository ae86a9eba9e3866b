---------------------------- MODULE FootageProofs ----------------------------
(***************************************************************************)
(* What demux, correlate and report derive from the records of an image,   *)
(* for every image, window and gap, and however often it was parsed.       *)
(***************************************************************************)
EXTENDS Footage, SharedLemmas

USE HalfAssumption, SeqMaxAssumption

Row ==
  [id : Nat, block : Nat, ch : Nat, ts : Times, seq : 0 .. SeqMax, corrupted : BOOLEAN]

----------------------------------------------------------------------------
(***************************************************************************)
(* The three orders of the sorts are orders.                               *)
(***************************************************************************)
LEMMA ByTimeOrders ==
  ASSUME NEW r \in Seq(Row), NEW places \in SUBSET (DOMAIN r)
  PROVE  /\ IsFiniteSet(places)
         /\ Orders(ByTime(r), places)
         /\ \A k, l \in DOMAIN r : <<k, l>> \in ByTime(r) => r[k].ts <= r[l].ts
<1>1. DOMAIN r = 1 .. Len(r) /\ Len(r) \in Nat  BY LenProperties
<1>2. \A k \in DOMAIN r : r[k].ts \in Int /\ k \in Int
  <2>1. \A k \in DOMAIN r : r[k] \in Row  BY ElementOfSeq, <1>1
  <2> QED  BY <1>1, <2>1 DEF Row, Times
<1>3. \A k, l \in DOMAIN r :
        <<k, l>> \in ByTime(r) <=> r[k].ts < r[l].ts \/ (r[k].ts = r[l].ts /\ k < l)
  BY DEF ByTime
<1>4. IsFiniteSet(places)  BY <1>1, PlacesAreFinite
<1>5. Orders(ByTime(r), places)
  <2>1. \A k, l \in places :
          <<k, l>> \in ByTime(r) <=> r[k].ts < r[l].ts \/ (r[k].ts = r[l].ts /\ k < l)
    BY <1>3
  <2>2. \A k \in places : r[k].ts \in Int /\ k \in Int  BY <1>2
  <2> QED  BY <2>1, <2>2 DEF Orders
<1> QED  BY <1>2, <1>3, <1>4, <1>5

LEMMA PrecedesOrders ==
  ASSUME NEW r \in Seq(Row)
  PROVE  /\ IsFiniteSet(DOMAIN r)
         /\ Orders(Precedes(r), DOMAIN r)
         /\ \A k, l \in DOMAIN r : <<k, l>> \in Precedes(r) => r[k].ts <= r[l].ts
<1>1. DOMAIN r = 1 .. Len(r) /\ Len(r) \in Nat  BY LenProperties
<1>2. \A k \in DOMAIN r :
        /\ r[k].ts \in Int /\ r[k].ch \in Int /\ r[k].seq \in Int /\ r[k].block \in Int
        /\ k \in Int
  <2>1. \A k \in DOMAIN r : r[k] \in Row  BY ElementOfSeq, <1>1
  <2> QED  BY <1>1, <2>1 DEF Row, Times
<1> DEFINE Key1(k) == r[k].ts
           Key2(k) == r[k].ch
           Key3(k) == r[k].seq
           Key4(k) == r[k].block
<1>3. \A k, l \in DOMAIN r :
        <<k, l>> \in Precedes(r) <=>
          \/ Key1(k) < Key1(l)
          \/ Key1(k) = Key1(l) /\ Key2(k) < Key2(l)
          \/ Key1(k) = Key1(l) /\ Key2(k) = Key2(l) /\ Key3(k) < Key3(l)
          \/ Key1(k) = Key1(l) /\ Key2(k) = Key2(l) /\ Key3(k) = Key3(l)
             /\ Key4(k) < Key4(l)
          \/ Key1(k) = Key1(l) /\ Key2(k) = Key2(l) /\ Key3(k) = Key3(l)
             /\ Key4(k) = Key4(l) /\ k < l
  BY DEF Precedes
<1>4. IsFiniteSet(DOMAIN r)  BY <1>1, PlacesAreFinite
<1>5. Orders(Precedes(r), DOMAIN r)
  <2>1. \A k \in DOMAIN r :
          /\ Key1(k) \in Int /\ Key2(k) \in Int /\ Key3(k) \in Int /\ Key4(k) \in Int
          /\ k \in Int
    BY <1>2
  <2> HIDE DEF Key1, Key2, Key3, Key4
  <2>2. \A k \in DOMAIN r : <<k, k>> \notin Precedes(r)  BY <1>3, <2>1
  <2>3. ASSUME NEW k \in DOMAIN r, NEW l \in DOMAIN r, NEW m \in DOMAIN r,
               <<k, l>> \in Precedes(r), <<l, m>> \in Precedes(r)
        PROVE  <<k, m>> \in Precedes(r)
    <3> DEFINE Less(i, j) ==
          \/ Key1(i) < Key1(j)
          \/ Key1(i) = Key1(j) /\ Key2(i) < Key2(j)
          \/ Key1(i) = Key1(j) /\ Key2(i) = Key2(j) /\ Key3(i) < Key3(j)
          \/ Key1(i) = Key1(j) /\ Key2(i) = Key2(j) /\ Key3(i) = Key3(j)
             /\ Key4(i) < Key4(j)
          \/ Key1(i) = Key1(j) /\ Key2(i) = Key2(j) /\ Key3(i) = Key3(j)
             /\ Key4(i) = Key4(j) /\ i < j
    <3>1. Less(k, l) /\ Less(l, m)  BY <1>3, <2>3
    <3>2. Less(k, m)
      <4>1. /\ Key1(k) \in Int /\ Key2(k) \in Int /\ Key3(k) \in Int /\ Key4(k) \in Int
            /\ Key1(l) \in Int /\ Key2(l) \in Int /\ Key3(l) \in Int /\ Key4(l) \in Int
            /\ Key1(m) \in Int /\ Key2(m) \in Int /\ Key3(m) \in Int /\ Key4(m) \in Int
            /\ k \in Int /\ l \in Int /\ m \in Int
        BY <2>1
      <4> QED  BY <3>1, <4>1, SMTT(30)
    <3> QED  BY <1>3, <3>2
  <2>4. ASSUME NEW k \in DOMAIN r, NEW l \in DOMAIN r
        PROVE  k = l \/ <<k, l>> \in Precedes(r) \/ <<l, k>> \in Precedes(r)
    <3>1. /\ Key1(k) \in Int /\ Key2(k) \in Int /\ Key3(k) \in Int /\ Key4(k) \in Int
          /\ Key1(l) \in Int /\ Key2(l) \in Int /\ Key3(l) \in Int /\ Key4(l) \in Int
          /\ k \in Int /\ l \in Int
      BY <2>1
    <3>2. CASE Key1(k) # Key1(l)  BY <1>3, <3>1, <3>2
    <3>3. CASE Key1(k) = Key1(l) /\ Key2(k) # Key2(l)  BY <1>3, <3>1, <3>3
    <3>4. CASE Key1(k) = Key1(l) /\ Key2(k) = Key2(l) /\ Key3(k) # Key3(l)
      BY <1>3, <3>1, <3>4
    <3>5. CASE Key1(k) = Key1(l) /\ Key2(k) = Key2(l) /\ Key3(k) = Key3(l)
      BY <1>3, <3>1, <3>5
    <3> QED  BY <3>2, <3>3, <3>4, <3>5
  <2> QED  BY <2>2, <2>3, <2>4 DEF Orders
<1> QED  BY <1>2, <1>3, <1>4, <1>5

LEMMA BySequenceOrders ==
  ASSUME NEW r \in Seq(Record), NEW places \in SUBSET (DOMAIN r)
  PROVE  /\ IsFiniteSet(places)
         /\ Orders(BySequence(r), places)
         /\ \A k, l \in DOMAIN r : <<k, l>> \in BySequence(r) => r[k].seq <= r[l].seq
<1>1. DOMAIN r = 1 .. Len(r) /\ Len(r) \in Nat  BY LenProperties
<1>2. \A k \in DOMAIN r : r[k].ts \in Int /\ r[k].seq \in Int /\ k \in Int
  <2>1. \A k \in DOMAIN r : r[k] \in Record  BY ElementOfSeq, <1>1
  <2> QED  BY <1>1, <2>1 DEF Record, Times
<1>3. \A k, l \in DOMAIN r :
        <<k, l>> \in BySequence(r) <=>
          \/ r[k].seq < r[l].seq
          \/ r[k].seq = r[l].seq /\ r[k].ts < r[l].ts
          \/ r[k].seq = r[l].seq /\ r[k].ts = r[l].ts /\ k < l
  BY DEF BySequence
<1>4. IsFiniteSet(places)  BY <1>1, PlacesAreFinite
<1>5. Orders(BySequence(r), places)
  <2>1. \A k, l \in places :
          <<k, l>> \in BySequence(r) <=>
            \/ r[k].seq < r[l].seq
            \/ r[k].seq = r[l].seq /\ r[k].ts < r[l].ts
            \/ r[k].seq = r[l].seq /\ r[k].ts = r[l].ts /\ k < l
    BY <1>3
  <2>2. \A k \in places : r[k].ts \in Int /\ r[k].seq \in Int /\ k \in Int  BY <1>2
  <2> QED  BY <2>1, <2>2 DEF Orders
<1> QED  BY <1>2, <1>3, <1>4, <1>5

----------------------------------------------------------------------------
(***************************************************************************)
(* s is the rows of r at the places, each of them, sorted by time.         *)
(***************************************************************************)
SortedRows(s, r, places) ==
  /\ s \in Seq(Row)
  /\ \A n \in 1 .. Len(s) : \E k \in places : s[n] = r[k]
  /\ \A k \in places : \E n \in 1 .. Len(s) : s[n] = r[k]
  /\ \A m, n \in 1 .. Len(s) : m <= n => s[m].ts <= s[n].ts

LEMMA ArrangementSorted ==
  ASSUME NEW r \in Seq(Row), NEW places \in SUBSET (DOMAIN r), NEW R,
         \A k, l \in places : <<k, l>> \in R => r[k].ts <= r[l].ts,
         NEW s, NEW order, Arrangement(s, order, r, places, R)
  PROVE  SortedRows(s, r, places)
<1> DEFINE c == Cardinality(places)
<1>1. \A k \in places : r[k] \in Row  BY LenProperties, ElementOfSeq
<1>2. /\ c \in Nat
      /\ \A n \in 1 .. c : order[n] \in places
      /\ \A k \in places : \E n \in 1 .. c : order[n] = k
      /\ \A m, n \in 1 .. c : m < n => <<order[m], order[n]>> \in R
      /\ s = [n \in 1 .. c |-> r[order[n]]]
      /\ \A n \in 1 .. c : s[n] = r[order[n]]
  BY DEF Arrangement
<1> HIDE DEF c
<1>3. s \in Seq(Row) /\ Len(s) = c
  <2>1. s \in [1 .. c -> Row]  BY <1>1, <1>2
  <2> QED  BY <1>2, <2>1, FunctionIsSeq
<1>4. \A n \in 1 .. c : \E k \in places : s[n] = r[k]  BY <1>2
<1>5. \A k \in places : \E n \in 1 .. c : s[n] = r[k]  BY <1>2
<1>6. ASSUME NEW m \in 1 .. c, NEW n \in 1 .. c, m <= n PROVE s[m].ts <= s[n].ts
  <2>1. CASE m = n
    <3>1. s[m] \in Row  BY <1>3, ElementOfSeq
    <3> QED  BY <2>1, <3>1 DEF Row, Times
  <2>2. CASE m < n
    <3>1. <<order[m], order[n]>> \in R  BY <1>2, <2>2
    <3>2. r[order[m]].ts <= r[order[n]].ts  BY <1>2, <3>1
    <3> QED  BY <1>2, <3>2
  <2> QED  BY <1>2, <1>6, <2>1, <2>2
<1> QED  BY <1>3, <1>4, <1>5, <1>6 DEF SortedRows

LEMMA TimeSorted ==
  ASSUME NEW r \in Seq(Row), NEW places \in SUBSET (DOMAIN r), IsFiniteSet(places),
         NEW R, Orders(R, places),
         \A k, l \in places : <<k, l>> \in R => r[k].ts <= r[l].ts
  PROVE  SortedRows(Arranged(r, places, R), r, places)
<1>1. PICK order : Arrangement(Arranged(r, places, R), order, r, places, R)  BY ArrangedIs
<1> QED  BY <1>1, ArrangementSorted

(***************************************************************************)
(* The times of a channel, and the rows of a report, are sorted by time.   *)
(***************************************************************************)
LEMMA ChannelTimesSorted ==
  ASSUME NEW r \in Seq(Row), NEW c
  PROVE  SortedRows(ChannelTimes(r, c), r, RowsOfChannel(r, c))
<1> DEFINE places == RowsOfChannel(r, c)
<1>1. places \in SUBSET (DOMAIN r)  BY DEF RowsOfChannel, ValidRows
<1> HIDE DEF places
<1>2. SortedRows(Arranged(r, places, ByTime(r)), r, places)
  BY <1>1, ByTimeOrders, TimeSorted
<1> QED  BY <1>2 DEF ChannelTimes, places

LEMMA ReportSorted ==
  ASSUME NEW r \in Seq(Row)
  PROVE  SortedRows(SortedByTime(r), r, Dated(r))
<1> DEFINE places == Dated(r)
<1>1. places \in SUBSET (DOMAIN r)  BY DEF Dated
<1> HIDE DEF places
<1>2. SortedRows(Arranged(r, places, ByTime(r)), r, places)
  BY <1>1, ByTimeOrders, TimeSorted
<1> QED  BY <1>2 DEF SortedByTime, places

(***************************************************************************)
(* So are the valid events that detect_transitions looks at.               *)
(***************************************************************************)
LEMMA ValidEventsSorted ==
  ASSUME NEW r \in Seq(Row)
  PROVE  SortedRows(ValidEvents(MergeTimeline(r)), r, ValidRows(r))
<1> DEFINE line == MergeTimeline(r)
           places == {k \in DOMAIN line : IsValid(line[k])}
           s == Filtered(line, places)
<1>1. SortedRows(line, r, DOMAIN r)
  <2> DEFINE all == DOMAIN r
  <2>1. all \in SUBSET (DOMAIN r) /\ IsFiniteSet(all) /\ Orders(Precedes(r), all)
        /\ \A k, l \in all : <<k, l>> \in Precedes(r) => r[k].ts <= r[l].ts
    BY PrecedesOrders
  <2> HIDE DEF all
  <2>2. SortedRows(Arranged(r, all, Precedes(r)), r, all)  BY <2>1, TimeSorted
  <2> QED  BY <2>2 DEF MergeTimeline, all
<1> HIDE DEF line
<1>2. /\ line \in Seq(Row) /\ DOMAIN line = 1 .. Len(line) /\ Len(line) \in Nat
      /\ places \in SUBSET (1 .. Len(line)) /\ places \in SUBSET (DOMAIN line)
  BY <1>1, LenProperties DEF SortedRows
<1> HIDE DEF places
<1>3. SortedRows(s, line, places)
  <2>1. PICK order : Arrangement(s, order, line, places, Ascending(places))
    BY <1>2, FilteredArranges
  <2>2. \A k, l \in places : <<k, l>> \in Ascending(places) => line[k].ts <= line[l].ts
    BY <1>1, <1>2 DEF Ascending, SortedRows
  <2> HIDE DEF s
  <2> QED  BY <1>2, <2>1, <2>2, ArrangementSorted
<1> HIDE DEF s
<1>4. ASSUME NEW n \in 1 .. Len(s) PROVE \E k \in ValidRows(r) : s[n] = r[k]
  <2>1. PICK l \in places : s[n] = line[l]  BY <1>3 DEF SortedRows
  <2>2. l \in 1 .. Len(line) /\ IsValid(line[l])  BY <1>2, <2>1 DEF places
  <2>3. PICK k \in DOMAIN r : line[l] = r[k]  BY <1>1, <2>2 DEF SortedRows
  <2> QED  BY <2>1, <2>2, <2>3 DEF ValidRows
<1>5. ASSUME NEW k \in ValidRows(r) PROVE \E n \in 1 .. Len(s) : s[n] = r[k]
  <2>1. k \in DOMAIN r /\ IsValid(r[k])  BY DEF ValidRows
  <2>2. PICK l \in 1 .. Len(line) : line[l] = r[k]  BY <1>1, <2>1 DEF SortedRows
  <2>3. l \in places  BY <1>2, <2>1, <2>2 DEF places
  <2>4. PICK n \in 1 .. Len(s) : s[n] = line[l]  BY <1>3, <2>3 DEF SortedRows
  <2> QED  BY <2>2, <2>4
<1>6. SortedRows(s, r, ValidRows(r))  BY <1>3, <1>4, <1>5 DEF SortedRows
<1> QED  BY <1>6 DEF s, places, line, ValidEvents

----------------------------------------------------------------------------
(***************************************************************************)
(* Differences of u64 timestamps that do not go below zero, as i64.        *)
(***************************************************************************)
LEMMA SignedDifference ==
  ASSUME NEW d \in Times
  PROVE  /\ AsSigned(d) \in Int /\ AsSigned(d) <= d
         /\ AsSigned(d) > 0 => AsSigned(d) = d
         /\ d < Half => AsSigned(d) = d
BY DEF Times, AsSigned

(***************************************************************************)
(* A row that is between two neighbours of a sorted list is not of it.     *)
(***************************************************************************)
LEMMA NothingBetween ==
  ASSUME NEW r \in Seq(Row), NEW places \in SUBSET (DOMAIN r), NEW s,
         SortedRows(s, r, places), NEW i \in 1 .. Len(s) - 1, NEW k \in places
  PROVE  r[k].ts <= s[i].ts \/ s[i + 1].ts <= r[k].ts
<1>1. PICK n \in 1 .. Len(s) : s[n] = r[k]  BY DEF SortedRows
<1>2. Len(s) \in Nat  BY LenProperties DEF SortedRows
<1>3. i \in 1 .. Len(s) /\ i + 1 \in 1 .. Len(s)  BY <1>2
<1>4. CASE n <= i
  <2>1. s[n].ts <= s[i].ts  BY <1>3, <1>4 DEF SortedRows
  <2> QED  BY <1>1, <2>1
<1>5. CASE n > i
  <2>1. i + 1 <= n  BY <1>2, <1>5
  <2>2. s[i + 1].ts <= s[n].ts  BY <1>3, <2>1 DEF SortedRows
  <2> QED  BY <1>1, <2>2
<1> QED  BY <1>2, <1>4, <1>5

(***************************************************************************)
(* A blackout of rows r begins and ends with a valid row, is as long as    *)
(* was asked for, and no valid row lies in it but for a second at each end.*)
(***************************************************************************)
IsSilence(b, r) ==
  /\ b.start \in Times /\ b.end \in Times
  /\ \E k \in ValidRows(r) : r[k].ts = b.start
  /\ \E k \in ValidRows(r) : r[k].ts = b.end
  /\ b.start <= b.end
  /\ b.end - b.start >= BlackoutGap
  /\ \A k \in ValidRows(r) : ~(b.start + 1 < r[k].ts /\ r[k].ts < b.end - 1)

LEMMA BlackoutIsSilence ==
  ASSUME NEW r \in Seq(Row), NEW b \in DetectGlobalBlackouts(r, BlackoutGap)
  PROVE  IsSilence(b, r)
<1> DEFINE active == ActiveChannels(r)
           primary == Min(active)
           times == ChannelTimes(r, primary)
           IsGap(i) ==
             /\ AsSigned(times[i + 1].ts - times[i].ts) >= BlackoutGap
             /\ \A c \in active \ {primary} :
                  Silent(r, c, times[i].ts, times[i + 1].ts)
<1>1. /\ active # {} /\ ~(BlackoutGap <= 0)
      /\ \E i \in 1 .. Len(times) - 1 :
           IsGap(i) /\ b = [start |-> times[i].ts, end |-> times[i + 1].ts]
  BY DEF DetectGlobalBlackouts
<1>2. PICK i \in 1 .. Len(times) - 1 :
        IsGap(i) /\ b = [start |-> times[i].ts, end |-> times[i + 1].ts]
  BY <1>1
<1>3. primary \in active
  <2>1. \A k \in ValidRows(r) : r[k] \in Row
    BY LenProperties, ElementOfSeq DEF ValidRows
  <2>2. active \in SUBSET Nat  BY <2>1 DEF ActiveChannels, Row
  <2> HIDE DEF active
  <2> QED  BY <1>1, <2>2, MinIs
<1> HIDE DEF active, primary
<1> DEFINE mine == RowsOfChannel(r, primary)
<1>4. SortedRows(times, r, mine)  BY ChannelTimesSorted
<1>5. /\ AsSigned(times[i + 1].ts - times[i].ts) >= BlackoutGap
      /\ \A c \in active \ {primary} : Silent(r, c, times[i].ts, times[i + 1].ts)
  BY <1>2
<1>6. mine \in SUBSET (DOMAIN r) /\ mine \subseteq ValidRows(r)
  BY DEF RowsOfChannel, ValidRows
<1> HIDE DEF IsGap, times, mine
<1>7. i \in 1 .. Len(times) /\ i + 1 \in 1 .. Len(times) /\ i <= i + 1
  BY <1>4, LenProperties DEF SortedRows
<1>8. times[i].ts <= times[i + 1].ts /\ times[i] \in Row /\ times[i + 1] \in Row
  BY <1>4, <1>7, ElementOfSeq DEF SortedRows
<1>9. /\ \E k \in ValidRows(r) : r[k].ts = b.start
      /\ \E k \in ValidRows(r) : r[k].ts = b.end
  <2>1. PICK k \in mine : times[i] = r[k]  BY <1>4, <1>7 DEF SortedRows
  <2>2. PICK l \in mine : times[i + 1] = r[l]  BY <1>4, <1>7 DEF SortedRows
  <2> QED  BY <1>2, <1>6, <2>1, <2>2
<1>10. b.start = times[i].ts /\ b.end = times[i + 1].ts  BY <1>2
<1>11. b.start \in Times /\ b.end \in Times  BY <1>8, <1>10 DEF Row
<1>12. b.end - b.start >= BlackoutGap
  <2>1. b.end - b.start \in Times  BY <1>8, <1>10, <1>11 DEF Times
  <2>2. AsSigned(b.end - b.start) >= BlackoutGap  BY <1>5, <1>10
  <2> QED  BY <1>1, <2>1, <2>2, SignedDifference, GapsAssumption DEF Times
<1>13. ASSUME NEW k \in ValidRows(r), b.start + 1 < r[k].ts, r[k].ts < b.end - 1
       PROVE  FALSE
  <2> DEFINE c == r[k].ch
  <2>1. c \in active /\ k \in RowsOfChannel(r, c)
    BY DEF ActiveChannels, active, RowsOfChannel
  <2>2. r[k].ts \in Int
    <3>1. r[k] \in Row  BY LenProperties, ElementOfSeq DEF ValidRows
    <3> QED  BY <3>1 DEF Row, Times
  <2>3. CASE c = primary
    <3>1. k \in mine  BY <2>1, <2>3 DEF mine
    <3>2. r[k].ts <= times[i].ts \/ times[i + 1].ts <= r[k].ts
      BY <1>4, <1>6, <3>1, NothingBetween
    <3> QED  BY <1>10, <1>11, <1>13, <2>2, <3>2 DEF Times
  <2>4. CASE c # primary
    <3>1. Silent(r, c, b.start, b.end)  BY <1>5, <1>10, <2>1, <2>4
    <3> DEFINE others == ChannelTimes(r, c)
    <3>2. SortedRows(others, r, RowsOfChannel(r, c))  BY ChannelTimesSorted
    <3>3. PICK n \in 1 .. Len(others) : others[n] = r[k]
      BY <2>1, <3>2 DEF SortedRows
    <3>4. DOMAIN others = 1 .. Len(others)
      <4> HIDE DEF others
      <4> QED  BY <3>2, LenProperties DEF SortedRows
    <3>5. ~(others[n].ts > b.start + 1 /\ others[n].ts < b.end - 1)
      BY <3>1, <3>3, <3>4 DEF Silent
    <3> QED  BY <1>11, <1>13, <2>2, <3>3, <3>5 DEF Times
  <2> QED  BY <2>3, <2>4
<1>14. b.start <= b.end  BY <1>8, <1>10
<1> QED  BY <1>9, <1>11, <1>12, <1>13, <1>14 DEF IsSilence

----------------------------------------------------------------------------
(***************************************************************************)
(* The candidates are all pairs of events of two channels in the window,   *)
(* although the search for them stops at the first event out of it.        *)
(***************************************************************************)
LEMMA CandidatesAre ==
  ASSUME NEW s \in Seq(Row),
         \A m, n \in 1 .. Len(s) : m <= n => s[m].ts <= s[n].ts
  PROVE  \A i, j \in 1 .. Len(s) :
           <<i, j>> \in Candidates(s, Window) <=>
             s[i].ch # s[j].ch /\ s[j].ts - s[i].ts \in 1 .. Window
<1> SUFFICES ASSUME NEW i \in 1 .. Len(s), NEW j \in 1 .. Len(s)
             PROVE  <<i, j>> \in Candidates(s, Window) <=>
                      s[i].ch # s[j].ch /\ s[j].ts - s[i].ts \in 1 .. Window
  OBVIOUS
<1>1. DOMAIN s = 1 .. Len(s) /\ Len(s) \in Nat  BY LenProperties
<1>2. \A k \in 1 .. Len(s) : s[k].ts \in Times
  <2>1. \A k \in 1 .. Len(s) : s[k] \in Row  BY ElementOfSeq
  <2> QED  BY <2>1 DEF Row
<1>3. \A m, n \in 1 .. Len(s) : m <= n => s[n].ts - s[m].ts \in Times
  BY <1>2 DEF Times
<1> DEFINE d == s[j].ts - s[i].ts
<1>4. <<i, j>> \in Candidates(s, Window) <=>
        j \in LookedAt(s, i, Window) /\ s[i].ch # s[j].ch /\ AsSigned(d) > 0
  BY <1>1 DEF Candidates
<1>5. j \in LookedAt(s, i, Window) <=>
        /\ i < j
        /\ \A k \in i + 1 .. j : AsSigned(s[k].ts - s[i].ts) <= Window
  BY <1>1 DEF LookedAt
<1>6. ASSUME <<i, j>> \in Candidates(s, Window)
      PROVE  s[i].ch # s[j].ch /\ d \in 1 .. Window
  <2>1. i < j /\ j \in i + 1 .. j  BY <1>4, <1>5, <1>6
  <2>2. AsSigned(d) <= Window /\ AsSigned(d) > 0 /\ s[i].ch # s[j].ch
    BY <1>4, <1>5, <1>6, <2>1
  <2>3. d \in Times  BY <1>3, <2>1
  <2> HIDE DEF d
  <2>4. AsSigned(d) = d  BY <2>2, <2>3, SignedDifference
  <2> QED  BY <2>2, <2>3, <2>4, GapsAssumption DEF Times
<1>7. ASSUME s[i].ch # s[j].ch, d \in 1 .. Window
      PROVE  <<i, j>> \in Candidates(s, Window)
  <2>1. i < j
    <3>1. j <= i => s[j].ts <= s[i].ts  OBVIOUS
    <3> QED  BY <1>1, <1>2, <1>7, <3>1 DEF Times
  <2>2. d \in Times  BY <1>3, <2>1
  <2>3. AsSigned(d) > 0
    <3> HIDE DEF d
    <3>1. d < Half  BY <1>7, GapsAssumption
    <3> QED  BY <1>7, <2>2, <3>1, SignedDifference
  <2>4. ASSUME NEW k \in i + 1 .. j PROVE AsSigned(s[k].ts - s[i].ts) <= Window
    <3> DEFINE e == s[k].ts - s[i].ts
    <3>1. k \in 1 .. Len(s) /\ i <= k /\ k <= j  BY <1>1
    <3>2. e \in Times /\ s[k].ts <= s[j].ts  BY <1>3, <3>1
    <3>3. e <= d  BY <1>2, <3>1, <3>2 DEF Times
    <3> HIDE DEF d, e
    <3>4. AsSigned(e) <= e /\ AsSigned(e) \in Int  BY <3>2, SignedDifference
    <3>5. AsSigned(e) <= Window
      BY <1>7, <2>2, <3>2, <3>3, <3>4, GapsAssumption DEF Times
    <3> QED  BY <3>5 DEF e
  <2> QED  BY <1>4, <1>5, <1>7, <2>1, <2>3, <2>4
<1> QED  BY <1>6, <1>7

(***************************************************************************)
(* Of the candidates with one key exactly one is kept.                     *)
(***************************************************************************)
LEMMA OneOfEachKey ==
  ASSUME NEW s, NEW C \in SUBSET (Nat \X Nat)
  PROVE  /\ FirstOfEachKey(s, C) \subseteq C
         /\ \A t \in C : \E u \in FirstOfEachKey(s, C) : Key(s, u) = Key(s, t)
         /\ \A t, u \in FirstOfEachKey(s, C) : Key(s, t) = Key(s, u) => t = u
<1>1. FirstOfEachKey(s, C) \subseteq C  BY DEF FirstOfEachKey
<1>2. ASSUME NEW t \in C PROVE \E u \in FirstOfEachKey(s, C) : Key(s, u) = Key(s, t)
  <2> DEFINE Same == {v \in C : Key(s, v) = Key(s, t)}
             A == {v[1] : v \in Same}
  <2>1. \E a \in A : \A x \in A : a <= x
    <3>1. A \in SUBSET Nat /\ A # {}  OBVIOUS
    <3> HIDE DEF A
    <3> QED  BY <3>1, Smallest
  <2>2. PICK a \in A : \A x \in A : a <= x  BY <2>1
  <2> DEFINE B == {v[2] : v \in {w \in Same : w[1] = a}}
  <2>3. \E b \in B : \A y \in B : b <= y
    <3>1. B \in SUBSET Nat /\ B # {}  OBVIOUS
    <3> HIDE DEF B
    <3> QED  BY <3>1, Smallest
  <2>4. PICK b \in B : \A y \in B : b <= y  BY <2>3
  <2>5. PICK u \in Same : u[1] = a /\ u[2] = b  BY <2>4
  <2>6. ASSUME NEW v \in C, Key(s, v) = Key(s, u)
        PROVE  u[1] < v[1] \/ (u[1] = v[1] /\ u[2] <= v[2])
    <3>1. v \in Same  BY <2>5, <2>6
    <3>2. a <= v[1]  BY <2>2, <3>1
    <3>3. v[1] = a => b <= v[2]  BY <2>4, <3>1
    <3>4. u[1] \in Nat /\ v[1] \in Nat  OBVIOUS
    <3> QED  BY <2>5, <3>2, <3>3, <3>4
  <2>7. u \in FirstOfEachKey(s, C)  BY <2>6 DEF FirstOfEachKey
  <2> QED  BY <2>7
<1>3. ASSUME NEW t \in FirstOfEachKey(s, C), NEW u \in FirstOfEachKey(s, C),
             Key(s, t) = Key(s, u)
      PROVE  t = u
  <2>1. /\ t[1] < u[1] \/ (t[1] = u[1] /\ t[2] <= u[2])
        /\ u[1] < t[1] \/ (u[1] = t[1] /\ u[2] <= t[2])
    BY <1>1, <1>3 DEF FirstOfEachKey
  <2>2. t \in Nat \X Nat /\ u \in Nat \X Nat  BY <1>1
  <2>3. t[1] = u[1] /\ t[2] = u[2]  BY <2>1, <2>2
  <2> QED  BY <2>2, <2>3
<1> QED  BY <1>1, <1>2, <1>3

(***************************************************************************)
(* The moves between the valid rows of r, and what DetectTransitions makes *)
(* of these: the moves, each once.                                         *)
(***************************************************************************)
MovesIn(r) ==
  {<<r[p[1]].ch, r[p[2]].ch, r[p[1]].ts, r[p[2]].ts>> : p \in
     {q \in ValidRows(r) \X ValidRows(r) :
        r[q[1]].ch # r[q[2]].ch /\ r[q[2]].ts - r[q[1]].ts \in 1 .. Window}}

LEMMA TransitionsAreMoves ==
  ASSUME NEW r \in Seq(Row), NEW T, T = DetectTransitions(MergeTimeline(r), Window)
  PROVE  /\ {MoveOf(t) : t \in T} = MovesIn(r)
         /\ \A t, u \in T : MoveOf(t) = MoveOf(u) => t = u
<1> DEFINE s == ValidEvents(MergeTimeline(r))
           C == Candidates(s, Window)
           first == FirstOfEachKey(s, C)
<1>1. SortedRows(s, r, ValidRows(r))  BY ValidEventsSorted
<1>2. T = IF Window <= 0 THEN {} ELSE {Transition(s, t) : t \in first}
  BY DEF DetectTransitions
<1> HIDE DEF s
<1>3. /\ s \in Seq(Row) /\ DOMAIN s = 1 .. Len(s) /\ Len(s) \in Nat
      /\ C \in SUBSET ((1 .. Len(s)) \X (1 .. Len(s))) /\ C \in SUBSET (Nat \X Nat)
  BY <1>1, LenProperties DEF SortedRows, Candidates
<1>4. \A i, j \in 1 .. Len(s) :
        <<i, j>> \in C <=> s[i].ch # s[j].ch /\ s[j].ts - s[i].ts \in 1 .. Window
  BY <1>1, CandidatesAre DEF SortedRows
<1> HIDE DEF C
<1>5. /\ first \subseteq C
      /\ \A t \in C : \E u \in first : Key(s, u) = Key(s, t)
      /\ \A t, u \in first : Key(s, t) = Key(s, u) => t = u
  BY <1>3, OneOfEachKey
<1> HIDE DEF first
<1>6. \A t : MoveOf(Transition(s, t)) = Key(s, t)  BY DEF MoveOf, Transition, Key
<1>7. ASSUME NEW t \in first
      PROVE  Key(s, t) \in MovesIn(r)
  <2>1. t = <<t[1], t[2]>> /\ t[1] \in 1 .. Len(s) /\ t[2] \in 1 .. Len(s) /\ t \in C
    BY <1>3, <1>5
  <2>2. s[t[1]].ch # s[t[2]].ch /\ s[t[2]].ts - s[t[1]].ts \in 1 .. Window
    BY <1>4, <2>1
  <2>3. PICK k \in ValidRows(r) : s[t[1]] = r[k]  BY <1>1, <2>1 DEF SortedRows
  <2>4. PICK l \in ValidRows(r) : s[t[2]] = r[l]  BY <1>1, <2>1 DEF SortedRows
  <2>5. Key(s, t) = <<r[k].ch, r[l].ch, r[k].ts, r[l].ts>>  BY <2>3, <2>4 DEF Key
  <2>6. r[k].ch # r[l].ch /\ r[l].ts - r[k].ts \in 1 .. Window  BY <2>2, <2>3, <2>4
  <2> DEFINE p == <<k, l>>
  <2>7. /\ p \in {q \in ValidRows(r) \X ValidRows(r) :
                   r[q[1]].ch # r[q[2]].ch /\ r[q[2]].ts - r[q[1]].ts \in 1 .. Window}
        /\ p[1] = k /\ p[2] = l
    BY <2>6
  <2> HIDE DEF p
  <2> QED  BY <2>5, <2>7 DEF MovesIn
<1>8. ASSUME NEW m \in MovesIn(r)
      PROVE  \E t \in first : Key(s, t) = m /\ Window > 0
  <2>1. PICK k \in ValidRows(r), l \in ValidRows(r) :
          /\ m = <<r[k].ch, r[l].ch, r[k].ts, r[l].ts>>
          /\ r[k].ch # r[l].ch /\ r[l].ts - r[k].ts \in 1 .. Window
    BY DEF MovesIn
  <2>2. PICK i \in 1 .. Len(s) : s[i] = r[k]  BY <1>1 DEF SortedRows
  <2>3. PICK j \in 1 .. Len(s) : s[j] = r[l]  BY <1>1 DEF SortedRows
  <2>4. <<i, j>> \in C  BY <1>4, <2>1, <2>2, <2>3
  <2>5. Key(s, <<i, j>>) = m  BY <2>1, <2>2, <2>3 DEF Key
  <2>6. Window > 0  BY <2>1, GapsAssumption
  <2> QED  BY <1>5, <2>4, <2>5, <2>6
<1>9. \A t \in T : \E u \in first : t = Transition(s, u)  BY <1>2
<1>10. {MoveOf(t) : t \in T} \subseteq MovesIn(r)  BY <1>6, <1>7, <1>9
<1>11. ASSUME NEW m \in MovesIn(r) PROVE \E t \in T : MoveOf(t) = m
  <2>1. PICK u \in first : Key(s, u) = m /\ Window > 0  BY <1>8
  <2>2. Transition(s, u) \in T  BY <1>2, <2>1, GapsAssumption
  <2> QED  BY <1>6, <2>1, <2>2
<1>12. ASSUME NEW t \in T, NEW u \in T, MoveOf(t) = MoveOf(u) PROVE t = u
  <2>1. PICK v \in first : t = Transition(s, v)  BY <1>9
  <2>2. PICK w \in first : u = Transition(s, w)  BY <1>9
  <2>3. Key(s, v) = Key(s, w)  BY <1>6, <1>12, <2>1, <2>2
  <2>4. v = w  BY <1>5, <2>3
  <2> QED  BY <2>1, <2>2, <2>4
<1> QED  BY <1>10, <1>11, <1>12

----------------------------------------------------------------------------
(***************************************************************************)
(* What rows have recorded, whatever their ids and blocks are.             *)
(***************************************************************************)
Recording(x) == [ch |-> x.ch, ts |-> x.ts, seq |-> x.seq, corrupted |-> x.corrupted]

Recordings(r) == {Recording(r[k]) : k \in DOMAIN r}

LEMMA RecordingKeeps ==
  ASSUME NEW x, NEW y, Recording(x) = Recording(y)
  PROVE  x.ch = y.ch /\ x.ts = y.ts /\ (IsValid(x) <=> IsValid(y))
<1>1. /\ Recording(x).ch = Recording(y).ch /\ Recording(x).ts = Recording(y).ts
      /\ Recording(x).corrupted = Recording(y).corrupted
  OBVIOUS
<1>2. x.ch = y.ch /\ x.ts = y.ts /\ x.corrupted = y.corrupted  BY <1>1 DEF Recording
<1> QED  BY <1>2 DEF IsValid

(***************************************************************************)
(* A blackout of rows r is covered by an alert about rows q that recorded  *)
(* the same, up to the two seconds that are let pass.                      *)
(***************************************************************************)
LEMMA BlackoutIsAlert ==
  ASSUME NEW r \in Seq(Row), NEW q \in Seq(Row), Recordings(r) = Recordings(q),
         NEW b, IsSilence(b, r), b.start > 0, b.end - b.start - 2 > ExpectedGap,
         ~ \E k \in DOMAIN r : ~IsValid(r[k]) /\ b.start <= r[k].ts /\ r[k].ts <= b.end
  PROVE  \E a \in Discontinuities(q) : a.start <= b.start + 1 /\ a.end >= b.end - 1
<1> DEFINE s == SortedByTime(q)
<1>1. SortedRows(s, q, Dated(q))  BY ReportSorted
<1>2. Discontinuities(q) =
        {[start |-> s[k].ts, end |-> s[k + 1].ts, affected |-> {s[k].ch, s[k + 1].ch}] :
           k \in {l \in 1 .. Len(s) - 1 : s[l + 1].ts - s[l].ts > ExpectedGap}}
  BY DEF Discontinuities
<1> HIDE DEF s
<1>3. Len(s) \in Nat /\ \A n \in 1 .. Len(s) : s[n] \in Row /\ s[n].ts \in Times
  <2>1. s \in Seq(Row)  BY <1>1 DEF SortedRows
  <2>2. \A n \in 1 .. Len(s) : s[n] \in Row  BY <2>1, ElementOfSeq
  <2> QED  BY <2>1, <2>2, LenProperties DEF Row
<1>4. b.start \in Times /\ b.end \in Times  BY DEF IsSilence
<1>5. ASSUME NEW k \in DOMAIN r, r[k].ts > 0
      PROVE  \E n \in 1 .. Len(s) : s[n].ts = r[k].ts
  <2>1. Recording(r[k]) \in Recordings(q)  BY DEF Recordings
  <2>2. PICK l \in DOMAIN q : Recording(r[k]) = Recording(q[l])
    BY <2>1 DEF Recordings
  <2>3. q[l].ts = r[k].ts  BY <2>2, RecordingKeeps
  <2>4. l \in Dated(q)  BY <1>5, <2>3 DEF Dated
  <2>5. PICK n \in 1 .. Len(s) : s[n] = q[l]  BY <1>1, <2>4 DEF SortedRows
  <2> QED  BY <2>3, <2>5
<1>6. \A k \in ValidRows(r) : k \in DOMAIN r  BY DEF ValidRows
<1>7. PICK first \in 1 .. Len(s) : s[first].ts = b.start
  <2>1. PICK k \in ValidRows(r) : r[k].ts = b.start  BY DEF IsSilence
  <2>2. k \in DOMAIN r /\ r[k].ts > 0  BY <1>6, <2>1
  <2> QED  BY <1>5, <2>1, <2>2
<1>8. PICK final \in 1 .. Len(s) : s[final].ts = b.end
  <2>1. PICK k \in ValidRows(r) : r[k].ts = b.end  BY DEF IsSilence
  <2>2. k \in DOMAIN r  BY <1>6, <2>1
  <2>3. b.end > 0  BY <1>4, GapsAssumption DEF Times
  <2>4. r[k].ts > 0  BY <2>1, <2>3
  <2> QED  BY <1>5, <2>1, <2>2, <2>4
<1> DEFINE A == {n \in 1 .. Len(s) : s[n].ts <= b.start + 1}
<1>9. PICK i \in A : \A n \in A : n <= i
  <2>1. A \in SUBSET Nat /\ A # {} /\ \A n \in A : n <= Len(s)
    BY <1>3, <1>4, <1>7 DEF Times
  <2> HIDE DEF A
  <2> QED  BY <1>3, <2>1, Greatest
<1>10. i \in 1 .. Len(s) /\ s[i].ts <= b.start + 1  BY <1>9
<1>11. i < final
  <2>1. final <= i => s[final].ts <= s[i].ts  BY <1>1, <1>10 DEF SortedRows
  <2> QED  BY <1>3, <1>4, <1>8, <1>10, <2>1, GapsAssumption DEF Times
<1>12. i \in 1 .. Len(s) - 1 /\ i + 1 \in 1 .. Len(s)  BY <1>3, <1>10, <1>11
<1> DEFINE now == s[i].ts
           next == s[i + 1].ts
<1>13. now \in Times /\ next \in Times /\ next > b.start + 1
  <2>1. i + 1 \notin A  BY <1>3, <1>9, <1>10
  <2>2. now \in Times /\ next \in Times  BY <1>3, <1>10, <1>12
  <2>3. ~(next <= b.start + 1)  BY <1>12, <2>1
  <2> HIDE DEF now, next
  <2> QED  BY <1>4, <2>2, <2>3 DEF Times
<1>14. next >= b.end - 1
  <2>1. PICK l \in Dated(q) : s[i + 1] = q[l]  BY <1>1, <1>12 DEF SortedRows
  <2>2. Recording(q[l]) \in Recordings(r)  BY <2>1 DEF Recordings, Dated
  <2>3. PICK k \in DOMAIN r : Recording(q[l]) = Recording(r[k])
    BY <2>2 DEF Recordings
  <2>4. r[k].ts = next  BY <2>1, <2>3, RecordingKeeps
  <2> HIDE DEF next
  <2>6. CASE IsValid(r[k])
    <3>1. k \in ValidRows(r)  BY <2>6 DEF ValidRows
    <3>2. ~(b.start + 1 < r[k].ts /\ r[k].ts < b.end - 1)  BY <3>1 DEF IsSilence
    <3> QED  BY <1>4, <1>13, <2>4, <3>2 DEF Times
  <2>7. CASE ~IsValid(r[k])
    <3>1. ~(b.start <= r[k].ts /\ r[k].ts <= b.end)  BY <2>7
    <3> QED  BY <1>4, <1>13, <2>4, <3>1 DEF Times
  <2> QED  BY <2>6, <2>7
<1>15. s[i + 1].ts - s[i].ts > ExpectedGap
  <2>1. now <= b.start + 1  BY <1>10
  <2> HIDE DEF now, next
  <2>2. next - now > ExpectedGap  BY <1>4, <1>13, <1>14, <2>1, GapsAssumption DEF Times
  <2> QED  BY <2>2 DEF now, next
<1> DEFINE a == [start |-> s[i].ts, end |-> s[i + 1].ts,
                 affected |-> {s[i].ch, s[i + 1].ch}]
<1>16. a \in Discontinuities(q)  BY <1>2, <1>12, <1>15
<1>17. a.start <= b.start + 1 /\ a.end >= b.end - 1  BY <1>10, <1>14
<1> QED  BY <1>16, <1>17

----------------------------------------------------------------------------
(***************************************************************************)
(* s lists the numbers of S in order, each once.                           *)
(***************************************************************************)
Lists(s, S) ==
  /\ s \in Seq(Int)
  /\ ToSet(s) = S
  /\ \A k, l \in DOMAIN s : k < l => s[k] < s[l]

LEMMA ConcatLists ==
  ASSUME NEW s, NEW S, Lists(s, S), NEW t, NEW T, Lists(t, T),
         \A x \in S : \A y \in T : x < y
  PROVE  Lists(s \o t, S \cup T)
<1> DEFINE m == Len(s)
           n == Len(t)
           w == s \o t
<1>1. /\ s \in Seq(Int) /\ t \in Seq(Int) /\ m \in Nat /\ n \in Nat
      /\ DOMAIN s = 1 .. m /\ DOMAIN t = 1 .. n
  BY LenProperties DEF Lists
<1>2. /\ w \in Seq(Int) /\ Len(w) = m + n
      /\ \A i \in 1 .. m + n : w[i] = IF i <= m THEN s[i] ELSE t[i - m]
  BY <1>1, ConcatProperties
<1>3. DOMAIN w = 1 .. m + n  BY <1>2, LenProperties
<1> HIDE DEF w
<1>4. /\ \A k \in 1 .. m : s[k] \in S /\ s[k] \in Int
      /\ \A k \in 1 .. n : t[k] \in T /\ t[k] \in Int
  <2>1. \A k \in 1 .. m : s[k] \in S  BY <1>1 DEF Lists, ToSet
  <2>2. \A k \in 1 .. n : t[k] \in T  BY <1>1 DEF Lists, ToSet
  <2>3. \A k \in 1 .. m : s[k] \in Int  BY <1>1, ElementOfSeq
  <2>4. \A k \in 1 .. n : t[k] \in Int  BY <1>1, ElementOfSeq
  <2> QED  BY <2>1, <2>2, <2>3, <2>4
<1>5. \A k, l \in 1 .. m : k < l => s[k] < s[l]  BY <1>1 DEF Lists
<1>6. \A k, l \in 1 .. n : k < l => t[k] < t[l]  BY <1>1 DEF Lists
<1> HIDE DEF m, n
<1>7. ASSUME NEW k \in 1 .. m + n, NEW l \in 1 .. m + n, k < l PROVE w[k] < w[l]
  <2>1. CASE l <= m
    <3>1. w[k] = s[k] /\ w[l] = s[l] /\ k \in 1 .. m /\ l \in 1 .. m
      BY <1>1, <1>2, <1>7, <2>1
    <3> QED  BY <1>5, <1>7, <3>1
  <2>2. CASE k <= m /\ m < l
    <3>1. w[k] = s[k] /\ w[l] = t[l - m] /\ k \in 1 .. m /\ l - m \in 1 .. n
      BY <1>1, <1>2, <2>2
    <3> QED  BY <1>4, <3>1
  <2>3. CASE m < k
    <3>1. /\ w[k] = t[k - m] /\ w[l] = t[l - m]
          /\ k - m \in 1 .. n /\ l - m \in 1 .. n /\ k - m < l - m
      BY <1>1, <1>2, <1>7, <2>3
    <3> QED  BY <1>6, <3>1
  <2> QED  BY <1>1, <1>7, <2>1, <2>2, <2>3
<1>8. ToSet(w) = S \cup T
  <2>1. ASSUME NEW k \in 1 .. m + n PROVE w[k] \in S \cup T
    <3>1. CASE k <= m
      <4>1. k \in 1 .. m /\ w[k] = s[k]  BY <1>1, <1>2, <3>1
      <4> QED  BY <1>4, <4>1
    <3>2. CASE m < k
      <4>1. k - m \in 1 .. n /\ w[k] = t[k - m]  BY <1>1, <1>2, <3>2
      <4> QED  BY <1>4, <4>1
    <3> QED  BY <1>1, <3>1, <3>2
  <2>2. ASSUME NEW x \in S PROVE \E k \in 1 .. m + n : w[k] = x
    <3>1. PICK k \in 1 .. m : s[k] = x  BY <1>1 DEF Lists, ToSet
    <3>2. k \in 1 .. m + n /\ w[k] = s[k]  BY <1>1, <1>2
    <3> QED  BY <3>1, <3>2
  <2>3. ASSUME NEW x \in T PROVE \E k \in 1 .. m + n : w[k] = x
    <3>1. PICK k \in 1 .. n : t[k] = x  BY <1>1 DEF Lists, ToSet
    <3>2. m + k \in 1 .. m + n /\ ~(m + k <= m) /\ (m + k) - m = k  BY <1>1
    <3>3. w[m + k] = t[k]  BY <1>2, <3>2
    <3> QED  BY <3>1, <3>2, <3>3
  <2> QED  BY <1>3, <2>1, <2>2, <2>3 DEF ToSet
<1>9. Lists(w, S \cup T)  BY <1>2, <1>3, <1>7, <1>8 DEF Lists
<1> QED  BY <1>9 DEF w

(***************************************************************************)
(* The numbers skipped between a and b, where a + 1 is in 32 bits.         *)
(***************************************************************************)
LEMMA SkippedLists ==
  ASSUME NEW a \in 0 .. SeqMax - 1, NEW b \in 0 .. SeqMax, a <= b
  PROVE  Lists(Skipped(a, b), a + 1 .. b - 1)
<1> DEFINE s == Skipped(a, b)
<1>1. Following(a) = a + 1  BY DEF Following
<1>2. CASE b > a + 1
  <2> DEFINE c == b - (a + 1)
  <2>1. s = [k \in 1 .. c |-> a + 1 + k - 1]  BY <1>1, <1>2 DEF Skipped
  <2>2. c \in Nat /\ \A k \in 1 .. c : a + 1 + k - 1 \in Int  BY <1>2
  <2> HIDE DEF s, c
  <2>3. s \in [1 .. c -> Int]  BY <2>1, <2>2
  <2>4. s \in Seq(Int) /\ DOMAIN s = 1 .. c  BY <2>2, <2>3, FunctionIsSeq
  <2>5. \A k \in 1 .. c : s[k] = a + k  BY <2>1, <2>2
  <2>6. ToSet(s) = a + 1 .. b - 1
    <3>1. \A k \in 1 .. c : s[k] \in a + 1 .. b - 1  BY <2>5, <2>2 DEF c
    <3>2. ASSUME NEW x \in a + 1 .. b - 1 PROVE \E k \in 1 .. c : s[k] = x
      <4>1. x - a \in 1 .. c /\ a + (x - a) = x  BY DEF c
      <4> QED  BY <2>5, <4>1
    <3> QED  BY <2>4, <3>1, <3>2 DEF ToSet
  <2>7. \A k, l \in DOMAIN s : k < l => s[k] < s[l]  BY <2>2, <2>4, <2>5
  <2> QED  BY <2>4, <2>6, <2>7 DEF Lists, s
<1>3. CASE ~(b > a + 1)
  <2>1. s = <<>>  BY <1>1, <1>3 DEF Skipped
  <2>2. a + 1 .. b - 1 = {}  BY <1>3
  <2> HIDE DEF s
  <2>3. <<>> \in Seq(Int) /\ DOMAIN <<>> = {}  OBVIOUS
  <2>4. ToSet(s) = {}  BY <2>1, <2>3 DEF ToSet
  <2> QED  BY <2>1, <2>2, <2>3, <2>4 DEF Lists, s
<1> QED  BY <1>2, <1>3

(***************************************************************************)
(* The numbers up to that of record i of the stream that no record up to i *)
(* carries; sequence_gaps of the stream lists those of its last record.    *)
(***************************************************************************)
MissingUpTo(stream, i) ==
  (stream[1].seq .. stream[i].seq) \ {stream[k].seq : k \in 1 .. i}

LEMMA OneMoreGap ==
  ASSUME NEW stream \in Seq(Record), NEW i \in 1 .. Len(stream) - 1,
         \A m, n \in 1 .. Len(stream) : m <= n => stream[m].seq <= stream[n].seq
  PROVE  MissingUpTo(stream, i + 1)
           = MissingUpTo(stream, i) \cup (stream[i].seq + 1 .. stream[i + 1].seq - 1)
<1> DEFINE a == stream[i].seq
           b == stream[i + 1].seq
           first == stream[1].seq
           old == {stream[k].seq : k \in 1 .. i}
           new == {stream[k].seq : k \in 1 .. i + 1}
<1>1. Len(stream) \in Nat  BY LenProperties
<1>2. i \in 1 .. Len(stream) /\ i + 1 \in 1 .. Len(stream) /\ 1 \in 1 .. Len(stream)
  BY <1>1
<1>3. \A k \in 1 .. Len(stream) : stream[k].seq \in Int
  <2>1. \A k \in 1 .. Len(stream) : stream[k] \in Record  BY ElementOfSeq
  <2> QED  BY <2>1, SeqMaxAssumption DEF Record
<1>4. first <= a /\ a <= b /\ first \in Int /\ a \in Int /\ b \in Int
  BY <1>2, <1>3
<1>5. \A x \in old : x \in Int /\ x <= a
  <2>1. \A k \in 1 .. i : k \in 1 .. Len(stream) /\ k <= i  BY <1>1
  <2> QED  BY <1>2, <1>3, <2>1
<1>6. new = old \cup {b}
  <2>1. 1 .. i + 1 = (1 .. i) \cup {i + 1}  BY <1>2
  <2> QED  BY <2>1
<1>7. a \in old  BY <1>2
<1> HIDE DEF a, b, first, old, new
<1>8. (first .. b) \ new = ((first .. a) \ old) \cup (a + 1 .. b - 1)
  BY <1>4, <1>5, <1>6, <1>7
<1> QED  BY <1>8 DEF MissingUpTo, a, b, first, old, new

LEMMA GapsAreListed ==
  ASSUME NEW stream \in Seq(Record), stream # <<>>, ~AdditionOverflows(stream),
         \A m, n \in 1 .. Len(stream) : m <= n => stream[m].seq <= stream[n].seq
  PROVE  Lists(SequenceGaps(stream), MissingUpTo(stream, Len(stream)))
<1> DEFINE n == Len(stream) - 1
           skipped == [k \in 1 .. n |-> Skipped(stream[k].seq, stream[k + 1].seq)]
<1>1. Len(stream) \in Nat /\ Len(stream) # 0  BY LenProperties, EmptySeq
<1>2. n \in Nat /\ Len(stream) = n + 1  BY <1>1
<1>3. SequenceGaps(stream) = FlattenSeq(skipped)  BY DEF SequenceGaps
<1>4. ASSUME NEW k \in 1 .. n
      PROVE  Lists(skipped[k], stream[k].seq + 1 .. stream[k + 1].seq - 1)
  <2>1. k \in 1 .. Len(stream) /\ k + 1 \in 1 .. Len(stream) /\ k <= k + 1  BY <1>2
  <2>2. stream[k] \in Record /\ stream[k + 1] \in Record  BY <2>1, ElementOfSeq
  <2>3. stream[k].seq # SeqMax  BY DEF AdditionOverflows
  <2> DEFINE a == stream[k].seq
             b == stream[k + 1].seq
  <2>4. a \in 0 .. SeqMax - 1 /\ b \in 0 .. SeqMax /\ a <= b
    BY <2>1, <2>2, <2>3 DEF Record
  <2> HIDE DEF a, b
  <2>5. Lists(Skipped(a, b), a + 1 .. b - 1)  BY <2>4, SkippedLists
  <2> QED  BY <2>5 DEF a, b
<1>5. CASE n = 0
  <2>1. skipped = <<>>
    <3>1. 1 .. 0 = {}  OBVIOUS
    <3>2. 1 .. n = {}  BY <1>5, <3>1
    <3> QED  BY <3>2
  <2> HIDE DEF skipped
  <2>2. FlattenSeq(skipped) = <<>>  BY <2>1 DEF FlattenSeq
  <2>3. MissingUpTo(stream, Len(stream)) = {}
    <3>1. stream[1].seq \in Int
      <4>1. stream[1] \in Record  BY <1>2, ElementOfSeq
      <4> QED  BY <4>1, SeqMaxAssumption DEF Record
    <3>2. Len(stream) = 1  BY <1>1, <1>5
    <3>3. stream[1].seq \in {stream[k].seq : k \in 1 .. 1}  OBVIOUS
    <3> QED  BY <3>1, <3>2, <3>3 DEF MissingUpTo
  <2>4. <<>> \in Seq(Int) /\ DOMAIN <<>> = {}  OBVIOUS
  <2>5. ToSet(<<>>) = {}  BY <2>4 DEF ToSet
  <2>6. Lists(<<>>, {})  BY <2>4, <2>5 DEF Lists
  <2> QED  BY <1>3, <2>2, <2>3, <2>6
<1>6. CASE n # 0
  <2>1. skipped \in [1 .. n -> Seq(Int)]
    <3>1. \A k \in 1 .. n : skipped[k] \in Seq(Int)  BY <1>4 DEF Lists
    <3> QED  BY <3>1
  <2>2. Len(skipped) = n  BY <1>2, <2>1, FunctionIsSeq
  <2> HIDE DEF skipped
  <2>3. n \in Nat \ {0}  BY <1>2, <1>6
  <2> HIDE DEF n
  <2>4. PICK f : Joins(skipped, n, f) /\ FlattenSeq(skipped) = f[n]
    BY <2>2, <2>3, FlattenIs
  <2>5. /\ f[1] = skipped[1]
        /\ \A k \in 2 .. n : f[k] = f[k - 1] \o skipped[k]
    BY <2>3, <2>4, JoinsAre
  <2> DEFINE T == {k \in 1 .. n : ~Lists(f[k], MissingUpTo(stream, k + 1))}
  <2>6. T = {}
    <3> SUFFICES ASSUME T # {} PROVE FALSE
      OBVIOUS
    <3>1. PICK k \in T : \A m \in T : k <= m
      <4>1. T \in SUBSET Nat  OBVIOUS
      <4> HIDE DEF T
      <4> QED  BY <4>1, Smallest
    <3>2. k \in 1 .. Len(stream) - 1 /\ k \in 1 .. n  BY <1>2, <2>3, <3>1
    <3> DEFINE new == stream[k].seq + 1 .. stream[k + 1].seq - 1
    <3>3. MissingUpTo(stream, k + 1) = MissingUpTo(stream, k) \cup new
      BY <3>2, OneMoreGap
    <3>4. Lists(skipped[k], new)  BY <1>4, <3>2
    <3>5. CASE k = 1
      <4>1. MissingUpTo(stream, 1) = {}
        <5>1. stream[1].seq \in Int
          <6>1. stream[1] \in Record  BY <1>2, <2>3, ElementOfSeq
          <6> QED  BY <6>1, SeqMaxAssumption DEF Record
        <5>2. stream[1].seq \in {stream[m].seq : m \in 1 .. 1}  OBVIOUS
        <5> QED  BY <5>1, <5>2 DEF MissingUpTo
      <4> HIDE DEF new
      <4>2. Lists(f[1], MissingUpTo(stream, 1 + 1))  BY <2>5, <3>3, <3>4, <3>5, <4>1
      <4> QED  BY <3>1, <3>5, <4>2
    <3>6. CASE k # 1
      <4>1. k - 1 \in 1 .. n /\ k - 1 \notin T /\ (k - 1) + 1 = k /\ k \in 2 .. n
        <5>1. k - 1 \in 1 .. n /\ (k - 1) + 1 = k /\ k \in 2 .. n /\ ~(k <= k - 1)
          BY <2>3, <3>2, <3>6
        <5>2. k - 1 \notin T
          <6> HIDE DEF T
          <6> QED  BY <3>1, <5>1
        <5> QED  BY <5>1, <5>2
      <4>2. Lists(f[k - 1], MissingUpTo(stream, k))  BY <4>1
      <4>3. \A x \in MissingUpTo(stream, k) : \A y \in new : x < y
        <5>1. stream[k].seq \in Int /\ stream[k + 1].seq \in Int
              /\ stream[1].seq \in Int
          <6>1. /\ k \in 1 .. Len(stream) /\ k + 1 \in 1 .. Len(stream)
                /\ 1 \in 1 .. Len(stream)
            BY <1>2, <2>3, <3>2
          <6>2. stream[k] \in Record /\ stream[k + 1] \in Record /\ stream[1] \in Record
            BY <6>1, ElementOfSeq
          <6> QED  BY <6>2, SeqMaxAssumption DEF Record
        <5> QED  BY <5>1 DEF MissingUpTo
      <4> HIDE DEF new
      <4>4. Lists(f[k - 1] \o skipped[k], MissingUpTo(stream, k) \cup new)
        BY <3>4, <4>2, <4>3, ConcatLists
      <4>5. f[k] = f[k - 1] \o skipped[k]  BY <2>5, <4>1
      <4> QED  BY <3>1, <3>3, <4>4, <4>5
    <3> QED  BY <3>5, <3>6
  <2>7. n \in 1 .. n  BY <2>3
  <2>8. Lists(f[n], MissingUpTo(stream, n + 1))  BY <2>6, <2>7
  <2> QED  BY <1>2, <1>3, <2>4, <2>8
<1> QED  BY <1>5, <1>6

(***************************************************************************)
(* The stream of a channel is its records, by sequence number.             *)
(***************************************************************************)
LEMMA StreamIs ==
  ASSUME NEW r \in Seq(Record), NEW c \in Channels(r)
  PROVE  /\ Stream(r, c) \in Seq(Record) /\ Stream(r, c) # <<>>
         /\ \A m, n \in 1 .. Len(Stream(r, c)) :
              m <= n => Stream(r, c)[m].seq <= Stream(r, c)[n].seq
         /\ \A n \in 1 .. Len(Stream(r, c)) : \E k \in Bucket(r, c) : Stream(r, c)[n] = r[k]
         /\ \A k \in Bucket(r, c) : \E n \in 1 .. Len(Stream(r, c)) : Stream(r, c)[n] = r[k]
<1> DEFINE s == Stream(r, c)
           places == Bucket(r, c)
           R == BySequence(r)
           size == Cardinality(places)
<1>1. places \in SUBSET (DOMAIN r) /\ places # {}  BY DEF Bucket, Channels
<1>2. s = Arranged(r, places, R)  BY DEF Stream
<1> HIDE DEF s, places
<1>3. /\ IsFiniteSet(places) /\ Orders(R, places)
      /\ \A k, l \in DOMAIN r : <<k, l>> \in R => r[k].seq <= r[l].seq
  BY <1>1, BySequenceOrders
<1> HIDE DEF R
<1>4. \A k \in places : r[k] \in Record  BY <1>1, LenProperties, ElementOfSeq
<1>5. s \in Seq(Record) /\ Len(s) = size  BY <1>2, <1>3, <1>4, ArrangedType
<1>6. PICK order : Arrangement(s, order, r, places, R)  BY <1>2, <1>3, ArrangedIs
<1>7. /\ size \in Nat
      /\ \A n \in 1 .. size : order[n] \in places /\ s[n] = r[order[n]]
      /\ \A k \in places : \E n \in 1 .. size : order[n] = k
      /\ \A m, n \in 1 .. size : m < n => <<order[m], order[n]>> \in R
  BY <1>6 DEF Arrangement
<1> HIDE DEF size
<1>8. ASSUME NEW m \in 1 .. size, NEW n \in 1 .. size, m <= n PROVE s[m].seq <= s[n].seq
  <2>1. CASE m = n
    <3>1. s[m] \in Record  BY <1>5, ElementOfSeq
    <3> QED  BY <2>1, <3>1, SeqMaxAssumption DEF Record
  <2>2. CASE m < n
    <3>1. r[order[m]].seq <= r[order[n]].seq  BY <1>1, <1>3, <1>7, <2>2
    <3> QED  BY <1>7, <3>1
  <2> QED  BY <1>7, <1>8, <2>1, <2>2
<1>9. \A k \in places : \E n \in 1 .. size : s[n] = r[k]  BY <1>7
<1>10. s # <<>>
  <2>1. \E n \in 1 .. size : TRUE  BY <1>1, <1>9
  <2> QED  BY <1>5, <2>1, EmptySeq
<1>11. /\ s \in Seq(Record) /\ s # <<>>
       /\ \A m, n \in 1 .. Len(s) : m <= n => s[m].seq <= s[n].seq
       /\ \A n \in 1 .. Len(s) : \E k \in places : s[n] = r[k]
       /\ \A k \in places : \E n \in 1 .. Len(s) : s[n] = r[k]
  BY <1>5, <1>7, <1>8, <1>9, <1>10
<1> QED  BY <1>11 DEF s, places

(***************************************************************************)
(* sequence_gaps lists the numbers between the lowest and the highest of   *)
(* the channel that no record of it carries.                               *)
(***************************************************************************)
LEMMA GapsAreMissing ==
  ASSUME NEW r \in Seq(Record), NEW c \in Channels(r), ~AdditionOverflows(Stream(r, c)),
         NEW carried, carried = {r[k].seq : k \in Bucket(r, c)}
  PROVE  Lists(SequenceGaps(Stream(r, c)), (Min(carried) .. Max(carried)) \ carried)
<1> DEFINE s == Stream(r, c)
           last == Len(s)
<1>1. /\ s \in Seq(Record) /\ s # <<>>
      /\ \A m, n \in 1 .. Len(s) : m <= n => s[m].seq <= s[n].seq
      /\ \A n \in 1 .. Len(s) : \E k \in Bucket(r, c) : s[n] = r[k]
      /\ \A k \in Bucket(r, c) : \E n \in 1 .. Len(s) : s[n] = r[k]
  BY StreamIs
<1>2. ~AdditionOverflows(s)  OBVIOUS
<1> HIDE DEF s
<1>3. Lists(SequenceGaps(s), MissingUpTo(s, Len(s)))  BY <1>1, <1>2, GapsAreListed
<1>4. last \in Nat /\ 1 \in 1 .. last /\ last \in 1 .. last
  BY <1>1, LenProperties, EmptySeq
<1>5. \A n \in 1 .. last : s[n].seq \in Nat /\ s[n].seq <= SeqMax
  <2>1. \A n \in 1 .. last : s[n] \in Record  BY <1>1, ElementOfSeq
  <2> QED  BY <2>1, SeqMaxAssumption DEF Record
<1>6. carried = {s[n].seq : n \in 1 .. last}
  <2>1. \A x \in carried : \E n \in 1 .. last : x = s[n].seq  BY <1>1
  <2>2. \A n \in 1 .. last : s[n].seq \in carried  BY <1>1
  <2> QED  BY <2>1, <2>2
<1> DEFINE lowest == s[1].seq
           highest == s[last].seq
<1>7. /\ lowest \in carried /\ highest \in carried
      /\ \A x \in carried : x \in Nat /\ lowest <= x /\ x <= highest /\ x <= SeqMax
  <2>1. \A n \in 1 .. last : 1 <= n /\ n <= last  BY <1>4
  <2>2. \A n \in 1 .. last : lowest <= s[n].seq /\ s[n].seq <= highest
    BY <1>1, <1>4, <2>1
  <2> QED  BY <1>4, <1>5, <1>6, <2>2
<1> HIDE DEF lowest, highest
<1>8. Min(carried) = lowest /\ Max(carried) = highest
  <2>1. carried \in SUBSET Nat /\ carried # {} /\ \A x \in carried : x <= SeqMax
    BY <1>7
  <2>2. Min(carried) \in carried /\ \A x \in carried : Min(carried) <= x
    BY <2>1, MinIs
  <2>3. Max(carried) \in carried /\ \A x \in carried : x <= Max(carried)
    BY <2>1, MaxIs, SeqMaxAssumption
  <2> DEFINE lo == Min(carried)
             hi == Max(carried)
  <2>4. lo \in Nat /\ lo <= lowest /\ lowest <= lo  BY <1>7, <2>2
  <2>5. hi \in Nat /\ hi <= highest /\ highest <= hi  BY <1>7, <2>3
  <2>6. lowest \in Nat /\ highest \in Nat  BY <1>7
  <2> HIDE DEF lo, hi
  <2>7. lo = lowest /\ hi = highest  BY <2>4, <2>5, <2>6
  <2> QED  BY <2>7 DEF lo, hi
<1>9. MissingUpTo(s, last) = (Min(carried) .. Max(carried)) \ carried
  BY <1>6, <1>8 DEF MissingUpTo, lowest, highest
<1> QED  BY <1>3, <1>9 DEF s

LEMMA SpanIsOrdered ==
  ASSUME NEW r \in Seq(Record), NEW c \in Channels(r)
  PROVE  TimeSpan(Stream(r, c))[1] <= TimeSpan(Stream(r, c))[2]
<1> DEFINE s == Stream(r, c)
           times == {s[k].ts : k \in DOMAIN s}
           latest == 2 * Half - 1
<1>1. s \in Seq(Record) /\ s # <<>>  BY StreamIs
<1> HIDE DEF s
<1>2. DOMAIN s = 1 .. Len(s) /\ Len(s) \in Nat /\ Len(s) # 0
  BY <1>1, LenProperties, EmptySeq
<1>3. \A k \in DOMAIN s : s[k].ts \in Nat /\ s[k].ts <= latest
  <2>1. \A k \in DOMAIN s : s[k] \in Record  BY <1>1, <1>2, ElementOfSeq
  <2> QED  BY <2>1 DEF Record, Times
<1>4. times \in SUBSET Nat /\ times # {} /\ \A x \in times : x <= latest
  <2>1. 1 \in DOMAIN s  BY <1>2
  <2> QED  BY <1>3, <2>1
<1>5. latest \in Nat  OBVIOUS
<1>6. TimeSpan(s) = <<Min(times), Max(times)>>  BY DEF TimeSpan
<1> HIDE DEF times, latest
<1>7. Min(times) \in times /\ \A x \in times : Min(times) <= x  BY <1>4, MinIs
<1>8. Max(times) \in times  BY <1>4, <1>5, MaxIs
<1> QED  BY <1>6, <1>7, <1>8 DEF s

----------------------------------------------------------------------------
(***************************************************************************)
(* The inductive invariant: the database holds the records of the image,   *)
(* once for each parse that stored them, and what correlate and report     *)
(* found last they derived from a beginning of it that held them all.      *)
(***************************************************************************)
Beginnings(r) == {SubSeq(r, 1, n) : n \in 1 .. Len(r)}

RowsRecordTheImage ==
  /\ rows \in Seq(Row)
  /\ Len(rows) <= parses * Len(extraction)
  /\ rows # <<>> => Recordings(rows) = Footages

StreamsAreOfTheImage == streams \in {None, <<DemuxRecords(extraction)>>}

EventsAreOfAnEarlierState ==
  events # None =>
    \E r \in Beginnings(rows) : events = <<Events(r)>> /\ Recordings(r) = Footages

AlertsAreOfAnEarlierState ==
  alerts # None =>
    \E r \in Beginnings(rows) : alerts = <<Discontinuities(r)>> /\ Recordings(r) = Footages

IInv ==
  /\ extraction \in Extractions /\ checked \in BOOLEAN /\ parses \in 0 .. MaxParses
  /\ RowsRecordTheImage
  /\ StreamsAreOfTheImage
  /\ EventsAreOfAnEarlierState
  /\ AlertsAreOfAnEarlierState

(***************************************************************************)
(* The rows a parse adds record what the image holds; those there were     *)
(* stay where they are.                                                    *)
(***************************************************************************)
LEMMA RowsOfImage ==
  ASSUME NEW x \in Seq(Record), NEW count \in Nat
  PROVE  /\ RowsOf(x, count) \in Seq(Row)
         /\ Len(RowsOf(x, count)) = Len(x)
         /\ Recordings(RowsOf(x, count)) = {x[k] : k \in DOMAIN x}
<1> DEFINE y == RowsOf(x, count)
           n == Len(x)
<1>1. n \in Nat /\ DOMAIN x = 1 .. n  BY LenProperties
<1>2. \A k \in 1 .. n : x[k] \in Record  BY ElementOfSeq
<1> HIDE DEF n
<1>3. y = [k \in 1 .. n |->
             [id |-> count + k, block |-> k, ch |-> x[k].ch, ts |-> x[k].ts,
              seq |-> x[k].seq, corrupted |-> x[k].corrupted]]
  BY <1>1 DEF RowsOf
<1>4. \A k \in 1 .. n :
        [id |-> count + k, block |-> k, ch |-> x[k].ch, ts |-> x[k].ts,
         seq |-> x[k].seq, corrupted |-> x[k].corrupted] \in Row
  BY <1>1, <1>2 DEF Row, Record
<1> HIDE DEF y
<1>5. y \in [1 .. n -> Row]  BY <1>3, <1>4
<1>6. y \in Seq(Row) /\ Len(y) = n /\ DOMAIN y = 1 .. n  BY <1>1, <1>5, FunctionIsSeq
<1>7. ASSUME NEW k \in 1 .. n PROVE Recording(y[k]) = x[k]
  <2>1. /\ y[k].ch = x[k].ch /\ y[k].ts = x[k].ts /\ y[k].seq = x[k].seq
        /\ y[k].corrupted = x[k].corrupted
    BY <1>3
  <2>2. x[k] = [ch |-> x[k].ch, ts |-> x[k].ts, seq |-> x[k].seq,
                corrupted |-> x[k].corrupted]
    BY <1>2 DEF Record
  <2> QED  BY <2>1, <2>2 DEF Recording
<1>8. Recordings(y) = {x[k] : k \in DOMAIN x}  BY <1>1, <1>6, <1>7 DEF Recordings
<1> QED  BY <1>6, <1>8 DEF y, n

LEMMA RecordingsOfConcat ==
  ASSUME NEW r \in Seq(Row), NEW s \in Seq(Row)
  PROVE  Recordings(r \o s) = Recordings(r) \cup Recordings(s)
<1> DEFINE m == Len(r)
           n == Len(s)
           w == r \o s
<1>1. m \in Nat /\ n \in Nat /\ DOMAIN r = 1 .. m /\ DOMAIN s = 1 .. n
  BY LenProperties
<1>2. /\ w \in Seq(Row) /\ Len(w) = m + n
      /\ \A k \in 1 .. m + n : w[k] = IF k <= m THEN r[k] ELSE s[k - m]
  BY ConcatProperties
<1>3. DOMAIN w = 1 .. m + n  BY <1>2, LenProperties
<1> HIDE DEF w, m, n
<1>4. ASSUME NEW k \in 1 .. m + n
      PROVE  Recording(w[k]) \in Recordings(r) \cup Recordings(s)
  <2>1. CASE k <= m
    <3>1. k \in 1 .. m /\ w[k] = r[k]  BY <1>1, <1>2, <2>1
    <3> QED  BY <1>1, <3>1 DEF Recordings
  <2>2. CASE m < k
    <3>1. k - m \in 1 .. n /\ w[k] = s[k - m]  BY <1>1, <1>2, <2>2
    <3> QED  BY <1>1, <3>1 DEF Recordings
  <2> QED  BY <1>1, <2>1, <2>2
<1>5. ASSUME NEW k \in 1 .. m PROVE Recording(r[k]) \in Recordings(w)
  <2>1. k \in 1 .. m + n /\ w[k] = r[k]  BY <1>1, <1>2
  <2> QED  BY <1>3, <2>1 DEF Recordings
<1>6. ASSUME NEW k \in 1 .. n PROVE Recording(s[k]) \in Recordings(w)
  <2>1. m + k \in 1 .. m + n /\ ~(m + k <= m) /\ (m + k) - m = k  BY <1>1
  <2>2. w[m + k] = s[k]  BY <1>2, <2>1
  <2> QED  BY <1>3, <2>1, <2>2 DEF Recordings
<1>7. Recordings(w) \subseteq Recordings(r) \cup Recordings(s)
  BY <1>3, <1>4 DEF Recordings
<1>8. Recordings(r) \subseteq Recordings(w) /\ Recordings(s) \subseteq Recordings(w)
  BY <1>1, <1>5, <1>6 DEF Recordings
<1> QED  BY <1>7, <1>8 DEF w

LEMMA BeginningsAre ==
  ASSUME NEW r \in Seq(Row)
  PROVE  /\ Beginnings(r) \subseteq Seq(Row)
         /\ r # <<>> => r \in Beginnings(r)
         /\ \A s \in Seq(Row) : Beginnings(r) \subseteq Beginnings(r \o s)
<1>1. Len(r) \in Nat /\ (r # <<>> => Len(r) # 0)  BY LenProperties, EmptySeq
<1>2. Beginnings(r) \subseteq Seq(Row)  BY <1>1 DEF Beginnings
<1>3. ASSUME r # <<>> PROVE r \in Beginnings(r)
  <2>1. Len(r) \in 1 .. Len(r)  BY <1>1, <1>3
  <2>2. SubSeq(r, 1, Len(r)) = r  BY SubSeqFull
  <2> QED  BY <2>1, <2>2 DEF Beginnings
<1>4. ASSUME NEW s \in Seq(Row), NEW n \in 1 .. Len(r)
      PROVE  SubSeq(r, 1, n) \in Beginnings(r \o s)
  <2>1. Len(r \o s) = Len(r) + Len(s) /\ Len(s) \in Nat  BY LenProperties, ConcatProperties
  <2>2. n \in 1 .. Len(r \o s)  BY <1>1, <2>1
  <2>3. SubSeq(r \o s, 1, n) = SubSeq(r, 1, n)
    BY <1>1, 1 \in 1 .. Len(r), SubSeqOfConcat1
  <2> QED  BY <2>2, <2>3 DEF Beginnings
<1> QED  BY <1>2, <1>3, <1>4 DEF Beginnings

LEMMA InitHolds == Init => IInv
<1> SUFFICES ASSUME Init PROVE IInv
  OBVIOUS
<1>1. extraction \in Seq(Record)  BY ExtractionsAssumption DEF Init
<1>2. Len(extraction) \in Nat  BY <1>1, LenProperties
<1>3. RowsRecordTheImage  BY <1>2 DEF Init, RowsRecordTheImage
<1> QED
  BY <1>3, MaxParsesAssumption
  DEF Init, IInv, StreamsAreOfTheImage, EventsAreOfAnEarlierState, AlertsAreOfAnEarlierState

LEMMA ParseKeeps == IInv /\ Parse => IInv'
<1> SUFFICES ASSUME IInv, Parse PROVE IInv'
  OBVIOUS
<1> DEFINE added == RowsOf(extraction, Len(rows))
           size == Len(extraction)
<1>1. /\ extraction \in Extractions /\ extraction' = extraction /\ checked \in BOOLEAN
      /\ checked' = checked /\ events' = events /\ alerts' = alerts
      /\ parses \in 0 .. MaxParses /\ parses' = parses + 1 /\ parses < MaxParses
  BY DEF IInv, Parse
<1>2. /\ rows \in Seq(Row) /\ Len(rows) <= parses * size
      /\ rows # <<>> => Recordings(rows) = Footages
  BY DEF IInv, RowsRecordTheImage
<1>3. \/ rows' = rows /\ streams' = streams
      \/ rows' = rows \o added /\ streams' = <<DemuxRecords(extraction)>>
  BY DEF Parse
<1>4. extraction \in Seq(Record)  BY <1>1, ExtractionsAssumption
<1>5. Len(rows) \in Nat /\ size \in Nat  BY <1>2, <1>4, LenProperties
<1>6. /\ added \in Seq(Row) /\ Len(added) = size
      /\ Recordings(added) = Footages
  BY <1>4, <1>5, RowsOfImage DEF Footages
<1>7. Footages' = Footages  BY <1>1 DEF Footages
<1> HIDE DEF added
<1>8. (parses + 1) * size = parses * size + size /\ parses * size \in Nat
  <2>1. parses \in Nat  BY <1>1
  <2> QED  BY <1>5, <2>1
<1>9. /\ rows' \in Seq(Row) /\ Len(rows') <= parses' * size
      /\ rows' # <<>> => Recordings(rows') = Footages
      /\ Beginnings(rows) \subseteq Beginnings(rows')
  <2>1. CASE rows' = rows  BY <1>1, <1>2, <1>5, <1>8, <2>1
  <2>2. CASE rows' = rows \o added
    <3>1. rows \o added \in Seq(Row) /\ Len(rows \o added) = Len(rows) + size
      BY <1>2, <1>6, ConcatProperties
    <3>2. Beginnings(rows) \subseteq Beginnings(rows \o added)  BY <1>2, <1>6, BeginningsAre
    <3>3. Recordings(rows \o added) = Footages
      <4>1. Recordings(rows \o added) = Recordings(rows) \cup Footages
        BY <1>2, <1>6, RecordingsOfConcat
      <4>2. CASE rows = <<>>
        <5>1. Recordings(rows) = {}  BY <4>2 DEF Recordings
        <5> QED  BY <4>1, <5>1
      <4>3. CASE rows # <<>>  BY <1>2, <4>1, <4>3
      <4> QED  BY <4>2, <4>3
    <3>4. Len(rows \o added) <= parses' * size
      <4> DEFINE total == parses * size
      <4>1. total \in Nat /\ parses' * size = total + size /\ Len(rows) <= total
        BY <1>1, <1>2, <1>8
      <4> HIDE DEF total, size
      <4> QED  BY <1>5, <3>1, <4>1
    <3> QED  BY <2>2, <3>1, <3>2, <3>3, <3>4
  <2> QED  BY <1>3, <2>1, <2>2
<1>10. RowsRecordTheImage'  BY <1>1, <1>7, <1>9 DEF RowsRecordTheImage
<1>11. StreamsAreOfTheImage'
  BY <1>1, <1>3 DEF IInv, StreamsAreOfTheImage
<1>12. EventsAreOfAnEarlierState'
  BY <1>1, <1>7, <1>9 DEF IInv, EventsAreOfAnEarlierState
<1>13. AlertsAreOfAnEarlierState'
  BY <1>1, <1>7, <1>9 DEF IInv, AlertsAreOfAnEarlierState
<1>14. parses' \in 0 .. MaxParses  BY <1>1, MaxParsesAssumption
<1> QED  BY <1>1, <1>10, <1>11, <1>12, <1>13, <1>14 DEF IInv

LEMMA OthersKeep == IInv /\ (Correlate \/ Report \/ UNCHANGED vars) => IInv'
<1> SUFFICES ASSUME IInv, Correlate \/ Report \/ UNCHANGED vars PROVE IInv'
  OBVIOUS
<1>1. /\ extraction' = extraction /\ checked' = checked /\ parses' = parses
      /\ streams' = streams /\ rows' = rows
  BY DEF Correlate, Report, vars
<1>2. Footages' = Footages  BY <1>1 DEF Footages
<1>3. /\ RowsRecordTheImage /\ StreamsAreOfTheImage /\ EventsAreOfAnEarlierState
      /\ AlertsAreOfAnEarlierState
  BY DEF IInv
<1>4. RowsRecordTheImage'  BY <1>1, <1>2, <1>3 DEF RowsRecordTheImage
<1>5. StreamsAreOfTheImage'  BY <1>1, <1>3 DEF StreamsAreOfTheImage
<1>6. rows # <<>> => rows \in Beginnings(rows) /\ Recordings(rows) = Footages
  BY <1>3, BeginningsAre DEF RowsRecordTheImage
<1>7. EventsAreOfAnEarlierState'
  <2>1. CASE events' = events  BY <1>1, <1>2, <1>3, <2>1 DEF EventsAreOfAnEarlierState
  <2>2. CASE Correlate
    <3>1. rows # <<>> /\ events' = <<Events(rows)>>  BY <2>2 DEF Correlate
    <3> QED  BY <1>1, <1>2, <1>6, <3>1 DEF EventsAreOfAnEarlierState
  <2> QED  BY <2>1, <2>2 DEF Report, vars
<1>8. AlertsAreOfAnEarlierState'
  <2>1. CASE alerts' = alerts  BY <1>1, <1>2, <1>3, <2>1 DEF AlertsAreOfAnEarlierState
  <2>2. CASE Report
    <3>1. rows # <<>> /\ alerts' = <<Discontinuities(rows)>>  BY <2>2 DEF Report
    <3> QED  BY <1>1, <1>2, <1>6, <3>1 DEF AlertsAreOfAnEarlierState
  <2> QED  BY <2>1, <2>2 DEF Correlate, vars
<1> QED  BY <1>1, <1>4, <1>5, <1>7, <1>8 DEF IInv

(***************************************************************************)
(* The database, and all that is derived from it, stays what the image     *)
(* holds, in whatever order parse, correlate and report are run.           *)
(***************************************************************************)
THEOREM FootageInductive == Spec => []IInv
<1>1. IInv /\ [Next]_vars => IInv'  BY ParseKeeps, OthersKeep DEF Next
<1> QED  BY InitHolds, <1>1, PTL DEF Spec

----------------------------------------------------------------------------
(***************************************************************************)
(* What a result was derived from.                                         *)
(***************************************************************************)
LEMMA EventsOf ==
  ASSUME IInv, events # None
  PROVE  \E r \in Seq(Row) :
           /\ events[1].transitions = DetectTransitions(MergeTimeline(r), Window)
           /\ events[1].blackouts = DetectGlobalBlackouts(r, BlackoutGap)
           /\ Recordings(r) = Footages
<1>1. PICK r \in Beginnings(rows) : events = <<Events(r)>> /\ Recordings(r) = Footages
  BY DEF IInv, EventsAreOfAnEarlierState
<1>2. r \in Seq(Row)
  <2>1. rows \in Seq(Row)  BY DEF IInv, RowsRecordTheImage
  <2> QED  BY <1>1, <2>1, BeginningsAre
<1>3. events[1] = Events(r)  BY <1>1
<1> QED  BY <1>1, <1>2, <1>3 DEF Events

LEMMA AlertsOf ==
  ASSUME IInv, alerts # None
  PROVE  \E q \in Seq(Row) : alerts[1] = Discontinuities(q) /\ Recordings(q) = Footages
<1>1. PICK q \in Beginnings(rows) :
        alerts = <<Discontinuities(q)>> /\ Recordings(q) = Footages
  BY DEF IInv, AlertsAreOfAnEarlierState
<1>2. q \in Seq(Row)
  <2>1. rows \in Seq(Row)  BY DEF IInv, RowsRecordTheImage
  <2> QED  BY <1>1, <2>1, BeginningsAre
<1> QED  BY <1>1, <1>2

LEMMA StreamsOf ==
  ASSUME IInv, streams # None
  PROVE  /\ extraction \in Seq(Record)
         /\ streams[1] = DemuxRecords(extraction)
         /\ DOMAIN streams[1] = Channels(extraction)
<1>1. streams = <<DemuxRecords(extraction)>>  BY DEF IInv, StreamsAreOfTheImage
<1>2. extraction \in Extractions  BY DEF IInv
<1> QED  BY <1>1, <1>2, ExtractionsAssumption DEF DemuxRecords

(***************************************************************************)
(* The valid records of the image are those of rows that recorded them.    *)
(***************************************************************************)
LEMMA ValidOnesAre ==
  ASSUME NEW r, Recordings(r) = Footages
  PROVE  /\ \A x \in Footages : \E k \in DOMAIN r : Recording(r[k]) = Recording(x)
                                              /\ (IsValid(x) => k \in ValidRows(r))
         /\ \A k \in DOMAIN r : \E x \in Footages : Recording(r[k]) = Recording(x)
<1>1. \A k : /\ Recording(r[k]).ch = r[k].ch /\ Recording(r[k]).ts = r[k].ts
             /\ Recording(r[k]).seq = r[k].seq /\ Recording(r[k]).corrupted = r[k].corrupted
  BY DEF Recording
<1>2. \A k : Recording(Recording(r[k])) = Recording(r[k])
  <2>1. \A k : Recording(Recording(r[k]))
           = [ch |-> r[k].ch, ts |-> r[k].ts, seq |-> r[k].seq, corrupted |-> r[k].corrupted]
    BY <1>1 DEF Recording
  <2> QED  BY <2>1 DEF Recording
<1>3. ASSUME NEW x \in Footages
      PROVE  \E k \in DOMAIN r : /\ Recording(r[k]) = Recording(x)
                                 /\ IsValid(x) => k \in ValidRows(r)
  <2>1. PICK k \in DOMAIN r : x = Recording(r[k])  BY DEF Recordings
  <2>2. Recording(r[k]) = Recording(x)  BY <1>2, <2>1
  <2>3. IsValid(r[k]) <=> IsValid(x)  BY <2>2, RecordingKeeps
  <2> QED  BY <2>2, <2>3 DEF ValidRows
<1>4. ASSUME NEW k \in DOMAIN r
      PROVE  \E x \in Footages : Recording(r[k]) = Recording(x)
  <2>1. Recording(r[k]) \in Footages  BY DEF Recordings
  <2> QED  BY <1>2, <2>1
<1> QED  BY <1>3, <1>4

----------------------------------------------------------------------------
(***************************************************************************)
(* The state keeps its types, no stream ends before it begins, and no      *)
(* blackout does.                                                          *)
(***************************************************************************)
THEOREM FootageTypes == Spec => []TypeOK
<1>1. IInv => TypeOK
  <2> SUFFICES ASSUME IInv PROVE TypeOK
    OBVIOUS
  <2>1. ASSUME streams # None
        PROVE  \A c \in DOMAIN streams[1] :
                 streams[1][c].time_span[1] <= streams[1][c].time_span[2]
    <3>1. /\ extraction \in Seq(Record) /\ streams[1] = DemuxRecords(extraction)
          /\ DOMAIN streams[1] = Channels(extraction)
      BY <2>1, StreamsOf
    <3>2. ASSUME NEW c \in Channels(extraction)
          PROVE  streams[1][c].time_span = TimeSpan(Stream(extraction, c))
      BY <3>1 DEF DemuxRecords
    <3> QED  BY <3>1, <3>2, SpanIsOrdered
  <2>2. ASSUME events # None PROVE \A b \in events[1].blackouts : b.start <= b.end
    <3>1. PICK r \in Seq(Row) :
            events[1].blackouts = DetectGlobalBlackouts(r, BlackoutGap)
      BY <2>2, EventsOf
    <3> QED  BY <3>1, BlackoutIsSilence DEF IsSilence
  <2> QED  BY <2>1, <2>2 DEF TypeOK, IInv, RowsRecordTheImage
<1> QED  BY <1>1, FootageInductive, PTL

(***************************************************************************)
(* demux reports exactly the missing sequence numbers, in order and each   *)
(* once, for every image whose channels do not overflow the addition.      *)
(***************************************************************************)
THEOREM MissingNumbersReported == Spec => []GapsAreTheMissingNumbers
<1>1. IInv => GapsAreTheMissingNumbers
  <2> SUFFICES ASSUME IInv, streams # None, NEW c \in (DOMAIN streams[1]) \ Overflowing,
                      NEW carried, carried = {r.seq : r \in {x \in Footages : x.ch = c}}
               PROVE  /\ ToSet(streams[1][c].sequence_gaps)
                           = (Min(carried) .. Max(carried)) \ carried
                      /\ \A k, l \in DOMAIN streams[1][c].sequence_gaps :
                           k < l => streams[1][c].sequence_gaps[k]
                                      < streams[1][c].sequence_gaps[l]
    BY DEF GapsAreTheMissingNumbers
  <2>1. /\ extraction \in Seq(Record) /\ streams[1] = DemuxRecords(extraction)
        /\ DOMAIN streams[1] = Channels(extraction)
    BY StreamsOf
  <2>2. c \in Channels(extraction) /\ ~AdditionOverflows(Stream(extraction, c))
    BY <2>1 DEF Overflowing
  <2>3. streams[1][c].sequence_gaps = SequenceGaps(Stream(extraction, c))
    BY <2>1, <2>2 DEF DemuxRecords
  <2>4. carried = {extraction[k].seq : k \in Bucket(extraction, c)}
    BY DEF Footages, Bucket
  <2>5. Lists(SequenceGaps(Stream(extraction, c)), (Min(carried) .. Max(carried)) \ carried)
    BY <2>1, <2>2, <2>4, GapsAreMissing
  <2> QED  BY <2>3, <2>5 DEF Lists
<1> QED  BY <1>1, FootageInductive, PTL

(***************************************************************************)
(* correlate finds the moves between cameras within the window, all of     *)
(* them, no other, and each once.                                          *)
(***************************************************************************)
LEMMA MovesOfTheImage ==
  ASSUME NEW r, Recordings(r) = Footages
  PROVE  MovesIn(r) = Moves
<1> DEFINE IsMove(x, y) == x.ch # y.ch /\ y.ts - x.ts \in 1 .. Window
           Tuple(x, y) == <<x.ch, y.ch, x.ts, y.ts>>
<1>1. \A m : m \in MovesIn(r) <=>
        \E k, l \in ValidRows(r) : IsMove(r[k], r[l]) /\ m = Tuple(r[k], r[l])
  <2>1. ASSUME NEW m \in MovesIn(r)
        PROVE  \E k, l \in ValidRows(r) : IsMove(r[k], r[l]) /\ m = Tuple(r[k], r[l])
    BY DEF MovesIn
  <2>2. ASSUME NEW k \in ValidRows(r), NEW l \in ValidRows(r), IsMove(r[k], r[l])
        PROVE  Tuple(r[k], r[l]) \in MovesIn(r)
    <3>1. <<k, l>> \in {q \in ValidRows(r) \X ValidRows(r) :
              r[q[1]].ch # r[q[2]].ch /\ r[q[2]].ts - r[q[1]].ts \in 1 .. Window}
      BY <2>2
    <3> QED  BY <3>1 DEF MovesIn
  <2> QED  BY <2>1, <2>2
<1>2. \A m : m \in Moves <=>
        \E x, y \in ValidOnes : IsMove(x, y) /\ m = Tuple(x, y)
  <2>1. ASSUME NEW m \in Moves
        PROVE  \E x, y \in ValidOnes : IsMove(x, y) /\ m = Tuple(x, y)
    BY DEF Moves
  <2>2. ASSUME NEW x \in ValidOnes, NEW y \in ValidOnes, IsMove(x, y)
        PROVE  Tuple(x, y) \in Moves
    <3>1. <<x, y>> \in {q \in ValidOnes \X ValidOnes :
              q[1].ch # q[2].ch /\ q[2].ts - q[1].ts \in 1 .. Window}
      BY <2>2
    <3> QED  BY <3>1 DEF Moves
  <2> QED  BY <2>1, <2>2
<1>3. \A k \in ValidRows(r) : \E x \in ValidOnes : x.ch = r[k].ch /\ x.ts = r[k].ts
  <2> SUFFICES ASSUME NEW k \in ValidRows(r)
               PROVE  \E x \in ValidOnes : x.ch = r[k].ch /\ x.ts = r[k].ts
    OBVIOUS
  <2>1. k \in DOMAIN r /\ IsValid(r[k])  BY DEF ValidRows
  <2>2. PICK x \in Footages : Recording(r[k]) = Recording(x)  BY <2>1, ValidOnesAre
  <2>3. x.ch = r[k].ch /\ x.ts = r[k].ts /\ IsValid(x)  BY <2>1, <2>2, RecordingKeeps
  <2> QED  BY <2>3 DEF ValidOnes
<1>4. \A x \in ValidOnes : \E k \in ValidRows(r) : x.ch = r[k].ch /\ x.ts = r[k].ts
  <2> SUFFICES ASSUME NEW x \in ValidOnes
               PROVE  \E k \in ValidRows(r) : x.ch = r[k].ch /\ x.ts = r[k].ts
    OBVIOUS
  <2>1. x \in Footages /\ IsValid(x)  BY DEF ValidOnes
  <2>2. PICK k \in DOMAIN r : Recording(r[k]) = Recording(x) /\ k \in ValidRows(r)
    BY <2>1, ValidOnesAre
  <2> QED  BY <2>2, RecordingKeeps
<1>5. \A x, y, v, w : x.ch = v.ch /\ x.ts = v.ts /\ y.ch = w.ch /\ y.ts = w.ts
        => (IsMove(x, y) <=> IsMove(v, w)) /\ Tuple(x, y) = Tuple(v, w)
  OBVIOUS
<1> HIDE DEF IsMove, Tuple
<1>6. ASSUME NEW m \in MovesIn(r) PROVE m \in Moves
  <2>1. PICK k \in ValidRows(r), l \in ValidRows(r) :
          IsMove(r[k], r[l]) /\ m = Tuple(r[k], r[l])
    BY <1>1
  <2>2. PICK x \in ValidOnes : x.ch = r[k].ch /\ x.ts = r[k].ts  BY <1>3
  <2>3. PICK y \in ValidOnes : y.ch = r[l].ch /\ y.ts = r[l].ts  BY <1>3
  <2>4. IsMove(x, y) /\ m = Tuple(x, y)  BY <1>5, <2>1, <2>2, <2>3
  <2> QED  BY <1>2, <2>4
<1>7. ASSUME NEW m \in Moves PROVE m \in MovesIn(r)
  <2>1. PICK x \in ValidOnes, y \in ValidOnes : IsMove(x, y) /\ m = Tuple(x, y)
    BY <1>2
  <2>2. PICK k \in ValidRows(r) : x.ch = r[k].ch /\ x.ts = r[k].ts  BY <1>4
  <2>3. PICK l \in ValidRows(r) : y.ch = r[l].ch /\ y.ts = r[l].ts  BY <1>4
  <2>4. IsMove(r[k], r[l]) /\ m = Tuple(r[k], r[l])  BY <1>5, <2>1, <2>2, <2>3
  <2> QED  BY <1>1, <2>4
<1> QED  BY <1>6, <1>7

THEOREM MovesFoundOnce == Spec => []EveryMoveIsFoundOnce
<1>1. IInv => EveryMoveIsFoundOnce
  <2> SUFFICES ASSUME IInv, events # None
               PROVE  /\ {MoveOf(t) : t \in events[1].transitions} = Moves
                      /\ \A t, u \in events[1].transitions : MoveOf(t) = MoveOf(u) => t = u
    BY DEF EveryMoveIsFoundOnce
  <2>1. PICK r \in Seq(Row) :
          /\ events[1].transitions = DetectTransitions(MergeTimeline(r), Window)
          /\ Recordings(r) = Footages
    BY EventsOf
  <2>2. MovesIn(r) = Moves  BY <2>1, MovesOfTheImage
  <2> QED  BY <2>1, <2>2, TransitionsAreMoves
<1> QED  BY <1>1, FootageInductive, PTL

(***************************************************************************)
(* No camera recorded anything in a blackout that correlate reports.       *)
(***************************************************************************)
THEOREM BlackoutsSilent == Spec => []BlackoutsAreSilent
<1>1. IInv => BlackoutsAreSilent
  <2> SUFFICES ASSUME IInv, events # None, NEW b \in events[1].blackouts
               PROVE  /\ b.end - b.start >= BlackoutGap
                      /\ \A x \in ValidOnes : ~(b.start + 1 < x.ts /\ x.ts < b.end - 1)
    BY DEF BlackoutsAreSilent
  <2>1. PICK r \in Seq(Row) :
          /\ events[1].blackouts = DetectGlobalBlackouts(r, BlackoutGap)
          /\ Recordings(r) = Footages
    BY EventsOf
  <2>2. IsSilence(b, r)  BY <2>1, BlackoutIsSilence
  <2>3. ASSUME NEW x \in ValidOnes
        PROVE  ~(b.start + 1 < x.ts /\ x.ts < b.end - 1)
    <3>1. x \in Footages /\ IsValid(x)  BY DEF ValidOnes
    <3>2. PICK k \in DOMAIN r : Recording(r[k]) = Recording(x) /\ k \in ValidRows(r)
      BY <2>1, <3>1, ValidOnesAre
    <3>3. r[k].ts = x.ts  BY <3>2, RecordingKeeps
    <3> QED  BY <2>2, <3>2, <3>3 DEF IsSilence
  <2> QED  BY <2>2, <2>3 DEF IsSilence
<1> QED  BY <1>1, FootageInductive, PTL

(***************************************************************************)
(* The report shows every blackout of correlate that no damaged record and *)
(* not the start of time lies in.                                          *)
(***************************************************************************)
THEOREM BlackoutsReported == Spec => []ReportShowsBlackouts
<1>1. IInv => ReportShowsBlackouts
  <2> SUFFICES ASSUME IInv, events # None, alerts # None, NEW b \in events[1].blackouts,
                      b.start > 0, b.end - b.start - 2 > ExpectedGap,
                      ~ \E x \in Footages : ~IsValid(x) /\ b.start <= x.ts /\ x.ts <= b.end
               PROVE  \E a \in alerts[1] : a.start <= b.start + 1 /\ a.end >= b.end - 1
    BY DEF ReportShowsBlackouts
  <2>1. PICK r \in Seq(Row) :
          /\ events[1].blackouts = DetectGlobalBlackouts(r, BlackoutGap)
          /\ Recordings(r) = Footages
    BY EventsOf
  <2>2. PICK q \in Seq(Row) : alerts[1] = Discontinuities(q) /\ Recordings(q) = Footages
    BY AlertsOf
  <2>3. IsSilence(b, r)  BY <2>1, BlackoutIsSilence
  <2>4. ~ \E k \in DOMAIN r : ~IsValid(r[k]) /\ b.start <= r[k].ts /\ r[k].ts <= b.end
    <3> SUFFICES ASSUME NEW k \in DOMAIN r, ~IsValid(r[k]), b.start <= r[k].ts,
                        r[k].ts <= b.end
                 PROVE  FALSE
      OBVIOUS
    <3>1. PICK x \in Footages : Recording(r[k]) = Recording(x)  BY <2>1, ValidOnesAre
    <3>2. x.ts = r[k].ts /\ ~IsValid(x)  BY <3>1, RecordingKeeps
    <3> QED  BY <3>1, <3>2
  <2>5. Recordings(r) = Recordings(q)  BY <2>1, <2>2
  <2>6. \E a \in Discontinuities(q) : a.start <= b.start + 1 /\ a.end >= b.end - 1
    BY <2>3, <2>4, <2>5, BlackoutIsAlert
  <2> QED  BY <2>2, <2>6
<1> QED  BY <1>1, FootageInductive, PTL
=============================================================================

------------------------- MODULE CaseEvidenceProofs -------------------------
(***************************************************************************)
(* For every set of processes, commands, images and block sizes: what the  *)
(* commands that look at the database leave in it and in report/ (no       *)
(* orphans, reports of the case, no certificate without its clips), and    *)
(* what acquire, parse and verify make of the medium (what a verdict       *)
(* "pristine" means, that extractions are whole, and no false alarm).      *)
(***************************************************************************)
EXTENDS CaseCommandsProofs

----------------------------------------------------------------------------
\* Every row has its evidence item.

Parented(table, evidence) ==
  \A i \in DOMAIN table : table[i].evidence_id \in DOMAIN evidence

\* The tables, with the lengths of the older and the newer database.
LEMMA TablesAre ==
  ASSUME TypeInv
  PROVE  /\ db.evidence \in Seq(Item) /\ db.records \in Seq(Record)
         /\ db.carved \in Seq(Rows(Frame)) /\ db.events \in Seq(Rows({"event"}))
         /\ db.detections \in Seq(Rows(Detection))
         /\ Len(db.evidence) \in Nat /\ Len(db.records) \in Nat /\ Len(db.carved) \in Nat
         /\ Len(db.events) \in Nat /\ Len(db.detections) \in Nat
<1>1. /\ db.evidence \in Seq(Item) /\ db.records \in Seq(Record)
      /\ db.carved \in Seq(Rows(Frame)) /\ db.events \in Seq(Rows({"event"}))
      /\ db.detections \in Seq(Rows(Detection))
  BY DEF TypeInv, FilesInv, Databases
<1> QED  BY <1>1, LenProperties

\* The rows of a table that grows stay where they are.
LEMMA GrownIs ==
  ASSUME NEW S, NEW t \in Seq(S), NEW u \in Seq(S), GrowsFrom(t, u)
  PROVE  /\ DOMAIN t \subseteq DOMAIN u
         /\ \A i \in DOMAIN t : u[i] = t[i]
<1>1. Len(t) \in Nat /\ Len(u) \in Nat  BY LenProperties
<1>2. Len(t) <= Len(u) /\ SubSeq(u, 1, Len(t)) = t  BY DEF GrowsFrom
<1>3. \A i \in 1 .. Len(u) : u[i] \in S  BY ElementOfSeq
<1>4. \A i \in 1 .. Len(t) : SubSeq(u, 1, Len(t))[i] = u[1 + i - 1]
  BY <1>1, <1>2, <1>3, SubSeqProperties
<1>5. \A i \in 1 .. Len(t) : t[i] = u[i]  BY <1>1, <1>2, <1>4
<1>6. DOMAIN t = 1 .. Len(t) /\ DOMAIN u = 1 .. Len(u)  BY LenProperties
<1> QED  BY <1>1, <1>2, <1>5, <1>6

LEMMA BeginningIs ==
  ASSUME NEW img \in Bytes, NEW n \in 0 .. Len(img)
  PROVE  /\ SubSeq(img, 1, n) \in Bytes /\ Len(SubSeq(img, 1, n)) = n
         /\ \A k \in 1 .. n : SubSeq(img, 1, n)[k] = img[k]
<1>1. Len(img) \in Nat /\ n \in Nat /\ n <= Len(img)  BY LenProperties DEF Bytes
<1>2. \A k \in 1 .. Len(img) : img[k] \in Byte  BY ElementOfSeq DEF Bytes
<1>3. \A k \in 1 .. n : img[k] \in Byte  BY <1>1, <1>2
<1>4. /\ SubSeq(img, 1, n) \in Seq(Byte)
      /\ Len(SubSeq(img, 1, n)) = IF 1 <= n THEN n - 1 + 1 ELSE 0
      /\ \A k \in 1 .. n - 1 + 1 : SubSeq(img, 1, n)[k] = img[1 + k - 1]
  BY <1>1, <1>3, SubSeqProperties
<1>5. Len(SubSeq(img, 1, n)) = n  BY <1>1, <1>4
<1>6. \A k \in 1 .. n : SubSeq(img, 1, n)[k] = img[k]  BY <1>1, <1>4
<1> QED  BY <1>4, <1>5, <1>6 DEF Bytes

LEMMA EvidenceStays ==
  ASSUME TypeInv, [Next]_vars
  PROVE  /\ DOMAIN db.evidence \subseteq DOMAIN db'.evidence
         /\ \A e \in DOMAIN db.evidence : db'.evidence[e] = db.evidence[e]
<1>1. TypeInv' /\ DbGrows  BY TypesKept, NextSteps, DbStepGrows
<1>2. db.evidence \in Seq(Item) /\ db'.evidence \in Seq(Item)
  BY <1>1, TablesAre DEF TypeInv, FilesInv, Databases
<1>3. GrowsFrom(db.evidence, db'.evidence)  BY <1>1 DEF DbGrows
<1> QED  BY <1>2, <1>3, GrownIs

\* The places of a concatenation.
LEMMA ConcatAt ==
  ASSUME NEW S, NEW s \in Seq(S), NEW t \in Seq(S), NEW w, w = s \o t
  PROVE  /\ w \in Seq(S) /\ Len(w) = Len(s) + Len(t)
         /\ \A k \in 1 .. Len(s) : w[k] = s[k]
         /\ \A k \in 1 .. Len(t) : w[Len(s) + k] = t[k]
<1>1. Len(s) \in Nat /\ Len(t) \in Nat  BY LenProperties
<1> QED  BY <1>1, ConcatProperties

\* A row of a table to which rows were added is an older one or one of those.
AddsTo(new, old, rows) ==
  \A i \in DOMAIN new :
    \/ i \in DOMAIN old /\ new[i] = old[i]
    \/ \E k \in DOMAIN rows : new[i].what = rows[k] /\ new[i].evidence_id = 1

LEMMA AddedRows ==
  ASSUME NEW S, NEW old \in Seq(Rows(S)), NEW rows \in Seq(S), NEW d,
         NEW new, new = old \o Owned(d, rows)
  PROVE  AddsTo(new, old, rows)
<1> SUFFICES ASSUME NEW i \in DOMAIN new
             PROVE  \/ i \in DOMAIN old /\ new[i] = old[i]
                    \/ \E k \in DOMAIN rows : new[i].what = rows[k] /\ new[i].evidence_id = 1
  BY DEF AddsTo
<1> DEFINE own == Owned(d, rows)
<1>0. own \in Seq(Rows(S))  BY OwnedIs
<1>1. Len(own) = Len(rows)  BY OwnedIs
<1>2. \A k \in 1 .. Len(rows) : own[k].what = rows[k] /\ own[k].evidence_id = 1  BY OwnedIs
<1>3. /\ Len(old) \in Nat /\ DOMAIN old = 1 .. Len(old)
      /\ Len(rows) \in Nat /\ DOMAIN rows = 1 .. Len(rows)
  BY LenProperties
<1>4. new = old \o own  OBVIOUS
<1> HIDE DEF own
<1>5. /\ new \in Seq(Rows(S)) /\ Len(new) = Len(old) + Len(own)
      /\ \A k \in 1 .. Len(old) : new[k] = old[k]
      /\ \A k \in 1 .. Len(own) : new[Len(old) + k] = own[k]
  BY <1>0, <1>4, ConcatAt
<1>7. i \in 1 .. Len(old) + Len(rows)  BY <1>1, <1>5, LenProperties
<1>8. CASE i \in 1 .. Len(old)
  BY <1>3, <1>5, <1>8
<1>9. CASE i \notin 1 .. Len(old)
  <2>1. i - Len(old) \in 1 .. Len(rows) /\ Len(old) + (i - Len(old)) = i
    BY <1>3, <1>7, <1>9
  <2>2. new[i] = own[i - Len(old)]  BY <1>1, <1>5, <2>1
  <2>3. new[i].what = rows[i - Len(old)] /\ new[i].evidence_id = 1  BY <1>2, <2>1, <2>2
  <2> QED  BY <1>3, <2>1, <2>3
<1> QED  BY <1>8, <1>9

\* Rows that are added refer to item 1, and that is there.
LEMMA AddedParented ==
  ASSUME NEW S, NEW table \in Seq(Rows(S)), NEW rows \in Seq(S), NEW d,
         NEW new, new = table \o Owned(d, rows),
         HasParent(d, rows), Parented(table, d.evidence)
  PROVE  Parented(new, d.evidence)
<1>1. AddsTo(new, table, rows)  BY AddedRows
<1>2. (\E k : k \in DOMAIN rows) => 1 \in DOMAIN d.evidence
  <2>1. (\E k : k \in DOMAIN rows) => rows # <<>>  OBVIOUS
  <2> QED  BY <2>1 DEF HasParent, PrimaryEvidence
<1> QED  BY <1>1, <1>2 DEF AddsTo, Parented

Parents ==
  /\ Parented(db.carved, db.evidence)
  /\ Parented(db.events, db.evidence)
  /\ Parented(db.detections, db.evidence)

LEMMA ParentsKept ==
  ASSUME TypeInv, Parents, [Next]_vars
  PROVE  Parents'
<1>1. DbStep  BY NextSteps
<1>2. db \in Databases  BY DEF TypeInv, FilesInv
<1>3. ASSUME NEW table, Parented(table, db.evidence) PROVE Parented(table, db'.evidence)
  BY <1>3, EvidenceStays DEF Parented
<1>4. /\ Parented(db.carved, db'.evidence)
      /\ Parented(db.events, db'.evidence)
      /\ Parented(db.detections, db'.evidence)
  BY <1>3 DEF Parents
<1>5. CASE UNCHANGED db  BY <1>5 DEF Parents
<1>6. ASSUME NEW p \in Procs, Extracts(p) \/ Audits(p) PROVE Parents'
  BY <1>4, <1>6 DEF Extracts, Audits, TablesKept, Parents
<1>7. ASSUME NEW p \in Procs, Adds(p, "carve", "carved") PROVE Parents'
  <2>1. job[p].rows \in Seq(Frame)  BY <1>7, StoredTypes DEF Adds
  <2>2. Parented(db'.carved, db.evidence)
    BY <1>2, <1>7, <2>1, TablesAre, AddedParented DEF Adds, Parents
  <2> QED  BY <1>3, <1>4, <1>7, <2>2 DEF Adds, TablesKept, Parents
<1>8. ASSUME NEW p \in Procs, Adds(p, "correlate", "events") PROVE Parents'
  <2>1. job[p].rows \in Seq({"event"})  BY <1>8, StoredTypes DEF Adds
  <2>2. Parented(db'.events, db.evidence)
    BY <1>2, <1>8, <2>1, TablesAre, AddedParented DEF Adds, Parents
  <2> QED  BY <1>3, <1>4, <1>8, <2>2 DEF Adds, TablesKept, Parents
<1>9. ASSUME NEW p \in Procs, Adds(p, "analyze", "detections") PROVE Parents'
  <2>1. job[p].rows \in Seq(Detection)  BY <1>9, StoredTypes DEF Adds
  <2>2. Parented(db'.detections, db.evidence)
    BY <1>2, <1>9, <2>1, TablesAre, AddedParented DEF Adds, Parents
  <2> QED  BY <1>3, <1>4, <1>9, <2>2 DEF Adds, TablesKept, Parents
<1> QED  BY <1>1, <1>5, <1>6, <1>7, <1>8, <1>9, DbStepCases

(***************************************************************************)
(* Carving, correlating and analysing before, or beside, the first parse   *)
(* never leaves a row of an evidence item that is not there.               *)
(***************************************************************************)
THEOREM NoRowIsOrphaned == Spec => []NoOrphans
<1>1. Init => Parents  BY DEF Init, EmptyDb, Parents, Parented
<1>2. TypeInv /\ Parents /\ [Next]_vars => Parents'  BY ParentsKept
<1>3. Parents => NoOrphans  BY DEF Parents, Parented, NoOrphans
<1> QED  BY <1>1, <1>2, <1>3, TypesInvariant, PTL DEF Spec
----------------------------------------------------------------------------
\* The way of a report.

(***************************************************************************)
(* What a report holds after a step, by what it held before.               *)
(***************************************************************************)
ReportStarts(q) ==
  job'[q].pc = "carved" /\ job'[q].rows = <<Len(db.records)>>

ReportAsks(q) ==
  /\ job[q].cmd = "report"
  /\ job[q].pc = "export" => DOMAIN job[q].frames = {}
  /\ \E c \in Nat : CountedAs(job[q], job'[q], c)

ReportOpens(q) ==
  /\ At(q, "report", "export") /\ job'[q].pc = "clip"
  /\ job'[q].rows = job[q].rows
  /\ \E i \in DOMAIN job[q].frames :
       /\ FrameEnd(job[q].frames[i]) <= Len(image)
       /\ job'[q].frames = Read(job[q].frames, i)
       /\ \E c \in clips' : c.n = ClipNumber(job[q])

ReportWrites(q) ==
  /\ At(q, "report", "clip") /\ job'[q].pc = "export"
  /\ job'[q].rows = job[q].rows
  /\ \E i \in DOMAIN job[q].frames :
       job'[q].frames = [k \in DOMAIN job[q].frames \ {i} |-> job[q].frames[k]]

ReportDocuments(q) ==
  /\ At(q, "report", "certify") /\ job'[q].pc = "document"
  /\ job'[q].rows = job[q].rows

LEMMA ReportMoves ==
  ASSUME TypeInv, [Next]_vars, NEW q \in Procs, job'[q].cmd = "report"
  PROVE  \/ job'[q] = job[q]
         \/ ReportStarts(q) \/ ReportAsks(q) \/ ReportOpens(q)
         \/ ReportWrites(q) \/ ReportDocuments(q)
<1> DEFINE Moves == \/ job'[q] = job[q]
                    \/ ReportStarts(q) \/ ReportAsks(q) \/ ReportOpens(q)
                    \/ ReportWrites(q) \/ ReportDocuments(q)
<1> SUFFICES Moves  OBVIOUS
<1>0. q \in DOMAIN job /\ job[q] \in Jobs /\ JobTyped(job[q])  BY DEF TypeInv, JobsInv
<1>1. ASSUME NEW n, Continue(q, n) PROVE job'[q] = n
  BY <1>0, <1>1 DEF Continue
<1>2. Idle.cmd # "report"  BY DEF Idle, Holding
<1>3. ~Finish(q)  BY <1>0, <1>2 DEF Finish
<1>4. CASE Start(q)
  <2>1. CASE Untouched(q, q)  BY <2>1 DEF Untouched
  <2>2. CASE StartHolds(q)
    <3>1. job'[q] = Holding("report", "carved", manifest, <<Len(db.records)>>)
      BY <2>2, HoldingIs DEF StartHolds
    <3>2. ReportStarts(q)  BY <3>1, HoldingIs DEF ReportStarts
    <3> QED  BY <3>2
  <2> QED  BY <1>4, <2>1, <2>2, StartIs
<1>5. CASE ReportCounts(q)
  <2>1. PICK n : \E c \in Nat : Continue(q, n) /\ CountedAs(job[q], n, c)
    BY <1>5, CountsTaken
  <2>2. job'[q] = n  BY <1>1, <2>1
  <2>3. job[q].cmd = "report"  BY <1>5, CountsTaken
  <2>4. job[q].pc = "export" => DOMAIN job[q].frames = {}  BY <1>5, CountsTaken
  <2>5. ReportAsks(q)  BY <2>1, <2>2, <2>3, <2>4 DEF ReportAsks
  <2> QED  BY <2>5
<1>6. CASE ReportClip(q)
  <2>1. At(q, "report", "export")  BY <1>6, ReportClipIs
  <2>2. PICK i, n :
          /\ i \in DOMAIN job[q].frames
          /\ FrameEnd(job[q].frames[i]) <= Len(image)
          /\ clips' = ClipsBut(ClipNumber(job[q]), job[q].frames[i].at)
               \cup {[n |-> ClipNumber(job[q]), at |-> job[q].frames[i].at, bytes |-> <<>>]}
          /\ Continue(q, n) /\ n.pc = "clip" /\ n.rows = job[q].rows
          /\ n.frames = Read(job[q].frames, i)
    BY <1>6, ReportClipIs
  <2>3. job'[q] = n  BY <1>1, <2>2
  <2>4. \E c \in clips' : c.n = ClipNumber(job[q])
    <3> DEFINE c == [n |-> ClipNumber(job[q]), at |-> job[q].frames[i].at, bytes |-> <<>>]
    <3>1. c \in clips' /\ c.n = ClipNumber(job[q])  BY <2>2
    <3> QED  BY <3>1
  <2>5. ReportOpens(q)  BY <2>1, <2>2, <2>3, <2>4 DEF ReportOpens
  <2> QED  BY <2>5
<1>7. CASE ReportClipWritten(q)
  <2>1. At(q, "report", "clip")  BY <1>7, ReportClipWrittenIs
  <2>2. PICK i \in DOMAIN job[q].frames : Continue(q, Exported(job[q], i))
    BY <1>3, <1>7, ReportClipWrittenIs
  <2>3. job'[q] = Exported(job[q], i)  BY <1>1, <2>2
  <2>4. /\ job'[q].pc = "export" /\ job'[q].rows = job[q].rows
        /\ job'[q].frames = [k \in DOMAIN job[q].frames \ {i} |-> job[q].frames[k]]
    BY <1>0, <2>3, ExportedIs
  <2>5. ReportWrites(q)  BY <2>1, <2>2, <2>4 DEF ReportWrites
  <2> QED  BY <2>5
<1>8. CASE ReportCertify(q)
  <2>1. At(q, "report", "certify") /\ Continue(q, [job[q] EXCEPT !.pc = "document"])
    BY <1>8 DEF ReportCertify
  <2>2. job'[q] = [job[q] EXCEPT !.pc = "document"]  BY <1>1, <2>1
  <2>3. ReportDocuments(q)  BY <1>0, <2>1, <2>2 DEF ReportDocuments, Jobs
  <2> QED  BY <2>3
<1>9. CASE Step(q)
  <2>1. job[q].cmd = "report"
    <3>1. job'[q] # Idle  BY <1>2
    <3> QED  BY <1>9, <3>1, StepKeepsCommand
  <2>2. ReportStep(q)  BY <1>9, <2>1, StepOf
  <2>3. ~ReportUnreadable(q) /\ ~ReportDocument(q)
    BY <1>3 DEF ReportUnreadable, ReportDocument
  <2> HIDE DEF Moves
  <2> QED  BY <1>5, <1>6, <1>7, <1>8, <2>2, <2>3 DEF ReportStep, ReportCounts
<1>10. CASE Abort(q)  BY <1>3, <1>10 DEF Abort
<1>11. CASE Touch \/ Untouched(q, q)  BY <1>11 DEF Touch, Untouched
<1> HIDE DEF Moves
<1> QED  BY <1>4, <1>9, <1>10, <1>11, MoveOf

\* The numbers a report holds.
LEMMA NumbersHeld ==
  ASSUME TypeInv, NEW q \in Procs, job[q].cmd = "report"
  PROVE  job[q].rows \in Seq(Nat) /\ Len(job[q].rows) = RowsAt(job[q].pc)
BY DEF TypeInv, JobsInv, JobTyped, RowsTyped

----------------------------------------------------------------------------
\* What a report counts is there.

Available(d) ==
  <<Len(d.records), Len(d.carved), Len(d.events), Cardinality(Relevant(d))>>

\* The first n numbers of a report count what is there.
CountedIn(numbers, n, d) ==
  \A i \in 1 .. n : numbers[i] \in Nat /\ numbers[i] <= Available(d)[i]

\* The item whose format is named is there, if anything was counted.
ItemIsThere(numbers, item, d) ==
  (\E i \in 1 .. 4 : numbers[i] > 0) => item \in DOMAIN d.evidence

\* How much a report has counted, by where it is.
CountedAt(pc) == IF RowsAt(pc) = 5 THEN 4 ELSE RowsAt(pc)

\* A report that is being made, and one on disk.
JobCounted(j, d) ==
  j.cmd = "report" =>
    /\ CountedIn(j.rows, CountedAt(j.pc), d)
    /\ j.pc \in {"certify", "document"} => ItemIsThere(j.rows, j.rows[5], d)

ReportCounted(report, d) ==
  report.present =>
    CountedIn(report.counts, 4, d) /\ ItemIsThere(report.counts, report.item, d)

CountsInv ==
  /\ \A p \in Procs : JobCounted(job[p], db)
  /\ ReportCounted(certificate, db) /\ ReportCounted(documents, db)

\* Without an evidence item there is nothing in any table.
ItemsInv == db.evidence = <<>> => db.records = <<>>

LEMMA ItemsKept ==
  ASSUME TypeInv, ItemsInv, [Next]_vars
  PROVE  ItemsInv'
<1>1. DbStep  BY NextSteps
<1>2. CASE UNCHANGED db  BY <1>2 DEF ItemsInv
<1>3. ASSUME NEW p \in Procs, Extracts(p) PROVE ItemsInv'
  <2>1. job[p].m \in Manifests  BY <1>3, StoredTypes DEF Extracts
  <2>2. EvidenceOf(job[p].m) \in Item /\ db.evidence \in Seq(Item)
    BY <2>1, EvidenceOfIs, TablesAre
  <2>3. Len(db'.evidence) = Len(db.evidence) + 1 /\ Len(db.evidence) \in Nat
    BY <1>3, <2>2, AppendProperties, LenProperties DEF Extracts
  <2>4. Len(db'.evidence) # 0  BY <2>3
  <2>5. db'.evidence # <<>>  BY <2>4, NoRows
  <2> QED  BY <2>5 DEF ItemsInv
<1>4. ASSUME NEW p \in Procs, Audits(p) PROVE ItemsInv'
  BY <1>4 DEF ItemsInv, Audits, TablesKept
<1>5. ASSUME NEW p \in Procs, \/ Adds(p, "carve", "carved") \/ Adds(p, "correlate", "events")
                              \/ Adds(p, "analyze", "detections")
      PROVE  ItemsInv'
  <2>1. TablesKept({"evidence", "records"})  BY <1>5 DEF Adds, TablesKept
  <2> QED  BY <2>1 DEF ItemsInv, TablesKept
<1> QED  BY <1>1, <1>2, <1>3, <1>4, <1>5, DbStepCases

LEMMA AvailableIs ==
  ASSUME TypeInv
  PROVE  /\ \A i \in 1 .. 4 : Available(db)[i] \in Nat
         /\ Available(db)[1] = Len(db.records) /\ Available(db)[2] = Len(db.carved)
         /\ Available(db)[3] = Len(db.events)
         /\ Available(db)[4] = Cardinality(Relevant(db))
<1>1. /\ Len(db.records) \in Nat /\ Len(db.carved) \in Nat /\ Len(db.events) \in Nat
      /\ Cardinality(Relevant(db)) \in Nat
  BY CountsAre DEF TypeInv, FilesInv
<1> QED  BY <1>1 DEF Available

\* No table has a row without an evidence item.
LEMMA NothingAvailable ==
  ASSUME TypeInv, Parents, ItemsInv, db.evidence = <<>>
  PROVE  \A i \in 1 .. 4 : Available(db)[i] = 0
<1>1. DOMAIN db.evidence = {}  BY TablesAre, LenProperties, NoRows
<1>2. ASSUME NEW S, NEW table \in Seq(S), Parented(table, db.evidence)
      PROVE  Len(table) = 0 /\ DOMAIN table = {}
  <2>1. DOMAIN table = {}  BY <1>1, <1>2 DEF Parented
  <2>2. Len(table) \in Nat /\ DOMAIN table = 1 .. Len(table)  BY <1>2, LenProperties
  <2>3. Len(table) = 0
    <3>1. 1 \notin 1 .. Len(table)  BY <2>1, <2>2
    <3> QED  BY <2>2, <3>1
  <2> QED  BY <2>1, <2>3
<1>3. Len(db.records) = 0  BY NoRows DEF ItemsInv
<1>4. Len(db.carved) = 0 /\ Len(db.events) = 0  BY <1>2, TablesAre DEF Parents
<1>5. DOMAIN db.detections = {}  BY <1>2, TablesAre DEF Parents
<1>6. Relevant(db) = {}  BY <1>5 DEF Relevant
<1>7. Cardinality(Relevant(db)) = 0  BY <1>6, FS_EmptySet
<1> QED  BY <1>3, <1>4, <1>7, AvailableIs

LEMMA AvailableGrows ==
  ASSUME TypeInv, [Next]_vars
  PROVE  \A i \in 1 .. 4 : /\ Available(db)[i] \in Nat /\ Available(db')[i] \in Nat
                           /\ Available(db)[i] <= Available(db')[i]
<1>1. TypeInv' /\ DbGrows  BY TypesKept, NextSteps, DbStepGrows
<1>2. db'.detections \in Seq(Rows(Detection)) /\ db.detections \in Seq(Rows(Detection))
  BY <1>1 DEF TypeInv, FilesInv, Databases
<1>3. Relevant(db) \subseteq Relevant(db')
  <2>1. GrowsFrom(db.detections, db'.detections)  BY <1>1 DEF DbGrows
  <2> QED  BY <1>2, <2>1, GrownIs DEF Relevant
<1>4. IsFiniteSet(Relevant(db'))
  <2>1. Len(db'.detections) \in Nat /\ DOMAIN db'.detections = 1 .. Len(db'.detections)
    BY <1>2, LenProperties
  <2>2. Relevant(db') \subseteq 1 .. Len(db'.detections)  BY <2>1 DEF Relevant
  <2> QED  BY <2>1, <2>2, PlacesAreFinite, FS_Subset
<1>5. Cardinality(Relevant(db)) <= Cardinality(Relevant(db'))
      /\ Cardinality(Relevant(db')) \in Nat
  BY <1>3, <1>4, FS_Subset, FS_CardinalityType
<1>6. /\ db'.records \in Seq(Record) /\ db'.carved \in Seq(Rows(Frame))
      /\ db'.events \in Seq(Rows({"event"}))
  BY <1>1 DEF TypeInv, FilesInv, Databases
<1>7. Len(db'.records) \in Nat /\ Len(db'.carved) \in Nat /\ Len(db'.events) \in Nat
  BY <1>6, LenProperties
<1>8. /\ Len(db.records) <= Len(db'.records) /\ Len(db.carved) <= Len(db'.carved)
      /\ Len(db.events) <= Len(db'.events)
  BY <1>1 DEF DbGrows, GrowsFrom
<1> QED  BY <1>5, <1>7, <1>8, AvailableIs DEF Available

\* What was counted stays counted, and the item that was named is there.
LEMMA CountedStays ==
  ASSUME TypeInv, [Next]_vars, NEW numbers
  PROVE  /\ \A n \in 0 .. 4 : CountedIn(numbers, n, db) => CountedIn(numbers, n, db')
         /\ \A item : ItemIsThere(numbers, item, db) => ItemIsThere(numbers, item, db')
<1>1. ASSUME NEW n \in 0 .. 4, CountedIn(numbers, n, db) PROVE CountedIn(numbers, n, db')
  <2> SUFFICES ASSUME NEW i \in 1 .. n
               PROVE  numbers[i] \in Nat /\ numbers[i] <= Available(db')[i]
    BY DEF CountedIn
  <2>1. i \in 1 .. 4 /\ numbers[i] \in Nat /\ numbers[i] <= Available(db)[i]
    BY <1>1 DEF CountedIn
  <2> QED  BY <2>1, AvailableGrows
<1>2. ASSUME NEW item, ItemIsThere(numbers, item, db) PROVE ItemIsThere(numbers, item, db')
  BY <1>2, EvidenceStays DEF ItemIsThere
<1> QED  BY <1>1, <1>2

LEMMA JobStaysCounted ==
  ASSUME TypeInv, [Next]_vars, NEW j, JobCounted(j, db)
  PROVE  JobCounted(j, db')
<1>1. CountedAt(j.pc) \in 0 .. 4  BY DEF CountedAt, RowsAt
<1> QED  BY <1>1, CountedStays DEF JobCounted

\* A report that asks for a number counts what is there at that time.
LEMMA AskedCounted ==
  ASSUME TypeInv, Parents, ItemsInv, NEW j, j.cmd = "report", JobTyped(j), JobCounted(j, db),
         NEW n, NEW c \in Nat, CountedAs(j, n, c)
  PROVE  JobCounted(n, db)
<1> DEFINE len == RowsAt(j.pc)
<1>1. j.rows \in Seq(Nat) /\ Len(j.rows) = len  BY DEF JobTyped, RowsTyped
<1>2. len \in 1 .. 4 /\ RowsAt(n.pc) = len + 1  BY DEF CountedAs, Asked, RowsAt
<1>3. n.rows = Append(j.rows, c)  BY DEF CountedAs
<1>4. CountedIn(j.rows, len, db)
  <2>1. CountedAt(j.pc) = len  BY <1>2 DEF CountedAt
  <2> QED  BY <2>1 DEF JobCounted
<1>5. Asked(j.pc, n.pc, c)  BY DEF CountedAs
<1> HIDE DEF len
<1>6. (\A i \in 1 .. len : n.rows[i] = j.rows[i]) /\ n.rows[len + 1] = c
  BY <1>1, <1>2, <1>3, AppendProperties
<1>7. CountedIn(n.rows, len, db)  BY <1>4, <1>6 DEF CountedIn
<1>8. CASE j.pc = "export"
  <2>1. len = 4 /\ n.pc = "certify" /\ c = FormatItem(db) /\ CountedAt(n.pc) = 4
    BY <1>5, <1>8 DEF Asked, RowsAt, CountedAt, len
  <2>2. n.rows[5] = FormatItem(db)
    <3>1. n.rows[4 + 1] = FormatItem(db)  BY <1>6, <2>1
    <3> QED  BY <3>1
  <2>3. FormatItem(db) \in {0, 1} /\ (FormatItem(db) = 0 <=> db.evidence = <<>>)
    BY CountsAre DEF TypeInv, FilesInv
  <2>4. CASE db.evidence = <<>>
    <3>1. \A i \in 1 .. 4 : Available(db)[i] = 0  BY <2>4, NothingAvailable
    <3>2. \A i \in 1 .. 4 : n.rows[i] \in Nat /\ n.rows[i] <= 0  BY <1>7, <2>1, <3>1 DEF CountedIn
    <3>3. \A i \in 1 .. 4 : ~(n.rows[i] > 0)  BY <3>2
    <3>4. ItemIsThere(n.rows, n.rows[5], db)  BY <3>3 DEF ItemIsThere
    <3> QED  BY <1>7, <2>1, <3>4 DEF JobCounted
  <2>5. CASE db.evidence # <<>>
    <3>1. n.rows[5] = 1  BY <2>2, <2>3, <2>5
    <3>2. 1 \in DOMAIN db.evidence
      <4>1. Len(db.evidence) \in Nat /\ DOMAIN db.evidence = 1 .. Len(db.evidence)
        BY TablesAre, LenProperties
      <4>2. Len(db.evidence) # 0  BY <2>5, TablesAre, EmptySeq
      <4> QED  BY <4>1, <4>2
    <3>3. ItemIsThere(n.rows, n.rows[5], db)  BY <3>1, <3>2 DEF ItemIsThere
    <3> QED  BY <1>7, <2>1, <3>3 DEF JobCounted
  <2> QED  BY <2>4, <2>5
<1>9. CASE j.pc # "export"
  <2>1. n.pc \in {"events", "leads", "export"} /\ CountedAt(n.pc) = len + 1
    BY <1>2, <1>5, <1>9 DEF Asked, CountedAt, RowsAt, len
  <2>2. c = Available(db)[len + 1]
    <3>1. CASE j.pc = "carved"
      <4>1. len + 1 = 2 /\ c = Len(db.carved)  BY <1>5, <3>1 DEF Asked, RowsAt, len
      <4> QED  BY <4>1, AvailableIs
    <3>2. CASE j.pc = "events"
      <4>1. len + 1 = 3 /\ c = Len(db.events)  BY <1>5, <3>2 DEF Asked, RowsAt, len
      <4> QED  BY <4>1, AvailableIs
    <3>3. CASE j.pc = "leads"
      <4>1. len + 1 = 4 /\ c = Cardinality(Relevant(db))
        BY <1>5, <3>3 DEF Asked, RowsAt, len
      <4> QED  BY <4>1, AvailableIs
    <3> QED  BY <1>5, <1>9, <3>1, <3>2, <3>3 DEF Asked
  <2>3. CountedIn(n.rows, len + 1, db)
    <3> SUFFICES ASSUME NEW i \in 1 .. len + 1
                 PROVE  n.rows[i] \in Nat /\ n.rows[i] <= Available(db)[i]
      BY DEF CountedIn
    <3>1. CASE i \in 1 .. len  BY <1>7, <3>1 DEF CountedIn
    <3>2. CASE i \notin 1 .. len
      <4>1. i = len + 1  BY <1>2, <3>2
      <4> QED  BY <1>6, <2>2, <4>1
    <3> QED  BY <3>1, <3>2
  <2>4. n.pc \notin {"certify", "document"}  BY <2>1
  <2> QED  BY <2>1, <2>3, <2>4 DEF JobCounted
<1> QED  BY <1>8, <1>9

LEMMA CountsKept ==
  ASSUME TypeInv, Parents, ItemsInv, CountsInv, [Next]_vars
  PROVE  CountsInv'
<1>1. ASSUME NEW q \in Procs PROVE JobCounted(job'[q], db')
  <2> SUFFICES ASSUME job'[q].cmd = "report" PROVE JobCounted(job'[q], db')
    BY DEF JobCounted
  <2>1. JobTyped(job[q]) /\ JobCounted(job[q], db)
    BY DEF TypeInv, JobsInv, CountsInv
  <2>2. CASE job'[q] = job[q]
    BY <2>1, <2>2, JobStaysCounted
  <2>3. CASE ReportStarts(q)
    <3>1. job'[q].pc = "carved" /\ job'[q].rows[1] = Available(db)[1] /\ Available(db)[1] \in Nat
      BY <2>3, AvailableIs DEF ReportStarts
    <3>2. CountedAt(job'[q].pc) = 1  BY <3>1 DEF CountedAt, RowsAt
    <3>3. CountedIn(job'[q].rows, 1, db)  BY <3>1 DEF CountedIn
    <3>4. JobCounted(job'[q], db)  BY <3>1, <3>2, <3>3 DEF JobCounted
    <3> QED  BY <3>4, JobStaysCounted
  <2>4. CASE ReportAsks(q)
    <3>1. PICK c \in Nat : CountedAs(job[q], job'[q], c)  BY <2>4 DEF ReportAsks
    <3>2. job[q].cmd = "report"  BY <2>4 DEF ReportAsks
    <3>3. JobCounted(job'[q], db)  BY <2>1, <3>1, <3>2, AskedCounted
    <3> QED  BY <3>3, JobStaysCounted
  <2>5. CASE ReportOpens(q) \/ ReportWrites(q) \/ ReportDocuments(q)
    <3>1. /\ job[q].cmd = "report" /\ job'[q].rows = job[q].rows
          /\ CountedAt(job'[q].pc) = CountedAt(job[q].pc)
          /\ job'[q].pc \in {"certify", "document"} => job[q].pc = "certify"
      BY <2>5 DEF ReportOpens, ReportWrites, ReportDocuments, At, CountedAt, RowsAt
    <3>2. JobCounted(job'[q], db)  BY <2>1, <3>1 DEF JobCounted
    <3> QED  BY <3>2, JobStaysCounted
  <2> QED  BY <2>2, <2>3, <2>4, <2>5, ReportMoves
<1>2. ASSUME NEW report, ReportCounted(report, db)
      PROVE  ReportCounted(report, db')
  BY <1>2, CountedStays DEF ReportCounted
<1>3. ASSUME NEW p \in Procs, job[p].cmd = "report", job[p].pc \in {"certify", "document"}
      PROVE  ReportCounted(ReportOf(job[p]), db')
  <2>1. JobTyped(job[p]) /\ JobCounted(job[p], db)
    BY DEF TypeInv, JobsInv, CountsInv
  <2>2. CountedAt(job[p].pc) = 4  BY <1>3 DEF CountedAt, RowsAt
  <2>3. CountedIn(job[p].rows, 4, db) /\ ItemIsThere(job[p].rows, job[p].rows[5], db)
    BY <1>3, <2>1, <2>2 DEF JobCounted
  <2> DEFINE report == ReportOf(job[p])
  <2>4. /\ \A i \in 1 .. 4 : report.counts[i] = job[p].rows[i]
        /\ report.item = job[p].rows[5]
    BY <1>3, <2>1, ReportOfIs
  <2> HIDE DEF report
  <2>5. ReportCounted(report, db)
    BY <2>3, <2>4 DEF ReportCounted, CountedIn, ItemIsThere
  <2> QED  BY <1>2, <2>5 DEF report
<1>4. FilesStep  BY NextSteps
<1>5. ReportCounted(certificate', db')
  <2>1. ASSUME NEW p \in Procs, ReportCertify(p) PROVE ReportCounted(certificate', db')
    BY <1>3, <2>1 DEF ReportCertify, At
  <2>2. UNCHANGED certificate => ReportCounted(certificate', db')
    BY <1>2 DEF CountsInv
  <2> QED  BY <1>4, <2>1, <2>2 DEF FilesStep
<1>6. ReportCounted(documents', db')
  <2>1. ASSUME NEW p \in Procs, ReportDocument(p) PROVE ReportCounted(documents', db')
    BY <1>3, <2>1 DEF ReportDocument, At
  <2>2. UNCHANGED documents => ReportCounted(documents', db')
    BY <1>2 DEF CountsInv
  <2> QED  BY <1>4, <2>1, <2>2 DEF FilesStep
<1> QED  BY <1>1, <1>5, <1>6 DEF CountsInv

(***************************************************************************)
(* A report asks five times, beside the commands that write, and says      *)
(* later what it was told: never more than the database has then, and a    *)
(* format of an evidence item that is there if it says anything.           *)
(***************************************************************************)
THEOREM ReportsAreOfTheCase == Spec => []ReportIsOfTheCase
<1>1. ASSUME Init PROVE Parents /\ ItemsInv /\ CountsInv
  <2>1. \A p \in Procs : job[p].cmd = "none"  BY <1>1 DEF Init, Idle, Holding
  <2>2. ~certificate.present /\ ~documents.present  BY <1>1 DEF Init, NoFile
  <2>3. Parents /\ ItemsInv  BY <1>1 DEF Init, EmptyDb, Parents, Parented, ItemsInv
  <2> QED  BY <2>1, <2>2, <2>3 DEF CountsInv, JobCounted, ReportCounted
<1>2. /\ TypeInv /\ Parents /\ ItemsInv /\ CountsInv /\ [Next]_vars
           => Parents' /\ ItemsInv' /\ CountsInv'
  BY ParentsKept, ItemsKept, CountsKept
<1>3. ASSUME CountsInv PROVE ReportIsOfTheCase
  BY <1>3 DEF CountsInv, ReportCounted, CountedIn, ItemIsThere, Available, ReportIsOfTheCase
<1> QED  BY <1>1, <1>2, <1>3, TypesInvariant, PTL DEF Spec

----------------------------------------------------------------------------
\* A certificate has a clip of every number it counts.

Numbers == {c.n : c \in clips}

\* The clips of a report that has opened some of its files, or all of them.
JobClips(j, numbers) ==
  j.cmd = "report" =>
    /\ j.pc \in {"events", "leads"} => ClipNumber(j) = 0
    /\ j.pc = "export" => 0 .. ClipNumber(j) - 1 \subseteq numbers
    /\ j.pc = "clip" => 0 .. ClipNumber(j) \subseteq numbers
    /\ j.pc \in {"certify", "document"} => 0 .. j.rows[2] - 1 \subseteq numbers

NumbersInv ==
  /\ \A p \in Procs : JobClips(job[p], Numbers)
  /\ certificate.present => 0 .. certificate.counts[2] - 1 \subseteq Numbers

\* No file is removed: a file is put in the place of one of its number and offset.
LEMMA ClipsPut ==
  ASSUME TypeInv, NEW p \in Procs, ReportClip(p) \/ ReportClipWritten(p)
  PROVE  \E at, c : c.n = ClipNumber(job[p]) /\ clips' = ClipsBut(ClipNumber(job[p]), at) \cup {c}
<1> DEFINE n == ClipNumber(job[p])
<1>1. CASE ReportClip(p)
  <2>1. PICK i : clips' = ClipsBut(n, job[p].frames[i].at)
                   \cup {[n |-> n, at |-> job[p].frames[i].at, bytes |-> <<>>]}
    BY <1>1, ReportClipIs
  <2> DEFINE c == [n |-> n, at |-> job[p].frames[i].at, bytes |-> <<>>]
  <2>2. c.n = n /\ clips' = ClipsBut(n, job[p].frames[i].at) \cup {c}  BY <2>1
  <2> QED  BY <2>2
<1>2. CASE ReportClipWritten(p)
  <2>0. PICK i \in DOMAIN job[p].frames, c \in clips : \E k \in 0 .. Len(job[p].frames[i].bytes) :
          /\ c.n = n
          /\ clips' = ClipsBut(n, job[p].frames[i].at)
               \cup {[c EXCEPT !.bytes = WrittenOver(c.bytes, job[p].frames[i].bytes, k)]}
    BY <1>2, ReportClipWrittenIs
  <2>1. PICK k \in 0 .. Len(job[p].frames[i].bytes) :
          /\ c.n = n
          /\ clips' = ClipsBut(n, job[p].frames[i].at)
               \cup {[c EXCEPT !.bytes = WrittenOver(c.bytes, job[p].frames[i].bytes, k)]}
    BY <2>0
  <2> DEFINE b == WrittenOver(c.bytes, job[p].frames[i].bytes, k)
             d == [c EXCEPT !.bytes = b]
  <2>2. c \in [n : Int, at : Place, bytes : Bytes]  BY DEF TypeInv, FilesInv
  <2>3. d.n = n
    <3> HIDE DEF b, n
    <3> QED  BY <2>1, <2>2
  <2>4. clips' = ClipsBut(n, job[p].frames[i].at) \cup {d}  BY <2>1
  <2> HIDE DEF d
  <2> QED  BY <2>3, <2>4
<1> QED  BY <1>1, <1>2

LEMMA NumbersGrow ==
  ASSUME TypeInv, [Next]_vars
  PROVE  Numbers \subseteq Numbers'
<1>1. UNCHANGED clips \/ \E p \in Procs : ReportClip(p) \/ ReportClipWritten(p)
  BY NextSteps DEF FilesStep
<1>2. ASSUME NEW p \in Procs, ReportClip(p) \/ ReportClipWritten(p)
      PROVE  Numbers \subseteq Numbers'
  <2> DEFINE n == ClipNumber(job[p])
  <2>1. PICK at, c : c.n = n /\ clips' = ClipsBut(n, at) \cup {c}  BY <1>2, ClipsPut
  <2>2. SUFFICES ASSUME NEW d \in clips PROVE \E e \in clips' : e.n = d.n
    BY DEF Numbers
  <2> HIDE DEF n
  <2>3. CASE d.n = n  BY <2>1, <2>3
  <2>4. CASE d.n # n  BY <2>1, <2>4 DEF ClipsBut
  <2> QED  BY <2>3, <2>4
<1>3. UNCHANGED clips => Numbers' = Numbers  BY DEF Numbers
<1> QED  BY <1>1, <1>2, <1>3

LEMMA ClipsOfJobsKept ==
  ASSUME TypeInv, NumbersInv, [Next]_vars, NEW q \in Procs
  PROVE  JobClips(job'[q], Numbers')
<1> SUFFICES ASSUME job'[q].cmd = "report" PROVE JobClips(job'[q], Numbers')
  BY DEF JobClips
<1>1. JobTyped(job[q]) /\ JobClips(job[q], Numbers) /\ job[q] \in Jobs
  BY DEF TypeInv, JobsInv, NumbersInv
<1>2. Numbers \subseteq Numbers'  BY NumbersGrow
<1>3. JobClips(job[q], Numbers')  BY <1>1, <1>2 DEF JobClips
<1>4. /\ IsFiniteSet(DOMAIN job[q].frames) /\ Cardinality(DOMAIN job[q].frames) \in Nat
      /\ \A i \in DOMAIN job[q].frames : job[q].frames[i] \in Frame
  BY <1>1, FramesOf DEF Jobs
<1>5. CASE job'[q] = job[q]  BY <1>3, <1>5
<1>6. CASE ReportStarts(q)  BY <1>6 DEF ReportStarts, JobClips
<1>7. CASE ReportAsks(q)
  <2>1. PICK c \in Nat : CountedAs(job[q], job'[q], c)  BY <1>7 DEF ReportAsks
  <2> DEFINE rows == job[q].rows
             pc == job[q].pc
  <2>2. job[q].cmd = "report"  BY <1>7 DEF ReportAsks
  <2>3. rows \in Seq(Nat) /\ Len(rows) = RowsAt(pc)  BY <2>2, NumbersHeld
  <2>4. job'[q].rows = Append(rows, c) /\ Asked(pc, job'[q].pc, c)  BY <2>1 DEF CountedAs
  <2>5. job'[q].frames = IF pc = "carved" THEN CarvedFrames(db) ELSE job[q].frames
    BY <2>1 DEF CountedAs
  <2>6. pc # "carved" => rows[2] \in Nat /\ job'[q].rows[2] = rows[2]
    <3> SUFFICES ASSUME pc # "carved" PROVE rows[2] \in Nat /\ job'[q].rows[2] = rows[2]
      OBVIOUS
    <3>1. 2 \in 1 .. Len(rows)  BY <2>3, <2>4 DEF Asked, RowsAt
    <3> HIDE DEF rows, pc
    <3>2. Append(rows, c)[2] = rows[2]  BY <2>3, <3>1, AppendProperties
    <3> QED  BY <2>3, <2>4, <3>1, <3>2, ElementOfSeq
  <2>7. CASE pc = "carved"
    <3>1. job'[q].pc = "events" /\ c = Len(db.carved) /\ Len(rows) = 1
      BY <2>3, <2>4, <2>7 DEF Asked, RowsAt
    <3>2. job'[q].rows[2] = Len(db.carved)
      <4> HIDE DEF rows
      <4>1. Append(rows, c)[Len(rows) + 1] = c  BY <2>3, AppendProperties
      <4> QED  BY <2>4, <3>1, <4>1
    <3>3. DOMAIN job'[q].frames = 1 .. Len(db.carved)
      BY <2>5, <2>7, CarvedFramesAre DEF TypeInv, FilesInv
    <3>4. Len(db.carved) \in Nat  BY TablesAre
    <3>5. Cardinality(1 .. Len(db.carved)) =
            IF 1 > Len(db.carved) THEN 0 ELSE Len(db.carved) - 1 + 1
      BY <3>4, FS_Interval
    <3>6. ClipNumber(job'[q]) = 0  BY <3>2, <3>3, <3>4, <3>5 DEF ClipNumber
    <3> QED  BY <3>1, <3>6 DEF JobClips
  <2>8. CASE pc \in {"events", "leads"}
    <3>1. ClipNumber(job'[q]) = ClipNumber(job[q])  BY <2>5, <2>6, <2>8 DEF ClipNumber
    <3>2. ClipNumber(job'[q]) = 0  BY <1>3, <2>2, <2>8, <3>1 DEF JobClips
    <3>3. 0 .. ClipNumber(job'[q]) - 1 = {}  BY <3>2
    <3>4. job'[q].pc \in {"leads", "export"}  BY <2>4, <2>8 DEF Asked
    <3> QED  BY <3>2, <3>3, <3>4 DEF JobClips
  <2>9. CASE pc = "export"
    <3>1. job'[q].pc = "certify"  BY <2>4, <2>9 DEF Asked
    <3>2. DOMAIN job[q].frames = {}  BY <1>7, <2>9 DEF ReportAsks
    <3>3. ClipNumber(job[q]) = rows[2]  BY <2>6, <2>9, <3>2, FS_EmptySet DEF ClipNumber
    <3>4. 0 .. rows[2] - 1 \subseteq Numbers'  BY <1>3, <2>2, <2>9, <3>3 DEF JobClips
    <3> QED  BY <2>6, <2>9, <3>1, <3>4 DEF JobClips
  <2> QED  BY <2>4, <2>7, <2>8, <2>9 DEF Asked
<1>8. CASE ReportOpens(q)
  <2>1. /\ job[q].cmd = "report" /\ job[q].pc = "export" /\ job'[q].pc = "clip"
        /\ job'[q].rows = job[q].rows
    BY <1>8 DEF ReportOpens, At
  <2>2. PICK i \in DOMAIN job[q].frames : job'[q].frames = Read(job[q].frames, i)
    BY <1>8 DEF ReportOpens
  <2>3. DOMAIN job'[q].frames = DOMAIN job[q].frames  BY <2>2 DEF Read
  <2> DEFINE n == ClipNumber(job[q])
  <2>4. ClipNumber(job'[q]) = n  BY <2>1, <2>3 DEF ClipNumber
  <2>5. n \in Int  BY <1>1, <2>1, ClipNumberIs
  <2>6. n \in Numbers'  BY <1>8 DEF ReportOpens, Numbers
  <2>7. 0 .. n - 1 \subseteq Numbers'  BY <1>3, <2>1 DEF JobClips
  <2> HIDE DEF n
  <2>8. 0 .. n \subseteq 0 .. n - 1 \cup {n}  BY <2>5
  <2>9. 0 .. n \subseteq Numbers'  BY <2>6, <2>7, <2>8
  <2> QED  BY <2>1, <2>4, <2>9 DEF JobClips
<1>9. CASE ReportWrites(q)
  <2>1. /\ job[q].cmd = "report" /\ job[q].pc = "clip" /\ job'[q].pc = "export"
        /\ job'[q].rows = job[q].rows
    BY <1>9 DEF ReportWrites, At
  <2>2. PICK i \in DOMAIN job[q].frames :
          job'[q].frames = [k \in DOMAIN job[q].frames \ {i} |-> job[q].frames[k]]
    BY <1>9 DEF ReportWrites
  <2> DEFINE places == DOMAIN job[q].frames
             n == ClipNumber(job[q])
             rows2 == job[q].rows[2]
  <2>3. rows2 \in Nat
    <3>1. job[q].rows \in Seq(Nat) /\ Len(job[q].rows) = 4
      BY <2>1, NumbersHeld DEF RowsAt
    <3> QED  BY <3>1, ElementOfSeq
  <2>4. Cardinality(places \ {i}) = Cardinality(places) - 1  BY <1>4, <2>2, FS_RemoveElement
  <2>5. n = rows2 - Cardinality(places)  BY DEF ClipNumber
  <2>6. DOMAIN job'[q].frames = places \ {i}  BY <2>2
  <2>7. ClipNumber(job'[q]) = rows2 - Cardinality(places \ {i})
    BY <2>1, <2>6 DEF ClipNumber
  <2>8. 0 .. n \subseteq Numbers'  BY <1>3, <2>1 DEF JobClips
  <2>9. Cardinality(places) \in Nat  BY <1>4
  <2> HIDE DEF n, places, rows2
  <2>10. ClipNumber(job'[q]) - 1 = n  BY <2>3, <2>4, <2>5, <2>7, <2>9
  <2> QED  BY <2>1, <2>8, <2>10 DEF JobClips
<1>10. CASE ReportDocuments(q)
  <2>1. /\ job[q].cmd = "report" /\ job[q].pc = "certify" /\ job'[q].pc = "document"
        /\ job'[q].rows = job[q].rows
    BY <1>10 DEF ReportDocuments, At
  <2>2. 0 .. job[q].rows[2] - 1 \subseteq Numbers'  BY <1>3, <2>1 DEF JobClips
  <2> QED  BY <2>1, <2>2 DEF JobClips
<1> QED  BY <1>5, <1>6, <1>7, <1>8, <1>9, <1>10, ReportMoves

LEMMA NumbersKept ==
  ASSUME TypeInv, NumbersInv, [Next]_vars
  PROVE  NumbersInv'
<1>1. \A q \in Procs : JobClips(job'[q], Numbers')  BY ClipsOfJobsKept
<1>2. Numbers \subseteq Numbers'  BY NumbersGrow
<1>3. UNCHANGED certificate \/ \E p \in Procs : ReportCertify(p)  BY NextSteps DEF FilesStep
<1>4. ASSUME UNCHANGED certificate, certificate'.present
      PROVE  0 .. certificate'.counts[2] - 1 \subseteq Numbers'
  BY <1>2, <1>4 DEF NumbersInv
<1>5. ASSUME NEW p \in Procs, ReportCertify(p)
      PROVE  0 .. certificate'.counts[2] - 1 \subseteq Numbers'
  <2>1. job[p].cmd = "report" /\ job[p].pc = "certify" /\ certificate' = ReportOf(job[p])
    BY <1>5 DEF ReportCertify, At
  <2>2. 0 .. job[p].rows[2] - 1 \subseteq Numbers  BY <2>1 DEF NumbersInv, JobClips
  <2>3. JobTyped(job[p])  BY DEF TypeInv, JobsInv
  <2>4. certificate'.counts[2] = job[p].rows[2]  BY <2>1, <2>3, ReportOfIs
  <2> QED  BY <1>2, <2>2, <2>4
<1> QED  BY <1>1, <1>3, <1>4, <1>5 DEF NumbersInv

----------------------------------------------------------------------------
\* As long as nobody wrote the medium, what is carved and exported is there.

\* A frame, or a clip, has the bytes of the image at its place.
Sound(frame, img) ==
  /\ FrameEnd(frame) <= Len(img)
  /\ \A k \in 1 .. Len(frame.bytes) : frame.bytes[k] = img[frame.at + k - 1]

\* A clip is no longer than a frame that was carved at its place.
ClipIsCarved(c, carved) ==
  \E i \in DOMAIN carved :
    carved[i].what.at = c.at /\ Len(c.bytes) <= Len(carved[i].what.bytes)

\* Frames to store were read from the image, those to export are carved ones.
JobSound(j, carved) ==
  /\ j.cmd = "carve" /\ j.pc = "store" => \A i \in DOMAIN j.rows : Sound(j.rows[i], image)
  /\ j.cmd = "report" /\ j.pc \in {"events", "leads", "export", "clip"} =>
       \A i \in DOMAIN j.frames : i \in DOMAIN carved /\ j.frames[i] = carved[i].what

Untorn ==
  /\ \A i \in DOMAIN db.carved : Sound(db.carved[i].what, image)
  /\ \A p \in Procs : JobSound(job[p], db.carved)
  /\ \A c \in clips : Sound(c, image) /\ ClipIsCarved(c, db.carved)

BytesInv == touches = 0 => Untorn

\* The rows of db.carved stay where they are.
LEMMA CarvedStays ==
  ASSUME TypeInv, [Next]_vars
  PROVE  /\ DOMAIN db.carved \subseteq DOMAIN db'.carved
         /\ \A i \in DOMAIN db.carved : db'.carved[i] = db.carved[i]
<1>1. TypeInv' /\ DbGrows  BY TypesKept, NextSteps, DbStepGrows
<1>2. db.carved \in Seq(Rows(Frame)) /\ db'.carved \in Seq(Rows(Frame))
  BY <1>1, TablesAre DEF TypeInv, FilesInv, Databases
<1>3. GrowsFrom(db.carved, db'.carved)  BY <1>1 DEF DbGrows
<1> QED  BY <1>2, <1>3, GrownIs

\* While nobody writes the medium it stays as it is.
LEMMA MediumStays ==
  ASSUME TypeInv, [Next]_vars, touches' = 0
  PROVE  touches = 0 /\ image' = image
<1>1. CASE UNCHANGED vars  BY <1>1 DEF vars
<1>2. CASE Next
  <2>1. ~Touch  BY DEF Touch, TypeInv, WorldInv
  <2>2. UNCHANGED <<image, touches>>  BY <1>2, <2>1, NextCases
  <2> QED  BY <2>2
<1> QED  BY <1>1, <1>2

LEMMA CarveMoves ==
  ASSUME TypeInv, [Next]_vars, NEW q \in Procs, job'[q].cmd = "carve", job'[q].pc = "store"
  PROVE  \/ job'[q] = job[q]
         \/ /\ At(q, "carve", "scan")
            /\ job'[q].rows = Found(job[q])
<1>0. q \in DOMAIN job /\ job[q] \in Jobs /\ JobTyped(job[q])  BY DEF TypeInv, JobsInv
<1>1. Idle.cmd # "carve"  BY DEF Idle, Holding
<1>2. ~Finish(q)  BY <1>0, <1>1 DEF Finish
<1>3. CASE Start(q)
  <2>1. CASE Untouched(q, q)  BY <2>1 DEF Untouched
  <2>2. CASE StartHolds(q)  BY <2>2, HoldingIs DEF StartHolds
  <2> QED  BY <1>3, <2>1, <2>2, StartIs
<1>4. CASE Step(q)
  <2>1. job[q].cmd = "carve"  BY <1>1, <1>4, StepKeepsCommand
  <2>2. CarveScan(q)  BY <1>2, <1>4, <2>1, StepOf DEF CarveStep, CarveStore
  <2>3. job'[q] = [job[q] EXCEPT !.pc = "store", !.rows = Found(job[q])]
    BY <1>0, <2>2 DEF CarveScan, Continue
  <2>4. job'[q].rows = Found(job[q])  BY <1>0, <2>3 DEF Jobs
  <2> QED  BY <2>2, <2>4 DEF CarveScan
<1>5. CASE Abort(q)  BY <1>2, <1>5 DEF Abort
<1>6. CASE Touch \/ Untouched(q, q)  BY <1>6 DEF Touch, Untouched
<1> QED  BY <1>3, <1>4, <1>5, <1>6, MoveOf

LEMMA CarvedKept ==
  ASSUME TypeInv, Untorn, [Next]_vars, image' = image
  PROVE  \A i \in DOMAIN db'.carved : Sound(db'.carved[i].what, image)
<1>1. CASE db'.carved = db.carved  BY <1>1 DEF Untorn
<1>2. ASSUME NEW p \in Procs, Adds(p, "carve", "carved"), NEW i \in DOMAIN db'.carved
      PROVE  Sound(db'.carved[i].what, image)
  <2> DEFINE rows == job[p].rows
             old == db.carved
             new == db'.carved
  <2>1. job[p].cmd = "carve" /\ job[p].pc = "store" /\ new = old \o Owned(db, rows)
    BY <1>2 DEF Adds, At
  <2>2. rows \in Seq(Frame)  BY <1>2, StoredTypes DEF Adds
  <2>3. old \in Seq(Rows(Frame))  BY TablesAre
  <2>4. \A k \in DOMAIN rows : Sound(rows[k], image)  BY <2>1 DEF Untorn, JobSound
  <2>5. \A k \in DOMAIN old : Sound(old[k].what, image)  BY DEF Untorn
  <2>6. new = old \o Owned(db, rows)  BY <2>1
  <2> HIDE DEF rows, old, new
  <2>7. AddsTo(new, old, rows)  BY <2>2, <2>3, <2>6, AddedRows
  <2>8. i \in DOMAIN new => Sound(new[i].what, image)  BY <2>4, <2>5, <2>7 DEF AddsTo
  <2> QED  BY <1>2, <2>8 DEF new
<1>3. DbStep  BY NextSteps
<1> QED
  BY <1>1, <1>2, <1>3, DbStepCases DEF Extracts, Audits, Adds, TablesKept

\* What was read for a carved frame is that frame.
LEMMA ReadIsCarved ==
  ASSUME image \in Images, NEW frames \in Frames, NEW i \in DOMAIN frames,
         Sound(frames[i], image)
  PROVE  Read(frames, i) = frames
<1> DEFINE frame == frames[i]
           read == SubSeq(image, frame.at, FrameEnd(frame))
<1>1. frame \in Frame /\ FrameEnd(frame) <= Len(image)  BY FramesOf DEF Sound
<1>2. /\ read \in Bytes /\ Len(read) = Len(frame.bytes)
      /\ \A k \in 1 .. Len(frame.bytes) : read[k] = image[frame.at + k - 1]
  BY <1>1, BufferIs
<1>3. frame.bytes \in Bytes  BY <1>1 DEF Frame
<1>4. \A k \in 1 .. Len(frame.bytes) : frame.bytes[k] = image[frame.at + k - 1]
  BY DEF Sound
<1> HIDE DEF read
<1>5. read = frame.bytes  BY <1>2, <1>3, <1>4, SeqEqual DEF Bytes
<1>6. frame = [at |-> frame.at, bytes |-> read]
  <2> HIDE DEF frame
  <2> QED  BY <1>1, <1>5 DEF Frame
<1>7. Read(frames, i) = [frames EXCEPT ![i] = frame]  BY <1>6 DEF Read, read
<1>8. DOMAIN frames \in FinitePlaces /\ frames \in [DOMAIN frames -> Frame]  BY FramesOf
<1> QED  BY <1>7, <1>8

LEMMA JobsSoundKept ==
  ASSUME TypeInv, Untorn, [Next]_vars, image' = image, NEW q \in Procs
  PROVE  JobSound(job[q], db.carved)'
<1>0. JobSound(job[q], db.carved) /\ JobTyped(job[q]) /\ job[q] \in Jobs
  BY DEF Untorn, TypeInv, JobsInv
<1>1. ASSUME job'[q].cmd = "carve", job'[q].pc = "store", NEW i \in DOMAIN job'[q].rows
      PROVE  Sound(job'[q].rows[i], image)
  <2>1. CASE job'[q] = job[q]  BY <1>0, <1>1, <2>1 DEF JobSound
  <2>2. CASE At(q, "carve", "scan") /\ job'[q].rows = Found(job[q])
    <3> DEFINE found == Found(job[q])
    <3>1. job[q].rows \in Seq(Place) /\ job[q].m \in Manifests /\ image \in Images
      BY <1>0, <2>2 DEF JobTyped, RowsTyped, ReadingTyped, At, TypeInv, WorldInv
    <3>2. /\ found \in Seq(Frame)
          /\ \A k \in 1 .. Len(found) :
               /\ FrameEnd(found[k]) <= Len(image)
               /\ found[k].bytes = SubSeq(image, found[k].at, FrameEnd(found[k]))
      BY <3>1, FoundIs
    <3> HIDE DEF found
    <3>3. i \in 1 .. Len(found)  BY <1>1, <2>2, <3>2, LenProperties DEF found
    <3>4. found[i] \in Frame  BY <3>2, <3>3, ElementOfSeq
    <3>5. Sound(found[i], image)  BY <3>1, <3>2, <3>3, <3>4, BufferIs DEF Sound
    <3> QED  BY <2>2, <3>5 DEF found
  <2> QED  BY <1>1, <2>1, <2>2, CarveMoves
<1>2. ASSUME job'[q].cmd = "report", job'[q].pc \in {"events", "leads", "export", "clip"},
             NEW i \in DOMAIN job'[q].frames
      PROVE  i \in DOMAIN db'.carved /\ job'[q].frames[i] = db'.carved[i].what
  <2>1. SUFFICES i \in DOMAIN db.carved /\ job'[q].frames[i] = db.carved[i].what
    BY CarvedStays
  <2>2. CASE job'[q] = job[q]  BY <1>0, <1>2, <2>2 DEF JobSound
  <2>3. CASE ReportAsks(q)
    <3>1. PICK c \in Nat : CountedAs(job[q], job'[q], c)  BY <2>3 DEF ReportAsks
    <3>2. job[q].cmd = "report"  BY <2>3 DEF ReportAsks
    <3>3. CASE job[q].pc = "carved"
      <4>1. job'[q].frames = CarvedFrames(db)  BY <3>1, <3>3 DEF CountedAs
      <4>2. i \in 1 .. Len(db.carved) /\ job'[q].frames[i] = db.carved[i].what
        BY <1>2, <4>1, CarvedFramesAre DEF TypeInv, FilesInv
      <4> QED  BY <4>2, TablesAre, LenProperties
    <3>4. CASE job[q].pc # "carved"
      <4>1. job'[q].frames = job[q].frames  BY <3>1, <3>4 DEF CountedAs
      <4>2. job[q].pc \in {"events", "leads", "export"}  BY <3>1, <3>4 DEF CountedAs, Asked
      <4> QED  BY <1>0, <1>2, <3>2, <4>1, <4>2 DEF JobSound
    <3> QED  BY <3>3, <3>4
  <2>4. CASE ReportOpens(q)
    <3>1. PICK k \in DOMAIN job[q].frames : job'[q].frames = Read(job[q].frames, k)
      BY <2>4 DEF ReportOpens
    <3>2. \A l \in DOMAIN job[q].frames :
            l \in DOMAIN db.carved /\ job[q].frames[l] = db.carved[l].what
      BY <1>0, <2>4 DEF ReportOpens, At, JobSound
    <3>3. Sound(job[q].frames[k], image)  BY <3>1, <3>2 DEF Untorn
    <3>4. job[q].frames \in Frames /\ image \in Images
      BY <1>0 DEF Jobs, TypeInv, WorldInv
    <3>5. job'[q].frames = job[q].frames  BY <3>1, <3>3, <3>4, ReadIsCarved
    <3> QED  BY <1>2, <3>2, <3>5
  <2>5. CASE ReportWrites(q)
    <3>1. i \in DOMAIN job[q].frames /\ job'[q].frames[i] = job[q].frames[i]
      BY <1>2, <2>5 DEF ReportWrites
    <3> QED  BY <1>0, <2>5, <3>1 DEF ReportWrites, At, JobSound
  <2>6. ~ReportStarts(q) /\ ~ReportDocuments(q)
    BY <1>2 DEF ReportStarts, ReportDocuments
  <2> QED  BY <1>2, <2>2, <2>3, <2>4, <2>5, <2>6, ReportMoves
<1> QED  BY <1>1, <1>2 DEF JobSound

\* Bytes of the medium written over bytes of the medium are bytes of it.
LEMMA WrittenOverSound ==
  ASSUME NEW c \in [n : Int, at : Place, bytes : Bytes], NEW frame \in Frame, c.at = frame.at,
         image \in Images, Sound(c, image), Sound(frame, image), NEW k \in 0 .. Len(frame.bytes),
         NEW d, d = [c EXCEPT !.bytes = WrittenOver(c.bytes, frame.bytes, k)]
  PROVE  /\ d.at = c.at /\ Sound(d, image)
         /\ Len(d.bytes) <= Len(c.bytes) \/ Len(d.bytes) <= Len(frame.bytes)
<1> DEFINE b == WrittenOver(c.bytes, frame.bytes, k)
<1>1. c.bytes \in Bytes /\ frame.bytes \in Bytes /\ frame.at \in Place  BY DEF Frame
<1>2. /\ Len(b) = IF k <= Len(c.bytes) THEN Len(c.bytes) ELSE k
      /\ \A l \in 1 .. Len(b) : b[l] = IF l <= k THEN frame.bytes[l] ELSE c.bytes[l]
  BY <1>1, WrittenOverIs
<1> HIDE DEF b
<1>3. d.at = c.at /\ d.bytes = b  BY DEF b
<1>4. Len(c.bytes) \in Nat /\ Len(frame.bytes) \in Nat /\ k \in Nat /\ k <= Len(frame.bytes)
  BY <1>1, LenProperties DEF Bytes
<1>5. Len(image) \in Nat  BY LenProperties
<1>6. Len(b) = Len(c.bytes) \/ Len(b) <= Len(frame.bytes)
  BY <1>2, <1>4
<1>7. Len(b) \in Nat  BY <1>2, <1>4
<1>8. FrameEnd(d) <= Len(image)
  <2>1. frame.at + Len(c.bytes) - 1 <= Len(image) /\ frame.at + Len(frame.bytes) - 1 <= Len(image)
    BY DEF Sound, FrameEnd
  <2>2. FrameEnd(d) = frame.at + Len(b) - 1  BY <1>3 DEF FrameEnd
  <2> QED  BY <1>1, <1>4, <1>5, <1>6, <1>7, <2>1, <2>2 DEF Place
<1>9. ASSUME NEW l \in 1 .. Len(b) PROVE b[l] = image[frame.at + l - 1]
  <2>1. CASE l <= k
    <3>1. l \in 1 .. Len(frame.bytes)  BY <1>4, <1>7, <2>1
    <3> QED  BY <1>2, <2>1, <3>1 DEF Sound
  <2>2. CASE ~(l <= k)
    <3>1. l \in 1 .. Len(c.bytes)  BY <1>2, <1>4, <1>7, <2>2
    <3>2. b[l] = c.bytes[l]  BY <1>2, <2>2
    <3> QED  BY <3>1, <3>2 DEF Sound
  <2> QED  BY <2>1, <2>2
<1>10. Sound(d, image)  BY <1>3, <1>8, <1>9 DEF Sound
<1> QED  BY <1>3, <1>4, <1>6, <1>10

LEMMA ClipsCarvedKept ==
  ASSUME TypeInv, Untorn, [Next]_vars, image' = image
  PROVE  \A c \in clips' : Sound(c, image) /\ ClipIsCarved(c, db'.carved)
<1>1. \A c \in clips : Sound(c, image) /\ ClipIsCarved(c, db'.carved)
  BY CarvedStays DEF Untorn, ClipIsCarved
<1>2. image \in Images /\ clips \subseteq [n : Int, at : Place, bytes : Bytes]
  BY DEF TypeInv, WorldInv, FilesInv
<1>3. ASSUME NEW p \in Procs, job[p].cmd = "report", job[p].pc \in {"export", "clip"},
             NEW i \in DOMAIN job[p].frames
      PROVE  /\ job[p].frames[i] \in Frame /\ Sound(job[p].frames[i], image)
             /\ i \in DOMAIN db'.carved /\ db'.carved[i].what = job[p].frames[i]
  <2>1. i \in DOMAIN db.carved /\ job[p].frames[i] = db.carved[i].what
    BY <1>3 DEF Untorn, JobSound
  <2>2. job[p].frames \in Frames  BY DEF TypeInv, JobsInv, Jobs
  <2> QED  BY <2>1, <2>2, FramesOf, CarvedStays DEF Untorn
<1>4. ASSUME NEW p \in Procs, ReportClip(p), NEW c \in clips'
      PROVE  Sound(c, image) /\ ClipIsCarved(c, db'.carved)
  <2>1. job[p].cmd = "report" /\ job[p].pc = "export"  BY <1>4, ReportClipIs DEF At
  <2>2. PICK i \in DOMAIN job[p].frames :
          clips' = ClipsBut(ClipNumber(job[p]), job[p].frames[i].at)
            \cup {[n |-> ClipNumber(job[p]), at |-> job[p].frames[i].at, bytes |-> <<>>]}
    BY <1>4, ReportClipIs
  <2> DEFINE frame == job[p].frames[i]
             new == [n |-> ClipNumber(job[p]), at |-> frame.at, bytes |-> <<>>]
  <2>3. /\ frame \in Frame /\ Sound(frame, image)
        /\ i \in DOMAIN db'.carved /\ db'.carved[i].what = frame
    BY <1>3, <2>1
  <2>4. new.at = frame.at /\ new.bytes = <<>>  OBVIOUS
  <2>5. c \in clips \/ c = new  BY <1>4, <2>2 DEF ClipsBut
  <2> HIDE DEF frame, new
  <2>6. frame.at \in Place /\ Len(frame.bytes) \in Nat /\ Len(image) \in Nat
    BY <1>2, <2>3, LenProperties DEF Frame, Bytes
  <2>7. Sound(new, image)
    <3>1. Len(new.bytes) = 0  BY <2>4, NoRows
    <3>2. FrameEnd(new) <= Len(image)
      <4>1. FrameEnd(new) = frame.at + 0 - 1  BY <2>4, <3>1 DEF FrameEnd
      <4>2. frame.at + Len(frame.bytes) - 1 <= Len(image)  BY <2>3 DEF Sound, FrameEnd
      <4> QED  BY <2>6, <4>1, <4>2 DEF Place
    <3> QED  BY <3>1, <3>2 DEF Sound
  <2>8. ClipIsCarved(new, db'.carved)
    <3>1. Len(new.bytes) <= Len(frame.bytes)  BY <2>4, <2>6, NoRows
    <3> QED  BY <2>3, <2>4, <3>1 DEF ClipIsCarved
  <2> QED  BY <1>1, <2>5, <2>7, <2>8
<1>5. ASSUME NEW p \in Procs, ReportClipWritten(p), NEW c \in clips'
      PROVE  Sound(c, image) /\ ClipIsCarved(c, db'.carved)
  <2>1. job[p].cmd = "report" /\ job[p].pc = "clip"  BY <1>5, ReportClipWrittenIs DEF At
  <2>2. PICK i \in DOMAIN job[p].frames, old \in clips :
          \E k \in 0 .. Len(job[p].frames[i].bytes) :
            /\ old.at = job[p].frames[i].at
            /\ clips' = ClipsBut(ClipNumber(job[p]), job[p].frames[i].at)
                 \cup {[old EXCEPT !.bytes = WrittenOver(old.bytes, job[p].frames[i].bytes, k)]}
    BY <1>5, ReportClipWrittenIs
  <2> DEFINE frame == job[p].frames[i]
  <2>3. PICK k \in 0 .. Len(frame.bytes) :
          /\ old.at = frame.at
          /\ clips' = ClipsBut(ClipNumber(job[p]), frame.at)
               \cup {[old EXCEPT !.bytes = WrittenOver(old.bytes, frame.bytes, k)]}
    BY <2>2
  <2> DEFINE new == [old EXCEPT !.bytes = WrittenOver(old.bytes, frame.bytes, k)]
  <2>4. /\ frame \in Frame /\ Sound(frame, image)
        /\ i \in DOMAIN db'.carved /\ db'.carved[i].what = frame
    BY <1>3, <2>1
  <2>5. c \in clips \/ c = new  BY <1>5, <2>3 DEF ClipsBut
  <2>6. old \in [n : Int, at : Place, bytes : Bytes] /\ Sound(old, image)
        /\ ClipIsCarved(old, db'.carved)
    BY <1>1, <1>2
  <2> HIDE DEF frame
  <2>7. /\ new.at = old.at /\ Sound(new, image)
        /\ Len(new.bytes) <= Len(old.bytes) \/ Len(new.bytes) <= Len(frame.bytes)
    BY <1>2, <2>3, <2>4, <2>6, WrittenOverSound
  <2>8. Len(new.bytes) \in Nat /\ Len(old.bytes) \in Nat
        /\ \A l \in DOMAIN db'.carved : Len(db'.carved[l].what.bytes) \in Nat
    <3>1. WrittenOver(old.bytes, frame.bytes, k) \in Bytes
      BY <2>3, <2>4, <2>6, WrittenOverIs DEF Frame
    <3>2. new.bytes = WrittenOver(old.bytes, frame.bytes, k)  BY <2>6
    <3>3. \A l \in DOMAIN db'.carved : db'.carved[l].what.bytes \in Bytes
      <4>1. db'.carved \in Seq(Rows(Frame))  BY TypesKept DEF TypeInv, FilesInv, Databases
      <4>2. \A l \in DOMAIN db'.carved : db'.carved[l] \in Rows(Frame)
        BY <4>1, ElementOfSeq, LenProperties
      <4> QED  BY <4>2 DEF Rows, Frame
    <3> QED  BY <2>6, <3>1, <3>2, <3>3, LenProperties DEF Bytes
  <2> HIDE DEF new
  <2>9. ClipIsCarved(new, db'.carved)
    <3>1. CASE Len(new.bytes) <= Len(frame.bytes)
      BY <2>3, <2>4, <2>7, <3>1 DEF ClipIsCarved
    <3>2. CASE Len(new.bytes) <= Len(old.bytes)
      <4>1. PICK l \in DOMAIN db'.carved :
              /\ db'.carved[l].what.at = old.at
              /\ Len(old.bytes) <= Len(db'.carved[l].what.bytes)
        BY <2>6 DEF ClipIsCarved
      <4>2. Len(new.bytes) <= Len(db'.carved[l].what.bytes)  BY <2>8, <3>2, <4>1
      <4> QED  BY <2>7, <4>1, <4>2 DEF ClipIsCarved
    <3> QED  BY <2>7, <3>1, <3>2
  <2> QED  BY <1>1, <2>5, <2>7, <2>9
<1>6. UNCHANGED clips \/ \E p \in Procs : ReportClip(p) \/ ReportClipWritten(p)
  BY NextSteps DEF FilesStep
<1> QED  BY <1>1, <1>4, <1>5, <1>6

LEMMA BytesKept ==
  ASSUME TypeInv, BytesInv, [Next]_vars
  PROVE  BytesInv'
<1> SUFFICES ASSUME touches' = 0 PROVE Untorn'
  BY DEF BytesInv
<1>1. touches = 0 /\ image' = image  BY MediumStays
<1>2. Untorn  BY <1>1 DEF BytesInv
<1>3. \A i \in DOMAIN db'.carved : Sound(db'.carved[i].what, image')
  BY <1>1, <1>2, CarvedKept
<1>4. \A q \in Procs : JobSound(job[q], db.carved)'  BY <1>1, <1>2, JobsSoundKept
<1>5. \A c \in clips' : Sound(c, image') /\ ClipIsCarved(c, db'.carved)
  BY <1>1, <1>2, ClipsCarvedKept
<1> QED  BY <1>3, <1>4, <1>5 DEF Untorn

\* A clip with bytes of the medium is the beginning of a frame carved there.
LEMMA ClipIsBeginning ==
  ASSUME TypeInv, Untorn, NEW c \in clips
  PROVE  \E i \in DOMAIN db.carved :
           db.carved[i].what.at = c.at /\ GrowsFrom(c.bytes, db.carved[i].what.bytes)
<1>1. PICK i \in DOMAIN db.carved :
        db.carved[i].what.at = c.at /\ Len(c.bytes) <= Len(db.carved[i].what.bytes)
  BY DEF Untorn, ClipIsCarved
<1> DEFINE whole == db.carved[i].what.bytes
           n == Len(c.bytes)
<1>2. whole \in Bytes /\ c.bytes \in Bytes
  <2>1. db.carved[i] \in Rows(Frame)  BY TablesAre, ElementOfSeq, LenProperties
  <2>2. c \in [n : Int, at : Place, bytes : Bytes]  BY DEF TypeInv, FilesInv
  <2> QED  BY <2>1, <2>2 DEF Rows, Frame
<1>3. n \in Nat /\ n <= Len(whole) /\ Len(whole) \in Nat  BY <1>1, <1>2, LenProperties DEF Bytes
<1>4. \A k \in 1 .. n : c.bytes[k] = image[c.at + k - 1]  BY DEF Untorn, Sound
<1>5. \A k \in 1 .. Len(whole) : whole[k] = image[c.at + k - 1]  BY <1>1 DEF Untorn, Sound
<1> HIDE DEF whole
<1>6. n \in 0 .. Len(whole)  BY <1>3
<1>7. /\ SubSeq(whole, 1, n) \in Bytes /\ Len(SubSeq(whole, 1, n)) = n
      /\ \A k \in 1 .. n : SubSeq(whole, 1, n)[k] = whole[k]
  BY <1>2, <1>6, BeginningIs
<1>8. \A k \in 1 .. n : k \in 1 .. Len(whole)  BY <1>3
<1>9. SubSeq(whole, 1, n) = c.bytes  BY <1>2, <1>4, <1>5, <1>7, <1>8, SeqEqual DEF Bytes
<1> QED  BY <1>1, <1>3, <1>9 DEF GrowsFrom, whole

(***************************************************************************)
(* A certificate on disk has the clips it counts, whatever was killed or   *)
(* written to the medium in between, and while nobody wrote the medium a   *)
(* clip is the beginning of a frame that was carved at its place, also     *)
(* when a report was killed in the middle of it or two wrote it.           *)
(***************************************************************************)
THEOREM CertificatesHaveTheirClips == Spec => []CertificateHasItsClips
<1>1. ASSUME Init PROVE NumbersInv /\ BytesInv
  <2>1. \A p \in Procs : job[p].cmd = "none"  BY <1>1 DEF Init, Idle, Holding
  <2>2. ~certificate.present /\ clips = {} /\ db.carved = <<>>
    BY <1>1 DEF Init, NoFile, EmptyDb
  <2>3. NumbersInv  BY <2>1, <2>2 DEF NumbersInv, JobClips
  <2>4. Untorn  BY <2>1, <2>2 DEF Untorn, JobSound
  <2> QED  BY <2>3, <2>4 DEF BytesInv
<1>2. TypeInv /\ NumbersInv /\ BytesInv /\ [Next]_vars => NumbersInv' /\ BytesInv'
  BY NumbersKept, BytesKept
<1>3. TypeInv /\ NumbersInv /\ BytesInv => CertificateHasItsClips
  BY ClipIsBeginning DEF NumbersInv, Numbers, BytesInv, CertificateHasItsClips
<1> QED  BY <1>1, <1>2, <1>3, TypesInvariant, PTL DEF Spec

----------------------------------------------------------------------------
\* The way of a command over the medium.

(***************************************************************************)
(* A step to q as far as it is about what q read: the command begins,      *)
(* reads a block, describes in a manifest what it has read, or goes on     *)
(* with what it has.                                                       *)
(***************************************************************************)
Begins(q) == held'[q] = {image} /\ StartHolds(q)

ReadsOn(q) ==
  /\ ~AtEnd(job[q])
  /\ \/ At(q, "acquire", "stream")
     \/ (At(q, "parse", "read") \/ At(q, "verify", "read")) /\ BlocksRemain(job[q])
  /\ job'[q] = WithBlock(job[q])

Describes(q) ==
  /\ At(q, "acquire", "stream") /\ AtEnd(job[q])
  /\ job'[q] = Holding("acquire", "create",
                       ManifestOf(job[q].read, job[q].m.block_size), <<>>)

LoopIsOver(j) ==
  j.cmd \in {"parse", "verify"} => j.pc # "read" \/ ~BlocksRemain(j) \/ AtEnd(j)

GoesOn(q) ==
  /\ job'[q].cmd = job[q].cmd /\ job'[q].m = job[q].m
  /\ job'[q].got = job[q].got /\ job'[q].read = job[q].read
  /\ ~At(q, "acquire", "stream")
  /\ LoopIsOver(job[q])

Moves(q) ==
  \/ job'[q] = job[q] /\ held'[q] = held[q]
  \/ Begins(q)
  \/ job'[q] = Idle
  \/ held'[q] = held[q] /\ (ReadsOn(q) \/ Describes(q) \/ GoesOn(q))

LEMMA StepMoves ==
  ASSUME TypeInv, NEW q \in Procs, Step(q)
  PROVE  Moves(q)
<1> DEFINE j == job[q]
<1>0. q \in DOMAIN job /\ j \in Jobs  BY DEF TypeInv, JobsInv
<1>1. ASSUME NEW n, Continue(q, n) PROVE job'[q] = n /\ held'[q] = held[q]
  BY <1>0, <1>1 DEF Continue
<1>2. ASSUME Finish(q) PROVE Moves(q)
  BY <1>0, <1>2 DEF Finish, Moves
<1>3. ASSUME NEW c, NEW pc, At(q, c, pc), c # "acquire" \/ pc # "stream", LoopIsOver(j),
             NEW to, Continue(q, [j EXCEPT !.pc = to])
      PROVE  Moves(q)
  <2>1. job'[q] = [j EXCEPT !.pc = to] /\ held'[q] = held[q]  BY <1>1, <1>3
  <2>2. GoesOn(q)  BY <1>0, <1>3, <2>1 DEF GoesOn, At, Jobs
  <2> QED  BY <2>1, <2>2 DEF Moves
<1>4. ASSUME NEW c \in {"verify", "carve", "analyze"}, NEW pc, At(q, c, pc),
             c # "verify" \/ pc # "read", held'[q] = held[q],
             NEW to, NEW rows, job' = [job EXCEPT ![q] = [j EXCEPT !.pc = to, !.rows = rows]]
      PROVE  Moves(q)
  <2>1. job'[q] = [j EXCEPT !.pc = to, !.rows = rows]  BY <1>0, <1>4
  <2>2. GoesOn(q)  BY <1>0, <1>4, <2>1 DEF GoesOn, LoopIsOver, At, Jobs
  <2> QED  BY <1>4, <2>2 DEF Moves
<1>5. CASE AcquireStep(q)
  <2>1. AcquireBlock(q) => ReadsOn(q) /\ held'[q] = held[q]
    BY <1>1 DEF AcquireBlock, ReadsOn
  <2>2. AcquireRead(q) => Describes(q) /\ held'[q] = held[q]
    BY <1>1 DEF AcquireRead, Describes
  <2>3. AcquireCreate(q) => Moves(q)
    BY <1>3 DEF AcquireCreate, LoopIsOver, At
  <2>4. AcquireWrite(q) => Finish(q)  BY DEF AcquireWrite
  <2> QED  BY <1>2, <1>5, <2>1, <2>2, <2>3, <2>4 DEF AcquireStep, Moves
<1>6. CASE ParseStep(q)
  <2>1. ParseBlock(q) => ReadsOn(q) /\ held'[q] = held[q]
    BY <1>1 DEF ParseBlock, ReadsOn
  <2>2. ParseRead(q) => Moves(q)
    BY <1>3 DEF ParseRead, LoopIsOver
  <2>3. ParseRefused(q) \/ ParseStore(q) => Finish(q)  BY DEF ParseRefused, ParseStore
  <2> QED  BY <1>2, <1>6, <2>1, <2>2, <2>3 DEF ParseStep, Moves
<1>7. CASE VerifyStep(q)
  <2>1. VerifyBlock(q) => ReadsOn(q) /\ held'[q] = held[q]
    BY <1>1 DEF VerifyBlock, ReadsOn
  <2>2. ASSUME VerifyRead(q) PROVE Moves(q)
    <3>1. job'[q] = [j EXCEPT !.pc = "compare", !.dbpath = dbfile] /\ held'[q] = held[q]
      BY <1>1, <2>2 DEF VerifyRead
    <3>2. GoesOn(q)  BY <1>0, <2>2, <3>1 DEF VerifyRead, GoesOn, LoopIsOver, At, Jobs
    <3> QED  BY <3>1, <3>2 DEF Moves
  <2>3. ASSUME VerifyCompare(q) PROVE Moves(q)
    <3>1. PICK rows : job' = [job EXCEPT ![q] = [j EXCEPT !.pc = "audit", !.rows = rows]]
      BY <2>3 DEF VerifyCompare
    <3>2. held'[q] = held[q] /\ At(q, "verify", "compare")  BY <2>3 DEF VerifyCompare
    <3> QED  BY <1>4, <3>1, <3>2
  <2>4. VerifyAudit(q) => Finish(q)  BY DEF VerifyAudit
  <2> QED  BY <1>2, <1>7, <2>1, <2>2, <2>3, <2>4 DEF VerifyStep, Moves
<1>8. CASE CarveStep(q)
  <2>1. CarveScan(q) => Moves(q)  BY <1>1, <1>4 DEF CarveScan, Continue
  <2>2. CarveStore(q) => Finish(q)  BY DEF CarveStore
  <2> QED  BY <1>2, <1>8, <2>1, <2>2 DEF CarveStep
<1>9. CASE AnalyzeStep(q) \/ CorrelateStore(q)
  <2>1. AnalyzeScan(q) => Moves(q)  BY <1>1, <1>4 DEF AnalyzeScan, Continue
  <2>2. AnalyzeStore(q) \/ CorrelateStore(q) => Finish(q)  BY DEF AnalyzeStore, CorrelateStore
  <2> QED  BY <1>2, <1>9, <2>1, <2>2 DEF AnalyzeStep
<1>10. CASE ReportStep(q)
  <2>0. ASSUME NEW n, Continue(q, n), j.cmd = "report", n.cmd = j.cmd, n.m = j.m,
               n.got = j.got, n.read = j.read
        PROVE  Moves(q)
    <3>1. job'[q] = n /\ held'[q] = held[q]  BY <1>1, <2>0
    <3>2. GoesOn(q)  BY <2>0, <3>1 DEF GoesOn, LoopIsOver, At
    <3> QED  BY <3>1, <3>2 DEF Moves
  <2>1. ASSUME ReportCounts(q) PROVE Moves(q)
    <3>1. PICK n : \E c \in Nat : Continue(q, n) /\ CountedAs(j, n, c)  BY <2>1, CountsTaken
    <3>2. j.cmd = "report"  BY <2>1, CountsTaken
    <3> QED  BY <2>0, <3>1, <3>2 DEF CountedAs
  <2>2. ASSUME ReportClip(q) PROVE Moves(q)
    <3>1. PICK n : /\ Continue(q, n) /\ n.cmd = "report" /\ n.m = j.m
                   /\ n.got = j.got /\ n.read = j.read
      BY <2>2, ReportClipIs
    <3>2. j.cmd = "report"  BY <2>2, ReportClipIs DEF At
    <3> QED  BY <2>0, <3>1, <3>2
  <2>3. ASSUME ReportClipWritten(q) PROVE Moves(q)
    <3>1. At(q, "report", "clip")  BY <2>3, ReportClipWrittenIs
    <3>2. PICK i : Finish(q) \/ Continue(q, Exported(j, i))  BY <2>3, ReportClipWrittenIs
    <3>3. CASE Continue(q, Exported(j, i))
      <4>1. job'[q] = Exported(j, i) /\ held'[q] = held[q]  BY <1>1, <3>3
      <4>2. /\ Exported(j, i).cmd = j.cmd /\ Exported(j, i).m = j.m
            /\ Exported(j, i).got = j.got /\ Exported(j, i).read = j.read
        BY <1>0, ExportedIs
      <4>3. GoesOn(q)  BY <3>1, <4>1, <4>2 DEF GoesOn, LoopIsOver, At
      <4> QED  BY <4>1, <4>3 DEF Moves
    <3> QED  BY <1>2, <3>2, <3>3
  <2>4. ReportCertify(q) => Moves(q)  BY <1>3 DEF ReportCertify, LoopIsOver, At
  <2>5. ReportUnreadable(q) \/ ReportDocument(q) => Finish(q)
    BY DEF ReportUnreadable, ReportDocument
  <2> QED  BY <1>2, <1>10, <2>1, <2>2, <2>3, <2>4, <2>5 DEF ReportStep, ReportCounts
<1> QED  BY <1>5, <1>6, <1>7, <1>8, <1>9, <1>10 DEF Step

LEMMA NextMoves ==
  ASSUME TypeInv, [Next]_vars, NEW q \in Procs
  PROVE  \/ Touch
         \/ UNCHANGED <<image, touches>> /\ Moves(q)
<1>1. CASE UNCHANGED <<image, touches>> /\ Untouched(q, q)
  BY <1>1 DEF Untouched, Moves
<1>2. CASE Start(q)
  <2>1. \/ Untouched(q, q)
        \/ held'[q] = {image} /\ verdict'[q] = NoVerdict /\ StartHolds(q)
    BY <1>2, StartIs
  <2>2. UNCHANGED <<image, touches>>  BY <1>2, OthersStay
  <2> QED  BY <2>1, <2>2 DEF Untouched, Moves, Begins
<1>3. CASE Step(q)
  <2>1. UNCHANGED <<image, touches>>  BY <1>3, OthersStay
  <2> QED  BY <1>3, <2>1, StepMoves
<1>4. CASE Abort(q)
  <2>1. q \in DOMAIN job  BY DEF TypeInv, JobsInv
  <2>2. UNCHANGED <<image, touches>>  BY <1>4, OthersStay
  <2> QED  BY <1>4, <2>1, <2>2 DEF Abort, Finish, Moves
<1>5. \/ UNCHANGED <<image, touches>> /\ Untouched(q, q)
      \/ Touch
      \/ UNCHANGED <<image, touches>> /\ (Start(q) \/ Step(q) \/ Abort(q))
  BY MoveOf
<1> QED  BY <1>1, <1>2, <1>3, <1>4, <1>5

----------------------------------------------------------------------------
\* What is read is the beginning of the medium.

Reads(j, img) == Len(j.read) <= Len(img) /\ j.read = SubSeq(img, 1, Len(j.read))

(***************************************************************************)
(* A beginning, and the bytes that follow it, are a longer beginning.      *)
(***************************************************************************)
LEMMA BeginningGrows ==
  ASSUME NEW img \in Bytes, NEW n \in Nat, NEW to \in Nat, n <= to, to <= Len(img),
         NEW u, u = SubSeq(img, 1, n), NEW v, v = SubSeq(img, n + 1, to),
         NEW w, w = u \o v
  PROVE  w = SubSeq(img, 1, to) /\ Len(w) = to
<1>0. Len(img) \in Nat  BY LenProperties DEF Bytes
<1>1. u \in Seq(Byte) /\ Len(u) = n /\ \A k \in 1 .. n : u[k] = img[k]
  BY <1>0, BeginningIs DEF Bytes
<1>2. \A k \in 1 .. Len(img) : img[k] \in Byte  BY ElementOfSeq DEF Bytes
<1>3. \A k \in n + 1 .. to : img[k] \in Byte  BY <1>0, <1>2
<1>4. /\ v \in Seq(Byte)
      /\ Len(v) = IF n + 1 <= to THEN to - (n + 1) + 1 ELSE 0
      /\ \A k \in 1 .. to - (n + 1) + 1 : v[k] = img[n + 1 + k - 1]
  BY <1>3, SubSeqProperties
<1>5. Len(v) = to - n  BY <1>4
<1>6. \A k \in 1 .. to - n : v[k] = img[n + k]  BY <1>4
<1> DEFINE s == SubSeq(img, 1, to)
<1>7. s \in Seq(Byte) /\ Len(s) = to /\ \A k \in 1 .. to : s[k] = img[k]
  BY <1>0, BeginningIs DEF Bytes
<1> HIDE DEF s
<1>8. Len(s) = Len(u) + Len(v)  BY <1>1, <1>5, <1>7
<1>9. \A k \in 1 .. Len(u) : s[k] = u[k]  BY <1>1, <1>7
<1>10. \A k \in 1 .. Len(v) : s[Len(u) + k] = v[k]
  <2>1. \A k \in 1 .. to - n : n + k \in 1 .. to  OBVIOUS
  <2>2. \A k \in 1 .. to - n : s[n + k] = v[k]  BY <1>6, <1>7, <2>1
  <2> QED  BY <1>1, <1>5, <2>2
<1>11. s = u \o v  BY <1>1, <1>4, <1>7, <1>8, <1>9, <1>10, ConcatIs
<1> QED  BY <1>7, <1>11 DEF s

\* The next block ends a block further, or at the end of the medium.
ReadTo(j, img) ==
  IF Len(j.read) + j.m.block_size <= Len(img) THEN Len(j.read) + j.m.block_size ELSE Len(img)

LEMMA NextBlockFrom ==
  ASSUME NEW j \in Jobs, j.m \in Manifests, image \in Images, Len(j.read) <= Len(image)
  PROVE  /\ ReadTo(j, image) \in Nat
         /\ Len(j.read) <= ReadTo(j, image) /\ ReadTo(j, image) <= Len(image)
         /\ NextBlock(j) = SubSeq(image, Len(j.read) + 1, ReadTo(j, image))
         /\ AtEnd(j) <=> Len(j.read) = Len(image)
<1> DEFINE to == ReadTo(j, image)
<1>0. image \in Seq(Byte)  BY ImagesAssumption
<1>1. image \in Seq(Byte) /\ Len(image) \in Nat  BY <1>0, LenProperties
<1>2. Len(j.read) \in Nat  BY JobFields
<1>3. j.m.block_size \in Nat \ {0}  BY ManifestFields DEF Place
<1>4. to \in Nat /\ Len(j.read) <= to /\ to <= Len(image)  BY <1>1, <1>2, <1>3 DEF ReadTo
<1>5. NextBlock(j) = SubSeq(image, Len(j.read) + 1, to)  BY DEF NextBlock, ReadTo
<1>6. to = Len(j.read) <=> Len(j.read) = Len(image)  BY <1>1, <1>2, <1>3 DEF ReadTo
<1> HIDE DEF to
<1>7. \A k \in 1 .. Len(image) : image[k] \in Byte  BY <1>1, ElementOfSeq
<1> DEFINE from == Len(j.read) + 1
<1>8. from \in Nat /\ \A k \in from .. to : image[k] \in Byte  BY <1>1, <1>2, <1>4, <1>7
<1>9. /\ SubSeq(image, from, to) \in Seq(Byte)
      /\ Len(SubSeq(image, from, to)) = IF from <= to THEN to - from + 1 ELSE 0
  <2> HIDE DEF from
  <2> QED  BY <1>4, <1>8, SubSeqProperties
<1>10. Len(NextBlock(j)) = 0 <=> to = Len(j.read)  BY <1>2, <1>4, <1>5, <1>9
<1>11. Len(NextBlock(j)) = 0 <=> NextBlock(j) = <<>>  BY <1>5, <1>9, EmptySeq
<1>12. AtEnd(j) <=> Len(j.read) = Len(image)  BY <1>6, <1>10, <1>11 DEF AtEnd
<1> QED  BY <1>4, <1>5, <1>12 DEF to

LEMMA ReadsLonger ==
  ASSUME NEW j \in Jobs, j.m \in Manifests, image \in Images, ~AtEnd(j), Reads(j, image)
  PROVE  /\ Reads(WithBlock(j), image)
         /\ Len(WithBlock(j).read) = ReadTo(j, image)
         /\ Len(j.read) < Len(image)
<1> DEFINE to == ReadTo(j, image)
           block == NextBlock(j)
           w == WithBlock(j).read
<1>0. image \in Bytes  BY ImagesAssumption DEF Bytes
<1>1. Len(j.read) \in Nat /\ image \in Bytes /\ Len(image) \in Nat
  BY <1>0, JobFields, LenProperties DEF Bytes
<1>2. Len(j.read) <= Len(image) /\ j.read = SubSeq(image, 1, Len(j.read))  BY DEF Reads
<1>3. /\ to \in Nat /\ Len(j.read) <= to /\ to <= Len(image)
      /\ block = SubSeq(image, Len(j.read) + 1, to)
      /\ Len(j.read) # Len(image)
  BY <1>2, NextBlockFrom
<1>4. w = j.read \o block  BY WithBlockIs
<1> DEFINE n == Len(j.read)
           u == j.read
<1> HIDE DEF to, block, w
<1>5. w = SubSeq(image, 1, to) /\ Len(w) = to
  <2>1. u = SubSeq(image, 1, n) /\ block = SubSeq(image, n + 1, to) /\ w = u \o block
    BY <1>2, <1>3, <1>4
  <2>2. n \in Nat /\ n <= to  BY <1>1, <1>3
  <2> HIDE DEF n, u
  <2> QED  BY <1>1, <1>3, <2>1, <2>2, BeginningGrows
<1>6. Len(j.read) < Len(image)  BY <1>1, <1>2, <1>3
<1> QED  BY <1>3, <1>5, <1>6 DEF Reads, w, to

LEMMA ReadsNothing ==
  ASSUME NEW j, j.read = <<>>, NEW img \in Bytes
  PROVE  Reads(j, img)
<1>1. Len(j.read) = 0 /\ Len(img) \in Nat  BY EmptySeq, LenProperties DEF Bytes
<1>2. SubSeq(img, 1, 0) \in Seq(Byte) /\ Len(SubSeq(img, 1, 0)) = 0
  BY <1>1, BeginningIs DEF Bytes
<1>3. SubSeq(img, 1, 0) = <<>>  BY <1>2, EmptySeq
<1> QED  BY <1>1, <1>3 DEF Reads

LEMMA ReadsAll ==
  ASSUME NEW j, NEW img \in Bytes, Reads(j, img), Len(j.read) = Len(img)
  PROVE  j.read = img
BY SubSeqFull DEF Reads, Bytes

----------------------------------------------------------------------------
\* What "pristine" means.

(***************************************************************************)
(* A command knows the contents the medium had since it began; if that was *)
(* one content, what it read is the beginning of it.                       *)
(***************************************************************************)
HeldInv ==
  \A q \in Procs : job[q] # Idle =>
    /\ image \in held[q]
    /\ held[q] = {image} => Reads(job[q], image)

LEMMA HeldKept ==
  ASSUME TypeInv, HeldInv, [Next]_vars
  PROVE  HeldInv'
<1> SUFFICES ASSUME NEW q \in Procs, job'[q] # Idle
             PROVE  image' \in held'[q] /\ (held'[q] = {image'} => Reads(job'[q], image'))
  BY DEF HeldInv
<1>0. /\ job[q] \in Jobs /\ image \in Images /\ image \in Bytes /\ JobsInv
      /\ held \in [Procs -> SUBSET Images]
  BY ImagesAssumption DEF TypeInv, JobsInv, WorldInv, HistoryInv, Bytes
<1>1. CASE Touch
  <2>1. job'[q] = job[q] /\ image' # image /\ held'[q] = held[q] \cup {image'}
    BY <1>0, <1>1 DEF Touch
  <2>2. image \in held'[q]  BY <2>1 DEF HeldInv
  <2> QED  BY <2>1, <2>2
<1>2. CASE image' = image /\ Moves(q)
  <2>1. CASE job'[q] = job[q] /\ held'[q] = held[q]
    BY <1>2, <2>1 DEF HeldInv
  <2>2. CASE Begins(q)
    <3>1. job'[q].read = <<>>  BY <2>2, HoldingIs DEF Begins, StartHolds
    <3>2. Reads(job'[q], image)  BY <1>0, <3>1, ReadsNothing
    <3> QED  BY <1>2, <2>2, <3>2 DEF Begins
  <2>3. ASSUME held'[q] = held[q], job[q] # Idle,
               Reads(job[q], image) => Reads(job'[q], image)
        PROVE  image' \in held'[q] /\ (held'[q] = {image'} => Reads(job'[q], image'))
    BY <1>2, <2>3 DEF HeldInv
  <2>4. CASE held'[q] = held[q] /\ ReadsOn(q)
    <3>1. job[q].m \in Manifests /\ job[q] # Idle
      BY <1>0, <2>4, AtFacts, IdleTyped DEF ReadsOn, At
    <3>2. Reads(job[q], image) => Reads(job'[q], image)
      BY <1>0, <2>4, <3>1, ReadsLonger DEF ReadsOn
    <3> QED  BY <2>3, <2>4, <3>1, <3>2
  <2>5. CASE held'[q] = held[q] /\ Describes(q)
    <3>1. job'[q].read = <<>> /\ job[q] # Idle
      BY <2>5, HoldingIs, IdleTyped DEF Describes, At
    <3>2. Reads(job'[q], image)  BY <1>0, <3>1, ReadsNothing
    <3> QED  BY <2>3, <2>5, <3>1, <3>2
  <2>6. CASE held'[q] = held[q] /\ GoesOn(q)
    <3>1. Reads(job[q], image) => Reads(job'[q], image)  BY <2>6 DEF GoesOn, Reads
    <3>2. job[q] # Idle
      <4>1. SUFFICES ASSUME job[q] = Idle PROVE job'[q] = Idle  OBVIOUS
      <4>2. job'[q].cmd = "none"  BY <2>6, <4>1, IdleTyped DEF GoesOn
      <4>3. JobTyped(job'[q])  BY TypesKept DEF TypeInv, JobsInv
      <4> QED  BY <4>2, <4>3 DEF JobTyped
    <3> QED  BY <2>3, <2>6, <3>1, <3>2
  <2> QED  BY <1>2, <2>1, <2>2, <2>4, <2>5, <2>6 DEF Moves
<1> QED  BY <1>1, <1>2, NextMoves

(***************************************************************************)
(* A verdict is given in one step, over what was read before it.           *)
(***************************************************************************)
Judges(q) ==
  /\ At(q, "verify", "compare")
  /\ \E dbrows \in {{}, DbDiscrepancies(job[q])} :
       verdict'[q] = VerdictOf(q, IsPristine(job[q], dbrows))

LEMMA VerdictMoves ==
  ASSUME TypeInv, [Next]_vars, NEW q \in Procs
  PROVE  \/ verdict'[q] = verdict[q]
         \/ verdict'[q] = NoVerdict
         \/ Judges(q)
<1>1. CASE Untouched(q, q)  BY <1>1 DEF Untouched
<1>2. CASE Touch  BY <1>2 DEF Touch
<1>3. CASE Start(q)
  <2>1. \/ Untouched(q, q)
        \/ held'[q] = {image} /\ verdict'[q] = NoVerdict /\ StartHolds(q)
    BY <1>3, StartIs
  <2> QED  BY <2>1 DEF Untouched
<1>4. CASE Abort(q)  BY <1>4 DEF Abort, Finish
<1>5. CASE Step(q)
  <2>1. CASE VerifyCompare(q)
    <3>1. PICK dbrows \in {{}} \cup (IF job[q].dbpath THEN {DbDiscrepancies(job[q])} ELSE {}) :
            verdict' = [verdict EXCEPT ![q] = VerdictOf(q, IsPristine(job[q], dbrows))]
      BY <2>1 DEF VerifyCompare, VerdictOf
    <3>2. verdict'[q] = VerdictOf(q, IsPristine(job[q], dbrows))
      BY <3>1 DEF TypeInv, HistoryInv
    <3>3. At(q, "verify", "compare")  BY <2>1 DEF VerifyCompare
    <3> QED  BY <3>1, <3>2, <3>3 DEF Judges
  <2>2. CASE AcquireStep(q) \/ ParseStep(q)
    BY <2>2 DEF AcquireStep, AcquireBlock, AcquireRead, AcquireCreate, AcquireWrite,
       ParseStep, ParseBlock, ParseRefused, ParseRead, ParseStore, Continue, Finish
  <2>3. CASE VerifyBlock(q) \/ VerifyRead(q) \/ VerifyAudit(q)
    BY <2>3 DEF VerifyBlock, VerifyRead, VerifyAudit, Continue, Finish
  <2>4. CASE CarveStep(q) \/ CorrelateStore(q) \/ AnalyzeStep(q)
    BY <2>4 DEF CarveStep, CarveScan, CarveStore, CorrelateStore, AnalyzeStep, AnalyzeScan,
       AnalyzeStore, Continue, Finish
  <2>5. CASE ReportStep(q)
    <3>1. CASE ReportClip(q)
      <4>1. PICK n : Continue(q, n)  BY <3>1, ReportClipIs
      <4> QED  BY <4>1 DEF Continue
    <3>2. CASE ReportClipWritten(q)
      <4>1. PICK i : Finish(q) \/ Continue(q, Exported(job[q], i))  BY <3>2, ReportClipWrittenIs
      <4> QED  BY <4>1 DEF Finish, Continue
    <3> QED  BY <2>5, <3>1, <3>2 DEF ReportStep, ReportCarved, ReportEvents, ReportLeads,
       ReportUnreadable, ReportExported,
       ReportCertify, ReportDocument, Continue, Finish
  <2> QED  BY <1>5, <2>1, <2>2, <2>3, <2>4, <2>5 DEF Step, VerifyStep
<1> QED  BY <1>1, <1>2, <1>3, <1>4, <1>5, MoveOf

LEMMA PristineKept ==
  ASSUME TypeInv, HeldInv, PristineMeansAllAcquiredBytes, [Next]_vars
  PROVE  PristineMeansAllAcquiredBytes'
<1> DEFINE Whole(v, i) ==
      LET whole == v.m.whole_image
      IN  Len(whole) <= Len(i) /\ SubSeq(i, 1, Len(whole)) = whole
<1> SUFFICES ASSUME NEW q \in Procs, NEW img \in Images, verdict'[q].given,
                    verdict'[q].is_pristine, verdict'[q].held = {img}
             PROVE  Whole(verdict'[q], img)
  BY DEF PristineMeansAllAcquiredBytes
<1>1. CASE verdict'[q] = verdict[q]
  BY <1>1 DEF PristineMeansAllAcquiredBytes
<1>2. CASE verdict'[q] = NoVerdict
  BY <1>2 DEF NoVerdict
<1>3. CASE Judges(q)
  <2>1. PICK dbrows : verdict'[q] = VerdictOf(q, IsPristine(job[q], dbrows))
    BY <1>3 DEF Judges
  <2>2. /\ IsPristine(job[q], dbrows) /\ held[q] = {img}
        /\ verdict'[q].m = job[q].m
    BY <2>1 DEF VerdictOf
  <2>3. job[q] # Idle  BY <1>3, IdleTyped DEF Judges, At
  <2>4. image \in held[q] /\ (held[q] = {image} => Reads(job[q], image))
    BY <2>3 DEF HeldInv
  <2>5. Reads(job[q], img)  BY <2>2, <2>4
  <2>6. job[q].read = job[q].m.whole_image  BY <2>2 DEF IsPristine
  <2> QED  BY <2>2, <2>5, <2>6 DEF Reads
<1> HIDE DEF Whole
<1> QED  BY <1>1, <1>2, <1>3, VerdictMoves

(***************************************************************************)
(* A verdict "pristine" over an image that stood still while it was read   *)
(* means that the image begins with every byte that was acquired.          *)
(***************************************************************************)
THEOREM PristineHasEveryByte == Spec => []PristineMeansAllAcquiredBytes
<1>1. Init => HeldInv /\ PristineMeansAllAcquiredBytes
  BY DEF Init, HeldInv, PristineMeansAllAcquiredBytes, NoVerdict
<1>2. TypeInv /\ HeldInv /\ PristineMeansAllAcquiredBytes /\ [Next]_vars
        => HeldInv' /\ PristineMeansAllAcquiredBytes'
  BY HeldKept, PristineKept
<1> QED  BY <1>1, <1>2, TypesInvariant, PTL DEF Spec

----------------------------------------------------------------------------
\* While nobody wrote the medium, all that was read and described is its bytes.

(***************************************************************************)
(* The blocks a parse or a verification has read are those of the medium.  *)
(***************************************************************************)
BlocksRead(j, img) ==
  LET b == j.m.block_size
  IN  /\ Len(j.read) = BlockEnd(Len(img), Len(j.got), b)
      /\ \A k \in 1 .. Len(j.got) : j.got[k].data = BlocksOf(img, b)[k]

DescribesIt(m, img) == m \in Manifests => m.whole_image = img

Intact(j, img) ==
  /\ ~(j.cmd = "acquire" /\ j.pc = "stream") => DescribesIt(j.m, img)
  /\ Reads(j, img)
  /\ j.cmd \in {"parse", "verify"} =>
       /\ BlocksRead(j, img)
       /\ j.pc # "read" => Len(j.got) = j.m.block_count

Still ==
  /\ DescribesIt(manifest, image)
  /\ \A e \in DOMAIN db.evidence : db.evidence[e].whole_image = image
  /\ \A q \in Procs : Intact(job[q], image)

StillInv == touches = 0 => Still

LEMMA NoManifestIsNone == NoManifest \notin Manifests
<1>1. SUFFICES ASSUME NEW s \in Bytes, NEW b \in BlockSizes, NoManifest = ManifestOf(s, b)
               PROVE  FALSE
  BY DEF Manifests
<1>2. "whole_image" \in DOMAIN ManifestOf(s, b)  BY DEF ManifestOf
<1>3. "whole_image" \notin DOMAIN NoManifest  BY DEF NoManifest
<1> QED  BY <1>1, <1>2, <1>3

(***************************************************************************)
(* The arithmetic of the last block.                                       *)
(***************************************************************************)
LEMMA CountedBlocksEnd ==
  ASSUME NEW n \in Nat, NEW b \in Nat \ {0}, NEW g \in Nat, g <= BlockCount(n, b)
  PROVE  /\ BlockEnd(n, g, b) = n => g = BlockCount(n, b)
         /\ g = BlockCount(n, b) => BlockEnd(n, g, b) = n
         /\ BlockEnd(n, g, b) < n => /\ BlockEnd(n, g, b) = g * b
                                     /\ BlockStart(g + 1, b) = g * b + 1
                                     /\ BlockEnd(n, g + 1, b) =
                                          IF g * b + b <= n THEN g * b + b ELSE n
<1> DEFINE c == BlockCount(n, b)
           u == g * b
           v == b * c
<1>1. c \in Nat /\ v \in Nat /\ n <= v /\ v < n + b
  <2>1. c \in Nat /\ n <= b * c /\ b * c < n + b  BY BlockCountFact
  <2> HIDE DEF c
  <2>2. b * c \in Nat  BY <2>1
  <2> QED  BY <2>1, <2>2
<1>2. u \in Nat /\ u = b * g  OBVIOUS
<1>3. (g + 1) * b = u + b  OBVIOUS
<1>4. g < c => u + b <= v
  <2> HIDE DEF c
  <2>1. SUFFICES ASSUME g < c PROVE b * g + b <= b * c  BY <1>2
  <2>2. c - g - 1 \in Nat  BY <1>1, <2>1
  <2>3. b * (c - g - 1) \in Nat  BY <2>2
  <2>4. b * (c - g - 1) = b * c - b * g - b  BY <1>1
  <2>5. b * c \in Nat /\ b * g \in Nat  BY <1>1
  <2> QED  BY <2>3, <2>4, <2>5
<1>5. g = c => u = v  BY <1>2
<1>6. /\ BlockEnd(n, g, b) = IF u <= n THEN u ELSE n
      /\ BlockEnd(n, g + 1, b) = IF u + b <= n THEN u + b ELSE n
      /\ BlockStart(g + 1, b) = u + 1
  BY <1>3 DEF BlockEnd, BlockStart
<1> HIDE DEF c, u, v
<1>7. BlockEnd(n, g, b) = n => g = c
  <2>1. SUFFICES ASSUME BlockEnd(n, g, b) = n, g # c PROVE FALSE  OBVIOUS
  <2>2. g < c  BY <1>1, <2>1 DEF c
  <2> QED  BY <1>1, <1>2, <1>4, <1>6, <2>1, <2>2
<1>8. g = c => BlockEnd(n, g, b) = n  BY <1>1, <1>2, <1>5, <1>6
<1>9. BlockEnd(n, g, b) < n => BlockEnd(n, g, b) = u  BY <1>2, <1>6
<1> QED  BY <1>6, <1>7, <1>8, <1>9 DEF c, u

LEMMA ReadingIs ==
  ASSUME NEW j \in Jobs, j.m \in Manifests, image \in Images, j.m.whole_image = image,
         Len(j.got) <= j.m.block_count
  PROVE  /\ image \in Bytes /\ Len(image) \in Nat
         /\ j.m.block_size \in Nat \ {0} /\ Len(j.got) \in Nat
         /\ j.m.block_count = BlockCount(Len(image), j.m.block_size)
         /\ Len(j.got) <= BlockCount(Len(image), j.m.block_size)
<1>1. image \in Bytes  BY ImagesAssumption DEF Bytes
<1>2. Len(image) \in Nat  BY <1>1, LenProperties DEF Bytes
<1> QED  BY <1>1, <1>2, ManifestFields, JobFields DEF Place

LEMMA OneMoreBlock ==
  ASSUME NEW j \in Jobs, j.m \in Manifests, image \in Images, j.m.whole_image = image,
         Reads(j, image), BlocksRead(j, image), BlocksRemain(j), ~AtEnd(j),
         NEW n, n = WithBlock(j)
  PROVE  BlocksRead(n, image)
<1> DEFINE b == j.m.block_size
           g == Len(j.got)
           N == Len(image)
           blocks == BlocksOf(image, b)
           next == [at |-> Len(j.read) + 1, data |-> NextBlock(j)]
<1>0. g \in Nat /\ j.m.block_count \in Nat  BY JobFields, ManifestFields
<1>1. g < j.m.block_count /\ g <= j.m.block_count  BY <1>0 DEF BlocksRemain
<1>2. /\ image \in Seq(Byte) /\ N \in Nat /\ b \in Nat \ {0}
      /\ j.m.block_count = BlockCount(N, b) /\ g <= BlockCount(N, b)
  BY <1>1, ReadingIs DEF Bytes
<1>3. Len(j.read) = BlockEnd(N, g, b) /\ \A k \in 1 .. g : j.got[k].data = blocks[k]
  BY DEF BlocksRead
<1>4. /\ Len(n.read) = ReadTo(j, image) /\ Len(j.read) < N
      /\ NextBlock(j) = SubSeq(image, Len(j.read) + 1, ReadTo(j, image))
  <2>1. Len(j.read) <= Len(image)  BY DEF Reads
  <2> QED  BY <2>1, ReadsLonger, NextBlockFrom
<1>5. /\ n.got = Append(j.got, next) /\ Len(n.got) = g + 1 /\ n.m = j.m
      /\ next \in Block
  BY WithBlockIs
<1>6. /\ Len(j.read) = g * b /\ BlockStart(g + 1, b) = g * b + 1
      /\ BlockEnd(N, g + 1, b) = IF g * b + b <= N THEN g * b + b ELSE N
  <2>1. BlockEnd(N, g, b) < N  BY <1>3, <1>4
  <2> HIDE DEF N, g, b
  <2>2. /\ BlockEnd(N, g, b) = g * b /\ BlockStart(g + 1, b) = g * b + 1
        /\ BlockEnd(N, g + 1, b) = IF g * b + b <= N THEN g * b + b ELSE N
    BY <1>0, <1>2, <2>1, CountedBlocksEnd
  <2> QED  BY <1>3, <2>2
<1>7. ReadTo(j, image) = BlockEnd(N, g + 1, b)  BY <1>6 DEF ReadTo
<1>8. next.data = blocks[g + 1]
  <2>1. g + 1 \in 1 .. BlockCount(N, b)  BY <1>0, <1>1, <1>2
  <2>2. blocks[g + 1] = SubSeq(image, BlockStart(g + 1, b), BlockEnd(N, g + 1, b))
    BY <1>2, <2>1, BlocksOfType
  <2>3. NextBlock(j) = SubSeq(image, BlockStart(g + 1, b), BlockEnd(N, g + 1, b))
    BY <1>4, <1>6, <1>7
  <2> QED  BY <2>2, <2>3
<1>9. j.got \in Seq(Block)  BY JobFields
<1> HIDE DEF next, blocks
<1>10. /\ \A k \in 1 .. g : n.got[k] = j.got[k]
       /\ n.got[g + 1] = next
  BY <1>5, <1>9, AppendProperties
<1>11. \A k \in 1 .. g + 1 : n.got[k].data = blocks[k]
  <2>1. \A k \in 1 .. g + 1 : k \in 1 .. g \/ k = g + 1  BY <1>0
  <2> QED  BY <1>3, <1>8, <1>10, <2>1
<1> QED  BY <1>4, <1>5, <1>7, <1>11 DEF BlocksRead, blocks

\* The loop over the blocks ends with the last of them.
LEMMA LoopEnds ==
  ASSUME NEW j \in Jobs, j.m \in Manifests, image \in Images, j.m.whole_image = image,
         Reads(j, image), BlocksRead(j, image), Len(j.got) <= j.m.block_count,
         ~BlocksRemain(j) \/ AtEnd(j)
  PROVE  Len(j.got) = j.m.block_count
<1> DEFINE b == j.m.block_size
           g == Len(j.got)
           N == Len(image)
<1>1. /\ N \in Nat /\ b \in Nat \ {0} /\ g \in Nat
      /\ j.m.block_count = BlockCount(N, b) /\ g <= BlockCount(N, b)
  BY ReadingIs
<1>2. j.m.block_count \in Nat  BY ManifestFields
<1>3. CASE ~BlocksRemain(j)  BY <1>1, <1>2, <1>3 DEF BlocksRemain
<1>4. CASE AtEnd(j)
  <2>1. Len(j.read) = N  BY <1>4, NextBlockFrom DEF Reads
  <2>2. BlockEnd(N, g, b) = N  BY <2>1 DEF BlocksRead
  <2> QED  BY <1>1, <2>2, CountedBlocksEnd
<1> QED  BY <1>3, <1>4

LEMMA AllIsRead ==
  ASSUME NEW j \in Jobs, j.m \in Manifests, image \in Images, j.m.whole_image = image,
         Reads(j, image), BlocksRead(j, image), Len(j.got) = j.m.block_count
  PROVE  j.read = image
<1> DEFINE b == j.m.block_size
           g == Len(j.got)
           N == Len(image)
<1>0. g <= j.m.block_count  BY ManifestFields
<1>1. /\ image \in Bytes /\ N \in Nat /\ b \in Nat \ {0} /\ g \in Nat
      /\ g = BlockCount(N, b) /\ g <= BlockCount(N, b)
  BY <1>0, ReadingIs
<1>2. BlockEnd(N, g, b) = N  BY <1>1, CountedBlocksEnd
<1>3. Len(j.read) = N  BY <1>2 DEF BlocksRead
<1> QED  BY <1>1, <1>3, ReadsAll

\* Commands that do not read in blocks: what they hold and what they read.
LEMMA IntactPlain ==
  ASSUME NEW j, NEW img \in Bytes, j.read = <<>>, j.cmd \notin {"parse", "verify"},
         ~(j.cmd = "acquire" /\ j.pc = "stream") => DescribesIt(j.m, img)
  PROVE  Intact(j, img)
BY ReadsNothing DEF Intact

LEMMA IntactFresh ==
  ASSUME NEW j, NEW img \in Bytes, j.read = <<>>, j.got = <<>>, j.cmd \in {"parse", "verify"},
         j.pc = "read", DescribesIt(j.m, img), j.m.block_size \in Nat
  PROVE  Intact(j, img)
<1>1. Reads(j, img)  BY ReadsNothing
<1>2. Len(j.read) = 0 /\ Len(j.got) = 0 /\ Len(img) \in Nat
  BY EmptySeq, LenProperties DEF Bytes
<1>3. BlockEnd(Len(img), 0, j.m.block_size) = 0  BY <1>2 DEF BlockEnd
<1>4. BlocksRead(j, img)  BY <1>2, <1>3 DEF BlocksRead
<1> QED  BY <1>1, <1>4 DEF Intact

LEMMA IntactAtFirst ==
  ASSUME TypeInv, NEW q \in Procs, DescribesIt(manifest, image), StartHolds(q)
  PROVE  Intact(job'[q], image)
<1> SUFFICES ASSUME NEW j, j = job'[q] PROVE Intact(j, image)  OBVIOUS
<1> DEFINE img == image
<1>0. img \in Bytes  BY ImagesAssumption DEF TypeInv, WorldInv, Bytes
<1>1. j.read = <<>> /\ j.got = <<>>  BY HoldingIs DEF StartHolds
<1>2. \/ j.cmd = "acquire" /\ j.pc = "stream"
      \/ j.cmd \in {"parse", "verify"} /\ j.pc = "read" /\ j.m = manifest /\ manifest \in Manifests
      \/ j.cmd \in {"carve", "analyze", "report"} /\ j.m = manifest
      \/ j.cmd = "correlate" /\ j.m = NoManifest
  BY HoldingIs DEF StartHolds
<1>3. DescribesIt(NoManifest, img)  BY NoManifestIsNone DEF DescribesIt
<1>4. DescribesIt(manifest, img)  OBVIOUS
<1> SUFFICES Intact(j, img)  OBVIOUS
<1> HIDE DEF img
<1>5. CASE j.cmd = "acquire" /\ j.pc = "stream"  BY <1>0, <1>1, <1>5, IntactPlain
<1>6. CASE j.cmd \in {"carve", "analyze", "report"} /\ j.m = manifest
  BY <1>0, <1>1, <1>4, <1>6, IntactPlain
<1>7. CASE j.cmd = "correlate" /\ j.m = NoManifest
  BY <1>0, <1>1, <1>3, <1>7, IntactPlain
<1>8. CASE /\ j.cmd \in {"parse", "verify"} /\ j.pc = "read" /\ j.m = manifest
           /\ manifest \in Manifests
  <2>1. j.m.block_size \in Nat  BY <1>8, ManifestFields DEF Place
  <2> QED  BY <1>0, <1>1, <1>4, <1>8, <2>1, IntactFresh
<1> QED  BY <1>2, <1>5, <1>6, <1>7, <1>8

LEMMA IntactKept ==
  ASSUME TypeInv, Still, [Next]_vars, image' = image, NEW q \in Procs, Moves(q)
  PROVE  Intact(job'[q], image)
<1> SUFFICES ASSUME NEW n, n = job'[q] PROVE Intact(n, image)  OBVIOUS
<1> DEFINE j == job[q]
<1>0. /\ j \in Jobs /\ JobTyped(j) /\ JobsInv /\ image \in Images /\ image \in Bytes
      /\ Intact(j, image)
  BY ImagesAssumption DEF TypeInv, JobsInv, WorldInv, Bytes, Still
<1>1. CASE n = j  BY <1>0, <1>1
<1>2. CASE Begins(q)  BY <1>2, IntactAtFirst DEF Begins, Still
<1>3. CASE n = Idle
  <2>1. DescribesIt(Idle.m, image)  BY IdleTyped, NoManifestIsNone DEF DescribesIt
  <2> QED  BY <1>0, <1>3, <2>1, IdleTyped, IntactPlain
<1>4. CASE ReadsOn(q)
  <2>1. /\ j.m \in Manifests /\ n = WithBlock(j) /\ ~AtEnd(j)
        /\ \/ j.cmd = "acquire" /\ j.pc = "stream"
           \/ j.cmd \in {"parse", "verify"} /\ j.pc = "read" /\ BlocksRemain(j)
    BY <1>0, <1>4, AtFacts DEF ReadsOn, At
  <2>2. Reads(j, image)  BY <1>0 DEF Intact
  <2>3. Reads(n, image)  BY <1>0, <2>1, <2>2, ReadsLonger
  <2>4. n.cmd = j.cmd /\ n.pc = j.pc /\ n.m = j.m  BY <1>0, <2>1, WithBlockIs
  <2>5. CASE j.cmd = "acquire" /\ j.pc = "stream"  BY <2>3, <2>4, <2>5 DEF Intact
  <2>6. CASE j.cmd \in {"parse", "verify"} /\ j.pc = "read" /\ BlocksRemain(j)
    <3>1. DescribesIt(j.m, image) /\ BlocksRead(j, image)  BY <1>0, <2>6 DEF Intact
    <3>2. j.m.whole_image = image  BY <2>1, <3>1 DEF DescribesIt
    <3> HIDE DEF j
    <3>3. BlocksRead(n, image)  BY <1>0, <2>1, <2>2, <2>6, <3>1, <3>2, OneMoreBlock
    <3> QED  BY <2>3, <2>4, <2>6, <3>1, <3>3 DEF Intact
  <2> QED  BY <2>1, <2>5, <2>6
<1>5. CASE Describes(q)
  <2> DEFINE m == ManifestOf(j.read, j.m.block_size)
  <2>1. /\ j.m \in Manifests /\ AtEnd(j) /\ n = Holding("acquire", "create", m, <<>>)
    BY <1>0, <1>5, AtFacts DEF Describes
  <2>2. Reads(j, image)  BY <1>0 DEF Intact
  <2>3. Len(j.read) = Len(image)  BY <1>0, <2>1, <2>2, NextBlockFrom DEF Reads
  <2>4. j.read = image  BY <1>0, <2>2, <2>3, ReadsAll
  <2>5. m.whole_image = image
    <3>1. j.m.block_size \in BlockSizes  BY <2>1, ManifestFields
    <3> QED  BY <1>0, <2>4, <3>1, ManifestIs
  <2> HIDE DEF m
  <2>6. n.m = m /\ n.cmd = "acquire" /\ n.read = <<>>  BY <2>1, HoldingIs
  <2>7. DescribesIt(n.m, image)  BY <2>5, <2>6 DEF DescribesIt
  <2> QED  BY <1>0, <2>6, <2>7, IntactPlain
<1>6. CASE GoesOn(q)
  <2>1. /\ n.cmd = j.cmd /\ n.m = j.m /\ n.got = j.got /\ n.read = j.read
        /\ ~(j.cmd = "acquire" /\ j.pc = "stream")
        /\ LoopIsOver(j)
    BY <1>6 DEF GoesOn, At
  <2>2. DescribesIt(j.m, image) /\ Reads(j, image)  BY <1>0, <2>1 DEF Intact
  <2>3. DescribesIt(n.m, image) /\ Reads(n, image)  BY <2>1, <2>2 DEF Reads
  <2>4. ASSUME j.cmd \in {"parse", "verify"}
        PROVE  BlocksRead(n, image) /\ Len(n.got) = n.m.block_count
    <3>1. BlocksRead(j, image) /\ (j.pc # "read" => Len(j.got) = j.m.block_count)
      BY <1>0, <2>4 DEF Intact
    <3>2. BlocksRead(n, image)  BY <2>1, <3>1 DEF BlocksRead
    <3>3. j.m \in Manifests /\ Len(j.got) <= j.m.block_count
      BY <1>0, <2>4 DEF JobTyped, ReadingTyped
    <3>4. j.m.whole_image = image  BY <2>2, <3>3 DEF DescribesIt
    <3>5. ~BlocksRemain(j) \/ AtEnd(j) => Len(j.got) = j.m.block_count
      BY <1>0, <2>2, <3>1, <3>3, <3>4, LoopEnds
    <3> QED  BY <2>1, <2>4, <3>1, <3>2, <3>5 DEF LoopIsOver
  <2> QED  BY <2>1, <2>3, <2>4 DEF Intact
<1> QED  BY <1>1, <1>2, <1>3, <1>4, <1>5, <1>6 DEF Moves

LEMMA StillKept ==
  ASSUME TypeInv, StillInv, [Next]_vars
  PROVE  StillInv'
<1> SUFFICES ASSUME touches' = 0 PROVE Still'
  BY DEF StillInv
<1>1. touches = 0 /\ image' = image  BY MediumStays
<1>2. Still  BY <1>1 DEF StillInv
<1>3. \A q \in Procs : Intact(job'[q], image')
  <2> SUFFICES ASSUME NEW q \in Procs PROVE Intact(job'[q], image')  OBVIOUS
  <2>1. ~Touch  BY <1>1 DEF Touch, TypeInv, WorldInv
  <2>2. Moves(q)  BY <2>1, NextMoves
  <2>3. Intact(job'[q], image)  BY <1>1, <1>2, <2>2, IntactKept
  <2> QED  BY <1>1, <2>3
<1>4. DescribesIt(manifest', image')
  <2>1. CASE manifest' = manifest  BY <1>1, <1>2, <2>1 DEF Still
  <2>2. ASSUME NEW p \in Procs, AcquireWrite(p) PROVE DescribesIt(manifest', image')
    <3>1. At(p, "acquire", "write") /\ manifest' = job[p].m  BY <2>2 DEF AcquireWrite
    <3>2. DescribesIt(job[p].m, image)  BY <1>2, <3>1 DEF Still, Intact, At
    <3> QED  BY <1>1, <3>1, <3>2
  <2>3. ASSUME NEW p \in Procs, AcquireCreate(p) PROVE manifest' = manifest
    BY <2>3 DEF AcquireCreate
  <2> QED  BY <2>1, <2>2, <2>3, NextSteps DEF FilesStep
<1>5. ASSUME NEW e \in DOMAIN db'.evidence PROVE db'.evidence[e].whole_image = image'
  <2>1. CASE db'.evidence = db.evidence  BY <1>1, <1>2, <1>5, <2>1 DEF Still
  <2>2. ASSUME NEW p \in Procs, Extracts(p) PROVE db'.evidence[e].whole_image = image'
    <3> DEFINE items == db.evidence
               item == EvidenceOf(job[p].m)
    <3>1. job[p].m \in Manifests /\ At(p, "parse", "store")  BY <2>2, StoredTypes DEF Extracts
    <3>2. job[p].m.whole_image = image
      <4>1. DescribesIt(job[p].m, image)  BY <1>2, <3>1 DEF Still, Intact, At
      <4> QED  BY <3>1, <4>1 DEF DescribesIt
    <3>3. item \in Item /\ item.whole_image = image  BY <3>1, <3>2, EvidenceOfIs
    <3>4. items \in Seq(Item) /\ db'.evidence = Append(items, item)
      BY <2>2, TablesAre DEF Extracts
    <3>5. \A k \in DOMAIN items : items[k].whole_image = image  BY <1>2 DEF Still
    <3> HIDE DEF item, items
    <3>6. /\ DOMAIN items = 1 .. Len(items) /\ Len(items) \in Nat
          /\ DOMAIN Append(items, item) = 1 .. Len(items) + 1
          /\ \A k \in 1 .. Len(items) : Append(items, item)[k] = items[k]
          /\ Append(items, item)[Len(items) + 1] = item
      BY <3>3, <3>4, AppendProperties, LenProperties
    <3>7. e \in 1 .. Len(items) \/ e = Len(items) + 1  BY <1>5, <3>4, <3>6
    <3> QED  BY <1>1, <3>3, <3>4, <3>5, <3>6, <3>7
  <2>3. ASSUME NEW p \in Procs, \/ Audits(p) \/ Adds(p, "carve", "carved")
                                \/ Adds(p, "correlate", "events")
                                \/ Adds(p, "analyze", "detections")
        PROVE  db'.evidence = db.evidence
    BY <2>3 DEF Audits, Adds, TablesKept
  <2> QED  BY <2>1, <2>2, <2>3, NextSteps, DbStepCases
<1> QED  BY <1>3, <1>4, <1>5 DEF Still

LEMMA StillInit ==
  ASSUME Init
  PROVE  StillInv
<1>0. TypeInv  BY TypesInit
<1>1. image \in Bytes  BY <1>0, ImagesAssumption DEF TypeInv, WorldInv, Bytes
<1>2. DescribesIt(manifest, image)
  <2>1. CASE Before = {}  BY <2>1, NoManifestIsNone DEF Init, DescribesIt
  <2>2. CASE Before # {}
    <3>1. PICK b \in Before : manifest = ManifestOf(image, b)  BY <2>2 DEF Init
    <3>2. b \in BlockSizes  BY BlockSizesAssumption
    <3> QED  BY <1>1, <3>1, <3>2, ManifestIs DEF DescribesIt
  <2> QED  BY <2>1, <2>2
<1>3. Intact(Idle, image)
  <2>1. DescribesIt(Idle.m, image)  BY IdleTyped, NoManifestIsNone DEF DescribesIt
  <2> QED  BY <1>1, <2>1, IdleTyped, IntactPlain
<1>4. \A q \in Procs : Intact(job[q], image)  BY <1>3 DEF Init
<1> QED  BY <1>2, <1>4 DEF Init, StillInv, Still, EmptyDb

LEMMA StillAlways == Spec => []StillInv
<1>1. Init => StillInv  BY StillInit
<1>2. TypeInv /\ StillInv /\ [Next]_vars => StillInv'  BY StillKept
<1> QED  BY <1>1, <1>2, TypesInvariant, PTL DEF Spec

----------------------------------------------------------------------------
\* Extractions.

RowsIn(records, e) == {i \in DOMAIN records : records[i].evidence_id = e}

\* The rows of item e are those of its blocks 1 to n, behind the first so many.
RunOf(records, e, item, first, n) ==
  /\ RowsIn(records, e) = first + 1 .. first + n
  /\ n <= item.block_count
  /\ \A k \in 1 .. n : records[first + k].block_index = k

DigestsAre(records, item, first, n) ==
  [k \in 1 .. n |-> records[first + k].hash] = BlocksOf(item.whole_image, item.block_size)

\* t: how often the medium was written.
WholeIn(records, e, item, t) ==
  \E first, n \in 0 .. Len(records) :
    /\ RunOf(records, e, item, first, n)
    /\ t = 0 => DigestsAre(records, item, first, n)

(***************************************************************************)
(* Every record has its evidence item, so that the rows of a new item can  *)
(* only be those that are stored with it; and extractions are whole.       *)
(***************************************************************************)
ExtractionInv ==
  /\ \A i \in DOMAIN db.records : db.records[i].evidence_id \in DOMAIN db.evidence
  /\ \A e \in DOMAIN db.evidence : WholeIn(db.records, e, db.evidence[e], touches)

\* Rows of other items leave an extraction as it is.
LEMMA RunStays ==
  ASSUME NEW old \in Seq(Record), NEW more \in Seq(Record), NEW new, new = old \o more,
         NEW e, \A k \in 1 .. Len(more) : more[k].evidence_id # e,
         NEW item, NEW first \in Nat, NEW n \in Nat, RunOf(old, e, item, first, n)
  PROVE  /\ RunOf(new, e, item, first, n)
         /\ DigestsAre(old, item, first, n) => DigestsAre(new, item, first, n)
<1>1. /\ Len(new) = Len(old) + Len(more) /\ new \in Seq(Record)
      /\ \A k \in 1 .. Len(old) : new[k] = old[k]
      /\ \A k \in 1 .. Len(more) : new[Len(old) + k] = more[k]
  BY ConcatAt
<1>2. /\ DOMAIN old = 1 .. Len(old) /\ Len(old) \in Nat /\ Len(more) \in Nat
      /\ DOMAIN new = 1 .. Len(new)
  BY <1>1, LenProperties
<1>3. \A i \in DOMAIN new : i \in DOMAIN old \/ (i - Len(old) \in 1 .. Len(more)
                                                 /\ Len(old) + (i - Len(old)) = i)
  BY <1>1, <1>2
<1>4. \A i \in DOMAIN old : i \in DOMAIN new /\ new[i] = old[i]  BY <1>1, <1>2
<1>5. \A i \in DOMAIN new : i \notin DOMAIN old => new[i].evidence_id # e  BY <1>1, <1>3
<1>6. RowsIn(new, e) = RowsIn(old, e)  BY <1>4, <1>5 DEF RowsIn
<1>7. /\ RowsIn(old, e) = first + 1 .. first + n /\ n <= item.block_count
      /\ \A k \in 1 .. n : old[first + k].block_index = k
  BY DEF RunOf
<1>8. \A k \in 1 .. n : first + k \in RowsIn(old, e)  BY <1>7
<1>9. \A k \in 1 .. n : new[first + k] = old[first + k]  BY <1>4, <1>8 DEF RowsIn
<1>10. RunOf(new, e, item, first, n)  BY <1>6, <1>7, <1>9 DEF RunOf
<1>11. [k \in 1 .. n |-> new[first + k].hash] = [k \in 1 .. n |-> old[first + k].hash]
  BY <1>9
<1> QED  BY <1>10, <1>11 DEF DigestsAre

\* The rows of a new item are those that are stored with it.
LEMMA RunStarts ==
  ASSUME NEW old \in Seq(Record), NEW e \in Place,
         \A i \in DOMAIN old : old[i].evidence_id # e,
         NEW blocks \in Seq(Block), NEW new, new = old \o RecordsOf(e, blocks),
         NEW item, Len(blocks) <= item.block_count
  PROVE  /\ RunOf(new, e, item, Len(old), Len(blocks))
         /\ \A k \in 1 .. Len(blocks) : new[Len(old) + k].hash = blocks[k].data
<1> DEFINE more == RecordsOf(e, blocks)
<1>1. /\ more \in Seq(Record) /\ Len(more) = Len(blocks)
      /\ \A k \in 1 .. Len(blocks) : /\ more[k].evidence_id = e
                                     /\ more[k].block_index = k
                                     /\ more[k].hash = blocks[k].data
  BY RecordsOfIs
<1>2. new = old \o more  OBVIOUS
<1> HIDE DEF more
<1>3. /\ Len(new) = Len(old) + Len(blocks) /\ new \in Seq(Record)
      /\ \A k \in 1 .. Len(old) : new[k] = old[k]
      /\ \A k \in 1 .. Len(blocks) : new[Len(old) + k] = more[k]
  <2>1. more \in Seq(Record)  BY <1>1
  <2>2. /\ Len(new) = Len(old) + Len(more) /\ new \in Seq(Record)
        /\ \A k \in 1 .. Len(old) : new[k] = old[k]
        /\ \A k \in 1 .. Len(more) : new[Len(old) + k] = more[k]
    BY <1>2, <2>1, ConcatAt
  <2> QED  BY <1>1, <2>2
<1>4. /\ DOMAIN old = 1 .. Len(old) /\ Len(old) \in Nat /\ Len(blocks) \in Nat
      /\ DOMAIN new = 1 .. Len(new)
  BY <1>3, LenProperties
<1>5. \A i \in DOMAIN new : i \in 1 .. Len(old) \/ (i - Len(old) \in 1 .. Len(blocks)
                                                    /\ Len(old) + (i - Len(old)) = i)
  BY <1>3, <1>4
<1>6. \A i \in 1 .. Len(old) : new[i].evidence_id # e  BY <1>3, <1>4
<1>7. \A k \in 1 .. Len(blocks) : new[Len(old) + k].evidence_id = e  BY <1>1, <1>3
<1>8. \A k \in 1 .. Len(blocks) : Len(old) + k \in DOMAIN new  BY <1>3, <1>4
<1>9. \A i \in Len(old) + 1 .. Len(old) + Len(blocks) :
        i - Len(old) \in 1 .. Len(blocks) /\ Len(old) + (i - Len(old)) = i
  BY <1>4
<1>10. RowsIn(new, e) \subseteq Len(old) + 1 .. Len(old) + Len(blocks)
  <2>1. \A i \in RowsIn(new, e) : i \in DOMAIN new /\ i \notin 1 .. Len(old)
    BY <1>6 DEF RowsIn
  <2> QED  BY <1>3, <1>4, <2>1
<1>11. Len(old) + 1 .. Len(old) + Len(blocks) \subseteq RowsIn(new, e)
  BY <1>7, <1>8, <1>9 DEF RowsIn
<1>12. \A k \in 1 .. Len(blocks) : new[Len(old) + k].block_index = k  BY <1>1, <1>3
<1>13. RunOf(new, e, item, Len(old), Len(blocks))  BY <1>10, <1>11, <1>12 DEF RunOf
<1> QED  BY <1>1, <1>3, <1>13

\* What a parse has read when it stores, while nobody wrote the medium.
LEMMA StoredBlocks ==
  ASSUME TypeInv, StillInv, touches = 0, NEW p \in Procs, At(p, "parse", "store")
  PROVE  LET m == job[p].m
         IN  /\ Len(job[p].got) = BlockCount(Len(m.whole_image), m.block_size)
             /\ \A k \in 1 .. Len(job[p].got) :
                  job[p].got[k].data = BlocksOf(m.whole_image, m.block_size)[k]
<1> DEFINE j == job[p]
<1>1. j.m \in Manifests /\ j.cmd = "parse" /\ j.pc = "store"
  BY AtFacts DEF TypeInv, At
<1>2. DescribesIt(j.m, image) /\ BlocksRead(j, image) /\ Len(j.got) = j.m.block_count
  BY <1>1 DEF StillInv, Still, Intact
<1>3. j.m.whole_image = image  BY <1>1, <1>2 DEF DescribesIt
<1>4. j.m.block_count = BlockCount(Len(j.m.whole_image), j.m.block_size)
  BY <1>1, ManifestFields
<1> QED  BY <1>2, <1>3, <1>4 DEF BlocksRead

LEMMA BlocksAreDigests ==
  ASSUME NEW s, NEW b, NEW n, n = BlockCount(Len(s), b), NEW f,
         \A k \in 1 .. n : f[k] = BlocksOf(s, b)[k]
  PROVE  [k \in 1 .. n |-> f[k]] = BlocksOf(s, b)
<1>1. BlocksOf(s, b) = [k \in 1 .. n |-> BlocksOf(s, b)[k]]  BY DEF BlocksOf
<1> HIDE DEF BlocksOf
<1>2. [k \in 1 .. n |-> f[k]] = [k \in 1 .. n |-> BlocksOf(s, b)[k]]  OBVIOUS
<1> QED  BY <1>1, <1>2

LEMMA ExtractionKept ==
  ASSUME TypeInv, StillInv, ExtractionInv, [Next]_vars
  PROVE  ExtractionInv'
<1>0. /\ db.records \in Seq(Record) /\ db.evidence \in Seq(Item)
      /\ Len(db.records) \in Nat /\ Len(db.evidence) \in Nat
  BY TablesAre
<1>1. touches' = 0 => touches = 0  BY MediumStays
<1>2. CASE db'.evidence = db.evidence /\ db'.records = db.records
  BY <1>1, <1>2 DEF ExtractionInv, WholeIn
<1>3. ASSUME NEW p \in Procs, Extracts(p) PROVE ExtractionInv'
  <2> DEFINE old == db.records
             items == db.evidence
             m == job[p].m
             item == EvidenceOf(m)
             blocks == job[p].got
             e0 == Len(items) + 1
             more == RecordsOf(e0, blocks)
             new == db'.records
  <2>1. m \in Manifests /\ blocks \in Seq(Block) /\ At(p, "parse", "store")
    BY <1>3, StoredTypes DEF Extracts
  <2>2. /\ item \in Item /\ item.whole_image = m.whole_image
        /\ item.block_size = m.block_size /\ item.block_count = m.block_count
    BY <2>1, EvidenceOfIs
  <2>3. db'.evidence = Append(items, item) /\ new = old \o more
    BY <1>3 DEF Extracts
  <2>4. Len(blocks) <= item.block_count
    <3>1. JobTyped(job[p]) /\ job[p].cmd = "parse"  BY <2>1, AtFacts DEF TypeInv
    <3> QED  BY <2>2, <3>1 DEF JobTyped, ReadingTyped
  <2>5. /\ DOMAIN items = 1 .. Len(items) /\ DOMAIN db'.evidence = 1 .. e0
        /\ \A e \in 1 .. Len(items) : db'.evidence[e] = items[e]
        /\ db'.evidence[e0] = item
    <3> HIDE DEF items, item
    <3>1. items \in Seq(Item)  BY <1>0 DEF items
    <3> QED  BY <2>2, <2>3, <3>1, AppendProperties, LenProperties
  <2>6. e0 \in Place /\ \A i \in DOMAIN old : old[i].evidence_id # e0
    BY <1>0, <2>5 DEF ExtractionInv, Place
  <2>7. /\ more \in Seq(Record) /\ Len(more) = Len(blocks)
        /\ \A k \in 1 .. Len(blocks) : more[k].evidence_id = e0
    <3> HIDE DEF e0, blocks
    <3> QED  BY <2>1, <2>6, RecordsOfIs
  <2>8. /\ Len(new) = Len(old) + Len(blocks) /\ DOMAIN new = 1 .. Len(new)
        /\ \A k \in 1 .. Len(old) : new[k] = old[k]
        /\ \A k \in 1 .. Len(blocks) : new[Len(old) + k] = more[k]
        /\ Len(blocks) \in Nat
    <3> HIDE DEF old, more, new, blocks
    <3>1. old \in Seq(Record) /\ more \in Seq(Record)  BY <1>0, <2>7 DEF old
    <3>2. /\ Len(new) = Len(old) + Len(more) /\ new \in Seq(Record)
          /\ \A k \in 1 .. Len(old) : new[k] = old[k]
          /\ \A k \in 1 .. Len(more) : new[Len(old) + k] = more[k]
      BY <2>3, <3>1, ConcatAt
    <3> QED  BY <2>1, <2>7, <3>2, LenProperties
  <2>9. \A i \in DOMAIN new : new[i].evidence_id \in DOMAIN db'.evidence
    <3>1. DOMAIN old = 1 .. Len(old)  BY <1>0, LenProperties
    <3>2. \A i \in 1 .. Len(old) : new[i].evidence_id \in 1 .. e0
      BY <2>5, <2>8, <3>1, <1>0 DEF ExtractionInv
    <3> HIDE DEF more, new, old, blocks
    <3>3. \A k \in 1 .. Len(blocks) : new[Len(old) + k].evidence_id = e0  BY <2>7, <2>8
    <3>4. \A i \in DOMAIN new : i \in 1 .. Len(old) \/ (i - Len(old) \in 1 .. Len(blocks)
                                                        /\ Len(old) + (i - Len(old)) = i)
      BY <2>8, <1>0 DEF old
    <3>5. e0 \in 1 .. e0  BY <1>0
    <3> QED  BY <2>5, <3>2, <3>3, <3>4, <3>5
  <2>10. ASSUME NEW e \in DOMAIN items PROVE WholeIn(new, e, items[e], touches')
    <3>1. PICK first \in 0 .. Len(old), n \in 0 .. Len(old) :
            /\ RunOf(old, e, items[e], first, n)
            /\ touches = 0 => DigestsAre(old, items[e], first, n)
      BY <2>10 DEF ExtractionInv, WholeIn
    <3>2. first \in Nat /\ n \in Nat /\ first \in 0 .. Len(new) /\ n \in 0 .. Len(new)
      <4> HIDE DEF new, blocks
      <4>1. Len(new) = Len(old) + Len(blocks) /\ Len(blocks) \in Nat  BY <2>8
      <4> QED  BY <1>0, <4>1
    <3>3. \A k \in 1 .. Len(more) : more[k].evidence_id # e
      BY <1>0, <2>5, <2>7, <2>10
    <3> HIDE DEF more, new, old, items
    <3>4. old \in Seq(Record)  BY <1>0 DEF old
    <3>5. /\ RunOf(new, e, items[e], first, n)
          /\ DigestsAre(old, items[e], first, n) => DigestsAre(new, items[e], first, n)
      BY <2>3, <2>7, <3>1, <3>2, <3>3, <3>4, RunStays
    <3> QED  BY <1>1, <3>1, <3>2, <3>5 DEF WholeIn
  <2>11. WholeIn(new, e0, item, touches')
    <3>1. /\ RunOf(new, e0, item, Len(old), Len(blocks))
          /\ \A k \in 1 .. Len(blocks) : new[Len(old) + k].hash = blocks[k].data
      <4>1. new = old \o RecordsOf(e0, blocks) /\ old \in Seq(Record)  BY <1>0, <2>3
      <4> HIDE DEF new, old, e0, blocks, item
      <4> QED  BY <2>1, <2>4, <2>6, <4>1, RunStarts
    <3>2. ASSUME touches = 0 PROVE DigestsAre(new, item, Len(old), Len(blocks))
      <4>1. /\ Len(blocks) = BlockCount(Len(m.whole_image), m.block_size)
            /\ \A k \in 1 .. Len(blocks) :
                 blocks[k].data = BlocksOf(m.whole_image, m.block_size)[k]
        BY <2>1, <3>2, StoredBlocks
      <4> DEFINE f == [k \in 1 .. Len(blocks) |-> new[Len(old) + k].hash]
      <4>2. \A k \in 1 .. Len(blocks) : f[k] = BlocksOf(m.whole_image, m.block_size)[k]
        BY <3>1, <4>1
      <4>3. f = [k \in 1 .. Len(blocks) |-> f[k]]  OBVIOUS
      <4> HIDE DEF f, new, old, blocks, item, m
      <4>4. f = BlocksOf(m.whole_image, m.block_size)
        BY <4>1, <4>2, <4>3, BlocksAreDigests
      <4> QED  BY <2>2, <4>4 DEF DigestsAre, f
    <3>3. Len(old) \in 0 .. Len(new) /\ Len(blocks) \in 0 .. Len(new)
      <4> HIDE DEF new, blocks
      <4>1. Len(new) = Len(old) + Len(blocks) /\ Len(blocks) \in Nat  BY <2>8
      <4> QED  BY <1>0, <4>1
    <3> HIDE DEF new, old, blocks, item
    <3> QED  BY <1>1, <3>1, <3>2, <3>3 DEF WholeIn
  <2>12. ASSUME NEW e \in DOMAIN db'.evidence PROVE WholeIn(new, e, db'.evidence[e], touches')
    <3>1. e \in DOMAIN items \/ e = e0  BY <1>0, <2>5, <2>12
    <3>2. CASE e \in DOMAIN items
      <4>1. db'.evidence[e] = items[e]  BY <2>5, <3>2
      <4> HIDE DEF new, items
      <4> QED  BY <2>10, <3>2, <4>1
    <3>3. CASE e = e0
      <4>1. db'.evidence[e] = item  BY <2>5, <3>3
      <4> HIDE DEF new, item
      <4> QED  BY <2>11, <3>3, <4>1
    <3> QED  BY <3>1, <3>2, <3>3
  <2> QED  BY <2>9, <2>12 DEF ExtractionInv
<1>4. ASSUME NEW p \in Procs, \/ Audits(p) \/ Adds(p, "carve", "carved")
                              \/ Adds(p, "correlate", "events")
                              \/ Adds(p, "analyze", "detections")
      PROVE  db'.evidence = db.evidence /\ db'.records = db.records
  BY <1>4 DEF Audits, Adds, TablesKept
<1> QED  BY <1>2, <1>3, <1>4, NextSteps, DbStepCases

LEMMA ExtractionsWhole == ExtractionInv => ExtractionIsWhole
<1> SUFFICES ASSUME ExtractionInv, NEW e \in DOMAIN db.evidence
             PROVE  \E first, n \in 0 .. Len(db.records) :
                      /\ RowsOf(e) = first + 1 .. first + n
                      /\ n <= db.evidence[e].block_count
                      /\ \A k \in 1 .. n : db.records[first + k].block_index = k
                      /\ touches = 0 =>
                           [k \in 1 .. n |-> db.records[first + k].hash]
                             = BlocksOf(db.evidence[e].whole_image, db.evidence[e].block_size)
  BY DEF ExtractionIsWhole
<1>1. WholeIn(db.records, e, db.evidence[e], touches)  BY DEF ExtractionInv
<1>2. RowsOf(e) = RowsIn(db.records, e)  BY DEF RowsOf, RowsIn
<1> QED  BY <1>1, <1>2 DEF WholeIn, RunOf, DigestsAre

LEMMA ExtractionAlways == Spec => []ExtractionInv
<1>1. Init => ExtractionInv  BY DEF Init, EmptyDb, ExtractionInv
<1>2. TypeInv /\ StillInv /\ ExtractionInv /\ [Next]_vars => ExtractionInv'
  BY ExtractionKept
<1> QED  BY <1>1, <1>2, TypesInvariant, StillAlways, PTL DEF Spec

(***************************************************************************)
(* Kills, short blocks, re-runs and commands side by side never leave half *)
(* an extraction in the database, nor mix two; and what was extracted from *)
(* a medium nobody wrote has the digest of every block that was acquired.  *)
(***************************************************************************)
THEOREM ExtractionsAreWhole == Spec => []ExtractionIsWhole
BY ExtractionAlways, ExtractionsWhole, PTL

----------------------------------------------------------------------------
\* No false alarm.

LEMMA NothingIsDenied ==
  ASSUME TypeInv, StillInv, ExtractionInv, touches = 0, NEW q \in Procs,
         At(q, "verify", "compare"),
         {db.evidence[e].block_size : e \in DOMAIN db.evidence} \subseteq {job[q].m.block_size},
         NEW dbrows \in {{}, DbDiscrepancies(job[q])}
  PROVE  IsPristine(job[q], dbrows)
<1> DEFINE j == job[q]
           b == j.m.block_size
<1>1. j.m \in Manifests /\ j \in Jobs /\ j.cmd = "verify" /\ j.pc = "compare"
  BY AtFacts DEF TypeInv, At
<1>2. /\ DescribesIt(j.m, image) /\ Reads(j, image) /\ BlocksRead(j, image)
      /\ Len(j.got) = j.m.block_count
  BY <1>1 DEF StillInv, Still, Intact
<1>3. j.m.whole_image = image /\ image \in Images  BY <1>1, <1>2 DEF DescribesIt, TypeInv, WorldInv
<1>4. j.read = j.m.whole_image
  <2> HIDE DEF j
  <2> QED  BY <1>1, <1>2, <1>3, AllIsRead
<1>5. /\ j.m.block_hashes = BlocksOf(image, b)
      /\ j.m.block_count = BlockCount(Len(image), b)
  BY <1>1, <1>3, ManifestFields
<1>6. \A k \in 1 .. Len(j.got) : j.got[k].data = BlocksOf(image, b)[k]
  BY <1>2 DEF BlocksRead
<1>7. DOMAIN j.got = 1 .. Len(j.got) /\ Len(j.got) \in Nat
  BY <1>1, JobFields, LenProperties
<1>8. BlockDiscrepancies(j) = {}  BY <1>5, <1>6, <1>7 DEF BlockDiscrepancies
<1>9. DbDiscrepancies(j) = {}
  <2> SUFFICES ASSUME NEW i \in DOMAIN db.records
               PROVE  /\ db.records[i].block_index \in 1 .. Len(j.got)
                      /\ j.got[db.records[i].block_index].data = db.records[i].hash
    BY <1>7 DEF DbDiscrepancies
  <2> DEFINE e == db.records[i].evidence_id
             item == db.evidence[e]
  <2>1. e \in DOMAIN db.evidence /\ WholeIn(db.records, e, item, touches)
    BY DEF ExtractionInv
  <2>2. item.whole_image = image /\ item.block_size = b
    BY <2>1 DEF StillInv, Still
  <2>3. Len(db.records) \in Nat  BY TablesAre
  <2>4. PICK first \in 0 .. Len(db.records), n \in 0 .. Len(db.records) :
          RunOf(db.records, e, item, first, n) /\ DigestsAre(db.records, item, first, n)
    BY <2>1 DEF WholeIn
  <2>5. i \in RowsIn(db.records, e)  BY DEF RowsIn
  <2>6. i \in first + 1 .. first + n  BY <2>4, <2>5 DEF RunOf
  <2> DEFINE k == i - first
  <2>7. k \in 1 .. n /\ first + k = i  BY <2>3, <2>6
  <2>8. db.records[i].block_index = k  BY <2>4, <2>7 DEF RunOf
  <2> DEFINE f == [l \in 1 .. n |-> db.records[first + l].hash]
  <2>9. f = BlocksOf(image, b)  BY <2>2, <2>4 DEF DigestsAre
  <2>10. DOMAIN f = 1 .. n /\ f[k] = db.records[i].hash  BY <2>7
  <2> HIDE DEF f, k, e, item, b
  <2>11. DOMAIN BlocksOf(image, b) = 1 .. Len(j.got)  BY <1>2, <1>5 DEF BlocksOf
  <2>12. k \in 1 .. Len(j.got)  BY <2>7, <2>9, <2>10, <2>11
  <2>13. j.got[k].data = BlocksOf(image, b)[k]  BY <1>6, <2>12
  <2> QED  BY <2>8, <2>9, <2>10, <2>12, <2>13
<1> QED  BY <1>4, <1>8, <1>9 DEF IsPristine

LEMMA NoFalseAlarmKept ==
  ASSUME TypeInv, StillInv, ExtractionInv, NoFalseAlarm, [Next]_vars
  PROVE  NoFalseAlarm'
<1> SUFFICES ASSUME NEW q \in Procs, touches' = 0, verdict'[q].given,
                    verdict'[q].block_sizes \subseteq {verdict'[q].m.block_size}
             PROVE  verdict'[q].is_pristine
  BY DEF NoFalseAlarm
<1>0. touches = 0  BY MediumStays
<1>1. CASE verdict'[q] = verdict[q]  BY <1>0, <1>1 DEF NoFalseAlarm
<1>2. CASE verdict'[q] = NoVerdict  BY <1>2 DEF NoVerdict
<1>3. CASE Judges(q)
  <2>1. At(q, "verify", "compare")  BY <1>3 DEF Judges
  <2>2. PICK dbrows \in {{}, DbDiscrepancies(job[q])} :
          verdict'[q] = VerdictOf(q, IsPristine(job[q], dbrows))
    BY <1>3 DEF Judges
  <2>3. {db.evidence[e].block_size : e \in DOMAIN db.evidence} \subseteq {job[q].m.block_size}
    BY <2>2 DEF VerdictOf
  <2>4. IsPristine(job[q], dbrows)  BY <1>0, <2>1, <2>3, NothingIsDenied
  <2> QED  BY <2>2, <2>4 DEF VerdictOf
<1> QED  BY <1>1, <1>2, <1>3, VerdictMoves

(***************************************************************************)
(* A verification of a medium that nobody ever wrote says "pristine",      *)
(* whatever was acquired, parsed and carved how often before and beside    *)
(* it, as long as the database knows no block size but the manifest's.     *)
(***************************************************************************)
THEOREM NoAlarmIsFalse == Spec => []NoFalseAlarm
<1>1. Init => NoFalseAlarm  BY DEF Init, NoFalseAlarm, NoVerdict
<1>2. TypeInv /\ StillInv /\ ExtractionInv /\ NoFalseAlarm /\ [Next]_vars => NoFalseAlarm'
  BY NoFalseAlarmKept
<1> QED  BY <1>1, <1>2, TypesInvariant, StillAlways, ExtractionAlways, PTL DEF Spec
=============================================================================

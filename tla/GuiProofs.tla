------------------------------ MODULE GuiProofs ------------------------------
(***************************************************************************)
(* Gui, for every set of cases, images and sources and any number of       *)
(* clicks and kills: types, that the certificate is never older than the   *)
(* documents beside it, and that a report the page heard of is the one the *)
(* server serves.                                                          *)
(***************************************************************************)
EXTENDS Gui, Integers, FiniteSets, FiniteSetTheorems, TLAPS

USE CasesAssumption, ImagesAssumption, BoundsAssumption

FileNames == {"certificate", "json", "markdown"}

Contents == Images \cup {NoImage}

\* The requests the page can have made.
AcquireRequests == [kind : {"acquire"}, id : 1 .. clicks, case : Cases, source : Sources]
OtherRequests   == [kind : {"look", "report"}, id : 1 .. clicks, case : Cases]
Requests        == AcquireRequests \cup OtherRequests

Files == [stamp : 0 .. stamps, image : Contents, whole : BOOLEAN]

Directories ==
  [manifest : Contents, certificate : Files, json : Files, markdown : Files]

(***************************************************************************)
(* The server's types: a request in hand is of the kind it says, and a     *)
(* report in hand is the last one begun.                                   *)
(***************************************************************************)
ServerTypes ==
  /\ stamps \in Nat
  /\ disk \in [Cases -> Directories]
  /\ last_case_dir \in Cases
  /\ serving # NoRequest =>
       /\ serving \in [kind : {"acquire", "look", "report"}, request : Requests,
                       image : Contents, stamp : Nat, file : 1 .. 4]
       /\ serving.kind = serving.request.kind

(***************************************************************************)
(* The page's types, and those of what is under way between the two.       *)
(***************************************************************************)
PageTypes ==
  /\ clicks \in Nat /\ clicks <= MaxClicks
  /\ waiting \subseteq Requests
  /\ \A a \in answers :
       /\ a.request \in Requests
       /\ a.reply.success \in BOOLEAN
       /\ a.request.kind = "report" /\ a.reply.success => a.reply.stamp \in Nat \ {0}
  /\ currentCaseDir \in Cases
  /\ doc \in [case : Cases \cup {NoCase}, sha256 : {doc.sha256}]
  /\ download \in BOOLEAN
  /\ settled \in [case : Cases \cup {NoCase}, stamp : Nat]

(***************************************************************************)
(* The progress bar stands for a click on the case the page still names.   *)
(***************************************************************************)
ProgressInv ==
  acquiring = NotAcquiring \/
    /\ acquiring \in [case : Cases, click : Nat \ {0}, manifest : {acquiring.manifest}]
    /\ acquiring.case = currentCaseDir

(***************************************************************************)
(* There is a click to every report begun and every request waiting.       *)
(***************************************************************************)
CountInv ==
  /\ IsFiniteSet(waiting)
  /\ stamps + Cardinality(waiting) <= clicks

(***************************************************************************)
(* A request is in one place: waiting, in the server's hands, or answered  *)
(* once.                                                                   *)
(***************************************************************************)
UniqueInv ==
  /\ \A r \in waiting : \A a \in answers : a.request # r
  /\ serving # NoRequest =>
       /\ serving.request \notin waiting
       /\ \A a \in answers : a.request # serving.request
  /\ \A a, b \in answers : a.request = b.request => a = b

(***************************************************************************)
(* The request in hand moved last_case_dir to its case, and of a report in *)
(* hand the files before the next one are written, the others are older.   *)
(***************************************************************************)
ServingInv ==
  /\ serving.kind \in {"look", "report"} => last_case_dir = serving.request.case
  /\ serving.kind = "report" =>
       /\ serving.stamp = stamps /\ stamps > 0
       /\ \A k \in 1 .. 3 :
            LET file == disk[serving.request.case][ReportFiles[k]]
            IN  IF k < serving.file
                THEN file = [stamp |-> serving.stamp, image |-> serving.image, whole |-> TRUE]
                ELSE file.stamp < serving.stamp

\* The server serves report n of case c.
Serves(c, n) ==
  /\ last_case_dir = c
  /\ \A f \in FileNames : disk[c][f].whole /\ disk[c][f].stamp = n

(***************************************************************************)
(* While a report may be relied on: of what is under way, one request at   *)
(* most is for a report, the others look at the same case; and a report    *)
(* that was made, heard of or not, is served.                              *)
(***************************************************************************)
SettledInv ==
  /\ settled.case = NoCase => settled.stamp = 0
  /\ settled.case # NoCase =>
       /\ settled.case = currentCaseDir
       /\ \A r \in Outstanding : r.case = settled.case /\ r.kind \in {"look", "report"}
       /\ \A r, s \in Outstanding : r.kind = "report" /\ s.kind = "report" => r = s
       /\ \A a \in answers :
            a.request.kind = "report" /\ a.reply.success => Serves(settled.case, a.reply.stamp)
  /\ settled.stamp > 0 =>
       /\ \A r \in Outstanding : r.kind = "look"
       /\ Serves(settled.case, settled.stamp)
       /\ download

IInv ==
  /\ ServerTypes /\ PageTypes /\ ProgressInv /\ CountInv
  /\ UniqueInv /\ ServingInv
  /\ CertificateIsTheNewest
  /\ SettledInv

----------------------------------------------------------------------------
\* Facts about the sets above.

(***************************************************************************)
(* The three files of a report, in the order they are written.             *)
(***************************************************************************)
LEMMA ReportFilesFact ==
  /\ Len(ReportFiles) = 3
  /\ ReportFiles[1] = "certificate" /\ ReportFiles[2] = "json" /\ ReportFiles[3] = "markdown"
  /\ \A k \in 1 .. 3 : ReportFiles[k] \in FileNames
  /\ \A f \in FileNames : \E k \in 1 .. 3 : ReportFiles[k] = f
  /\ \A k, l \in 1 .. 3 : ReportFiles[k] = ReportFiles[l] => k = l
<1>1. ReportFiles = <<"certificate", "json", "markdown">>
  BY DEF ReportFiles
<1>2. ReportFiles[1] = "certificate" /\ ReportFiles[2] = "json" /\ ReportFiles[3] = "markdown"
  BY <1>1
<1>3. \A k \in 1 .. 3 : k = 1 \/ k = 2 \/ k = 3
  OBVIOUS
<1>4. /\ \A k \in 1 .. 3 : ReportFiles[k] \in FileNames
      /\ \A f \in FileNames : \E k \in 1 .. 3 : ReportFiles[k] = f
      /\ \A k, l \in 1 .. 3 : ReportFiles[k] = ReportFiles[l] => k = l
  BY <1>2, <1>3 DEF FileNames
<1> QED  BY <1>1, <1>2, <1>4

(***************************************************************************)
(* Requests stay requests when more is clicked, files stay files when more *)
(* reports are begun.                                                      *)
(***************************************************************************)
LEMMA RequestsGrow ==
  ASSUME clicks \in Nat, clicks' \in Nat, clicks <= clicks'
  PROVE  Requests \subseteq Requests'
<1>1. \A k \in 1 .. clicks : k \in 1 .. clicks'
  OBVIOUS
<1> QED  BY <1>1 DEF Requests, AcquireRequests, OtherRequests

LEMMA DirectoriesGrow ==
  ASSUME stamps \in Nat, stamps' \in Nat, stamps <= stamps'
  PROVE  Directories \subseteq Directories'
<1>1. \A k \in 0 .. stamps : k \in 0 .. stamps'
  OBVIOUS
<1>2. Files \subseteq Files'
  BY <1>1 DEF Files
<1> QED  BY <1>2 DEF Directories

LEMMA RequestFields ==
  ASSUME NEW r \in Requests
  PROVE  /\ r.case \in Cases /\ r.kind \in {"acquire", "look", "report"}
         /\ r.id \in 1 .. clicks
         /\ r.kind = "acquire" => r.source \in Sources
BY DEF Requests, AcquireRequests, OtherRequests

(***************************************************************************)
(* A directory holds a file of the right type under each name.             *)
(***************************************************************************)
LEMMA FileFields ==
  ASSUME ServerTypes, NEW c \in Cases
  PROVE  /\ disk[c] \in Directories
         /\ disk[c].manifest \in Contents
         /\ \A f \in FileNames :
              /\ disk[c][f] \in Files
              /\ disk[c][f].stamp \in 0 .. stamps
              /\ disk[c][f].image \in Contents
              /\ disk[c][f].whole \in BOOLEAN
<1>1. disk[c] \in Directories
  BY DEF ServerTypes
<1>2. \A f \in FileNames : disk[c][f] \in Files
  BY <1>1 DEF Directories, FileNames
<1> QED  BY <1>1, <1>2 DEF Directories, Files

----------------------------------------------------------------------------
\* The steps.

LEMMA InitInv == Init => IInv
<1> SUFFICES ASSUME Init  PROVE IInv
  OBVIOUS
<1> USE DEF Init
<1>1. NoFile \in Files /\ stamps = 0
  BY DEF NoFile, Files, Contents
<1>2. ServerTypes
  <2>1. disk \in [Cases -> Directories]
    BY <1>1 DEF Directories, Contents
  <2> QED  BY <1>1, <2>1 DEF ServerTypes
<1>3. PageTypes
  <2>1. settled \in [case : Cases \cup {NoCase}, stamp : Nat]
    BY DEF NoReport
  <2>2. doc \in [case : Cases \cup {NoCase}, sha256 : {doc.sha256}]
    OBVIOUS
  <2>3. clicks \in Nat /\ clicks <= MaxClicks
    OBVIOUS
  <2>4. waiting \subseteq Requests /\ answers = {}
    OBVIOUS
  <2>5. currentCaseDir \in Cases /\ download \in BOOLEAN
    OBVIOUS
  <2> HIDE DEF Init
  <2> QED  BY <2>1, <2>2, <2>3, <2>4, <2>5 DEF PageTypes
<1>7. ProgressInv /\ UniqueInv
  BY DEF ProgressInv, UniqueInv
<1>8. ServingInv
  BY DEF ServingInv, NoRequest
<1>4. CountInv
  <2>1. IsFiniteSet(waiting) /\ Cardinality(waiting) = 0
    BY FS_EmptySet
  <2> QED  BY <2>1 DEF CountInv
<1>5. CertificateIsTheNewest
  <2>1. \A c \in Cases : disk[c].markdown = NoFile /\ disk[c].json = NoFile
                          /\ disk[c].certificate = NoFile
    OBVIOUS
  <2>2. \A c \in Cases : \A f \in FileNames : disk[c][f] = NoFile
    BY <2>1 DEF FileNames
  <2>3. NoFile.stamp <= NoFile.stamp
    BY DEF NoFile
  <2> QED  BY <2>1, <2>2, <2>3 DEF CertificateIsTheNewest, FileNames
<1>6. SettledInv
  BY DEF SettledInv, NoReport
<1> QED  BY <1>2, <1>3, <1>4, <1>5, <1>6, <1>7, <1>8 DEF IInv

(***************************************************************************)
(* A request that is sent waits, with a number of its own.                 *)
(***************************************************************************)
LEMMA SendInv ==
  ASSUME IInv, NEW r \in Requests', r.id = clicks + 1, Send(r)
  PROVE  /\ ServerTypes' /\ CountInv' /\ UniqueInv' /\ ServingInv'
         /\ CertificateIsTheNewest'
         /\ clicks' \in Nat /\ clicks' <= MaxClicks
         /\ waiting' \subseteq Requests'
         /\ \A a \in answers' :
              /\ a.request \in Requests'
              /\ a.reply.success \in BOOLEAN
              /\ a.request.kind = "report" /\ a.reply.success => a.reply.stamp \in Nat \ {0}
         /\ r \notin Outstanding /\ Outstanding' = Outstanding \cup {r}
<1> USE DEF Send, server
<1>1. clicks' \in Nat /\ clicks' = clicks + 1 /\ clicks' <= MaxClicks
  BY DEF IInv, PageTypes
<1>2. Requests \subseteq Requests'
  BY <1>1, RequestsGrow DEF IInv, PageTypes
<1>3. \A q \in Requests : q # r
  BY RequestFields DEF IInv, PageTypes
<1>4. r \notin waiting /\ (\A a \in answers : a.request # r)
  BY <1>3 DEF IInv, PageTypes
<1>5. serving # NoRequest => serving.request \in Requests
  BY DEF IInv, ServerTypes
<1>6. serving # NoRequest => serving.request # r
  BY <1>3, <1>5
<1>7. ServerTypes'
  <2>1. Directories' = Directories
    BY DEF Directories, Files
  <2>2. serving # NoRequest =>
          serving \in [kind : {"acquire", "look", "report"}, request : Requests',
                       image : Contents, stamp : Nat, file : 1 .. 4]
    BY <1>2 DEF IInv, ServerTypes
  <2> QED  BY <2>1, <2>2 DEF IInv, ServerTypes
<1>8. CountInv'
  <2>1. IsFiniteSet(waiting') /\ Cardinality(waiting') = Cardinality(waiting) + 1
    BY <1>4, FS_AddElement DEF IInv, CountInv
  <2>2. Cardinality(waiting) \in Nat
    BY FS_CardinalityType DEF IInv, CountInv
  <2> QED  BY <1>1, <2>1, <2>2 DEF IInv, CountInv, PageTypes, ServerTypes
<1>9. UniqueInv'
  BY <1>4, <1>6 DEF IInv, UniqueInv
<1>10. ServingInv' /\ CertificateIsTheNewest'
  BY DEF IInv, ServingInv, CertificateIsTheNewest
<1>11. r \notin Outstanding /\ Outstanding' = Outstanding \cup {r}
  BY <1>4, <1>6 DEF Outstanding, Unanswered
<1> QED  BY <1>1, <1>2, <1>7, <1>8, <1>9, <1>10, <1>11 DEF IInv, PageTypes

(***************************************************************************)
(* A report that may not be relied on promises nothing.                    *)
(***************************************************************************)
LEMMA UnsettledInv == ASSUME settled' = NoReport  PROVE SettledInv'
BY DEF NoReport, SettledInv

LEMMA ClickAcquireInv ==
  ASSUME IInv, NEW c \in Cases, NEW source \in Sources, ClickAcquire(c, source)
  PROVE  IInv'
<1> USE DEF ClickAcquire
<1> DEFINE r == [kind |-> "acquire", id |-> clicks + 1, case |-> c, source |-> source]
<1>1. Send(r) /\ r.id = clicks + 1
  OBVIOUS
<1>2. clicks \in Nat /\ clicks' = clicks + 1
  BY DEF Send, IInv, PageTypes
<1>3. r \in Requests'
  BY <1>2 DEF Requests, AcquireRequests
<1> HIDE DEF r
<1>4. PageTypes'
  <2>1. /\ settled' \in [case : Cases \cup {NoCase}, stamp : Nat]
        /\ UNCHANGED doc /\ UNCHANGED download /\ currentCaseDir' \in Cases
    BY DEF NoReport
  <2> QED  BY <1>1, <1>3, <2>1, SendInv DEF IInv, PageTypes
<1>5. ProgressInv'
  <2>1. acquiring' = [case |-> c, click |-> clicks + 1, manifest |-> NoImage]
    OBVIOUS
  <2>2. clicks + 1 \in Nat \ {0} /\ currentCaseDir' = c
    BY <1>2
  <2> QED  BY <2>1, <2>2 DEF ProgressInv
<1>6. SettledInv'
  BY UnsettledInv
<1> QED  BY <1>1, <1>3, <1>4, <1>5, <1>6, SendInv DEF IInv

LEMMA OpenTabInv == ASSUME IInv, OpenTab  PROVE IInv'
<1> USE DEF OpenTab, page
<1> DEFINE r == [kind |-> "look", id |-> clicks + 1, case |-> currentCaseDir]
<1>1. Send(r) /\ r.id = clicks + 1 /\ r.kind = "look" /\ r.case = currentCaseDir
  OBVIOUS
<1>2. clicks \in Nat /\ clicks' = clicks + 1 /\ currentCaseDir \in Cases
  BY DEF Send, IInv, PageTypes
<1>3. r \in Requests'
  BY <1>2 DEF Requests, OtherRequests
<1> HIDE DEF r
<1>4. PageTypes' /\ ProgressInv'
  BY <1>1, <1>3, SendInv DEF IInv, PageTypes, ProgressInv
<1>5. SettledInv'
  <2>1. Outstanding' = Outstanding \cup {r}
    BY <1>1, <1>3, SendInv
  <2>2. UNCHANGED <<disk, last_case_dir, answers, settled, currentCaseDir, download>>
    BY <1>1 DEF Send, server
  <2> QED  BY <1>1, <2>1, <2>2 DEF IInv, SettledInv, Serves
<1> QED  BY <1>1, <1>3, <1>4, <1>5, SendInv DEF IInv

(***************************************************************************)
(* A report may be relied on if nothing but looks at its case was under    *)
(* way when it was asked for.                                              *)
(***************************************************************************)
LEMMA ClickGenerateInv == ASSUME IInv, ClickGenerate  PROVE IInv'
<1> USE DEF ClickGenerate
<1> DEFINE r == [kind |-> "report", id |-> clicks + 1, case |-> currentCaseDir]
<1>1. Send(r) /\ r.id = clicks + 1 /\ r.kind = "report" /\ r.case = currentCaseDir
  OBVIOUS
<1>2. clicks \in Nat /\ clicks' = clicks + 1 /\ currentCaseDir \in Cases
  BY DEF Send, IInv, PageTypes
<1>3. r \in Requests'
  BY <1>2 DEF Requests, OtherRequests
<1> HIDE DEF r
<1>4. PageTypes' /\ ProgressInv'
  <2>1. settled' \in [case : Cases \cup {NoCase}, stamp : Nat]
    BY <1>2 DEF NoReport
  <2> QED  BY <1>1, <1>3, <2>1, SendInv DEF IInv, PageTypes, ProgressInv
<1>5. SettledInv'
  <2>1. CASE settled' = NoReport
    BY <2>1, UnsettledInv
  <2>2. CASE /\ \A q \in Outstanding : q.kind = "look" /\ q.case = currentCaseDir
             /\ settled' = [case |-> currentCaseDir, stamp |-> 0]
    <3>1. Outstanding' = Outstanding \cup {r}
      BY <1>1, <1>3, SendInv
    <3>2. UNCHANGED <<answers, currentCaseDir>>
      BY <1>1 DEF Send
    <3>3. \A a \in answers : a.request.kind = "look"
      BY <2>2 DEF Outstanding
    <3> QED  BY <1>1, <1>2, <2>2, <3>1, <3>2, <3>3 DEF SettledInv
  <2> QED  BY <2>1, <2>2
<1> QED  BY <1>1, <1>3, <1>4, <1>5, SendInv DEF IInv

----------------------------------------------------------------------------
\* The page hears, or does not wait.

(***************************************************************************)
(* What stands when the server and the requests to it are left alone and   *)
(* no answer is added.                                                     *)
(***************************************************************************)
LEMMA ServerAlone ==
  ASSUME IInv, UNCHANGED <<server, waiting, clicks>>, answers' \subseteq answers
  PROVE  /\ ServerTypes' /\ CountInv' /\ UniqueInv' /\ ServingInv'
         /\ CertificateIsTheNewest'
         /\ Requests' = Requests /\ Outstanding' \subseteq Outstanding
<1> USE DEF server
<1>1. Requests' = Requests /\ Directories' = Directories
  BY DEF Requests, AcquireRequests, OtherRequests, Directories, Files
<1>2. ServerTypes'
  BY <1>1 DEF IInv, ServerTypes
<1>3. CountInv' /\ UniqueInv'
  BY DEF IInv, CountInv, UniqueInv
<1>4. ServingInv' /\ CertificateIsTheNewest'
  BY DEF IInv, ServingInv, CertificateIsTheNewest
<1>5. Outstanding' \subseteq Outstanding
  BY DEF Outstanding, Unanswered
<1> QED  BY <1>1, <1>2, <1>3, <1>4, <1>5

LEMMA HearInv == ASSUME IInv, Hear  PROVE IInv'
<1> USE DEF Hear
<1>1. PICK a \in answers :
        /\ answers' = answers \ {a}
        /\ CASE a.request.kind = "acquire" -> HearAcquire(a)
             [] a.request.kind = "report"  -> HearReport(a)
             [] a.request.kind = "look"    -> UNCHANGED page
        /\ UNCHANGED <<server, kills, waiting, clicks>>
  OBVIOUS
<1> HIDE DEF Hear
<1>2. /\ ServerTypes' /\ CountInv' /\ UniqueInv' /\ ServingInv'
      /\ CertificateIsTheNewest'
      /\ Requests' = Requests /\ Outstanding' \subseteq Outstanding
  BY <1>1, ServerAlone
<1>3. a.request \in Requests /\ a.request.kind \in {"acquire", "look", "report"}
  BY RequestFields DEF IInv, PageTypes
<1>4. a.request \in Outstanding /\ a.request \notin Outstanding'
  <2>1. a.request \in Outstanding
    BY DEF Outstanding
  <2>2. a.request \notin waiting
    BY DEF IInv, UniqueInv
  <2>3. serving # NoRequest => serving.request # a.request
    BY DEF IInv, UniqueInv
  <2>4. \A b \in answers' : b.request # a.request
    BY <1>1 DEF IInv, UniqueInv
  <2> QED  BY <1>1, <2>1, <2>2, <2>3, <2>4 DEF Outstanding, Unanswered, server
<1>5. /\ clicks' \in Nat /\ clicks' <= MaxClicks /\ waiting' \subseteq Requests'
      /\ \A b \in answers' :
           /\ b.request \in Requests'
           /\ b.reply.success \in BOOLEAN
           /\ b.request.kind = "report" /\ b.reply.success => b.reply.stamp \in Nat \ {0}
  BY <1>1, <1>2 DEF IInv, PageTypes
<1>6. SettledInv' => IInv'
  <2>1. CASE a.request.kind = "look"
    <3>1. UNCHANGED page
      BY <1>1, <2>1
    <3> QED  BY <1>2, <1>5, <3>1 DEF page, IInv, PageTypes, ProgressInv
  <2>2. CASE a.request.kind = "acquire"
    <3>1. HearAcquire(a)
      BY <1>1, <2>2
    <3>2. PageTypes'
      BY <1>5, <3>1 DEF HearAcquire, IInv, PageTypes
    <3>3. ProgressInv'
      <4>1. CASE UNCHANGED acquiring
        BY <3>1, <4>1 DEF HearAcquire, IInv, ProgressInv
      <4>2. CASE acquiring' # acquiring
        <5>1. acquiring.click = a.request.id /\ a.request.id # 0
              /\ acquiring' = [acquiring EXCEPT !.manifest = a.reply.manifest]
          BY <1>3, <3>1, <4>2, RequestFields DEF HearAcquire, IInv, PageTypes
        <5>2. acquiring # NotAcquiring
          BY <5>1 DEF NotAcquiring
        <5> QED  BY <3>1, <5>1, <5>2 DEF HearAcquire, IInv, ProgressInv
      <4> QED  BY <4>1, <4>2
    <3> QED  BY <1>2, <3>2, <3>3 DEF IInv
  <2>3. CASE a.request.kind = "report"
    <3>1. HearReport(a)
      BY <1>1, <2>3
    <3>2. a.request.case \in Cases /\ (a.reply.success => a.reply.stamp \in Nat \ {0})
      BY <1>3, <2>3, RequestFields DEF IInv, PageTypes
    <3>3. doc' \in [case : Cases \cup {NoCase}, sha256 : {doc'.sha256}]
      BY <3>1, <3>2 DEF HearReport, IInv, PageTypes
    <3>4. settled' \in [case : Cases \cup {NoCase}, stamp : Nat]
      BY <3>1, <3>2 DEF HearReport, IInv, PageTypes
    <3>5. download' \in BOOLEAN /\ UNCHANGED <<currentCaseDir, acquiring>>
      BY <3>1 DEF HearReport
    <3>6. PageTypes' /\ ProgressInv'
      BY <1>5, <3>3, <3>4, <3>5 DEF IInv, PageTypes, ProgressInv
    <3> QED  BY <1>2, <3>6 DEF IInv
  <2> QED  BY <1>3, <2>1, <2>2, <2>3
<1>7. UNCHANGED <<disk, last_case_dir>> /\ answers' \subseteq answers
  BY <1>1 DEF server
<1>8. SettledInv'
  <2>1. CASE UNCHANGED <<settled, currentCaseDir>> /\ (download => download')
    BY <1>2, <1>7, <2>1 DEF IInv, SettledInv, Serves
  <2>2. CASE ~ UNCHANGED <<settled, currentCaseDir>> \/ ~(download => download')
    <3>1. a.request.kind = "report" /\ HearReport(a)
      BY <1>1, <1>3, <2>2 DEF page, HearAcquire
    <3>2. UNCHANGED currentCaseDir /\ (download => download')
      BY <3>1 DEF HearReport
    <3>3. a.reply.success /\ settled.case = a.request.case
          /\ settled' = [settled EXCEPT !.stamp = a.reply.stamp]
      BY <2>2, <3>1, <3>2 DEF HearReport
    <3>4. settled.case \in Cases /\ settled.case # NoCase
      BY <1>3, <3>3, RequestFields
    <3>5. /\ settled'.case = settled.case /\ settled'.stamp = a.reply.stamp
          /\ download'
      BY <3>1, <3>3 DEF HearReport, IInv, PageTypes
    <3>6. Serves(settled.case, a.reply.stamp)
      BY <3>1, <3>3, <3>4 DEF IInv, SettledInv
    <3>7. \A q \in Outstanding' : q.kind = "look" /\ q.case = settled.case
      BY <1>2, <1>4, <3>1, <3>4 DEF IInv, SettledInv
    <3>8. \A b \in answers' : b.request.kind # "report"
      BY <3>7 DEF Outstanding
    <3> QED
      BY <1>7, <3>2, <3>4, <3>5, <3>6, <3>7, <3>8 DEF IInv, SettledInv, Serves
  <2> QED  BY <2>1, <2>2
<1> QED  BY <1>6, <1>8

LEMMA ProgressEndsInv == ASSUME IInv, ProgressEnds  PROVE IInv'
<1> USE DEF ProgressEnds
<1>1. /\ ServerTypes' /\ CountInv' /\ UniqueInv' /\ ServingInv'
      /\ CertificateIsTheNewest'
      /\ Requests' = Requests /\ Outstanding' \subseteq Outstanding
  BY ServerAlone
<1>2. acquiring.case \in Cases
  BY DEF IInv, ProgressInv
<1>3. doc' \in [case : Cases \cup {NoCase}, sha256 : {doc'.sha256}]
  BY <1>2
<1>4. PageTypes' /\ ProgressInv'
  BY <1>1, <1>3 DEF IInv, PageTypes, ProgressInv
<1>5. SettledInv'
  BY <1>1 DEF IInv, SettledInv, Serves, server
<1> QED  BY <1>1, <1>4, <1>5 DEF IInv

----------------------------------------------------------------------------
\* The server.

(***************************************************************************)
(* A request that is taken is in the server's hands instead of waiting.    *)
(***************************************************************************)
LEMMA TakeInv == ASSUME IInv, Take  PROVE IInv'
<1> USE DEF Take
<1>1. PICK r \in waiting :
        /\ waiting' = waiting \ {r}
        /\ last_case_dir' = IF MovesDirectory(r) THEN r.case ELSE last_case_dir
        /\ serving' = [kind |-> r.kind, request |-> r, image |-> disk[r.case].manifest,
                       stamp |-> stamps + 1, file |-> 1]
        /\ stamps' = IF r.kind = "report" THEN stamps + 1 ELSE stamps
  OBVIOUS
<1>2. serving = NoRequest /\ UNCHANGED <<disk, kills, answers, clicks, page>>
  OBVIOUS
<1> HIDE DEF Take
<1>3. r \in Requests /\ stamps \in Nat
  BY DEF IInv, PageTypes, ServerTypes
<1>4. r.case \in Cases /\ r.kind \in {"acquire", "look", "report"}
  BY <1>3, RequestFields
<1>5. stamps' \in Nat /\ stamps <= stamps' /\ Requests' = Requests
  BY <1>1, <1>2, <1>3 DEF Requests, AcquireRequests, OtherRequests
<1>6. serving' # NoRequest /\ serving'.request = r /\ serving'.kind = r.kind
  BY <1>1, <1>4 DEF NoRequest
<1>7. ServerTypes'
  <2>1. disk' \in [Cases -> Directories']
    BY <1>2, <1>3, <1>5, DirectoriesGrow DEF IInv, ServerTypes
  <2>2. last_case_dir' \in Cases
    BY <1>1, <1>4 DEF IInv, ServerTypes
  <2>3. disk[r.case].manifest \in Contents
    BY <1>4, FileFields DEF IInv
  <2>4. serving' \in [kind : {"acquire", "look", "report"}, request : Requests',
                      image : Contents, stamp : Nat, file : 1 .. 4]
    BY <1>1, <1>3, <1>4, <1>5, <2>3
  <2> QED  BY <1>5, <1>6, <2>1, <2>2, <2>4 DEF ServerTypes
<1>8. PageTypes' /\ ProgressInv'
  BY <1>1, <1>2, <1>5 DEF IInv, PageTypes, ProgressInv, page
<1>9. CountInv'
  <2>1. IsFiniteSet(waiting') /\ Cardinality(waiting') = Cardinality(waiting) - 1
    BY <1>1, FS_RemoveElement DEF IInv, CountInv
  <2>2. Cardinality(waiting) \in Nat
    BY FS_CardinalityType DEF IInv, CountInv
  <2> QED  BY <1>1, <1>2, <1>3, <2>1, <2>2 DEF IInv, CountInv, PageTypes
<1>10. UniqueInv'
  BY <1>1, <1>2, <1>6 DEF IInv, UniqueInv
<1>11. ServingInv'
  <2>1. r.kind \in {"look", "report"} => last_case_dir' = r.case
    BY <1>1 DEF MovesDirectory
  <2>2. \A k \in 1 .. 3 : disk[r.case][ReportFiles[k]].stamp \in 0 .. stamps
    BY <1>4, FileFields, ReportFilesFact DEF IInv
  <2>3. r.kind = "report" =>
          \A k \in 1 .. 3 : ~(k < 1) /\ disk'[r.case][ReportFiles[k]].stamp < stamps + 1
    BY <1>2, <1>3, <2>2
  <2>4. serving'.stamp = stamps + 1 /\ serving'.file = 1
    BY <1>1
  <2> QED  BY <1>1, <1>3, <1>6, <2>1, <2>3, <2>4 DEF ServingInv
<1>12. CertificateIsTheNewest'
  BY <1>2 DEF IInv, CertificateIsTheNewest
<1>13. SettledInv'
  <2>1. Outstanding' = Outstanding /\ r \in Outstanding
    BY <1>1, <1>2, <1>6 DEF Outstanding, Unanswered
  <2>2. settled.case # NoCase => last_case_dir' \in {last_case_dir, settled.case}
    BY <1>1, <2>1 DEF IInv, SettledInv
  <2> QED  BY <1>2, <2>1, <2>2 DEF IInv, SettledInv, Serves, page
<1> QED
  BY <1>7, <1>8, <1>9, <1>10, <1>11, <1>12, <1>13 DEF IInv

(***************************************************************************)
(* While a report may be relied on, the server has no acquisition in       *)
(* hand; and if it has a report in hand, none was made that one relies on. *)
(***************************************************************************)
LEMMA NoneReliedOn ==
  ASSUME IInv, serving # NoRequest, serving.kind # "look", settled.case # NoCase
  PROVE  /\ serving.kind = "report"
         /\ settled.stamp = 0
         /\ \A a \in answers : a.request.kind # "report"
<1>1. serving.request \in Outstanding /\ serving.kind = serving.request.kind
  BY DEF IInv, ServerTypes, Outstanding, Unanswered
<1>2. serving.request.kind = "report"
  BY <1>1 DEF IInv, SettledInv
<1>3. settled.stamp = 0
  BY <1>1, <1>2 DEF IInv, SettledInv, PageTypes
<1>4. ASSUME NEW a \in answers, a.request.kind = "report"  PROVE FALSE
  <2>1. a.request \in Outstanding
    BY DEF Outstanding
  <2>2. a.request = serving.request
    BY <1>1, <1>2, <1>4, <2>1 DEF IInv, SettledInv
  <2> QED  BY <2>2 DEF IInv, UniqueInv
<1> QED  BY <1>1, <1>2, <1>3, <1>4

(***************************************************************************)
(* An answer ends the request in hand, and may be relied on only if what   *)
(* it says was made is served.                                             *)
(***************************************************************************)
LEMMA RespondInv ==
  ASSUME IInv, serving # NoRequest, NEW reply, Respond(reply), reply.success \in BOOLEAN,
         serving.kind = "report" /\ reply.success =>
           /\ reply.stamp \in Nat \ {0}
           /\ last_case_dir' = serving.request.case
           /\ \A f \in FileNames : /\ disk'[serving.request.case][f].whole
                                  /\ disk'[serving.request.case][f].stamp = reply.stamp,
         UNCHANGED <<disk, last_case_dir>> \/ serving.kind # "look",
         last_case_dir' \in Cases, disk' \in [Cases -> Directories], CertificateIsTheNewest'
  PROVE  IInv'
<1> USE DEF Respond
<1> DEFINE a == [request |-> serving.request, reply |-> reply]
<1>1. a.request = serving.request /\ a.reply = reply /\ answers' = answers \cup {a}
  OBVIOUS
<1> HIDE DEF a
<1>2. serving.request \in Requests /\ serving.kind = serving.request.kind
  BY DEF IInv, ServerTypes
<1>3. Requests' = Requests /\ Directories' = Directories
  BY DEF Requests, AcquireRequests, OtherRequests, Directories, Files
<1>4. ServerTypes'
  BY <1>3 DEF IInv, ServerTypes
<1>5. PageTypes' /\ ProgressInv'
  BY <1>1, <1>2, <1>3 DEF IInv, PageTypes, ProgressInv, page
<1>6. CountInv'
  BY DEF IInv, CountInv
<1>7. UniqueInv'
  BY <1>1 DEF IInv, UniqueInv
<1>8. ServingInv'
  BY DEF ServingInv, NoRequest
<1>9. SettledInv'
  <2>1. Outstanding' = Outstanding
    BY <1>1 DEF Outstanding, Unanswered
  <2>2. serving.request \in Outstanding
    BY DEF Outstanding, Unanswered
  <2>3. CASE settled.case = NoCase
    BY <2>3 DEF IInv, SettledInv, PageTypes, page
  <2>4. CASE settled.case # NoCase /\ serving.kind = "look"
    <3>1. UNCHANGED <<disk, last_case_dir, settled, currentCaseDir, download>>
      BY <2>4 DEF page
    <3>2. a.request.kind # "report"
      BY <1>1, <1>2, <2>4
    <3>3. \A b \in answers' : b.request.kind = "report" => b \in answers
      BY <1>1, <3>2
    <3> QED  BY <2>1, <3>1, <3>3 DEF IInv, SettledInv, Serves
  <2>5. CASE settled.case # NoCase /\ serving.kind # "look"
    <3>1. /\ serving.kind = "report" /\ settled.stamp = 0
          /\ \A b \in answers : b.request.kind # "report"
      BY <2>5, NoneReliedOn
    <3>2. serving.request.case = settled.case
      BY <2>2, <2>5 DEF IInv, SettledInv
    <3>3. \A b \in answers' : b.request.kind = "report" /\ b.reply.success =>
                                Serves(settled.case, b.reply.stamp)'
      BY <1>1, <3>1, <3>2 DEF page, Serves
    <3> QED  BY <2>1, <2>5, <3>1, <3>3 DEF IInv, SettledInv, page
  <2> QED  BY <2>3, <2>4, <2>5
<1> QED  BY <1>4, <1>5, <1>6, <1>7, <1>8, <1>9 DEF IInv

(***************************************************************************)
(* Writing the next file of a report, whole or not, keeps the certificate  *)
(* the newest, since the files before it are of this report and those      *)
(* behind it are older.                                                    *)
(***************************************************************************)
LEMMA WithFileInv ==
  ASSUME IInv, Certifying, serving.file <= 3, NEW whole \in BOOLEAN,
         disk' = WithFile(whole), UNCHANGED stamps
  PROVE  /\ disk' \in [Cases -> Directories]
         /\ CertificateIsTheNewest'
         /\ \A k \in 1 .. 3 :
              disk'[serving.request.case][ReportFiles[k]] =
                IF k = serving.file
                THEN [stamp |-> serving.stamp, image |-> serving.image, whole |-> whole]
                ELSE disk[serving.request.case][ReportFiles[k]]
<1> DEFINE c == serving.request.case
           n == serving.file
           f == ReportFiles[n]
           new == [stamp |-> serving.stamp, image |-> serving.image, whole |-> whole]
<1>1. /\ serving # NoRequest /\ serving.kind = "report"
      /\ n \in 1 .. 3 /\ c \in Cases /\ serving.image \in Contents
      /\ stamps \in Nat
  <2>1. serving # NoRequest /\ serving.kind = "report"
    BY DEF Certifying, NoRequest
  <2>2. serving.request \in Requests /\ n \in 1 .. 4 /\ serving.image \in Contents
    BY <2>1 DEF IInv, ServerTypes
  <2> QED  BY <2>1, <2>2, RequestFields DEF IInv, ServerTypes
<1>2. serving.stamp = stamps /\ stamps > 0
  BY <1>1 DEF IInv, ServingInv
<1>3. f \in FileNames /\ new \in Files /\ new.stamp = stamps /\ new.image = serving.image
  BY <1>1, <1>2, ReportFilesFact DEF Files
<1>4. disk' = [disk EXCEPT ![c][f] = new]
  BY DEF WithFile
<1> HIDE DEF c, n, f, new
<1>5. /\ DOMAIN disk = Cases /\ disk[c] \in Directories
      /\ DOMAIN disk[c] = {"manifest", "certificate", "json", "markdown"}
  BY <1>1, FileFields DEF IInv, ServerTypes, Directories
<1>6. /\ \A d \in Cases : d # c => disk'[d] = disk[d]
      /\ disk'[c][f] = new
      /\ \A g \in FileNames : g # f => disk'[c][g] = disk[c][g]
  BY <1>1, <1>3, <1>4, <1>5 DEF FileNames
<1>7. disk' \in [Cases -> Directories]
  <2>1. [disk[c] EXCEPT ![f] = new] \in Directories
    BY <1>3, <1>5 DEF Directories, FileNames
  <2> QED  BY <1>1, <1>4, <2>1 DEF IInv, ServerTypes
<1>8. \A k \in 1 .. 3 : disk'[c][ReportFiles[k]] =
                          IF k = n THEN new ELSE disk[c][ReportFiles[k]]
  BY <1>1, <1>6, ReportFilesFact DEF f
<1>9. \A k \in 1 .. 3 :
        LET file == disk[c][ReportFiles[k]]
        IN  IF k < n
            THEN file = [stamp |-> stamps, image |-> serving.image, whole |-> TRUE]
            ELSE file.stamp < stamps
  BY <1>1, <1>2 DEF IInv, ServingInv, c, n
<1>10. \A k \in 1 .. 3 :
         /\ k <= n => /\ disk'[c][ReportFiles[k]].stamp = stamps
                      /\ disk'[c][ReportFiles[k]].image = serving.image
         /\ k > n => /\ disk'[c][ReportFiles[k]] = disk[c][ReportFiles[k]]
                     /\ disk'[c][ReportFiles[k]].stamp < stamps
  BY <1>1, <1>3, <1>8, <1>9
<1>11. ASSUME NEW d \in Cases
       PROVE  /\ disk'[d].markdown.stamp <= disk'[d].json.stamp
              /\ disk'[d].json.stamp <= disk'[d].certificate.stamp
              /\ \A g, h \in FileNames :
                   disk'[d][g].stamp = disk'[d][h].stamp => disk'[d][g].image = disk'[d][h].image
  <2>1. CASE d # c
    BY <1>6, <2>1 DEF IInv, CertificateIsTheNewest, FileNames
  <2>2. CASE d = c
    <3>1. /\ disk[c].markdown.stamp <= disk[c].json.stamp
          /\ disk[c].json.stamp <= disk[c].certificate.stamp
          /\ \A g, h \in FileNames :
               disk[c][g].stamp = disk[c][h].stamp => disk[c][g].image = disk[c][h].image
      BY <1>1 DEF IInv, CertificateIsTheNewest, FileNames
    <3>2. \A g \in FileNames : disk[c][g].stamp \in Nat
      BY <1>1, FileFields DEF IInv
    <3>3. /\ disk'[c].markdown.stamp <= disk'[c].json.stamp
          /\ disk'[c].json.stamp <= disk'[c].certificate.stamp
      BY <1>1, <1>10, <3>1, <3>2, ReportFilesFact DEF FileNames
    <3>4. ASSUME NEW k \in 1 .. 3, NEW l \in 1 .. 3,
                 disk'[c][ReportFiles[k]].stamp = disk'[c][ReportFiles[l]].stamp
          PROVE  disk'[c][ReportFiles[k]].image = disk'[c][ReportFiles[l]].image
      <4>1. CASE k <= n /\ l <= n
        BY <1>10, <4>1
      <4>2. CASE k > n /\ l > n
        BY <1>10, <3>1, <3>4, <4>2, ReportFilesFact
      <4>3. CASE (k <= n /\ l > n) \/ (k > n /\ l <= n)
        BY <1>1, <1>10, <3>2, <3>4, <4>3, ReportFilesFact
      <4> QED  BY <1>1, <4>1, <4>2, <4>3
    <3>5. \A g, h \in FileNames :
            disk'[c][g].stamp = disk'[c][h].stamp => disk'[c][g].image = disk'[c][h].image
      BY <3>4, ReportFilesFact
    <3> QED  BY <2>2, <3>3, <3>5
  <2> QED  BY <2>1, <2>2
<1>12. CertificateIsTheNewest'
  BY <1>11 DEF CertificateIsTheNewest, FileNames
<1> QED  BY <1>7, <1>8, <1>12 DEF c, n, new

LEMMA WriteFileInv == ASSUME IInv, WriteFile  PROVE IInv'
<1> USE DEF WriteFile
<1>1. /\ serving # NoRequest /\ serving.kind = "report"
      /\ serving.file \in 1 .. 3
      /\ serving \in [kind : {"acquire", "look", "report"}, request : Requests,
                      image : Contents, stamp : Nat, file : 1 .. 4]
  <2>1. serving # NoRequest /\ serving.kind = "report"
    BY DEF Certifying, NoRequest
  <2> QED  BY <2>1, ReportFilesFact DEF IInv, ServerTypes
<1>2. /\ disk' \in [Cases -> Directories]
      /\ CertificateIsTheNewest'
      /\ \A k \in 1 .. 3 :
           disk'[serving.request.case][ReportFiles[k]] =
             IF k = serving.file
             THEN [stamp |-> serving.stamp, image |-> serving.image, whole |-> TRUE]
             ELSE disk[serving.request.case][ReportFiles[k]]
  <2>1. /\ Certifying /\ serving.file <= 3
        /\ disk' = WithFile(TRUE) /\ UNCHANGED stamps /\ TRUE \in BOOLEAN
    BY <1>1
  <2> HIDE DEF WriteFile
  <2> QED  BY <2>1, WithFileInv
<1>3. /\ serving' = [serving EXCEPT !.file = serving.file + 1]
      /\ UNCHANGED <<stamps, last_case_dir, kills, waiting, answers, clicks, page>>
  OBVIOUS
<1> HIDE DEF WriteFile
<1>4. /\ serving' \in [kind : {"acquire", "look", "report"}, request : Requests,
                       image : Contents, stamp : Nat, file : 1 .. 4]
      /\ serving'.kind = "report" /\ serving'.request = serving.request
      /\ serving'.stamp = serving.stamp /\ serving'.image = serving.image
      /\ serving'.file = serving.file + 1 /\ serving' # NoRequest
  BY <1>1, <1>3 DEF NoRequest
<1>5. Requests' = Requests /\ Directories' = Directories
  BY <1>3 DEF Requests, AcquireRequests, OtherRequests, Directories, Files
<1>6. ServerTypes'
  BY <1>1, <1>2, <1>3, <1>4, <1>5 DEF IInv, ServerTypes
<1>7. PageTypes' /\ ProgressInv' /\ CountInv'
  BY <1>3, <1>5 DEF IInv, PageTypes, ProgressInv, CountInv, page
<1>8. UniqueInv'
  BY <1>1, <1>3, <1>4 DEF IInv, UniqueInv
<1>9. ServingInv'
  <2>1. last_case_dir' = serving'.request.case /\ serving'.stamp = stamps' /\ stamps' > 0
    BY <1>1, <1>3, <1>4 DEF IInv, ServingInv
  <2>2. ASSUME NEW k \in 1 .. 3
        PROVE  LET file == disk'[serving'.request.case][ReportFiles[k]]
               IN  IF k < serving'.file
                   THEN file = [stamp |-> serving'.stamp, image |-> serving'.image,
                                whole |-> TRUE]
                   ELSE file.stamp < serving'.stamp
    BY <1>1, <1>2, <1>4 DEF IInv, ServingInv
  <2> QED  BY <2>1, <2>2 DEF ServingInv
<1>10. SettledInv'
  <2>1. Outstanding' = Outstanding
    BY <1>1, <1>3, <1>4 DEF Outstanding, Unanswered
  <2>2. CASE settled.case = NoCase
    BY <1>3, <2>2 DEF IInv, SettledInv, PageTypes, page
  <2>3. CASE settled.case # NoCase
    <3>1. settled.stamp = 0 /\ \A a \in answers : a.request.kind # "report"
      BY <1>1, <2>3, NoneReliedOn
    <3> QED  BY <1>3, <2>1, <2>3, <3>1 DEF IInv, SettledInv, page
  <2> QED  BY <2>2, <2>3
<1> QED
  BY <1>2, <1>6, <1>7, <1>8, <1>9, <1>10 DEF IInv

(***************************************************************************)
(* An acquisition changes the manifest of a directory and no report.       *)
(***************************************************************************)
LEMMA WithManifestInv ==
  ASSUME IInv, NEW c \in Cases, NEW m \in Contents,
         disk' = [disk EXCEPT ![c].manifest = m]
  PROVE  disk' \in [Cases -> Directories] /\ CertificateIsTheNewest'
<1>1. disk[c] \in Directories /\ disk \in [Cases -> Directories]
  BY FileFields DEF IInv, ServerTypes
<1>2. [disk[c] EXCEPT !.manifest = m] \in Directories
  BY <1>1 DEF Directories
<1>3. \A d \in Cases : \A f \in FileNames : disk'[d][f] = disk[d][f]
  BY <1>1 DEF Directories, FileNames
<1>4. CertificateIsTheNewest'
  BY <1>3 DEF IInv, CertificateIsTheNewest, FileNames
<1> QED  BY <1>1, <1>2, <1>4

LEMMA RepliesInv ==
  ASSUME IInv, Acquired \/ AcquireFails \/ Looked \/ Reported \/ ReportFails
  PROVE  IInv'
<1>1. /\ serving # NoRequest /\ serving.kind = serving.request.kind
      /\ serving.request \in Requests /\ serving.request.case \in Cases
      /\ serving.file \in 1 .. 4
      /\ disk \in [Cases -> Directories] /\ last_case_dir \in Cases
  <2>1. serving.kind \in {"acquire", "look", "report"}
    BY DEF Acquired, AcquireFails, Looked, Reported, Certifying, ReportFails
  <2>2. serving # NoRequest
    BY <2>1 DEF NoRequest
  <2> QED  BY <2>2, RequestFields DEF IInv, ServerTypes
<1>2. UNCHANGED disk => CertificateIsTheNewest'
  BY DEF IInv, CertificateIsTheNewest
<1>3. serving.kind = "acquire" => serving.request.source \in Sources
  BY <1>1, RequestFields
<1>4. CASE Acquired
  <2> USE <1>4 DEF Acquired
  <2>1. serving.request.source \in Contents /\ serving.kind = "acquire"
    BY <1>3 DEF Contents
  <2>2. disk' \in [Cases -> Directories] /\ CertificateIsTheNewest'
    BY <1>1, <2>1, WithManifestInv
  <2> DEFINE reply == [success |-> TRUE, manifest |-> serving.request.source]
  <2>3. Respond(reply) /\ reply.success
    OBVIOUS
  <2>4. last_case_dir' \in Cases
    BY <1>1
  <2> HIDE DEF reply
  <2> QED  BY <1>1, <2>1, <2>2, <2>3, <2>4, RespondInv
<1>5. CASE AcquireFails
  <2> USE <1>5 DEF AcquireFails
  <2>1. disk' \in [Cases -> Directories] /\ CertificateIsTheNewest'
    BY <1>1, <1>2, WithManifestInv DEF Contents
  <2> DEFINE reply == [success |-> FALSE]
  <2>2. Respond(reply) /\ ~reply.success /\ serving.kind = "acquire" /\ UNCHANGED last_case_dir
    OBVIOUS
  <2> HIDE DEF reply
  <2> QED  BY <1>1, <2>1, <2>2, RespondInv
<1>6. CASE Looked
  <2> DEFINE reply == [success |-> TRUE]
  <2>1. /\ Respond(reply) /\ reply.success /\ serving.kind = "look"
        /\ UNCHANGED <<disk, last_case_dir>>
    BY <1>6 DEF Looked
  <2> HIDE DEF reply
  <2> QED  BY <1>1, <1>2, <2>1, RespondInv
<1>7. CASE Reported
  <2> DEFINE reply == [success |-> TRUE, stamp |-> serving.stamp]
  <2>1. /\ Respond(reply) /\ reply.success /\ reply.stamp = serving.stamp
        /\ serving.kind = "report" /\ serving.file > 3
        /\ UNCHANGED <<disk, last_case_dir>>
    BY <1>7, ReportFilesFact DEF Reported, Certifying
  <2> HIDE DEF reply
  <2>2. /\ reply.stamp \in Nat \ {0}
        /\ last_case_dir = serving.request.case
        /\ \A k \in 1 .. 3 :
             /\ disk[serving.request.case][ReportFiles[k]].whole
             /\ disk[serving.request.case][ReportFiles[k]].stamp = reply.stamp
    BY <1>1, <2>1 DEF IInv, ServingInv, ServerTypes
  <2>3. \A f \in FileNames : /\ disk[serving.request.case][f].whole
                             /\ disk[serving.request.case][f].stamp = reply.stamp
    BY <2>2, ReportFilesFact
  <2> QED  BY <1>1, <1>2, <2>1, <2>2, <2>3, RespondInv
<1>8. CASE ReportFails
  <2> USE <1>8 DEF ReportFails
  <2> DEFINE reply == [success |-> FALSE]
  <2>1. Respond(reply) /\ ~reply.success /\ serving.kind = "report" /\ UNCHANGED last_case_dir
    OBVIOUS
  <2>2. UNCHANGED stamps
    BY DEF Respond
  <2>3. disk' \in [Cases -> Directories] /\ CertificateIsTheNewest'
    <3>1. CASE UNCHANGED disk
      BY <1>1, <1>2, <3>1
    <3>2. CASE Certifying /\ disk' = WithFile(FALSE)
      BY <2>2, <3>2, WithFileInv, ReportFilesFact
    <3> QED  BY <3>1, <3>2
  <2> HIDE DEF reply
  <2> QED  BY <1>1, <2>1, <2>3, RespondInv
<1> QED  BY <1>4, <1>5, <1>6, <1>7, <1>8

(***************************************************************************)
(* A kill may leave half of what was being written, and nothing to rely on.*)
(***************************************************************************)
LEMMA KillInv == ASSUME IInv, Kill  PROVE IInv'
<1> USE DEF Kill
<1>1. UNCHANGED <<stamps, answers, clicks, currentCaseDir, acquiring, doc>>
      /\ serving' = NoRequest /\ waiting' = {} /\ settled' = NoReport
      /\ last_case_dir' = DefaultCase
      /\ download' \in BOOLEAN
  BY DEF IInv, PageTypes
<1>2. disk' \in [Cases -> Directories] /\ CertificateIsTheNewest'
  <2>1. CASE UNCHANGED disk
    BY <2>1 DEF IInv, ServerTypes, CertificateIsTheNewest
  <2>2. CASE Certifying /\ serving.file <= Len(ReportFiles) /\ disk' = WithFile(FALSE)
    BY <1>1, <2>2, WithFileInv, ReportFilesFact
  <2>3. CASE /\ serving.kind = "acquire" /\ serving.request.source # NoImage
             /\ \E m \in {NoImage, serving.request.source} :
                  disk' = [disk EXCEPT ![serving.request.case].manifest = m]
    <3>1. serving # NoRequest
      BY <2>3 DEF NoRequest
    <3>2. serving.request.case \in Cases /\ serving.request.source \in Contents
      BY <2>3, <3>1, RequestFields DEF IInv, ServerTypes, Contents
    <3> QED  BY <2>3, <3>2, WithManifestInv DEF Contents
  <2> QED  BY <2>1, <2>2, <2>3 DEF HalfDone
<1> HIDE DEF Kill
<1>3. Requests' = Requests /\ Directories' = Directories
  BY <1>1 DEF Requests, AcquireRequests, OtherRequests, Directories, Files
<1>4. ServerTypes'
  BY <1>1, <1>2, <1>3 DEF IInv, ServerTypes
<1>5. PageTypes' /\ ProgressInv'
  <2>1. settled' \in [case : Cases \cup {NoCase}, stamp : Nat]
    BY <1>1 DEF NoReport
  <2> QED  BY <1>1, <1>3, <2>1 DEF IInv, PageTypes, ProgressInv
<1>6. CountInv'
  <2>1. IsFiniteSet(waiting') /\ Cardinality(waiting') = 0
    BY <1>1, FS_EmptySet
  <2>2. Cardinality(waiting) \in Nat
    BY FS_CardinalityType DEF IInv, CountInv
  <2> QED  BY <1>1, <2>1, <2>2 DEF IInv, CountInv, ServerTypes, PageTypes
<1>7. UniqueInv' /\ ServingInv'
  BY <1>1 DEF IInv, UniqueInv, ServingInv, NoRequest
<1>8. SettledInv'
  BY <1>1, UnsettledInv
<1> QED  BY <1>2, <1>4, <1>5, <1>6, <1>7, <1>8 DEF IInv

LEMMA StutterInv == ASSUME IInv, UNCHANGED vars  PROVE IInv'
<1> USE DEF vars, page
<1>1. /\ ServerTypes' /\ CountInv' /\ UniqueInv' /\ ServingInv'
      /\ CertificateIsTheNewest'
      /\ Requests' = Requests /\ Outstanding' \subseteq Outstanding
  BY ServerAlone
<1>2. PageTypes' /\ ProgressInv' /\ SettledInv'
  BY <1>1 DEF IInv, PageTypes, ProgressInv, SettledInv, Serves, server
<1> QED  BY <1>1, <1>2 DEF IInv

----------------------------------------------------------------------------
\* The theorems.

(***************************************************************************)
(* IInv holds in every reachable state, however requests are reordered,    *)
(* answers delayed and the server killed.                                  *)
(***************************************************************************)
THEOREM Invariance == Spec => []IInv
<1>1. IInv /\ [Next]_vars => IInv'
  <2> SUFFICES ASSUME IInv, [Next]_vars  PROVE IInv'
    OBVIOUS
  <2>1. CASE Click
    BY <2>1, ClickAcquireInv, OpenTabInv, ClickGenerateInv DEF Click
  <2>2. CASE Serve
    BY <2>2, TakeInv, WriteFileInv, RepliesInv DEF Serve
  <2>3. CASE Hear \/ ProgressEnds \/ Kill
    BY <2>3, HearInv, ProgressEndsInv, KillInv
  <2>4. CASE UNCHANGED vars
    BY <2>4, StutterInv
  <2> QED  BY <2>1, <2>2, <2>3, <2>4 DEF Next
<1> QED  BY <1>1, InitInv, PTL DEF Spec

(***************************************************************************)
(* Every variable of the page and the server keeps its type, and no more   *)
(* reports are begun than were asked for (gui/src/main.rs, index.html).    *)
(***************************************************************************)
THEOREM TypeCorrect == Spec => []TypeOK
<1>1. IInv => TypeOK
  <2> SUFFICES ASSUME IInv  PROVE TypeOK
    OBVIOUS
  <2>1. \A r \in Outstanding : r \in Requests
    BY DEF IInv, PageTypes, ServerTypes, Outstanding, Unanswered
  <2>2. \A r \in Outstanding : r.case \in Cases /\ r.id \in 1 .. clicks
    BY <2>1, RequestFields
  <2>3. stamps \in 0 .. MaxClicks
    <3>1. Cardinality(waiting) \in Nat
      BY FS_CardinalityType DEF IInv, CountInv
    <3> QED  BY <3>1 DEF IInv, CountInv, ServerTypes, PageTypes
  <2>4. \A c \in Cases : \A f \in FileNames : disk[c][f].stamp \in 0 .. stamps
    BY FileFields DEF IInv
  <2>5. serving # NoRequest => serving.file \in 1 .. Len(ReportFiles) + 1
    BY ReportFilesFact DEF IInv, ServerTypes
  <2>6. doc.case \in Cases \cup {NoCase} /\ download \in BOOLEAN
    BY DEF IInv, PageTypes
  <2> QED
    BY <2>2, <2>3, <2>4, <2>5, <2>6
       DEF IInv, ServerTypes, PageTypes, ProgressInv, TypeOK, FileNames
<1> QED  BY <1>1, Invariance, PTL

(***************************************************************************)
(* A report the page has heard of, and the examiner has done nothing since *)
(* to change, is what the server serves (last_case_dir).                   *)
(***************************************************************************)
THEOREM HeardReportIsServed == Spec => []ServedIsTheReport
<1>1. IInv => ServedIsTheReport
  BY DEF IInv, SettledInv, PageTypes, Serves, Served, ServedIsTheReport, FileNames
<1> QED  BY <1>1, Invariance, PTL

(***************************************************************************)
(* No document on disk is of a later report than its certificate           *)
(* (generate_case_report, killed or failing at any file).                  *)
(***************************************************************************)
THEOREM CertificateFirst == Spec => []CertificateIsTheNewest
<1>1. IInv => CertificateIsTheNewest  BY DEF IInv
<1> QED  BY <1>1, Invariance, PTL
===============================================================================

--------------------------------- MODULE Gui ---------------------------------
(***************************************************************************)
(* The workstation: a page in the browser (gui/web/index.html) and a       *)
(* server that answers one request at a time (gui/src/main.rs).  The page  *)
(* does not wait: requests lie on connections of their own, are taken in   *)
(* any order, and answers are heard late.  The server remembers one        *)
(* directory, last_case_dir, whose report it serves; it may be killed and  *)
(* started again.  Requests that leave both alone (identify,               *)
(* analyze-video, the assets) are left out.                                *)
(***************************************************************************)
EXTENDS Naturals, Sequences

CONSTANTS
  Cases,        \* cases, each with a directory of its own
  DefaultCase,  \* --case-dir, and what the page starts with
  DefaultImage, \* what is acquired in its directory at the start, or NoImage
  Images,       \* contents of evidence
  Sources,      \* the sources an examiner names: contents, or NoImage
  NoImage,      \* a source that cannot be read; no complete manifest
  Reference,    \* the digest written in the page
  NoCase,       \* no case
  MaxClicks,    \* bound: requests the page makes
  MaxKills      \* bound: how often the server is killed

ASSUME CasesAssumption == DefaultCase \in Cases /\ NoCase \notin Cases
ASSUME ImagesAssumption ==
  /\ NoImage \notin Images /\ Reference \notin Images
  /\ DefaultImage \in Images \cup {NoImage} /\ Sources \subseteq Images \cup {NoImage}
ASSUME BoundsAssumption == MaxClicks \in Nat /\ MaxKills \in Nat

VARIABLES
  disk,            \* disk[c]: the manifest and the report in the directory of c
  stamps,          \* reports begun; the last one's time stamp
  last_case_dir,   \* the directory the server serves documents of
  serving,         \* the request in the server's hands, or NoRequest
  kills,
  waiting,         \* requests sent and not taken yet
  answers,         \* answers the page has not heard yet
  clicks,
  currentCaseDir,  \* the directory the page names in its requests
  acquiring,       \* the acquisition the page's progress bar stands for
  doc,             \* the case and the SHA-256 shown on the certificate screen
  download,        \* the download button is shown
  settled          \* history: the report the examiner may rely on, or NoReport

server == <<disk, stamps, last_case_dir, serving>>
page   == <<currentCaseDir, acquiring, doc, download, settled>>
vars   == <<server, kills, waiting, answers, clicks, page>>

NoRequest == [kind |-> "none"]
NoReport  == [case |-> NoCase, stamp |-> 0]
NotAcquiring == [case |-> NoCase, click |-> 0, manifest |-> NoImage]
NoFile    == [stamp |-> 0, image |-> NoImage, whole |-> FALSE]

\* Mutant: the documents are written before the certificate.
DocumentsFirst == <<"json", "markdown", "certificate">>

\* generate_case_report writes the certificate, then the two documents.
ReportFiles == <<"certificate", "json", "markdown">>

Init ==
  /\ disk = [c \in Cases |->
               [manifest |-> IF c = DefaultCase THEN DefaultImage ELSE NoImage,
                certificate |-> NoFile, json |-> NoFile, markdown |-> NoFile]]
  /\ stamps = 0
  /\ last_case_dir = DefaultCase
  /\ serving = NoRequest
  /\ kills = 0
  /\ waiting = {}
  /\ answers = {}
  /\ clicks = 0
  /\ currentCaseDir = DefaultCase
  /\ acquiring = NotAcquiring
  /\ doc = [case |-> NoCase, sha256 |-> Reference]
  /\ download = FALSE
  /\ settled = NoReport

----------------------------------------------------------------------------
\* The page.

\* Requests sent, without an answer, and those whose answer is not heard yet.
Unanswered == waiting \cup (IF serving = NoRequest THEN {} ELSE {serving.request})
Outstanding == Unanswered \cup {a.request : a \in answers}

Send(r) ==
  /\ clicks < MaxClicks
  /\ clicks' = clicks + 1
  /\ waiting' = waiting \cup {r}
  /\ UNCHANGED <<server, kills, answers>>

\* Mutant: the page goes on naming the former directory.
ClickAcquireOnly(c, source) ==
  /\ acquiring = NotAcquiring
  /\ Send([kind |-> "acquire", id |-> clicks + 1, case |-> c, source |-> source])
  /\ acquiring' = [case |-> c, click |-> clicks + 1, manifest |-> NoImage]
  /\ settled' = NoReport
  /\ UNCHANGED <<currentCaseDir, doc, download>>

\* acquireBtn: disabled only while the progress bar runs.
ClickAcquire(c, source) ==
  /\ acquiring = NotAcquiring
  /\ Send([kind |-> "acquire", id |-> clicks + 1, case |-> c, source |-> source])
  /\ currentCaseDir' = c
  /\ acquiring' = [case |-> c, click |-> clicks + 1, manifest |-> NoImage]
  /\ settled' = NoReport
  /\ UNCHANGED <<doc, download>>

\* The tabs "parse" and "timeline" ask for the rows of the current case.
OpenTab ==
  /\ Send([kind |-> "look", id |-> clicks + 1, case |-> currentCaseDir])
  /\ UNCHANGED page

\* genCertBtn is never disabled.
ClickGenerate ==
  /\ Send([kind |-> "report", id |-> clicks + 1, case |-> currentCaseDir])
  /\ settled' = IF \A r \in Outstanding : r.kind = "look" /\ r.case = currentCaseDir
                THEN [case |-> currentCaseDir, stamp |-> 0]
                ELSE NoReport
  /\ UNCHANGED <<currentCaseDir, acquiring, doc, download>>

\* data.manifest is kept for the progress bar of the click it answers.
HearAcquire(a) ==
  /\ acquiring' = IF acquiring.click = a.request.id /\ a.reply.success
                  THEN [acquiring EXCEPT !.manifest = a.reply.manifest] ELSE acquiring
  /\ UNCHANGED <<currentCaseDir, doc, download, settled>>

HearReport(a) ==
  /\ download' = (download \/ a.reply.success)
  /\ doc' = IF a.reply.success THEN [doc EXCEPT !.case = a.request.case] ELSE doc
  /\ settled' = IF a.reply.success /\ settled.case = a.request.case
                THEN [settled EXCEPT !.stamp = a.reply.stamp] ELSE settled
  /\ UNCHANGED <<currentCaseDir, acquiring>>

Hear ==
  \E a \in answers :
    /\ answers' = answers \ {a}
    /\ CASE a.request.kind = "acquire" -> HearAcquire(a)
         [] a.request.kind = "report"  -> HearReport(a)
         [] a.request.kind = "look"    -> UNCHANGED page
    /\ UNCHANGED <<server, kills, waiting, clicks>>

\* An AcquisitionManifest as the page gets it, in JSON.
AsJson(image) ==
  IF image = NoImage THEN <<>> ELSE [whole_image_sha256 |-> image]

\* (apiManifest && apiManifest.sha256) || '4c1a9e7f...'
ShownDigest(manifest) ==
  IF "sha256" \in DOMAIN manifest THEN manifest["sha256"] ELSE Reference

\* The progress bar is done after a while, whatever the server does.
ProgressEnds ==
  /\ acquiring # NotAcquiring
  /\ doc' = [case |-> acquiring.case, sha256 |-> ShownDigest(AsJson(acquiring.manifest))]
  /\ acquiring' = NotAcquiring
  /\ UNCHANGED <<server, kills, waiting, answers, clicks, currentCaseDir, download, settled>>

----------------------------------------------------------------------------
\* The server: one request at a time, to the end.

\* Mutant: a report does not move last_case_dir.
KeepsDirectory(r) == r.kind = "look"

\* The handlers of parse, timeline-analytics and report set last_case_dir
\* before they look for anything.
MovesDirectory(r) == r.kind \in {"look", "report"}

Take ==
  /\ serving = NoRequest
  /\ \E r \in waiting :
       /\ waiting' = waiting \ {r}
       /\ last_case_dir' = IF MovesDirectory(r) THEN r.case ELSE last_case_dir
       /\ serving' = [kind |-> r.kind, request |-> r, image |-> disk[r.case].manifest,
                      stamp |-> stamps + 1, file |-> 1]
       /\ stamps' = IF r.kind = "report" THEN stamps + 1 ELSE stamps
  /\ UNCHANGED <<disk, kills, answers, clicks, page>>

\* The request in the server's hands is answered.
Respond(reply) ==
  /\ answers' = answers \cup {[request |-> serving.request, reply |-> reply]}
  /\ serving' = NoRequest
  /\ UNCHANGED <<stamps, kills, waiting, clicks, page>>

\* acquire_evidence succeeds: only now is its directory the last one.
Acquired ==
  /\ serving.kind = "acquire"
  /\ serving.request.source # NoImage
  /\ disk' = [disk EXCEPT ![serving.request.case].manifest = serving.request.source]
  /\ last_case_dir' = serving.request.case
  /\ Respond([success |-> TRUE, manifest |-> serving.request.source])

\* It fails, before or after the manifest was truncated.
AcquireFails ==
  /\ serving.kind = "acquire"
  /\ \/ UNCHANGED disk
     \/ /\ serving.request.source # NoImage
        /\ disk' = [disk EXCEPT ![serving.request.case].manifest = NoImage]
  /\ Respond([success |-> FALSE])
  /\ UNCHANGED last_case_dir

\* Rows, or none, or an error: neither the server nor the page changes by it.
Looked ==
  /\ serving.kind = "look"
  /\ Respond([success |-> TRUE])
  /\ UNCHANGED <<disk, last_case_dir>>

Certifying == serving.kind = "report" /\ serving.image # NoImage

WithFile(whole) ==
  [disk EXCEPT ![serving.request.case][ReportFiles[serving.file]] =
     [stamp |-> serving.stamp, image |-> serving.image, whole |-> whole]]

\* The next of the three files.
WriteFile ==
  /\ Certifying
  /\ serving.file <= Len(ReportFiles)
  /\ disk' = WithFile(TRUE)
  /\ serving' = [serving EXCEPT !.file = @ + 1]
  /\ UNCHANGED <<stamps, last_case_dir, kills, waiting, answers, clicks, page>>

Reported ==
  /\ Certifying
  /\ serving.file > Len(ReportFiles)
  /\ Respond([success |-> TRUE, stamp |-> serving.stamp])
  /\ UNCHANGED <<disk, last_case_dir>>

\* Mutant: without a manifest the handler never returns.
NeverReturns ==
  /\ Certifying
  /\ serving.file <= Len(ReportFiles)
  /\ UNCHANGED disk \/ disk' = WithFile(FALSE)
  /\ Respond([success |-> FALSE])
  /\ UNCHANGED last_case_dir

\* No manifest, no evidence, no database, or a file that cannot be written,
\* which may be left half written.
ReportFails ==
  /\ serving.kind = "report"
  /\ serving.file <= Len(ReportFiles)
  /\ \/ UNCHANGED disk
     \/ Certifying /\ disk' = WithFile(FALSE)
  /\ Respond([success |-> FALSE])
  /\ UNCHANGED last_case_dir

\* What a kill may leave of the file that is being written.
HalfDone ==
  \/ UNCHANGED disk
  \/ Certifying /\ serving.file <= Len(ReportFiles) /\ disk' = WithFile(FALSE)
  \/ /\ serving.kind = "acquire" /\ serving.request.source # NoImage
     /\ \E m \in {NoImage, serving.request.source} :
          disk' = [disk EXCEPT ![serving.request.case].manifest = m]

\* The server is killed and started again.  The requests it has not answered
\* fail; where one of them is for a report, the page's catch shows the button.
Kill ==
  /\ kills < MaxKills
  /\ kills' = kills + 1
  /\ HalfDone
  /\ last_case_dir' = DefaultCase
  /\ serving' = NoRequest
  /\ waiting' = {}
  /\ download' = (download \/ \E r \in Unanswered : r.kind = "report")
  /\ settled' = NoReport
  /\ UNCHANGED <<stamps, answers, clicks, currentCaseDir, acquiring, doc>>

----------------------------------------------------------------------------
Click ==
  \/ \E c \in Cases, source \in Sources : ClickAcquire(c, source)
  \/ OpenTab
  \/ ClickGenerate

Serve ==
  \/ Take
  \/ Acquired \/ AcquireFails
  \/ Looked
  \/ WriteFile \/ Reported \/ ReportFails

Next == Click \/ Hear \/ ProgressEnds \/ Serve \/ Kill

\* The server's loop goes on, and so does the page's event loop.
Spec == Init /\ [][Next]_vars /\ WF_vars(Serve) /\ WF_vars(Hear)

----------------------------------------------------------------------------
\* Properties.

\* What GET /api/download-pdf, view-report-json and view-report-md answer.
Served(file) == disk[last_case_dir][file]

TypeOK ==
  /\ last_case_dir \in Cases
  /\ currentCaseDir \in Cases
  /\ \A r \in Outstanding : r.case \in Cases /\ r.id \in 1 .. clicks
  /\ stamps \in 0 .. MaxClicks
  /\ \A c \in Cases : \A f \in {"certificate", "json", "markdown"} :
       disk[c][f].stamp \in 0 .. stamps
  /\ serving # NoRequest => serving.file \in 1 .. Len(ReportFiles) + 1
  /\ doc.case \in Cases \cup {NoCase}
  /\ download \in BOOLEAN
  /\ acquiring # NotAcquiring => acquiring.case = currentCaseDir

(***************************************************************************)
(* When the page has heard that the report of a case was made, and the     *)
(* examiner has since acquired nothing and asked for no other report, the  *)
(* button is there and the server serves that report of that case, all     *)
(* three files of it and none of another, whatever tabs were opened before *)
(* or since (last_case_dir, which every tab moves).                        *)
(***************************************************************************)
ServedIsTheReport ==
  settled.stamp > 0 =>
    /\ download
    /\ last_case_dir = settled.case
    /\ \A f \in {"certificate", "json", "markdown"} :
         Served(f).whole /\ Served(f).stamp = settled.stamp

(***************************************************************************)
(* However often reports of a case fail or the server is killed, in        *)
(* whatever order their requests are taken: no document in its directory   *)
(* is of a later report than the certificate there, and files of one       *)
(* report name one image (generate_case_report reads the manifest once).   *)
(***************************************************************************)
CertificateIsTheNewest ==
  \A c \in Cases :
    /\ disk[c].markdown.stamp <= disk[c].json.stamp
    /\ disk[c].json.stamp <= disk[c].certificate.stamp
    /\ \A f, g \in {"certificate", "json", "markdown"} :
         disk[c][f].stamp = disk[c][g].stamp => disk[c][f].image = disk[c][g].image

(***************************************************************************)
(* The page hears of every request it makes, unless the server is killed.  *)
(***************************************************************************)
EveryRequestIsHeard == Outstanding # {} ~> Outstanding = {}
==============================================================================

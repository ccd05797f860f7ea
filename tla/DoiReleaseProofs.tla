--------------------------- MODULE DoiReleaseProofs ---------------------------
(***************************************************************************)
(* The DOI of a release, for any number of releases, of mistyped DOIs and  *)
(* of stopped scripts: whatever call was lost and whatever script was      *)
(* stopped, a published PDF cites the DOI that set_doi was given, every    *)
(* number cited is that of a record of the project, and a DOI reported as  *)
(* written is in all surfaces.                                             *)
(*                                                                         *)
(* The surfaces, the PDF made from one of them and the files attached to   *)
(* a record are related through the step the manager is at and through the *)
(* place a script has reached, so the invariant says what each step has    *)
(* established: the files a script has behind it, what the next one is to  *)
(* hold, and what is true of the PDF and of the record once the manager    *)
(* renders, uploads and publishes.                                         *)
(***************************************************************************)
EXTENDS DoiRelease, TLAPS

Badged   == "README.md"
Archived == "CITATION.cff"
SurfaceNames == {"CITATION.cff", "codemeta.json", ".zenodo.json", "README.md"}

Steps     == {"none", "upload", "resolve", "read", "truncate", "write", "report"}
Rewriting == {"read", "truncate", "write", "report"}
OfSetDoi  == Rewriting \cup {"resolve"}
Pending   == {"truncate", "write"}
Citing    == {"reserve", "cite"}
Rendered  == {"upload", "publish"}
Cleared   == {"render"} \cup Rendered

Attached(n) == records[n].files["pdf"] # {} /\ records[n].files["bundle"] # {}

\* Cites the DOI d, if it is more than an emptied file.
CitesOnly(c, d) == c.intact => c.text = {d}

\* A PDF that cites the DOI that had been given.
Faithful(c) == c.given # NoDoi /\ CitesOnly(c.from, c.given)

Ours(x) ==
    /\ x.record \in Releases
    /\ \/ records[x.record].state = "published"
       \/ records[x.record].state = "draft" /\ x.prefix = Zenodo

\* Records do not vanish, and a published one stays so.
RecordsAdvance ==
    \A n \in Releases :
        \/ records'[n].state = records[n].state
        \/ records[n].state = "none"
        \/ records'[n].state = "published"

\* What a surface may hold at any time: a truncated file has no text, and the
\* README alone has a badge.
Sound(name, c) ==
    /\ DOMAIN c = {"badge", "text", "intact"}
    /\ c.intact \in BOOLEAN
    /\ ~c.intact => c.text = {}
    /\ name # Badged => c.badge = {}

\* What it holds once a set_doi for the record has passed it.
Settled(name, c, d) ==
    /\ Cited(c) \subseteq {d, Concept(d.record)}
    /\ name # Badged => CitesOnly(c, d)
    /\ name = Badged => c.badge # {}

-----------------------------------------------------------------------------
(* The inductive invariant.                                                *)

RecordsOK ==
    /\ DOMAIN records = Records
    /\ \A n \in Records :
         /\ DOMAIN records[n] = {"state", "files"}
         /\ DOMAIN records[n].files = {"pdf", "bundle"}
    /\ records[1].state = "published"

SurfacesOK ==
    /\ DOMAIN surface = SurfaceNames
    /\ \A name \in SurfaceNames :
         /\ Sound(name, surface[name])
         /\ \A x \in Cited(surface[name]) : Ours(x)

\* Where a script is, and what it has behind it.
ScriptOK ==
    /\ DOMAIN script = {"at", "arg", "file", "new"}
    /\ script.at \in Steps
    /\ script.at \in OfSetDoi => script.arg \in DOIs /\ stage \in Citing
    /\ script.at \in {"resolve", "upload"} => script.file \in 1..2
    /\ script.at = "resolve" => script.file = 1
    /\ script.at = "upload" =>
         /\ stage = "upload" /\ script.arg = Doi(release)
         /\ script.file = 2 => records[release].files["pdf"] # {}

\* A set_doi that has resolved its DOI: all surfaces up to the present one are
\* settled, and so is what this one is to hold; nothing is reported.
RewriteOK ==
    script.at \in Rewriting =>
        /\ reported = NoDoi
        /\ Ours(script.arg)
        /\ script.file \in 1..5
        /\ script.file = 5 <=> script.at = "report"
        /\ \A i \in 1..4 : i < script.file =>
             Settled(Surfaces[i], surface[Surfaces[i]], script.arg)
        /\ script.at \in Pending =>
             /\ Sound(Surfaces[script.file], script.new)
             /\ Settled(Surfaces[script.file], script.new, script.arg)

\* What the documented order has established where the manager is.
ManagerOK ==
    /\ stage # "reserve" => release \in Releases \ {1} /\ records[release].state # "none"
    /\ stage \in Cleared => reported # NoDoi
    /\ stage \in Rendered => Faithful(pdf)
    /\ stage = "publish" => script.at = "none" /\ Attached(release)

FilesOK ==
    \A n \in Releases \ {1} :
        /\ \A c \in records[n].files["pdf"] : Faithful(c)
        /\ records[n].state = "published" => Attached(n)

ReportOK ==
    reported # NoDoi => \A name \in SurfaceNames : Settled(name, surface[name], reported)

IInv == /\ RecordsOK /\ SurfacesOK /\ ScriptOK /\ RewriteOK
        /\ ManagerOK /\ FilesOK /\ ReportOK

-----------------------------------------------------------------------------
(* What leaves a part of the invariant as it is.                           *)

(* The four surfaces, by name and by number.                               *)
LEMMA SurfacesAreFour ==
    /\ \A i \in 1..4 : Surfaces[i] \in SurfaceNames
    /\ \A name \in SurfaceNames : \E i \in 1..4 : name = Surfaces[i]
    /\ \A i, j \in 1..4 : Surfaces[i] = Surfaces[j] => i = j
    /\ \A i \in 1..4 : Surfaces[i] = Badged <=> i = 4
    /\ \A i \in 1..4 : Surfaces[i] = Archived <=> i = 1
  <1>1. /\ Surfaces[1] = "CITATION.cff" /\ Surfaces[2] = "codemeta.json"
        /\ Surfaces[3] = ".zenodo.json" /\ Surfaces[4] = "README.md"
    BY DEF Surfaces
  <1>2. \A i \in 1..4 : i = 1 \/ i = 2 \/ i = 3 \/ i = 4
    OBVIOUS
  <1>3. 1 \in 1..4 /\ 2 \in 1..4 /\ 3 \in 1..4 /\ 4 \in 1..4
    OBVIOUS
  <1>4. \A name \in SurfaceNames : \E i \in 1..4 : name = Surfaces[i]
    BY <1>1, <1>3 DEF SurfaceNames
  <1>5. QED
    BY <1>1, <1>2, <1>4 DEF SurfaceNames, Badged, Archived

(* The releases are records, and the first of them is one.                 *)
LEMMA ReleasesAreRecords ==
    /\ Releases \subseteq Records
    /\ 1 \in Records
    /\ 0 \notin Releases
    /\ Other \notin Releases
    /\ Other \in Records
  BY ReleasesAssumption DEF Releases, Records, Other

(* Records do not vanish, so what was cited as ours stays ours.            *)
LEMMA SurfacesStay ==
    ASSUME IInv, surface' = surface,
           RecordsAdvance
    PROVE  SurfacesOK'
  <1>1. \A x : Ours(x) => Ours(x)'
    BY DEF Ours, RecordsAdvance
  <1>2. QED
    BY <1>1 DEF IInv, SurfacesOK, Sound, Cited, Badged

(* A step that touches no record.                                          *)
LEMMA NoRecordMoves == ASSUME records' = records PROVE RecordsAdvance
  BY DEF RecordsAdvance

(* Nor what is said of records.                                            *)
LEMMA RecordsStay ==
    ASSUME IInv, records' = records
    PROVE  RecordsOK' /\ FilesOK'
  BY DEF IInv, RecordsOK, FilesOK, Attached, CitesOnly, Faithful

(* A step that touches no surface, and reports nothing new.                *)
LEMMA ReportStays ==
    ASSUME IInv, surface' = surface, reported' = reported \/ reported' = NoDoi
    PROVE  ReportOK'
  BY DEF IInv, ReportOK, Settled, Cited, CitesOnly, Badged

(* When nothing runs there is nothing to say of a script.                  *)
LEMMA NothingRuns ==
    ASSUME script'.at = "none", DOMAIN script' = {"at", "arg", "file", "new"}
    PROVE  ScriptOK' /\ RewriteOK'
  BY DEF ScriptOK, RewriteOK, Steps, OfSetDoi, Rewriting

(* How a script ends.                                                      *)
LEMMA ScriptEnds ==
    ASSUME Ends
    PROVE  script'.at = "none" /\ ScriptOK' /\ RewriteOK'
  <1>1. script'.at = "none" /\ DOMAIN script' = {"at", "arg", "file", "new"}
    BY DEF Ends, NoScript
  <1>2. QED
    BY <1>1, NothingRuns

(* The manager's part, when the step is an earlier one or the same.        *)
LEMMA ManagerStays ==
    ASSUME IInv, UNCHANGED <<surface, pdf, release>>,
           stage' = stage \/ stage' \in Citing \/ (stage \in Rendered /\ stage' = "upload"),
           stage' = "publish" => script'.at = "none" /\ Attached(release)',
           stage' # "reserve" => stage # "reserve",
           reported' = reported \/ stage' \in Citing,
           RecordsAdvance
    PROVE  ManagerOK'
  <1>1. stage' # "reserve" => release' \in Releases \ {1} /\ records'[release'].state # "none"
    BY DEF IInv, ManagerOK, RecordsAdvance
  <1>2. stage' \in Cleared => reported' # NoDoi
    BY DEF IInv, ManagerOK, Cleared, Rendered, Citing
  <1>3. stage' \in Rendered => Faithful(pdf)'
    BY DEF IInv, ManagerOK, CitesOnly, Faithful, Rendered, Citing
  <1>4. QED
    BY <1>1, <1>2, <1>3 DEF ManagerOK

-----------------------------------------------------------------------------
(* The initial state.                                                      *)

(* The first record is published, and the README may cite it.             *)
LEMMA ReleasesBeginWell == Init => IInv
  <1> SUFFICES ASSUME Init PROVE IInv
    OBVIOUS
  <1>1. stage = "reserve" /\ reported = NoDoi /\ release = 1 /\ script = NoScript
    BY DEF Init
  <1>2. PICK other \in {"draft", "published"} :
          records = [n \in Records |->
            [state |-> CASE n = 1 -> "published" [] n = Other -> other [] OTHER -> "none",
             files |-> [p \in {"pdf", "bundle"} |-> {}]]]
    BY DEF Init
  <1>3. /\ DOMAIN records = Records
        /\ \A n \in Records :
             /\ DOMAIN records[n] = {"state", "files"}
             /\ DOMAIN records[n].files = {"pdf", "bundle"}
             /\ records[n].files["pdf"] = {}
    BY <1>2
  <1>4. records[1].state = "published"
    <2>1. records[1].state =
            CASE 1 = 1 -> "published" [] 1 = Other -> other [] OTHER -> "none"
      BY <1>2, ReleasesAreRecords
    <2>2. 1 # Other
      BY ReleasesAssumption DEF Other
    <2>3. QED
      BY <2>1, <2>2
  <1>5. \A n \in Releases \ {1} : records[n].state = "none"
    BY <1>2, ReleasesAreRecords
  <1>6. PICK badge \in {Doi(1), Concept(1)}, text \in SUBSET {Doi(1)} :
          surface = [name \in {Surfaces[i] : i \in 1..4} |->
            IF name = "README.md" THEN [Silent EXCEPT !.badge = {badge}, !.text = text]
                                  ELSE Silent]
    BY DEF Init
  <1>7. {Surfaces[i] : i \in 1..4} = SurfaceNames
    BY SurfacesAreFour
  <1>8. /\ DOMAIN surface = SurfaceNames
        /\ surface[Badged].badge = {badge} /\ surface[Badged].text = text
        /\ surface[Badged].intact = TRUE
        /\ DOMAIN surface[Badged] = {"badge", "text", "intact"}
        /\ \A name \in SurfaceNames \ {Badged} : surface[name] = Silent
    <2>1. "README.md" \in SurfaceNames
      BY DEF SurfaceNames
    <2>2. surface = [name \in SurfaceNames |->
            IF name = "README.md" THEN [Silent EXCEPT !.badge = {badge}, !.text = text]
                                  ELSE Silent]
      BY <1>6, <1>7
    <2>3. DOMAIN surface = SurfaceNames
      BY <2>2
    <2>4. surface["README.md"] = [Silent EXCEPT !.badge = {badge}, !.text = text]
      BY <2>1, <2>2
    <2>5. \A name \in SurfaceNames : name # "README.md" => surface[name] = Silent
      BY <2>2
    <2>6. /\ surface["README.md"].badge = {badge} /\ surface["README.md"].text = text
          /\ surface["README.md"].intact = TRUE
          /\ DOMAIN surface["README.md"] = {"badge", "text", "intact"}
      BY <2>4 DEF Silent
    <2>7. QED
      BY <2>3, <2>5, <2>6 DEF Badged
  <1>9. \A x \in Cited(surface[Badged]) : x \in {Doi(1), Concept(1)}
    BY <1>8 DEF Cited
  <1>10. 1 \in Releases
    BY ReleasesAssumption DEF Releases
  <1>11. \A x \in Cited(surface[Badged]) : Ours(x)
    BY <1>4, <1>9, <1>10 DEF Ours, Doi, Concept
  <1>12. \A name \in SurfaceNames \ {Badged} : Cited(surface[name]) = {}
    BY <1>8 DEF Cited, Silent
  <1>13. \A name \in SurfaceNames : Sound(name, surface[name])
    <2>1. ASSUME NEW name \in SurfaceNames \ {Badged} PROVE Sound(name, surface[name])
      <3>1. surface[name] = Silent
        BY <1>8
      <3>2. /\ DOMAIN Silent = {"badge", "text", "intact"}
            /\ Silent.badge = {} /\ Silent.intact = TRUE
        BY DEF Silent
      <3>3. QED
        BY <3>1, <3>2 DEF Sound
    <2>2. /\ surface[Badged].intact = TRUE
          /\ DOMAIN surface[Badged] = {"badge", "text", "intact"}
      BY <1>8
    <2>3. QED
      BY <2>1, <2>2 DEF Sound
  <1>14. SurfacesOK
    BY <1>8, <1>11, <1>12, <1>13 DEF SurfacesOK
  <1>15. ScriptOK /\ RewriteOK
    BY <1>1 DEF ScriptOK, RewriteOK, NoScript, Steps, OfSetDoi, Rewriting
  <1>16. ManagerOK
    BY <1>1 DEF ManagerOK, Cleared, Rendered
  <1>17. FilesOK
    BY <1>3, <1>5, ReleasesAreRecords DEF FilesOK
  <1>18. QED
    BY <1>1, <1>3, <1>4, <1>14, <1>15, <1>16, <1>17 DEF IInv, RecordsOK, ReportOK

-----------------------------------------------------------------------------
(* The deposit.                                                            *)

(* A draft of its own for a release that had no record.                    *)
LEMMA ReserveKeeps == ASSUME IInv, Reserve PROVE IInv'
  <1>1. PICK n \in Releases, o \in CallOutcomes :
          /\ records[n].state = "none"
          /\ records' = IF o.done THEN [records EXCEPT ![n].state = "draft"] ELSE records
          /\ IF o.answered THEN stage' = "cite" /\ release' = n
                           ELSE UNCHANGED <<stage, release>>
    BY DEF Reserve
  <1>2. /\ UNCHANGED surface /\ UNCHANGED pdf /\ UNCHANGED script /\ UNCHANGED reported
        /\ script.at = "none" /\ stage = "reserve"
    BY DEF Reserve, Runs
  <1>3. n \in Records /\ n # 1
    BY <1>1, ReleasesAreRecords DEF IInv, RecordsOK
  <1>4. o.answered => o.done
    BY DEF CallOutcomes
  <1>5. /\ DOMAIN records' = Records
        /\ \A m \in Records :
             /\ DOMAIN records'[m] = {"state", "files"}
             /\ records'[m].files = records[m].files
             /\ m # n => records'[m].state = records[m].state
    BY <1>1, <1>3 DEF IInv, RecordsOK
  <1>6. records'[n].state = IF o.done THEN "draft" ELSE "none"
    BY <1>1, <1>3 DEF IInv, RecordsOK
  <1>7. RecordsAdvance
    BY <1>1, <1>5, ReleasesAreRecords DEF RecordsAdvance
  <1>8. RecordsOK'
    BY <1>3, <1>5, ReleasesAreRecords DEF IInv, RecordsOK
  <1>9. FilesOK'
    BY <1>5, <1>6, ReleasesAreRecords DEF IInv, FilesOK, Attached, CitesOnly, Faithful
  <1>10. ScriptOK' /\ RewriteOK'
    BY <1>2, NothingRuns DEF IInv, ScriptOK
  <1>11. ManagerOK'
    BY <1>1, <1>2, <1>3, <1>4, <1>6 DEF ManagerOK, Cleared, Rendered
  <1>12. SurfacesOK' /\ ReportOK'
    BY <1>2, <1>7, SurfacesStay, NoRecordMoves, ReportStays
  <1>13. QED
    BY <1>8, <1>9, <1>10, <1>11, <1>12 DEF IInv

(* Nothing is attached yet when an upload begins.                          *)
LEMMA StartUploadKeeps == ASSUME IInv, StartUpload PROVE IInv'
  <1>1. /\ UNCHANGED records /\ UNCHANGED surface /\ UNCHANGED pdf
        /\ UNCHANGED release /\ UNCHANGED reported
        /\ stage \in Rendered /\ stage' = "upload"
        /\ script' = [NoScript EXCEPT !.at = "upload", !.arg = Doi(release)]
    BY DEF StartUpload, Rendered
  <1>2. /\ DOMAIN script' = {"at", "arg", "file", "new"}
        /\ script'.at = "upload" /\ script'.arg = Doi(release) /\ script'.file = 1
    BY <1>1 DEF NoScript
  <1>3. ScriptOK' /\ RewriteOK'
    BY <1>1, <1>2 DEF ScriptOK, RewriteOK, Steps, OfSetDoi, Rewriting
  <1>4. ManagerOK'
    BY <1>1, NoRecordMoves, ManagerStays DEF Rendered
  <1>5. QED
    BY <1>1, <1>3, <1>4, RecordsStay, SurfacesStay, NoRecordMoves, ReportStays DEF IInv

(* A file that is attached was made for this record.                       *)
LEMMA UploadKeeps == ASSUME IInv, Upload PROVE IInv'
  <1>1. PICK o \in CallOutcomes :
          /\ o.done => records[script.arg.record].state = "draft"
          /\ records' = IF o.done
                        THEN [records EXCEPT ![script.arg.record].files[Paths[script.file]] = {pdf}]
                        ELSE records
          /\ IF o.answered /\ script.file < 2
             THEN script' = [script EXCEPT !.file = @ + 1] /\ UNCHANGED stage
             ELSE Ends /\ stage' = IF o.answered THEN "publish" ELSE stage
    BY DEF Upload
  <1>2. /\ UNCHANGED surface /\ UNCHANGED pdf /\ UNCHANGED release /\ UNCHANGED reported
        /\ script.at = "upload"
    BY DEF Upload, Runs
  <1> DEFINE n == script.arg.record
             path == Paths[script.file]
  <1>3. /\ stage = "upload" /\ n = release /\ script.arg = Doi(release)
        /\ script.file \in 1..2
        /\ DOMAIN script = {"at", "arg", "file", "new"}
        /\ script.file = 2 => records[release].files["pdf"] # {}
    BY <1>2 DEF IInv, ScriptOK, Doi
  <1>4. /\ n \in Releases \ {1} /\ n \in Records /\ records[n].state # "none"
        /\ Faithful(pdf)
    BY <1>3, ReleasesAreRecords DEF IInv, ManagerOK, Rendered
  <1>5. /\ script.file = 1 => path = "pdf"
        /\ script.file = 2 => path = "bundle"
        /\ path \in {"pdf", "bundle"}
    BY <1>3 DEF Paths
  <1>6. /\ o.answered => o.done
        /\ o.answered \in BOOLEAN
    BY DEF CallOutcomes
  <1>7. /\ DOMAIN records' = Records
        /\ \A m \in Records :
             /\ DOMAIN records'[m] = {"state", "files"}
             /\ records'[m].state = records[m].state
             /\ m # n => records'[m] = records[m]
    BY <1>1, <1>4 DEF IInv, RecordsOK
  <1>8. /\ DOMAIN records'[n].files = {"pdf", "bundle"}
        /\ o.done => records'[n].files[path] = {pdf}
        /\ \A p \in {"pdf", "bundle"} :
             p # path \/ ~o.done => records'[n].files[p] = records[n].files[p]
    BY <1>1, <1>4, <1>5 DEF IInv, RecordsOK
  <1>9. RecordsOK'
    BY <1>7, <1>8, ReleasesAreRecords DEF IInv, RecordsOK
  <1>10. o.done => records[n].state = "draft"
    BY <1>1
  <1>11. ASSUME NEW c \in records'[n].files["pdf"] PROVE Faithful(c)
    <2>1. c = pdf \/ c \in records[n].files["pdf"]
      BY <1>5, <1>8, <1>11
    <2>2. QED
      BY <1>4, <2>1 DEF IInv, FilesOK
  <1>12. \A p \in {"pdf", "bundle"} : records[n].files[p] # {} => records'[n].files[p] # {}
    BY <1>8
  <1>13. ASSUME NEW m \in Releases \ {1}
         PROVE  /\ \A c \in records'[m].files["pdf"] : Faithful(c)
                /\ records'[m].state = "published" => Attached(m)'
    <2>1. CASE m = n
      BY <1>4, <1>7, <1>11, <1>12, <2>1 DEF IInv, FilesOK, Attached
    <2>2. CASE m # n
      <3>1. records'[m] = records[m]
        BY <1>7, <2>2, ReleasesAreRecords
      <3>2. QED
        BY <3>1 DEF IInv, FilesOK, Attached
    <2>3. QED
      BY <2>1, <2>2
  <1>14. FilesOK'
    BY <1>13 DEF FilesOK, CitesOnly, Faithful, Attached
  <1>15. RecordsAdvance
    BY <1>7, ReleasesAreRecords DEF RecordsAdvance
  <1>16. SurfacesOK' /\ ReportOK'
    BY <1>2, <1>15, SurfacesStay, NoRecordMoves, ReportStays
  <1>17. CASE o.answered /\ script.file = 1
    <2>1. /\ DOMAIN script' = {"at", "arg", "file", "new"}
          /\ script'.at = "upload" /\ script'.arg = Doi(release) /\ script'.file = 2 /\ stage' = stage
      BY <1>1, <1>2, <1>3, <1>17
    <2>2. records'[n].files["pdf"] # {}
      BY <1>5, <1>6, <1>8, <1>17
    <2>3. ScriptOK' /\ RewriteOK'
      BY <1>2, <1>3, <2>1, <2>2 DEF ScriptOK, RewriteOK, Steps, OfSetDoi, Rewriting
    <2>4. ManagerOK'
      BY <1>2, <1>3, <1>15, <2>1, NoRecordMoves, ManagerStays
    <2>5. QED
      BY <1>9, <1>14, <1>16, <2>3, <2>4 DEF IInv
  <1>18. CASE ~(o.answered /\ script.file = 1)
    <2>1. Ends /\ stage' = IF o.answered THEN "publish" ELSE stage
      BY <1>1, <1>3, <1>18
    <2>2. script'.at = "none" /\ ScriptOK' /\ RewriteOK'
      BY <2>1, ScriptEnds
    <2>3. ASSUME o.answered PROVE Attached(release)'
      <3>1. script.file = 2 /\ path = "bundle"
        BY <1>3, <1>5, <1>18, <2>3
      <3>2. records'[n].files["bundle"] # {} /\ records'[n].files["pdf"] # {}
        BY <1>3, <1>6, <1>8, <1>12, <2>3, <3>1
      <3>3. QED
        BY <1>2, <1>3, <3>2 DEF Attached
    <2>4. ManagerOK'
      <3>1. stage' # "reserve" => release' \in Releases \ {1} /\ records'[release'].state # "none"
        BY <1>2, <1>3, <1>4, <1>7
      <3>2. reported' # NoDoi /\ Faithful(pdf)'
        BY <1>2, <1>3, <1>4 DEF IInv, ManagerOK, CitesOnly, Faithful, Cleared, Rendered
      <3>3. stage' = "publish" => script'.at = "none" /\ Attached(release)'
        BY <1>3, <2>1, <2>2, <2>3
      <3>4. QED
        BY <3>1, <3>2, <3>3 DEF ManagerOK
    <2>5. QED
      BY <1>9, <1>14, <1>16, <2>2, <2>4 DEF IInv
  <1>19. QED
    BY <1>17, <1>18

(* What is published is what the manager attached in the step before.      *)
LEMMA PublishKeeps == ASSUME IInv, Publish PROVE IInv'
  <1>1. PICK o \in CallOutcomes :
          /\ o.done => records[release].state = "draft"
          /\ records' = IF o.done THEN [records EXCEPT ![release].state = "published"]
                                  ELSE records
          /\ stage' = IF o.answered THEN "reserve" ELSE stage
    BY DEF Publish
  <1>2. /\ UNCHANGED surface /\ UNCHANGED pdf /\ UNCHANGED release
        /\ UNCHANGED script /\ UNCHANGED reported
        /\ script.at = "none" /\ stage = "publish"
    BY DEF Publish, Runs
  <1>3. /\ release \in Releases \ {1} /\ release \in Records
        /\ Attached(release)
    BY <1>2, ReleasesAreRecords DEF IInv, ManagerOK
  <1>4. /\ DOMAIN records' = Records
        /\ \A m \in Records :
             /\ DOMAIN records'[m] = {"state", "files"}
             /\ records'[m].files = records[m].files
             /\ m # release => records'[m].state = records[m].state
    BY <1>1, <1>3 DEF IInv, RecordsOK
  <1>5. records'[release].state = IF o.done THEN "published" ELSE records[release].state
    BY <1>1, <1>3 DEF IInv, RecordsOK
  <1>6. RecordsAdvance
    BY <1>1, <1>4, <1>5, ReleasesAreRecords DEF RecordsAdvance
  <1>7. RecordsOK'
    BY <1>3, <1>4, ReleasesAreRecords DEF IInv, RecordsOK
  <1>8. FilesOK'
    BY <1>3, <1>4, ReleasesAreRecords DEF IInv, FilesOK, Attached, CitesOnly, Faithful
  <1>9. ScriptOK' /\ RewriteOK'
    BY <1>2, NothingRuns DEF IInv, ScriptOK
  <1>10. Attached(release)'
    BY <1>2, <1>3, <1>4 DEF Attached
  <1>11. ManagerOK'
    <2>1. stage' = stage \/ stage' \in Citing
      BY <1>1 DEF Citing
    <2>2. stage # "reserve"
      BY <1>2
    <2>3. stage' = "publish" => script'.at = "none" /\ Attached(release)'
      BY <1>2, <1>10
    <2>4. QED
      BY <1>2, <1>6, <2>1, <2>2, <2>3, NoRecordMoves, ManagerStays
  <1>12. QED
    BY <1>2, <1>6, <1>7, <1>8, <1>9, <1>11, SurfacesStay, NoRecordMoves, ReportStays DEF IInv

-----------------------------------------------------------------------------
(* set_doi.                                                                *)

(* What was rendered is to be rendered again.                              *)
LEMMA CitingAgain == CiteAgain \in Citing /\ (CiteAgain # "reserve" => stage # "reserve")
  BY DEF CiteAgain, Citing

(* Any DOI may be typed; nothing is written on its account yet.           *)
LEMMA StartSetDoiKeeps == ASSUME IInv, StartSetDoi PROVE IInv'
  <1>1. /\ UNCHANGED records /\ UNCHANGED surface /\ UNCHANGED pdf
        /\ UNCHANGED release /\ UNCHANGED reported
        /\ stage' = CiteAgain
    BY DEF StartSetDoi
  <1>2. PICK doi \in DOIs :
          script' = [NoScript EXCEPT !.at = "resolve", !.arg = doi]
    BY DEF StartSetDoi
  <1>3. /\ DOMAIN script' = {"at", "arg", "file", "new"}
        /\ script'.at = "resolve" /\ script'.arg \in DOIs /\ script'.file = 1
    BY <1>2 DEF NoScript
  <1>4. ScriptOK' /\ RewriteOK'
    <2>1. DOIs' = DOIs
      BY DEF DOIs, Records, Other
    <2>2. QED
      BY <1>1, <1>3, <2>1, CitingAgain
         DEF ScriptOK, RewriteOK, Steps, OfSetDoi, Rewriting
  <1>5. ManagerOK'
    <2>1. stage' \in Citing /\ stage' # "publish"
      BY <1>1, CitingAgain DEF Citing
    <2>2. stage' # "reserve" => stage # "reserve"
      BY <1>1, CitingAgain
    <2>3. QED
      BY <1>1, <2>1, <2>2, NoRecordMoves, ManagerStays
  <1>6. QED
    BY <1>1, <1>4, <1>5, RecordsStay, SurfacesStay, NoRecordMoves, ReportStays DEF IInv

(* Only a record of this project resolves.                                 *)
LEMMA ResolveKeeps == ASSUME IInv, Resolve PROVE IInv'
  <1>1. /\ UNCHANGED records /\ UNCHANGED surface /\ UNCHANGED pdf
        /\ UNCHANGED stage /\ UNCHANGED release
        /\ script.at = "resolve"
    BY DEF Resolve, Runs, managerVars
  <1>2. PICK answered \in BOOLEAN :
          IF Resolves(script.arg, answered)
          THEN script' = [script EXCEPT !.at = "read"] /\ reported' = NoDoi
          ELSE Ends /\ UNCHANGED reported
    BY DEF Resolve
  <1>3. reported' = reported \/ reported' = NoDoi
    BY <1>2
  <1>4. /\ DOMAIN script = {"at", "arg", "file", "new"}
        /\ script.file = 1 /\ script.arg \in DOIs /\ stage \in Citing
    BY <1>1 DEF IInv, ScriptOK, OfSetDoi
  <1>5. ScriptOK' /\ RewriteOK'
    <2>1. CASE Resolves(script.arg, answered)
      <3>1. /\ DOMAIN script' = {"at", "arg", "file", "new"}
            /\ script'.at = "read" /\ script'.arg = script.arg /\ script'.file = 1
            /\ reported' = NoDoi
        BY <1>2, <1>4, <2>1
      <3>2. Ours(script.arg)
        BY <2>1 DEF Resolves, IsPublished, IsReserved, OurTitle, Ours, Doi
      <3>3. ScriptOK'
        BY <1>1, <1>4, <3>1 DEF ScriptOK, Steps, OfSetDoi, Rewriting
      <3>4. RewriteOK'
        BY <1>1, <3>1, <3>2 DEF RewriteOK, Pending, Ours
      <3>5. QED
        BY <3>3, <3>4
    <2>2. CASE ~Resolves(script.arg, answered)
      BY <1>2, <2>2, ScriptEnds
    <2>3. QED
      BY <2>1, <2>2
  <1>6. ManagerOK'
    <2>1. stage' # "publish"
      BY <1>1, <1>4 DEF Citing
    <2>2. RecordsAdvance
      BY <1>1 DEF RecordsAdvance
    <2>3. stage' = stage
      BY <1>1
    <2>4. stage' = stage \/ stage' \in Citing \/ (stage \in Rendered /\ stage' = "upload")
      BY <2>3
    <2>5. stage' # "reserve" => stage # "reserve"
      BY <2>3
    <2>6. QED
      BY <1>1, <1>4, <2>1, <2>2, <2>4, <2>5, NoRecordMoves, ManagerStays
  <1>7. QED
    BY <1>1, <1>3, <1>5, <1>6, RecordsStay, SurfacesStay, NoRecordMoves, ReportStays DEF IInv

(* What a file is to hold when set_doi has read it: it cites the record    *)
(* and its concept and nothing else.                                       *)
LEMMA RewrittenIsSettled ==
    ASSUME NEW i \in 1..4, NEW c, NEW n, NEW d,
           Sound(Surfaces[i], c),
           Surfaces[i] \in {"codemeta.json", ".zenodo.json"} => c.intact,
           d \in Rewritten(Surfaces[i], c, n)
    PROVE  /\ Sound(Surfaces[i], d)
           /\ Settled(Surfaces[i], d, n)
  <1>1. /\ DOMAIN c = {"badge", "text", "intact"}
        /\ c.intact \in BOOLEAN
        /\ (~c.intact => c.text = {})
    BY DEF Sound
  <1>2. /\ Surfaces[1] = "CITATION.cff" /\ Surfaces[2] = "codemeta.json"
        /\ Surfaces[3] = ".zenodo.json" /\ Surfaces[4] = "README.md"
    BY DEF Surfaces
  <1>3. i = 1 \/ i = 2 \/ i = 3 \/ i = 4
    OBVIOUS
  <1>4. CASE i = 4
    <2>1. PICK k \in {n, Concept(n.record)} : d = Readme(c, n, k)
      BY <1>2, <1>4 DEF Rewritten
    <2>2. /\ DOMAIN d = {"badge", "text", "intact"}
          /\ d.badge = {k} /\ d.intact = c.intact
          /\ d.text = {IF x \in {n, k} THEN x ELSE n : x \in c.text}
      BY <1>1, <2>1 DEF Readme
    <2>3. d.text \subseteq {n, Concept(n.record)}
      BY <2>1, <2>2
    <2>4. ~d.intact => d.text = {}
      BY <1>1, <2>2
    <2>5. QED
      BY <1>1, <1>2, <1>4, <2>1, <2>2, <2>3, <2>4 DEF Sound, Settled, Cited, Badged
  <1>5. CASE i # 4
    <2>1. c.badge = {} /\ Surfaces[i] # Badged
      BY <1>2, <1>3, <1>5 DEF Sound, Badged
    <2>2. d = IF i = 1 THEN Citation(c, n) ELSE Identifier(c, n)
      BY <1>2, <1>3, <1>5 DEF Rewritten
    <2>3. CASE c.intact
      <3>1. d = [c EXCEPT !.text = {n}]
        BY <2>2, <2>3 DEF Citation, Identifier
      <3>2. /\ DOMAIN d = {"badge", "text", "intact"}
            /\ d.badge = {} /\ d.text = {n} /\ d.intact = c.intact
        BY <1>1, <2>1, <3>1
      <3>3. d.intact
        BY <2>3, <3>2
      <3>4. QED
        BY <1>1, <2>1, <3>2, <3>3 DEF Sound, Settled, Cited, CitesOnly
    <2>4. CASE ~c.intact
      <3>1. d = c
        BY <1>2, <1>3, <1>5, <2>2, <2>4 DEF Citation
      <3>2. c.text = {}
        BY <1>1, <2>4
      <3>3. QED
        BY <2>1, <2>4, <3>1, <3>2 DEF Settled, Cited, CitesOnly
    <2>5. QED
      BY <1>1, <2>3, <2>4
  <1>6. QED
    BY <1>4, <1>5

(* The manager's part is as it was while a set_doi runs and none of what   *)
(* it rests on is done.                                                    *)
LEMMA ManagerWaits ==
    ASSUME IInv, script.at \in OfSetDoi, UNCHANGED <<records, stage, release>>
    PROVE  ManagerOK'
  <1>1. stage' \in Citing /\ stage' = stage
    BY DEF IInv, ScriptOK
  <1>2. stage' \notin Cleared /\ stage' \notin Rendered /\ stage' # "publish"
    BY <1>1 DEF Citing, Cleared, Rendered
  <1>3. stage' # "reserve" => release' \in Releases \ {1} /\ records'[release'].state # "none"
    BY <1>1 DEF IInv, ManagerOK
  <1>4. QED
    BY <1>2, <1>3 DEF ManagerOK

(* A script that goes on, with the same argument and nothing reported.     *)
LEMMA ScriptGoesOn ==
    ASSUME IInv, script.at \in Rewriting, UNCHANGED <<records, stage, release, reported>>,
           DOMAIN script' = {"at", "arg", "file", "new"}, script'.arg = script.arg,
           script'.at \in Rewriting, script'.file \in 1..5,
           script'.file = 5 <=> script'.at = "report",
           \A i \in 1..4 : i < script'.file =>
             Settled(Surfaces[i], surface'[Surfaces[i]], script.arg),
           script'.at \in Pending =>
             /\ Sound(Surfaces[script'.file], script'.new)
             /\ Settled(Surfaces[script'.file], script'.new, script.arg)
    PROVE  ScriptOK' /\ RewriteOK' /\ ManagerOK'
  <1>1. /\ reported = NoDoi /\ Ours(script.arg)
        /\ script.arg \in DOIs /\ stage \in Citing
    BY DEF IInv, RewriteOK, ScriptOK, OfSetDoi
  <1>2. ScriptOK'
    BY <1>1 DEF ScriptOK, Steps, OfSetDoi, Rewriting
  <1>3. RewriteOK'
    BY <1>1 DEF RewriteOK, Settled, CitesOnly, Sound, Cited, Badged, Ours
  <1>4. QED
    BY <1>2, <1>3, ManagerWaits DEF OfSetDoi

(* What a set_doi that rewrites can rely on.                               *)
LEMMA RewritingIsOK ==
    ASSUME IInv, script.at \in Rewriting
    PROVE  /\ DOMAIN script = {"at", "arg", "file", "new"}
           /\ reported = NoDoi /\ Ours(script.arg) /\ script.arg \in DOIs
           /\ script.file \in 1..5
           /\ script.at # "report" => script.file \in 1..4
           /\ script.at = "report" => script.file = 5
           /\ \A i \in 1..4 : i < script.file =>
                Settled(Surfaces[i], surface[Surfaces[i]], script.arg)
  <1>1. /\ script.file \in 1..5
        /\ script.file = 5 <=> script.at = "report"
    BY DEF IInv, RewriteOK
  <1>2. script.at # "report" => script.file \in 1..4
    BY <1>1
  <1>3. QED
    BY <1>1, <1>2 DEF IInv, RewriteOK, ScriptOK, OfSetDoi

(* The next file, or the report, when one more file is settled.            *)
LEMMA FileBehind ==
    ASSUME IInv, script.at \in {"read", "write"},
           UNCHANGED <<records, stage, release, reported>>,
           DOMAIN script' = {"at", "arg", "file", "new"}, script'.arg = script.arg,
           script'.at = AfterFile, script'.file = script.file + 1,
           Settled(Surfaces[script.file], surface'[Surfaces[script.file]], script.arg),
           \A i \in 1..4 : i # script.file => surface'[Surfaces[i]] = surface[Surfaces[i]]
    PROVE  ScriptOK' /\ RewriteOK' /\ ManagerOK'
  <1>1. /\ script.at \in Rewriting /\ script.file \in 1..4
        /\ \A i \in 1..4 : i < script.file =>
             Settled(Surfaces[i], surface[Surfaces[i]], script.arg)
    BY RewritingIsOK DEF Rewriting
  <1>2. /\ script'.at \in Rewriting /\ script'.at \notin Pending
        /\ script'.file = 5 <=> script'.at = "report"
        /\ script'.file \in 1..5
    BY <1>1 DEF AfterFile, Rewriting, Pending
  <1>3. ASSUME NEW i \in 1..4, i < script'.file
        PROVE  Settled(Surfaces[i], surface'[Surfaces[i]], script.arg)
    <2>1. i = script.file \/ (i # script.file /\ i < script.file)
      BY <1>1, <1>3
    <2>2. QED
      BY <1>1, <2>1
  <1>4. QED
    BY <1>1, <1>2, <1>3, ScriptGoesOn

(* A file that is read is passed over, settled, or is to become settled.  *)
LEMMA ReadFileKeeps == ASSUME IInv, ReadFile PROVE IInv'
  <1>1. /\ UNCHANGED records /\ UNCHANGED surface /\ UNCHANGED pdf
        /\ UNCHANGED stage /\ UNCHANGED release /\ UNCHANGED reported
        /\ script.at = "read"
    BY DEF ReadFile, Runs, managerVars
  <1> DEFINE name == Surfaces[script.file]
             c    == surface[name]
  <1>2. /\ DOMAIN script = {"at", "arg", "file", "new"}
        /\ script.file \in 1..4 /\ script.file \in 1..5
        /\ \A i \in 1..4 : i < script.file =>
             Settled(Surfaces[i], surface[Surfaces[i]], script.arg)
    BY <1>1, RewritingIsOK DEF Rewriting
  <1>3. name \in SurfaceNames /\ Sound(name, c)
    BY <1>2, SurfacesAreFour DEF IInv, SurfacesOK
  <1>4. ScriptOK' /\ RewriteOK' /\ ManagerOK'
    <2>1. CASE name \in {"codemeta.json", ".zenodo.json"} /\ ~c.intact
      <3>1. Ends
        BY <2>1 DEF ReadFile
      <3>2. QED
        BY <1>1, <3>1, ScriptEnds, ManagerWaits DEF OfSetDoi, Rewriting
    <2>2. CASE ~(name \in {"codemeta.json", ".zenodo.json"} /\ ~c.intact)
      <3>1. PICK d \in Rewritten(name, c, script.arg) :
              script' = IF name = "README.md" /\ d = c
                        THEN [script EXCEPT !.at = AfterFile, !.file = @ + 1]
                        ELSE [script EXCEPT !.at = "truncate", !.new = d]
        BY <2>2 DEF ReadFile
      <3>2. Sound(name, d) /\ Settled(name, d, script.arg)
        BY <1>2, <1>3, <2>2, <3>1, RewrittenIsSettled
      <3>3. CASE name = "README.md" /\ d = c
        <4>1. /\ DOMAIN script' = {"at", "arg", "file", "new"}
              /\ script'.arg = script.arg /\ script'.at = AfterFile
              /\ script'.file = script.file + 1
          BY <1>2, <3>1, <3>3
        <4>2. Settled(name, surface'[name], script.arg)
          BY <1>1, <3>2, <3>3
        <4>3. QED
          BY <1>1, <4>1, <4>2, FileBehind
      <3>4. CASE ~(name = "README.md" /\ d = c)
        <4>1. /\ DOMAIN script' = {"at", "arg", "file", "new"}
              /\ script'.arg = script.arg /\ script'.at = "truncate"
              /\ script'.file = script.file /\ script'.new = d
          BY <1>2, <3>1, <3>4
        <4>2. script'.file # 5
          BY <1>2, <4>1
        <4>3. script'.at \in Rewriting /\ script'.at # "report" /\ script.at \in Rewriting
          BY <1>1, <4>1 DEF Rewriting
        <4>4. QED
          BY <1>1, <1>2, <3>2, <4>1, <4>2, <4>3, ScriptGoesOn
      <3>5. QED
        BY <3>3, <3>4
    <2>3. QED
      BY <2>1, <2>2
  <1>5. QED
    BY <1>1, <1>4, RecordsStay, SurfacesStay, NoRecordMoves, ReportStays DEF IInv

(* A surface that is changed, to something sound that cites what is ours.  *)
LEMMA SurfaceChanges ==
    ASSUME IInv, NEW name \in SurfaceNames, NEW c, Sound(name, c),
           \A x \in Cited(c) : Ours(x),
           surface' = [surface EXCEPT ![name] = c], UNCHANGED records
    PROVE  /\ SurfacesOK'
           /\ surface'[name] = c
           /\ \A other \in SurfaceNames \ {name} : surface'[other] = surface[other]
  <1>1. DOMAIN surface = SurfaceNames
    BY DEF IInv, SurfacesOK
  <1>2. /\ DOMAIN surface' = SurfaceNames
        /\ surface'[name] = c
        /\ \A other \in SurfaceNames \ {name} : surface'[other] = surface[other]
    BY <1>1
  <1>3. \A x : Ours(x) => Ours(x)'
    BY DEF Ours
  <1>4. ASSUME NEW other \in SurfaceNames
        PROVE  /\ Sound(other, surface'[other])
               /\ \A x \in Cited(surface'[other]) : Ours(x)
    BY <1>2 DEF IInv, SurfacesOK
  <1>5. SurfacesOK'
    BY <1>2, <1>3, <1>4 DEF SurfacesOK, Sound, Cited, Badged
  <1>6. QED
    BY <1>2, <1>5

(* An emptied file says nothing wrong.                                     *)
LEMMA EmptiedIsSound ==
    ASSUME NEW name \in SurfaceNames
    PROVE  Sound(name, Emptied) /\ Cited(Emptied) = {}
  <1>1. /\ DOMAIN Emptied = {"badge", "text", "intact"}
        /\ Emptied.badge = {} /\ Emptied.text = {} /\ Emptied.intact = FALSE
    BY DEF Emptied
  <1>2. QED
    BY <1>1 DEF Sound, Cited

(* A file that is emptied is not behind the script yet.                   *)
LEMMA TruncateFileKeeps == ASSUME IInv, TruncateFile PROVE IInv'
  <1>1. /\ UNCHANGED records /\ UNCHANGED pdf
        /\ UNCHANGED stage /\ UNCHANGED release /\ UNCHANGED reported
        /\ script.at = "truncate" /\ script.at \in Rewriting
        /\ surface' = [surface EXCEPT ![Surfaces[script.file]] = Emptied]
        /\ script' = [script EXCEPT !.at = "write"]
    BY DEF TruncateFile, Runs, managerVars, Rewriting
  <1> DEFINE name == Surfaces[script.file]
  <1>2. /\ DOMAIN script = {"at", "arg", "file", "new"}
        /\ reported = NoDoi /\ script.file \in 1..4 /\ script.file \in 1..5
        /\ \A i \in 1..4 : i < script.file =>
             Settled(Surfaces[i], surface[Surfaces[i]], script.arg)
    BY <1>1, RewritingIsOK
  <1>3. Sound(name, script.new) /\ Settled(name, script.new, script.arg)
    BY <1>1 DEF IInv, RewriteOK, Pending
  <1>4. name \in SurfaceNames
    BY <1>2, SurfacesAreFour
  <1>5. /\ SurfacesOK'
        /\ \A other \in SurfaceNames \ {name} : surface'[other] = surface[other]
    <2>1. \A x \in Cited(Emptied) : Ours(x)
      BY <1>4, EmptiedIsSound
    <2>2. QED
      BY <1>1, <1>4, <2>1, EmptiedIsSound, SurfaceChanges
  <1>6. /\ DOMAIN script' = {"at", "arg", "file", "new"}
        /\ script'.arg = script.arg /\ script'.at = "write"
        /\ script'.file = script.file /\ script'.new = script.new
    BY <1>1, <1>2
  <1>7. ASSUME NEW i \in 1..4, i < script'.file
        PROVE  Settled(Surfaces[i], surface'[Surfaces[i]], script.arg)
    <2>1. i # script.file
      BY <1>2, <1>6, <1>7
    <2>2. Surfaces[i] \in SurfaceNames \ {name}
      BY <1>2, <2>1, SurfacesAreFour
    <2>3. QED
      BY <1>2, <1>5, <1>6, <1>7, <2>2
  <1>8. ScriptOK' /\ RewriteOK' /\ ManagerOK'
    <2>1. script'.file # 5 /\ script'.file \in 1..5
      BY <1>2, <1>6
    <2>2. script'.at \in Rewriting /\ script'.at # "report"
      BY <1>6 DEF Rewriting
    <2>3. QED
      BY <1>1, <1>3, <1>6, <1>7, <2>1, <2>2, ScriptGoesOn
  <1>9. ReportOK'
    BY <1>1, <1>2 DEF ReportOK
  <1>10. QED
    BY <1>1, <1>5, <1>8, <1>9, RecordsStay DEF IInv

(* A file that is written is settled, and the script goes on.             *)
LEMMA WriteFileKeeps == ASSUME IInv, WriteFile PROVE IInv'
  <1>1. /\ UNCHANGED records /\ UNCHANGED pdf
        /\ UNCHANGED stage /\ UNCHANGED release /\ UNCHANGED reported
        /\ script.at = "write" /\ script.at \in Rewriting
        /\ surface' = [surface EXCEPT ![Surfaces[script.file]] = script.new]
        /\ script' = [script EXCEPT !.at = AfterFile, !.file = @ + 1, !.new = Silent]
    BY DEF WriteFile, Runs, managerVars, Rewriting
  <1> DEFINE name == Surfaces[script.file]
  <1>2. /\ DOMAIN script = {"at", "arg", "file", "new"}
        /\ reported = NoDoi /\ script.file \in 1..4
        /\ Ours(script.arg)
    BY <1>1, RewritingIsOK
  <1>3. Sound(name, script.new) /\ Settled(name, script.new, script.arg)
    BY <1>1 DEF IInv, RewriteOK, Pending
  <1>4. name \in SurfaceNames
    BY <1>2, SurfacesAreFour
  <1>5. \A x \in Cited(script.new) : Ours(x)
    BY <1>2, <1>3 DEF Settled, Ours, Concept
  <1>6. /\ SurfacesOK'
        /\ surface'[name] = script.new
        /\ \A other \in SurfaceNames \ {name} : surface'[other] = surface[other]
    BY <1>1, <1>3, <1>4, <1>5, SurfaceChanges
  <1>7. /\ DOMAIN script' = {"at", "arg", "file", "new"}
        /\ script'.arg = script.arg /\ script'.at = AfterFile
        /\ script'.file = script.file + 1
    BY <1>1, <1>2
  <1>8. \A i \in 1..4 : i # script.file => surface'[Surfaces[i]] = surface[Surfaces[i]]
    BY <1>2, <1>6, SurfacesAreFour
  <1>9. ScriptOK' /\ RewriteOK' /\ ManagerOK'
    BY <1>1, <1>3, <1>6, <1>7, <1>8, FileBehind
  <1>10. ReportOK'
    BY <1>1, <1>2 DEF ReportOK
  <1>11. QED
    BY <1>1, <1>6, <1>9, <1>10, RecordsStay DEF IInv

(* All four surfaces are settled when set_doi reports.                     *)
LEMMA ReportDoiKeeps == ASSUME IInv, ReportDoi PROVE IInv'
  <1>1. /\ UNCHANGED records /\ UNCHANGED surface /\ UNCHANGED pdf /\ UNCHANGED release
        /\ script.at = "report" /\ script.at \in Rewriting
        /\ Ends /\ reported' = script.arg
        /\ stage' = IF stage = "cite" THEN "render" ELSE stage
    BY DEF ReportDoi, Runs, Rewriting
  <1>2. /\ script.file = 5
        /\ \A i \in 1..4 : i < script.file =>
             Settled(Surfaces[i], surface[Surfaces[i]], script.arg)
    BY <1>1, RewritingIsOK
  <1>3. \A i \in 1..4 : Settled(Surfaces[i], surface[Surfaces[i]], script.arg)
    BY <1>2
  <1>4. \A name \in SurfaceNames : Settled(name, surface[name], script.arg)
    BY <1>3, SurfacesAreFour
  <1>5. ReportOK'
    BY <1>1, <1>4 DEF ReportOK, Settled, Cited, CitesOnly, Badged
  <1>6. stage \in Citing
    BY <1>1 DEF IInv, ScriptOK, OfSetDoi
  <1>7. ManagerOK'
    <2>1. stage' \notin Rendered /\ stage' # "publish"
      BY <1>1, <1>6 DEF Citing, Rendered
    <2>2. stage' # "reserve" => stage # "reserve"
      BY <1>1
    <2>3. stage' # "reserve" => release' \in Releases \ {1} /\ records'[release'].state # "none"
      BY <1>1, <2>2 DEF IInv, ManagerOK
    <2>4. reported' # NoDoi
      <3>1. script.arg.record \in Records
        BY <1>1, RewritingIsOK DEF DOIs
      <3>2. NoDoi.record = 0 /\ 0 \notin Records
        BY DEF NoDoi, Doi, Records
      <3>3. QED
        BY <1>1, <3>1, <3>2
    <2>5. QED
      BY <2>1, <2>3, <2>4 DEF ManagerOK
  <1>8. ScriptOK' /\ RewriteOK'
    BY <1>1, ScriptEnds
  <1>9. QED
    BY <1>1, <1>5, <1>7, <1>8, RecordsStay, SurfacesStay, NoRecordMoves DEF IInv

-----------------------------------------------------------------------------
(* The manager and the machine.                                            *)

(* A PDF is made from what the release's set_doi has left.                 *)
LEMMA RenderKeeps == ASSUME IInv, Render PROVE IInv'
  <1>1. /\ UNCHANGED records /\ UNCHANGED surface /\ UNCHANGED release
        /\ UNCHANGED script /\ UNCHANGED reported
        /\ script.at = "none" /\ stage \in Cleared
        /\ pdf' = [from |-> surface[Archived], given |-> reported]
        /\ stage' = "upload"
    BY DEF Render, Runs, Cleared, Rendered, Archived
  <1>2. ScriptOK' /\ RewriteOK'
    BY <1>1, NothingRuns DEF IInv, ScriptOK
  <1>3. /\ release \in Releases \ {1} /\ records[release].state # "none"
        /\ reported # NoDoi
    BY <1>1 DEF IInv, ManagerOK, Cleared, Rendered
  <1>4. reported' # NoDoi /\ Faithful(pdf)'
    <2>1. CitesOnly(surface[Archived], reported)
      BY <1>3 DEF IInv, ReportOK, Settled, SurfaceNames, Archived, Badged
    <2>2. QED
      BY <1>1, <1>3, <2>1 DEF Faithful, CitesOnly
  <1>5. release' \in Releases \ {1} /\ records'[release'].state # "none"
    BY <1>1, <1>3
  <1>6. stage' # "publish"
    BY <1>1
  <1>7. ManagerOK'
    BY <1>4, <1>5, <1>6 DEF ManagerOK
  <1>8. QED
    BY <1>1, <1>2, <1>7, RecordsStay, SurfacesStay, NoRecordMoves, ReportStays DEF IInv

(* A file that is restored cites nothing.                                  *)
LEMMA RestoreKeeps == ASSUME IInv, Restore PROVE IInv'
  <1>1. /\ UNCHANGED records /\ UNCHANGED pdf /\ UNCHANGED release /\ UNCHANGED script
        /\ script.at = "none" /\ stage' = CiteAgain /\ reported' = NoDoi
    BY DEF Restore, Runs
  <1>2. PICK name \in DOMAIN surface : surface' = [surface EXCEPT ![name] = Silent]
    BY DEF Restore
  <1>3. name \in SurfaceNames
    BY <1>2 DEF IInv, SurfacesOK
  <1>4. Sound(name, Silent) /\ Cited(Silent) = {}
    <2>1. /\ DOMAIN Silent = {"badge", "text", "intact"}
          /\ Silent.badge = {} /\ Silent.text = {} /\ Silent.intact = TRUE
      BY DEF Silent
    <2>2. QED
      BY <2>1 DEF Sound, Cited
  <1>5. SurfacesOK'
    <2>1. \A x \in Cited(Silent) : Ours(x)
      BY <1>4
    <2>2. QED
      BY <1>1, <1>2, <1>3, <1>4, <2>1, SurfaceChanges
  <1>6. ScriptOK' /\ RewriteOK'
    BY <1>1, NothingRuns DEF IInv, ScriptOK
  <1>7. ManagerOK'
    <2>1. stage' \notin Cleared /\ stage' \notin Rendered /\ stage' # "publish"
      BY <1>1, CitingAgain DEF Citing, Cleared, Rendered
    <2>2. stage' # "reserve" => release' \in Releases \ {1} /\ records'[release'].state # "none"
      BY <1>1, CitingAgain DEF IInv, ManagerOK
    <2>3. QED
      BY <2>1, <2>2 DEF ManagerOK
  <1>8. ReportOK'
    BY <1>1 DEF ReportOK
  <1>9. QED
    BY <1>1, <1>5, <1>6, <1>7, <1>8, RecordsStay DEF IInv

(* The next release is begun.                                             *)
LEMMA NoticePublishedKeeps == ASSUME IInv, NoticePublished PROVE IInv'
  <1>1. /\ UNCHANGED records /\ UNCHANGED surface /\ UNCHANGED pdf
        /\ UNCHANGED release /\ UNCHANGED script /\ UNCHANGED reported
        /\ script.at = "none" /\ stage' = "reserve"
    BY DEF NoticePublished, Runs
  <1>2. ScriptOK' /\ RewriteOK'
    BY <1>1, NothingRuns DEF IInv, ScriptOK
  <1>3. ManagerOK'
    BY <1>1 DEF ManagerOK, Cleared, Rendered
  <1>4. QED
    BY <1>1, <1>2, <1>3, RecordsStay, SurfacesStay, NoRecordMoves, ReportStays DEF IInv

(* A script that is stopped leaves everything but itself as it is.         *)
LEMMA StopKeeps == ASSUME IInv, Stop PROVE IInv'
  <1>1. /\ UNCHANGED records /\ UNCHANGED surface /\ UNCHANGED pdf
        /\ UNCHANGED stage /\ UNCHANGED release /\ UNCHANGED reported
        /\ script.at # "none" /\ Ends
    BY DEF Stop, Runs, managerVars
  <1>2. script'.at = "none" /\ ScriptOK' /\ RewriteOK'
    BY <1>1, ScriptEnds
  <1>3. ManagerOK'
    <2>1. stage' = stage \/ stage' \in Citing \/ (stage \in Rendered /\ stage' = "upload")
      BY <1>1
    <2>2. stage' # "publish"
      BY <1>1 DEF IInv, ManagerOK
    <2>3. stage' # "reserve" => stage # "reserve"
      BY <1>1
    <2>4. QED
      BY <1>1, <2>1, <2>2, <2>3, NoRecordMoves, ManagerStays
  <1>4. QED
    BY <1>1, <1>2, <1>3, RecordsStay, SurfacesStay, NoRecordMoves, ReportStays DEF IInv

(* Nothing happens.                                                        *)
LEMMA ReleaseStutters == ASSUME IInv, UNCHANGED vars PROVE IInv'
  BY DEF vars, managerVars, IInv, RecordsOK, SurfacesOK, ScriptOK, RewriteOK, ManagerOK,
         FilesOK, ReportOK, Sound, Settled, Attached, CitesOnly, Faithful, Ours, Cited, Badged

-----------------------------------------------------------------------------
(* The theorems.                                                           *)

(* Every step keeps the invariant.                                        *)
LEMMA ReleaseStepsKeep == IInv /\ [Next]_vars => IInv'
  <1> SUFFICES ASSUME IInv, [Next]_vars PROVE IInv'
    OBVIOUS
  <1>1. CASE Deposit
    BY <1>1, ReserveKeeps, StartUploadKeeps, UploadKeeps, PublishKeeps DEF Deposit
  <1>2. CASE SetDoi
    BY <1>2, StartSetDoiKeeps, ResolveKeeps, ReadFileKeeps, TruncateFileKeeps,
       WriteFileKeeps, ReportDoiKeeps DEF SetDoi
  <1>3. CASE Render \/ Restore \/ NoticePublished \/ Stop
    BY <1>3, RenderKeeps, RestoreKeeps, NoticePublishedKeeps, StopKeeps
  <1>4. CASE UNCHANGED vars
    BY <1>4, ReleaseStutters
  <1>5. QED
    BY <1>1, <1>2, <1>3, <1>4 DEF Next

(* The invariant holds in every reachable state.                          *)
LEMMA ReleaseInvariant == Spec => []IInv
  BY ReleasesBeginWell, ReleaseStepsKeep, PTL DEF Spec

(* Whatever failed on the way and was done again, a record published here  *)
(* has all its files and its PDF cites the DOI that set_doi had been given *)
(* last, the record's own if that was what was typed; unless the PDF was   *)
(* made from a CITATION.cff a stopped script had emptied.                  *)
THEOREM PublishedPdfCitesWhatWasGiven == Spec => []ArchivedPdfCitesGiven
  <1>1. ASSUME IInv PROVE ArchivedPdfCitesGiven
    <2>1. ASSUME NEW n \in Releases \ {1}, records[n].state = "published"
          PROVE  /\ \A p \in DOMAIN records[n].files : records[n].files[p] # {}
                 /\ \A c \in records[n].files["pdf"] :
                      /\ c.given # NoDoi
                      /\ c.from.intact => c.from.text = {c.given}
      <3>1. Attached(n) /\ \A c \in records[n].files["pdf"] : Faithful(c)
        BY <1>1, <2>1 DEF IInv, FilesOK
      <3>2. DOMAIN records[n].files = {"pdf", "bundle"}
        BY <1>1, ReleasesAreRecords DEF IInv, RecordsOK
      <3>3. QED
        BY <3>1, <3>2 DEF Attached, CitesOnly, Faithful
    <2>2. QED
      BY <2>1 DEF ArchivedPdfCitesGiven
  <1>2. QED
    BY <1>1, ReleaseInvariant, PTL

(* Every number cited is that of a record of this project or of its        *)
(* concept, however a DOI was mistyped and wherever a script was stopped;  *)
(* and the prefix is right as long as the record is a draft.               *)
THEOREM SurfacesCiteOurs == Spec => []CitedIsOurs
  <1>1. IInv => CitedIsOurs
    BY DEF IInv, SurfacesOK, CitedIsOurs, Ours
  <1>2. QED
    BY <1>1, ReleaseInvariant, PTL

(* All surfaces agree on a DOI that set_doi has reported, until it is run  *)
(* again or a file is restored.                                            *)
THEOREM ReportedDoiIsEverywhere == Spec => []ReportedAgree
  <1>1. ASSUME IInv PROVE ReportedAgree
    <2>1. DOMAIN surface = SurfaceNames /\ Badged \in SurfaceNames
      BY <1>1 DEF IInv, SurfacesOK, SurfaceNames, Badged
    <2>2. reported # NoDoi => \A name \in SurfaceNames : Settled(name, surface[name], reported)
      BY <1>1 DEF IInv, ReportOK
    <2>3. QED
      BY <2>1, <2>2 DEF ReportedAgree, Settled, CitesOnly, Badged
  <1>2. QED
    BY <1>1, ReleaseInvariant, PTL
=============================================================================

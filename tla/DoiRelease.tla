----------------------------- MODULE DoiRelease -----------------------------
(***************************************************************************)
(* The DOI of a release (scripts/zenodo_release.py, scripts/set_doi.py):   *)
(* a release manager reserves a record, has its DOI written into every     *)
(* surface that cites it, renders the PDF, attaches the files and          *)
(* publishes.  A call to Zenodo may be carried out or not and answered or  *)
(* not; a script may be stopped at any step, between the truncation and    *)
(* the writing of a file too.  The manager keeps to the documented order,  *)
(* starts a script again when it fails, and may mistype a DOI: its record, *)
(* its concept for its version, or the prefix.                             *)
(***************************************************************************)
EXTENDS Integers, FiniteSets

CONSTANTS LastRelease,  \* releases are records 1..LastRelease; 1 is published
          Prefixes,     \* of DOIs; set_doi's pattern takes any
          MaxTypos,     \* bound on the DOIs typed wrong
          MaxStops      \* bound on the scripts stopped midway

ASSUME ReleasesAssumption ==
    LastRelease \in Nat \ {0} /\ MaxTypos \in Nat /\ MaxStops \in Nat

Zenodo == "10.5281"

ASSUME PrefixesAssumption == Zenodo \in Prefixes

Releases == 1..LastRelease
Other    == LastRelease + 1      \* a record of the same owner, of another project
Records  == 1..Other

\* What may be typed: a prefix and a number, which is that of a record or that
\* of its concept.
DOIs == [prefix : Prefixes, record : Records, of : {"version", "concept"}]

Doi(n)     == [prefix |-> Zenodo, record |-> n, of |-> "version"]
Concept(n) == [prefix |-> Zenodo, record |-> n, of |-> "concept"]
NoDoi      == Doi(0)

\* What set_doi writes, in its order, and what is attached to a record.
Surfaces == <<"CITATION.cff", "codemeta.json", ".zenodo.json", "README.md">>
Paths    == <<"pdf", "bundle">>

VARIABLES
    records,   \* of Zenodo: state and attached files
    surface,   \* the files that cite: their badge, their other text, and
               \* whether the rest of the file is there
    pdf,       \* the CITATION.cff the rendered PDF was made from, and
               \* (history) the DOI the manager had given set_doi last
    stage,     \* where the manager is in the documented order
    release,   \* the record the manager has reserved last
    script,    \* what is running: a step, its argument, and its local state
    typos,     \* DOIs typed wrong so far
    stops,     \* scripts stopped so far
    reported   \* history: the DOI the last set_doi reported as written

managerVars == <<pdf, stage, release>>
vars == <<records, surface, managerVars, script, typos, stops, reported>>

\* A file that was truncated and not written.
Emptied == [badge |-> {}, text |-> {}, intact |-> FALSE]
Silent  == [badge |-> {}, text |-> {}, intact |-> TRUE]

Cited(c) == c.badge \cup c.text

NoScript == [at |-> "none", arg |-> NoDoi, file |-> 1, new |-> Silent]

Runs(at) == script.at = at

\* The script ends; its exit status is what the manager goes by.
Ends == script' = NoScript

\* Whatever was rendered for the record in hand is to be rendered again.
CiteAgain == IF stage = "reserve" THEN stage ELSE "cite"

\* A call is carried out or not, and when carried out answered or not.
CallOutcomes == {o \in [done : BOOLEAN, answered : BOOLEAN] : o.answered => o.done}

-----------------------------------------------------------------------------
(* zenodo_release.py.                                                      *)

\* The metadata are read from .zenodo.json, of which the doi is left out, and
\* a draft is created with a DOI of its own.
Reserve ==
    /\ Runs("none") /\ stage = "reserve"
    /\ \E n \in {r \in Releases : records[r].state = "none"} :
        /\ \A r \in Releases : r < n => records[r].state # "none"
        /\ \E o \in CallOutcomes :
            /\ o.done => surface[".zenodo.json"].intact
            /\ records' = IF o.done THEN [records EXCEPT ![n].state = "draft"] ELSE records
            /\ IF o.answered THEN stage' = "cite" /\ release' = n
                             ELSE UNCHANGED <<stage, release>>
    /\ UNCHANGED <<surface, pdf, script, typos, stops, reported>>

StartUpload ==
    /\ Runs("none") /\ stage \in {"upload", "publish"}
    /\ stage' = "upload"
    /\ script' = [NoScript EXCEPT !.at = "upload", !.arg = Doi(release)]
    /\ UNCHANGED <<records, surface, pdf, release, typos, stops, reported>>

\* One file after another is put into the bucket of the draft; the first call
\* that fails ends the script.  A published record takes no file.
Upload ==
    /\ Runs("upload")
    /\ \E o \in CallOutcomes :
        /\ o.done => records[script.arg.record].state = "draft"
        /\ records' = IF o.done
                      THEN [records EXCEPT ![script.arg.record].files[Paths[script.file]] = {pdf}]
                      ELSE records
        /\ IF o.answered /\ script.file < 2
           THEN script' = [script EXCEPT !.file = @ + 1] /\ UNCHANGED stage
           ELSE Ends /\ stage' = IF o.answered THEN "publish" ELSE stage
    /\ UNCHANGED <<surface, pdf, release, typos, stops, reported>>

\* What is attached is not looked at.
Publish ==
    /\ Runs("none") /\ stage = "publish"
    /\ \E o \in CallOutcomes :
        /\ o.done => records[release].state = "draft"
        /\ records' = IF o.done THEN [records EXCEPT ![release].state = "published"] ELSE records
        /\ stage' = IF o.answered THEN "reserve" ELSE stage
    /\ UNCHANGED <<surface, pdf, release, script, typos, stops, reported>>

-----------------------------------------------------------------------------
(* set_doi.py.                                                             *)

\* With the reserved DOI, or one typed wrong.
StartSetDoi ==
    /\ Runs("none")
    /\ \E doi \in DOIs :
        /\ script' = [NoScript EXCEPT !.at = "resolve", !.arg = doi]
        /\ IF doi = Doi(release) THEN UNCHANGED typos
                                 ELSE typos < MaxTypos /\ typos' = typos + 1
    /\ stage' = CiteAgain
    /\ UNCHANGED <<records, surface, pdf, release, stops, reported>>

OurTitle(n) == n \in Releases

\* A public record is asked for by the number alone, a concept's number leads
\* to its version: neither the prefix nor the DOI of what answers is compared.
IsPublished(doi) == records[doi.record].state = "published"

\* A draft of the token's owner is compared with the DOI it reserves.
IsReserved(doi) == records[doi.record].state = "draft" /\ doi = Doi(doi.record)

\* Mutant: the title of a draft is not looked at.
ResolvesUntitled(doi, answered) ==
    answered /\ ((IsPublished(doi) /\ OurTitle(doi.record)) \/ IsReserved(doi))

\* Either has the title of this project.
Resolves(doi, answered) ==
    answered /\ (IsPublished(doi) \/ IsReserved(doi)) /\ OurTitle(doi.record)

Resolve ==
    /\ Runs("resolve")
    /\ \E answered \in BOOLEAN :
        IF Resolves(script.arg, answered)
        THEN script' = [script EXCEPT !.at = "read"] /\ reported' = NoDoi
        ELSE Ends /\ UNCHANGED reported
    /\ UNCHANGED <<records, surface, managerVars, typos, stops>>

\* Mutant: a CITATION.cff that has no doi yet keeps having none.
CitationReplaced(c, doi) == IF c.text # {} THEN [c EXCEPT !.text = {doi}] ELSE c

\* The doi line is replaced, or added after that of the repository; a file
\* that has neither is left as it is.
Citation(c, doi) == IF c.intact THEN [c EXCEPT !.text = {doi}] ELSE c

Identifier(c, doi) == [c EXCEPT !.text = {doi}]

\* Mutant: a README that has a badge keeps it.
ReadmeBadgeKept(c, doi, concept) ==
    [c EXCEPT !.badge = IF @ # {} THEN @ ELSE {concept},
              !.text = {IF x \in {doi, concept} THEN x ELSE doi : x \in @}]

\* The badge is replaced, or added; every other mention of a superseded DOI
\* becomes the version's.
Readme(c, doi, concept) ==
    [c EXCEPT !.badge = {concept},
              !.text = {IF x \in {doi, concept} THEN x ELSE doi : x \in @}]

\* What the file is to hold.  The concept DOI is asked for, and not insisted on.
Rewritten(name, c, doi) ==
    CASE name = "CITATION.cff" -> {Citation(c, doi)}
      [] name = "README.md"    -> {Readme(c, doi, k) : k \in {doi, Concept(doi.record)}}
      [] OTHER                 -> {Identifier(c, doi)}

AfterFile == IF script.file < 4 THEN "read" ELSE "report"

\* The file is read: json.loads raises on what is no JSON, and a README that
\* stays as it is is not written.
ReadFile ==
    /\ Runs("read")
    /\ LET name == Surfaces[script.file]
           c    == surface[name]
       IN  IF name \in {"codemeta.json", ".zenodo.json"} /\ ~c.intact
           THEN Ends
           ELSE \E d \in Rewritten(name, c, script.arg) :
                  script' = IF name = "README.md" /\ d = c
                            THEN [script EXCEPT !.at = AfterFile, !.file = @ + 1]
                            ELSE [script EXCEPT !.at = "truncate", !.new = d]
    /\ UNCHANGED <<records, surface, managerVars, typos, stops, reported>>

TruncateFile ==
    /\ Runs("truncate")
    /\ surface' = [surface EXCEPT ![Surfaces[script.file]] = Emptied]
    /\ script' = [script EXCEPT !.at = "write"]
    /\ UNCHANGED <<records, managerVars, typos, stops, reported>>

WriteFile ==
    /\ Runs("write")
    /\ surface' = [surface EXCEPT ![Surfaces[script.file]] = script.new]
    /\ script' = [script EXCEPT !.at = AfterFile, !.file = @ + 1, !.new = Silent]
    /\ UNCHANGED <<records, managerVars, typos, stops, reported>>

\* Exit status 0, and the manager renders: nothing compares the DOI with the one
\* that was reserved.
ReportDoi ==
    /\ Runs("report")
    /\ Ends
    /\ reported' = script.arg
    /\ stage' = IF stage = "cite" THEN "render" ELSE stage
    /\ UNCHANGED <<records, surface, pdf, release, typos, stops>>

-----------------------------------------------------------------------------
(* The manager and the machine.                                            *)

\* manuscript_vars._doi reads CITATION.cff whenever the manuscript is rendered.
Render ==
    /\ Runs("none") /\ stage \in {"render", "upload", "publish"}
    /\ pdf' = [from |-> surface["CITATION.cff"], given |-> reported]
    /\ stage' = "upload"
    /\ UNCHANGED <<records, surface, release, script, typos, stops, reported>>

\* A file that was emptied is noticed and restored as it was committed.
Restore ==
    /\ Runs("none")
    /\ \E name \in DOMAIN surface :
        /\ ~surface[name].intact
        /\ surface' = [surface EXCEPT ![name] = Silent]
    /\ stage' = CiteAgain
    /\ reported' = NoDoi
    /\ UNCHANGED <<records, pdf, release, script, typos, stops>>

\* A publication nobody was told of is found out.
NoticePublished ==
    /\ Runs("none") /\ stage \in {"cite", "render", "upload", "publish"}
    /\ records[release].state = "published"
    /\ stage' = "reserve"
    /\ UNCHANGED <<records, surface, pdf, release, script, typos, stops, reported>>

\* The script is killed, or a write fails.
Stop ==
    /\ ~Runs("none") /\ stops < MaxStops
    /\ stops' = stops + 1
    /\ Ends
    /\ UNCHANGED <<records, surface, managerVars, typos, reported>>

Init ==
    /\ \E other \in {"draft", "published"} :
        records = [n \in Records |->
            [state |-> CASE n = 1 -> "published" [] n = Other -> other [] OTHER -> "none",
             files |-> [p \in {"pdf", "bundle"} |-> {}]]]
    /\ \E badge \in {Doi(1), Concept(1)}, text \in SUBSET {Doi(1)} :
        surface = [name \in {Surfaces[i] : i \in 1..4} |->
            IF name = "README.md" THEN [Silent EXCEPT !.badge = {badge}, !.text = text] ELSE Silent]
    /\ pdf = [from |-> Silent, given |-> NoDoi]
    /\ stage = "reserve"
    /\ release = 1
    /\ script = NoScript
    /\ typos = 0
    /\ stops = 0
    /\ reported = NoDoi

SetDoi == StartSetDoi \/ Resolve \/ ReadFile \/ TruncateFile \/ WriteFile \/ ReportDoi
Deposit == Reserve \/ StartUpload \/ Upload \/ Publish

Next == Deposit \/ SetDoi \/ Render \/ Restore \/ NoticePublished \/ Stop

Spec == Init /\ [][Next]_vars

-----------------------------------------------------------------------------
(* Correctness.                                                            *)

(* One record, one DOI, and a PDF that carries it: whatever failed on the  *)
(* way and was done again, a record published here has all its files, and  *)
(* its PDF cites the very DOI the manager gave set_doi last before it was  *)
(* rendered: that of the record, if that was what the manager typed (no    *)
(* script compares the two).  Excepted is a PDF made from a CITATION.cff a *)
(* stopped script had emptied, which set_doi leaves without a doi and      *)
(* reports as written.                                                     *)
ArchivedPdfCitesGiven ==
    \A n \in Releases \ {1} : records[n].state = "published" =>
        /\ \A p \in DOMAIN records[n].files : records[n].files[p] # {}
        /\ \A c \in records[n].files["pdf"] :
            /\ c.given # NoDoi
            /\ c.from.intact => c.from.text = {c.given}

(* However a DOI was mistyped and however far a script got, the number     *)
(* that a surface cites is that of a record of this project or of its      *)
(* concept; and while the record is a draft the prefix is right too.  Of a *)
(* published record any prefix passes (set_doi.py:38, 55-63).              *)
CitedIsOurs ==
    \A name \in DOMAIN surface : \A x \in Cited(surface[name]) :
        /\ x.record \in Releases
        /\ \/ records[x.record].state = "published"
           \/ records[x.record].state = "draft" /\ x.prefix = Zenodo

(* Once set_doi has reported a DOI, all surfaces agree: the metadata cite  *)
(* it, the README cites nothing but that version and its concept; a        *)
(* CITATION.cff that was emptied before cites nothing.                     *)
ReportedAgree ==
    reported # NoDoi =>
        /\ \A name \in DOMAIN surface :
            Cited(surface[name]) \subseteq {reported, Concept(reported.record)}
        /\ \A name \in DOMAIN surface \ {"README.md"} :
            surface[name].intact => surface[name].text = {reported}
        /\ surface["README.md"].badge # {}
=============================================================================

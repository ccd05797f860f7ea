---------------------------- MODULE CommandOutputs ----------------------------
(***************************************************************************)
(* What the commands `build --threshold`, `keygen` and `extract --out`     *)
(* leave on disk (cli.py, secure_io.py, fileext.py) when they are run      *)
(* again, run at once, killed, or fail to write.                           *)
(*                                                                         *)
(* A command is a plan, the files it writes one after another, and a file  *)
(* is written in one of three ways:                                        *)
(*   "replace"    Path.write_bytes: truncate, then write, at the umask's   *)
(*                mode if the file is new;                                 *)
(*   "exclusive"  write_secret: create at 0600 or refuse, then write;      *)
(*   "overwrite"  write_secret(overwrite=True): truncate, write, tighten.  *)
(* What a file holds is the number of the command that made it: a build's  *)
(* document and shares belong together, and so do the two files of a key.  *)
(***************************************************************************)
EXTENDS Integers, Sequences, FiniteSets

CONSTANTS Processes,    \* the processes that run commands
          Shares,       \* n of k:n
          Threshold,    \* k of k:n
          MaxCommands   \* bound: commands begun

ASSUME OutputsAssumption ==
    /\ IsFiniteSet(Processes)
    /\ Shares \in Nat /\ Threshold \in 1..Shares /\ MaxCommands \in Nat

VARIABLES
    files,     \* what is on disk under each name
    proc,      \* each process: its command and how far it got
    begun,     \* commands begun so far
    opens,     \* history: the build that reported last, nothing undone since; or 0
    paired,    \* history: the keygen that reported last, nothing undone since; or 0
    tightened, \* history: an extract has reported
    killedAt   \* history: the names a killed process was writing

historyVars == <<opens, paired, tightened, killedAt>>
vars == <<files, proc, begun, historyVars>>

Surface == <<"doc", 1>>        \* report.docx
Plus    == <<"doc", 2>>        \* report.docxplus
Share(i) == <<"share", i>>     \* shares/<slot>.share<i>.bin
Key     == <<"key", 1>>        \* -o K
Pub     == <<"key", 2>>        \* K.pub
Out     == <<"out", 1>>        \* --out

ShareNames == {Share(i) : i \in 1..Shares}
Documents  == {Surface, Plus}
Kept       == ShareNames \cup {Key}       \* secrets that are created, never replaced
Names      == Documents \cup Kept \cup {Pub, Out}

Ways   == {"replace", "exclusive", "overwrite"}
Writes == [name : Names, how : Ways]

Absent == [state |-> "absent", wide |-> FALSE, of |-> 0]
FileStates == [state : {"absent", "torn", "whole"}, wide : BOOLEAN, of : 0..MaxCommands]

Idle == [job |-> "none", number |-> 0, at |-> "idle", left |-> <<>>,
         linked |-> FALSE, alone |-> FALSE]

Exists(name) == files[name].state # "absent"

-----------------------------------------------------------------------------
(* The plans.                                                              *)

\* write_document: the surface name first, then the docxplus one.
WriteDocument == <<[name |-> Surface, how |-> "replace"],
                   [name |-> Plus, how |-> "replace"]>>

BuildPlan == WriteDocument \o
             [i \in 1..Shares |-> [name |-> Share(i), how |-> "exclusive"]]

\* Mutant: the public half goes first.
PublicFirst == <<[name |-> Pub, how |-> "replace"],
                 [name |-> Key, how |-> "exclusive"]>>

KeygenPlan == <<[name |-> Key, how |-> "exclusive"],
                [name |-> Pub, how |-> "replace"]>>

ExtractPlan == <<[name |-> Out, how |-> "overwrite"]>>

-----------------------------------------------------------------------------
(* Commands.                                                               *)

Busy(job) == {p \in Processes : proc[p].job = job}

Started(job, number, at, plan, alone) ==
    [job |-> job, number |-> number, at |-> at, left |-> plan,
     linked |-> FALSE, alone |-> alone]

\* _cmd_build up to builder.build(): a document and its shares in memory.  Two
\* builds at once are not alone.
Build(p) ==
    /\ proc[p] = Idle /\ begun < MaxCommands
    /\ begun' = begun + 1
    /\ proc' = [q \in Processes |->
                  IF q = p
                  THEN Started("build", begun + 1, "open", BuildPlan, Busy("build") = {})
                  ELSE [proc[q] EXCEPT !.alone = FALSE]]
    /\ opens' = 0
    /\ UNCHANGED <<files, paired, tightened, killedAt>>

Keygen(p) ==
    /\ proc[p] = Idle /\ begun < MaxCommands
    /\ begun' = begun + 1
    /\ proc' = [proc EXCEPT ![p] = Started("keygen", begun + 1, "open", KeygenPlan, FALSE)]
    /\ UNCHANGED <<files, historyVars>>

\* _cmd_extract opens the document: it is whole, or the command exits 1.
ReadDocument(p, name) ==
    /\ proc[p] = Idle /\ begun < MaxCommands
    /\ files[name].state = "whole"
    /\ begun' = begun + 1
    /\ proc' = [proc EXCEPT ![p] =
                  Started("extract", files[name].of, "shares", ExtractPlan, FALSE)]
    /\ UNCHANGED <<files, historyVars>>

SharesOf(number) ==
    {s \in ShareNames : files[s].state = "whole" /\ files[s].of = number}

\* It reads the shares it was given: enough of the document's, or it exits 1.
ReadShares(p) ==
    /\ proc[p].at = "shares"
    /\ proc' = [proc EXCEPT ![p] =
                  IF Cardinality(SharesOf(@.number)) >= Threshold
                  THEN [@ EXCEPT !.at = "open"] ELSE Idle]
    /\ UNCHANGED <<files, begun, historyVars>>

-----------------------------------------------------------------------------
(* Writing one file.                                                       *)

Current(p) == Head(proc[p].left)

Opened(p) ==
    LET name == Current(p).name IN
    [files EXCEPT ![name] =
       [state |-> "torn", of |-> 0,
        wide |-> IF Exists(name) THEN @.wide ELSE Current(p).how = "replace"]]

\* Mutant: without O_EXCL.
OpenAnyway(p) ==
    /\ proc[p].at = "open"
    /\ files' = Opened(p)
    /\ proc' = [proc EXCEPT ![p].at = "write", ![p].linked = TRUE]
    /\ UNCHANGED <<begun, historyVars>>

\* os.open and open(): the file is there, and empty, before anything is written.
Open(p) ==
    /\ proc[p].at = "open"
    /\ ~(Current(p).how = "exclusive" /\ Exists(Current(p).name))
    /\ files' = Opened(p)
    /\ proc' = [proc EXCEPT ![p].at = "write", ![p].linked = TRUE]
    /\ UNCHANGED <<begun, historyVars>>

\* Mutant: the last file is not known to be the last.
ProceedAnyway(process) ==
    [process EXCEPT !.left = Tail(@), !.at = "open", !.linked = FALSE]

\* The next file of the plan, or the end of the command.
Proceed(process) ==
    IF Len(process.left) = 1 THEN Idle
    ELSE [process EXCEPT !.left = Tail(@), !.at = "open", !.linked = FALSE]

Report(p, left) ==
    /\ opens' = IF left = 1 /\ proc[p].job = "build" /\ proc[p].alone
                THEN proc[p].number ELSE opens
    /\ paired' = IF left = 1 /\ proc[p].job = "keygen" THEN proc[p].number ELSE paired
    /\ tightened' = (tightened \/ (left = 1 /\ proc[p].job = "extract"))
    /\ UNCHANGED killedAt

\* Mutant: a secret that is there already is passed over.
PassOver(p) ==
    /\ proc[p].at = "open"
    /\ Current(p).how = "exclusive" /\ Exists(Current(p).name)
    /\ proc' = [proc EXCEPT ![p] = Proceed(@)]
    /\ Report(p, Len(proc[p].left))
    /\ UNCHANGED <<files, begun>>

\* SecretExistsError ends the command; keygen catches it to exit 1.
Refuse(p) ==
    /\ proc[p].at = "open"
    /\ Current(p).how = "exclusive" /\ Exists(Current(p).name)
    /\ proc' = [proc EXCEPT ![p] = Idle]
    /\ UNCHANGED <<files, begun, historyVars>>

\* Another process has this file open too, or wrote it since it was opened here.
Contested(p) ==
    \/ files[Current(p).name].state = "whole"
    \/ \E q \in Processes \ {p} :
         proc[q].at = "write" /\ proc[q].linked /\ Current(q).name = Current(p).name

\* The data is written and the file closed; into what another process wrote, the
\* shorter of the two leaves the end of the longer.  A file that has no name any
\* more takes the data with it.
Write(p) ==
    /\ proc[p].at = "write"
    /\ LET name == Current(p).name
           whole == [files[name] EXCEPT !.state = "whole", !.of = proc[p].number]
           mixed == [files[name] EXCEPT !.state = "torn", !.of = 0]
       IN  files' \in IF proc[p].linked
                      THEN {[files EXCEPT ![name] = file] :
                              file \in {whole} \cup (IF Contested(p) THEN {mixed} ELSE {})}
                      ELSE {files}
    /\ IF Current(p).how = "overwrite"
       THEN /\ proc' = [proc EXCEPT ![p].at = "chmod"]
            /\ UNCHANGED historyVars
       ELSE /\ proc' = [proc EXCEPT ![p] = Proceed(@)]
            /\ Report(p, Len(proc[p].left))
    /\ UNCHANGED begun

\* Mutant: the mode of the file is left as it is.
KeepMode(p) ==
    /\ proc[p].at = "chmod"
    /\ UNCHANGED <<files, begun>>
    /\ proc' = [proc EXCEPT ![p] = Proceed(@)]
    /\ Report(p, Len(proc[p].left))

\* os.chmod by name: whatever file has it now is tightened.
Chmod(p) ==
    /\ proc[p].at = "chmod" /\ Exists(Current(p).name)
    /\ files' = [files EXCEPT ![Current(p).name].wide = FALSE]
    /\ proc' = [proc EXCEPT ![p] = Proceed(@)]
    /\ Report(p, Len(proc[p].left))
    /\ UNCHANGED begun

\* The file was unlinked in between: chmod raises, and the command with it.
ChmodFails(p) ==
    /\ proc[p].at = "chmod" /\ ~Exists(Current(p).name)
    /\ proc' = [proc EXCEPT ![p] = Idle]
    /\ UNCHANGED <<files, begun, historyVars>>

\* A name is unlinked: who has the file open writes to no name.
Unlinked(p, name) ==
    [q \in Processes |->
       IF q = p THEN Idle
       ELSE IF proc[q].at = "write" /\ Current(q).name = name
            THEN [proc[q] EXCEPT !.linked = FALSE]
            ELSE proc[q]]

\* Mutant: a failed write leaves what was written.
LeavePart(p) ==
    /\ proc[p].at = "write"
    /\ proc' = [proc EXCEPT ![p] = Idle]
    /\ UNCHANGED <<files, begun, historyVars>>

\* A write fails: write_secret unlinks the name and raises; write_bytes raises.
\* Nothing in a command catches it.
FailToWrite(p) ==
    /\ proc[p].at = "write"
    /\ LET name == Current(p).name IN
        IF Current(p).how = "replace"
        THEN /\ files' = IF proc[p].linked
                         THEN [files EXCEPT ![name].state = "torn", ![name].of = 0]
                         ELSE files
             /\ proc' = [proc EXCEPT ![p] = Idle]
        ELSE /\ files' = [files EXCEPT ![name] = Absent]
             /\ proc' = Unlinked(p, name)
    /\ UNCHANGED <<begun, historyVars>>

-----------------------------------------------------------------------------
(* The machine and its user.                                               *)

Kill(p) ==
    /\ proc[p] # Idle
    /\ proc' = [proc EXCEPT ![p] = Idle]
    /\ killedAt' = IF proc[p].at \in {"write", "chmod"}
                   THEN killedAt \cup {Current(p).name} ELSE killedAt
    /\ UNCHANGED <<files, begun, opens, paired, tightened>>

\* "Move or delete it first": the user takes a secret away while nothing runs.
TakeAway(name) ==
    /\ \A p \in Processes : proc[p] = Idle
    /\ name \in Kept /\ Exists(name)
    /\ files' = [files EXCEPT ![name] = Absent]
    /\ opens' = IF name \in ShareNames THEN 0 ELSE opens
    /\ paired' = IF name = Key THEN 0 ELSE paired
    /\ killedAt' = killedAt \ {name}
    /\ UNCHANGED <<proc, begun, tightened>>

-----------------------------------------------------------------------------
(* The specification.                                                      *)

\* A file of the user's, readable to others, under the name they extract to.
OfTheUser == [state |-> "whole", wide |-> TRUE, of |-> 0]

Init ==
    /\ \E former \in {Absent, OfTheUser} :
         files = [name \in Names |-> IF name = Out THEN former ELSE Absent]
    /\ proc = [p \in Processes |-> Idle]
    /\ begun = 0 /\ opens = 0 /\ paired = 0 /\ tightened = FALSE /\ killedAt = {}

Step(p) ==
    \/ Build(p) \/ Keygen(p) \/ \E name \in Documents : ReadDocument(p, name)
    \/ ReadShares(p)
    \/ Open(p) \/ Refuse(p) \/ Write(p) \/ Chmod(p) \/ ChmodFails(p)
    \/ FailToWrite(p) \/ Kill(p)

Next ==
    \/ \E p \in Processes : Step(p)
    \/ \E name \in Kept : TakeAway(name)

Spec == Init /\ [][Next]_vars

-----------------------------------------------------------------------------
(* Properties.                                                             *)

\* Types of the variables: what each name holds, where each process is, and the
\* history the other properties compare with.
TypeOK ==
    /\ files \in [Names -> FileStates]
    /\ \A name \in Names : files[name].state # "whole" => files[name].of = 0
    /\ \A p \in Processes :
         /\ proc[p] # Idle => Len(proc[p].left) \in 1..(Shares + 2)
         /\ proc[p].at \in {"idle", "shares", "open", "write", "chmod"}
         /\ proc[p].number \in 0..begun
    /\ begun \in 0..MaxCommands
    /\ opens \in 0..begun /\ paired \in 0..begun
    /\ tightened \in BOOLEAN /\ killedAt \subseteq Names

\* Key and share material is not destroyed by a repeated command: a secret that is
\* on disk whole stays there as it is, whatever commands run, fail or are killed,
\* until the user takes it away.
SecretsKept ==
    [][\A name \in Kept :
         files[name].state = "whole" =>
           \/ files'[name] = files[name]
           \/ files'[name] = Absent /\ \A p \in Processes : proc[p] = Idle]_vars

\* A build that exits 0, with no other build at work in the meantime, leaves a
\* document that opens: both names hold it and every share file on disk is one of
\* its own, whatever former builds left behind and whatever else runs since.
ReportedBuildOpens ==
    opens # 0 =>
        /\ \A name \in Documents : files[name].state = "whole" /\ files[name].of = opens
        /\ SharesOf(opens) = ShareNames

\* A keygen that exits 0 leaves a pair: the public key beside the private one is
\* its own, although every attempt that came before or since may have failed.
ReportedKeysPair ==
    paired # 0 => \A name \in {Key, Pub} :
                    files[name].state = "whole" /\ files[name].of = paired

\* Keys and shares never have a mode that lets others read; nor has what an
\* extract leaves, once one has reported, also while it is extracted again.
AlwaysNarrow ==
    /\ \A name \in Kept : ~files[name].wide
    /\ tightened => ~files[Out].wide

Extracting(p) == proc[p].at \in {"write", "chmod"} /\ Current(p).name = Out

\* What is extracted over a file others may read can be read by them as well
\* from its truncation until os.chmod, and for good if a kill comes in between.
WideInWindow ==
    files[Out].wide =>
        \/ files[Out] = OfTheUser
        \/ \E p \in Processes : Extracting(p)
        \/ Out \in killedAt

\* Which secrets others may read, and when.  secure_io.py:10-13 and :36 say never
\* and that no window exists: true of what is created, keys and shares; of what
\* is overwritten, the window is exactly this.
SecretsNarrow == AlwaysNarrow /\ WideInWindow

\* Half a key or half a share is left behind only by a process killed over it: a
\* write that fails takes its file away.
TornOnlyByKill ==
    \A name \in Kept :
        files[name].state = "torn" =>
            \/ name \in killedAt
            \/ \E p \in Processes : proc[p].at = "write" /\ Current(p).name = name
=============================================================================

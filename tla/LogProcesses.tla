----------------------------- MODULE LogProcesses -----------------------------
(***************************************************************************)
(* The processes around a published transparency log: any number of        *)
(* `docxplus transparency-append` commands, each a read, a whole-file      *)
(* rewrite and a rewrite of the tree head with nothing held in between;    *)
(* a monitor that runs `docxplus verify-transparency` from time to time    *)
(* with a pinned key and the proof it kept; and whoever else has write     *)
(* access to the two files, the log's own operator included.               *)
(*                                                                         *)
(* Path.write_text truncates the file and then writes, so a file has three *)
(* states: absent, torn (empty or garbled, json.loads raises) and whole.   *)
(* A command that raises has changed nothing and is not a step.            *)
(***************************************************************************)
EXTENDS TransparencyLog, FiniteSets

CONSTANTS Appenders,    \* the transparency-append commands that may run
          Payloads,     \* what an entry says, digests and metadata
          Operator,     \* the signing key of the log, pinned by the monitor
          Stranger,     \* somebody else's signing key
          MaxEntries, MaxCrashes, MaxVerifies, MaxEdits, MaxRollbacks  \* bounds

ASSUME KeysAssumption == Operator # Stranger

ASSUME BoundsAssumption ==
    {MaxEntries, MaxCrashes, MaxVerifies, MaxEdits, MaxRollbacks} \subseteq Nat

VARIABLES
    file,       \* the log file
    head,       \* the tree head file
    proc,       \* per appender: where it is, its log, whether it signs
    monitor,    \* the verify-transparency command under way
    kept,       \* the consistency proof the monitor kept
    accepted,   \* history: what the monitor accepted
    signed,     \* history: the logs signed with the operator's key
    published,  \* history: the last log written out in full by an appender
    reported,   \* history: the entries reported as appended
    budget      \* what is left of the bounds on crashes, edits and rollbacks

fileVars    == <<file, head>>
historyVars == <<signed, published, reported>>
monitorVars == <<monitor, kept, accepted>>
vars == <<fileVars, proc, monitorVars, historyVars, budget>>

Absent  == [state |-> "absent"]
Torn    == [state |-> "torn"]
Whole(body) == [state |-> "whole", body |-> body]

IsWhole(f) == f.state = "whole"

-----------------------------------------------------------------------------
(* transparency-append.  at: the next thing the command does; raced: the   *)
(* file it has open was written by another command since it truncated it.  *)

Resting == [at |-> "idle", log |-> <<>>, signs |-> FALSE, raced |-> FALSE]

\* Mutant: a file that cannot be parsed is taken for a new log.
LoadedOrNew(f) ==
    IF IsWhole(f) /\ FromJsonAccepts(f.body) THEN {Entries(f.body)} ELSE {<<>>}

\* The log read from a file: a new one when there is no file, none at all
\* when from_json raises.
Loaded(f) ==
    CASE f.state = "absent" -> {<<>>}
      [] f.state = "torn"   -> {}
      [] f.state = "whole"  -> IF FromJsonAccepts(f.body) THEN {Entries(f.body)} ELSE {}

\* What the file holds once p has written: its text, unless another command
\* wrote a longer one into it since p truncated it.
Written(p, text) ==
    IF proc[p].raced THEN {Whole(text), Torn} ELSE {Whole(text)}

\* Every other command that has truncated the same file is overtaken.
Overtake(p, at, q) ==
    IF proc[q].at = at /\ q # p THEN [proc[q] EXCEPT !.raced = TRUE] ELSE proc[q]

LoadAndAppend(p) ==
    /\ proc[p].at = "idle"
    /\ \E log \in Loaded(file), data \in Payloads, signs \in BOOLEAN :
        /\ Len(log) < MaxEntries
        /\ proc' = [proc EXCEPT ![p] =
                       [at |-> "truncate log", log |-> AppendEntry(log, data),
                        signs |-> signs, raced |-> FALSE]]
    /\ UNCHANGED <<fileVars, monitorVars, historyVars, budget>>

TruncateLog(p) ==
    /\ proc[p].at = "truncate log"
    /\ file' = Torn
    /\ proc' = [proc EXCEPT ![p].at = "write log"]
    /\ UNCHANGED <<head, monitorVars, historyVars, budget>>

\* Without a signing key the command is done, and reports its entry.
WriteLog(p) ==
    /\ proc[p].at = "write log"
    /\ file' \in Written(p, ToJson(proc[p].log))
    /\ published' = proc[p].log
    /\ proc' = [q \in Appenders |->
                   IF q # p THEN Overtake(p, "write log", q)
                   ELSE IF proc[p].signs
                   THEN [proc[p] EXCEPT !.at = "truncate head", !.raced = FALSE]
                   ELSE Resting]
    /\ reported' = IF proc[p].signs THEN reported
                   ELSE reported \cup {proc[p].log[Len(proc[p].log)]}
    /\ UNCHANGED <<head, monitorVars, signed, budget>>

\* The head is signed, and then its file opened.
TruncateHead(p) ==
    /\ proc[p].at = "truncate head"
    /\ head' = Torn
    /\ signed' = signed \cup {proc[p].log}
    /\ proc' = [proc EXCEPT ![p].at = "write head"]
    /\ UNCHANGED <<file, monitorVars, published, reported, budget>>

WriteHead(p) ==
    /\ proc[p].at = "write head"
    /\ head' \in Written(p, SignedTreeHead(proc[p].log, Operator))
    /\ proc' = [q \in Appenders |->
                   IF q # p THEN Overtake(p, "write head", q) ELSE Resting]
    /\ reported' = reported \cup {proc[p].log[Len(proc[p].log)]}
    /\ UNCHANGED <<file, monitorVars, signed, published, budget>>

\* The command is killed.
Crash(p) ==
    /\ proc[p].at # "idle" /\ budget.crashes > 0
    /\ proc' = [proc EXCEPT ![p] = Resting]
    /\ budget' = [budget EXCEPT !.crashes = @ - 1]
    /\ UNCHANGED <<fileVars, monitorVars, historyVars>>

-----------------------------------------------------------------------------
(* verify-transparency --expected-key, with --sth or without, with         *)
(* --consistent-with once there is a proof, and with --emit-proof.  The    *)
(* files are read one after another.                                       *)

NotVerifying == [at |-> "idle", log |-> <<>>, anchored |-> FALSE, ok |-> FALSE]

VerifyLog(anchored) ==
    /\ monitor.at = "idle" /\ budget.verifies > 0
    /\ IsWhole(file) /\ FromJsonAccepts(file.body)
    /\ monitor' = [at |-> IF anchored THEN "head" ELSE "proof",
                   log |-> Entries(file.body), anchored |-> anchored, ok |-> TRUE]
    /\ budget' = [budget EXCEPT !.verifies = @ - 1]
    /\ UNCHANGED <<fileVars, proc, kept, accepted, historyVars>>

\* A head file that does not parse ends the command.
VerifyHead ==
    /\ monitor.at = "head"
    /\ monitor' = IF IsWhole(head)
                  THEN [monitor EXCEPT !.at = "proof",
                          !.ok = VerifySignedTreeHead(monitor.log, head.body, Operator)]
                  ELSE NotVerifying
    /\ UNCHANGED <<fileVars, proc, kept, accepted, historyVars, budget>>

\* The proof is emitted whatever the verdict.  The monitor's own script goes
\* by the exit status: only the proof of an accepted log replaces the old.
VerifyConsistencyAndEmit ==
    /\ monitor.at = "proof"
    /\ LET ok == monitor.ok /\ (IsWhole(kept) => VerifyConsistency(monitor.log, kept.body))
       IN  /\ kept' = IF ok THEN Whole(ConsistencyProof(monitor.log)) ELSE kept
           /\ accepted' = IF ok
                          THEN Append(accepted, [log |-> monitor.log,
                                                 anchored |-> monitor.anchored])
                          ELSE accepted
    /\ monitor' = NotVerifying
    /\ UNCHANGED <<fileVars, proc, historyVars, budget>>

-----------------------------------------------------------------------------
(* Writes by others, to a log that is whole.  Editors have no operator's   *)
(* key; they may put back anything that was published before.              *)

Prefixes(log) == {SubSeq(log, 1, n) : n \in 0..Len(log)}

\* The newest entry edited in place, its published hash left or recomputed.
EditTip(raw) ==
    LET tip    == raw[Len(raw)]
        edited == {[tip.entry EXCEPT !.data = data] : data \in Payloads}
        hashes == {tip.hash} \cup {EntryHash(e) : e \in edited}
    IN  {[raw EXCEPT ![Len(raw)] = e] : e \in [entry : edited, hash : hashes]}

\* A log of which some entries at the end were dropped, or replaced by one.
Rewritings(log) ==
    Prefixes(log) \cup
    {AppendEntry(l, data) : l \in {s \in Prefixes(log) : Len(s) < MaxEntries},
                            data \in Payloads}

Edit ==
    /\ IsWhole(file) /\ file.body # <<>> /\ budget.edits > 0
    /\ budget' = [budget EXCEPT !.edits = @ - 1]
    /\ \/ \E raw \in EditTip(file.body) : file' = Whole(raw) /\ UNCHANGED head
       \/ \E log \in Rewritings(Entries(file.body)) :
            /\ file' = Whole(ToJson(log))
            /\ head' \in {head, Whole(SignedTreeHead(log, Stranger)),
                          Whole([SignedTreeHead(log, Stranger) EXCEPT
                                    !.public_key = Operator])}
       \/ \E old \in signed :
            /\ file' \in {file, Whole(ToJson(old))}
            /\ head' \in {head, Whole(SignedTreeHead(old, Operator))}
    /\ UNCHANGED <<proc, monitorVars, historyVars>>

\* The operator drops or rewrites entries and signs the result.
Rollback ==
    /\ IsWhole(file) /\ FromJsonAccepts(file.body) /\ budget.rollbacks > 0
    /\ budget' = [budget EXCEPT !.rollbacks = @ - 1]
    /\ \E log \in Rewritings(Entries(file.body)) :
        /\ file' = Whole(ToJson(log))
        /\ head' = Whole(SignedTreeHead(log, Operator))
        /\ signed' = signed \cup {log}
    /\ UNCHANGED <<proc, monitorVars, published, reported>>

-----------------------------------------------------------------------------
Init ==
    /\ file = Absent
    /\ head = Absent
    /\ proc = [p \in Appenders |-> Resting]
    /\ monitor = NotVerifying
    /\ kept = Absent
    /\ accepted = <<>>
    /\ signed = {}
    /\ published = <<>>
    /\ reported = {}
    /\ budget = [crashes |-> MaxCrashes, verifies |-> MaxVerifies,
                 edits |-> MaxEdits, rollbacks |-> MaxRollbacks]

AppenderStep(p) ==
    \/ LoadAndAppend(p) \/ TruncateLog(p) \/ WriteLog(p)
    \/ TruncateHead(p) \/ WriteHead(p) \/ Crash(p)

MonitorStep ==
    \/ \E anchored \in BOOLEAN : VerifyLog(anchored)
    \/ VerifyHead
    \/ VerifyConsistencyAndEmit

Next ==
    \/ \E p \in Appenders : AppenderStep(p)
    \/ MonitorStep
    \/ Edit
    \/ Rollback

Spec == Init /\ [][Next]_vars

-----------------------------------------------------------------------------
(* Correctness.                                                            *)

IsPrefixOf(a, b) == Len(a) <= Len(b) /\ SubSeq(b, 1, Len(a)) = a

(* The variables have the shape the commands give them.                    *)
TypeOK ==
    /\ {file.state, head.state, kept.state} \subseteq {"absent", "torn", "whole"}
    /\ \A p \in Appenders :
        /\ proc[p].at \in {"idle", "truncate log", "write log", "truncate head",
                           "write head"}
        /\ Len(proc[p].log) <= MaxEntries
        /\ proc[p].at # "idle" => proc[p].log # <<>>
    /\ monitor.at \in {"idle", "head", "proof"}
    /\ \A log \in signed : Len(log) <= MaxEntries
    /\ Len(accepted) <= MaxVerifies

(* verify-transparency with a pinned signer and a tree head exits 0 only   *)
(* for a log the holder of that key signed, at exactly that length: no     *)
(* edit of the two files, no stale or spliced head and no interleaving     *)
(* with writers makes it accept another one.                               *)
AcceptedIsSigned ==
    \A i \in 1..Len(accepted) : accepted[i].anchored => accepted[i].log \in signed

(* Of the logs a monitor accepts, each extends the one accepted before:    *)
(* an operator who drops or rewrites entries and signs again is caught, as *)
(* long as the proof of a log that was refused does not replace the old.   *)
AcceptedOnlyGrows ==
    \A i \in 1..(Len(accepted) - 1) : IsPrefixOf(accepted[i].log, accepted[i + 1].log)

(* No two commands are under way together, and nobody else has written to  *)
(* the files: all that `one at a time` asks for below.                     *)
Undisturbed ==
    /\ \A p, q \in Appenders : proc[p].at # "idle" /\ proc[q].at # "idle" => p = q
    /\ budget.edits = MaxEdits /\ budget.rollbacks = MaxRollbacks

(* While one command at a time writes the files, killed or not, a tree     *)
(* head that can be read signs the log last written or what it extends: a  *)
(* stale head is never ahead of the log, nor of another log.               *)
HeadDescribesPrefix ==
    IsWhole(head) =>
        \E n \in 0..Len(published) :
            head.body = SignedTreeHead(SubSeq(published, 1, n), Operator)

Readable(f) == f.state # "torn"

(* An entry that transparency-append reported as appended is in the log    *)
(* whenever the log can be read, and the log can be read at least when no  *)
(* command is under way or was killed.                                     *)
ReportedRetained ==
    /\ IsWhole(file) => reported \subseteq {file.body[i].entry : i \in 1..Len(file.body)}
    /\ budget.crashes = MaxCrashes /\ (\A p \in Appenders : proc[p].at = "idle") =>
        Readable(file)

\* The files as the abstract log: what the log file holds, or held before it
\* was truncated, and whether a reader finds it.
Published == INSTANCE AppendOnlyLog WITH
    log      <- IF IsWhole(file) THEN Entries(file.body) ELSE published,
    readable <- Readable(file)

(* Run one at a time, and whenever they are killed, the commands publish   *)
(* an append-only log.                                                     *)
ImplementsAppendOnlyLog == Published!Spec
=============================================================================

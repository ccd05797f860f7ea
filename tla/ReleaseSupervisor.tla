-------------------------- MODULE ReleaseSupervisor --------------------------
(***************************************************************************)
(* One run of `validate_release.py validate`: the supervisor, the Docker   *)
(* daemon it asks for two containers, and the guest that runs the release  *)
(* gates in the second and streams its outputs back.  ReleaseProvision     *)
(* puts the run of `provision` it takes its image from in front of it.     *)
(*                                                                         *)
(* Every docker command is a client process with a deadline (Runner.run).  *)
(* What the daemon does with a request and how the client ends are apart:  *)
(* a client killed at its deadline, or by a signal's exception, may leave  *)
(* a request the daemon carries out later, or never.  A signal raises      *)
(* Refusal wherever the supervisor is, and once the disk is full every     *)
(* write of evidence raises.  Time is abstract: a deadline may pass in any *)
(* step that waits.                                                        *)
(***************************************************************************)
EXTENDS GuestStream

CONSTANTS Gates,        \* of the guest, its qualification the first
          MaxSignals    \* bound on the signals sent to the supervisor

ASSUME GatesAssumption == Gates \in Nat \ {0} /\ MaxSignals \in Nat

VARIABLES
    at,        \* what the supervisor does next
    sup,       \* its local variables and evidence
    box,       \* the daemon's two containers
    code,      \* the exit code of the validation container
    sealed,    \* whether that container has the controls asked for
    late,      \* requests given up that the daemon may yet carry out
    guest,     \* the guest in the validation container
    pipe,      \* what the guest wrote and the supervisor has not read
    stream,    \* the supervisor's GuestStream
    sources,   \* the source snapshots on the host
    disk,      \* the file system of the output directory
    signals,   \* signals the supervisor got
    files,     \* the verdicts in the output directory
    trouble,   \* history: the clean-up was cut short, or outrun (see Noted)
    exposed,   \* history: the container ran without its controls, and has not
               \*          been given them back
    drifted    \* history: a snapshot was changed before it was looked at last,
               \*          and has not been changed back

daemonVars == <<box, late>>
guestVars  == <<code, guest, pipe>>
worldVars  == <<sealed, sources, disk>>
supVars    == <<at, sup, stream, files>>
vars == <<supVars, daemonVars, guestVars, worldVars, signals, trouble, exposed, drifted>>

Cleanup == {"stop", "kill", "wait", "final inspect", "emergency kill"}

\* Before the clean-up, in the order of validate().
BeforeCleanup ==
    {"verify", "configure", "check record",
     "create metadata", "recover metadata", "copy receipt", "remove metadata",
     "create", "recover", "inspect", "start", "attached", "close"}

Over == {"ended", "killed"}

Running == box.validation = "running"

-----------------------------------------------------------------------------
(* How a step of the supervisor may end: what became of its effect, and    *)
(* how it looked to the supervisor.  "refused" is a non-zero exit status.  *)

Outcomes ==
    {o \in [effect : {"now", "never", "late"},
            how : {"returns", "refused", "raises", "fails", "signalled"}] :
        CASE o.how = "returns"   -> o.effect = "now"
          [] o.how = "refused"   -> o.effect = "never"
          [] o.how = "raises"    -> disk = "full" /\ o.effect # "late"
          [] o.how = "signalled" -> signals < MaxSignals
          [] o.how = "fails"     -> TRUE}

\* Of a step that asks the daemon nothing.
LocalOutcomes ==
    {o \in Outcomes : o.how \notin {"refused", "fails"} /\ o.effect # "late"}

\* Of a command run without evidence, subprocess.run in the clean-up.
UnrecordedOutcomes == {o \in Outcomes : o.how # "raises"}

Returned(o) == o.how = "returns"
Raised(o)   == o.how \in {"raises", "fails", "signalled"}

\* Trouble is a signal in the clean-up, an emergency kill the daemon got and
\* did not carry out although the container runs, and in LateRequest a start
\* that is carried out after the last command of the clean-up.
Noted(o) ==
    /\ signals' = signals + (IF o.how = "signalled" THEN 1 ELSE 0)
    /\ trouble' = (trouble \/ (at \in Cleanup /\ o.how = "signalled")
                           \/ (at = "emergency kill" /\ Running
                                 /\ o.how # "raises" /\ o.effect # "now"))

\* A request to the daemon with this effect.
Ask(o, request, done) ==
    /\ box' = IF o.effect = "now" THEN done ELSE box
    /\ late' = IF o.effect = "late" THEN late \cup {request} ELSE late
    /\ Noted(o)

\* A request that changes nothing.
Look(o) == Noted(o) /\ UNCHANGED daemonVars

-----------------------------------------------------------------------------
(* main(), and validate() up to the containers.                            *)

\* The snapshots are what the manifest lists, and there is a new output
\* directory.  Without one there is nowhere to record the failure.
VerifyInputs ==
    /\ at = "verify"
    /\ \E o \in LocalOutcomes, agrees \in BOOLEAN :
        /\ at' \in IF Returned(o) /\ agrees /\ sources = "as listed"
                  THEN {"configure"} ELSE {"fail", "ended"}
        /\ Noted(o)
    /\ UNCHANGED <<sup, stream, files, daemonVars, guestVars, worldVars, exposed, drifted>>

\* The daemon is asked what it is and which limits it enforces.
ConfigureThen(next) ==
    /\ at = "configure"
    /\ \E o \in Outcomes, capable \in BOOLEAN :
        /\ o.effect # "late" /\ Look(o)
        /\ at' = IF Returned(o) /\ capable THEN next ELSE "fail"
    /\ UNCHANGED <<sup, stream, files, guestVars, worldVars, exposed, drifted>>

Configure == ConfigureThen("check record")

\* The provision record is of this manifest, this daemon and this image.
CheckRecord ==
    /\ at = "check record"
    /\ \E o \in Outcomes, agrees \in BOOLEAN :
        /\ o.effect # "late" /\ Look(o)
        /\ at' = IF Returned(o) /\ agrees THEN "create metadata" ELSE "fail"
    /\ UNCHANGED <<sup, stream, files, guestVars, worldVars, exposed, drifted>>

-----------------------------------------------------------------------------
(* Creating a container and taking custody of it.                          *)

\* The daemon creates the container, with the controls asked for or not.
\* When the client raises, custody is recovered before the exception goes on.
Create(c, next) ==
    /\ \E o \in Outcomes :
        /\ Ask(o, c, [box EXCEPT ![c] = "created"])
        /\ sup' = [sup EXCEPT !.raising = ~Returned(o)]
    /\ sealed' \in (IF c = "validation" THEN BOOLEAN ELSE {sealed})
    /\ at' = next
    /\ UNCHANGED <<stream, files, guestVars, sources, disk, exposed, drifted>>

\* The id is in the cidfile, or the container is looked up by its name; a
\* signal may come before the id is assigned, and custody is lost.  Without
\* custody, or with an exception on its way, the run has failed.
RecoverCustody(c, next, failed) ==
    /\ \E o \in Outcomes, found \in BOOLEAN :
        /\ found => box[c] # "none"
        /\ ~found => \/ o.how = "signalled"
                     \/ sup.raising /\ (box[c] = "none" \/ ~Returned(o))
        /\ o.effect # "late" /\ Look(o)
        /\ LET ok == Returned(o) /\ ~sup.raising
           IN  /\ at' = IF ok THEN next ELSE failed
               /\ sup' = [sup EXCEPT !.raising = FALSE, !.failure = ~ok,
                                     !.cid = IF found THEN @ \cup {c} ELSE @]
    /\ UNCHANGED <<stream, files, guestVars, worldVars, exposed, drifted>>

CreateMetadata  == at = "create metadata" /\ Create("metadata", "recover metadata")
RecoverMetadata == at = "recover metadata" /\ RecoverCustody("metadata", "copy receipt", "fail")

\* The runtime receipt of the image, copied out of a container that is never
\* started, has to be the one on the provision record.
CopyReceipt ==
    /\ at = "copy receipt"
    /\ \E o \in Outcomes, agrees \in BOOLEAN :
        /\ o.effect # "late" /\ Look(o)
        /\ at' = IF Returned(o) /\ agrees THEN "remove metadata" ELSE "fail"
    /\ UNCHANGED <<sup, stream, files, guestVars, worldVars, exposed, drifted>>

RemoveMetadataThen(next) ==
    /\ at = "remove metadata"
    /\ \E o \in Outcomes :
        /\ o.effect # "late" /\ Ask(o, "none", [box EXCEPT !.metadata = "removed"])
        /\ at' = IF Returned(o) THEN next ELSE "fail"
    /\ UNCHANGED <<sup, stream, files, guestVars, worldVars, exposed, drifted>>

RemoveMetadata == RemoveMetadataThen("create")

CreateValidation  == at = "create" /\ Create("validation", "recover")
RecoverValidation == at = "recover" /\ RecoverCustody("validation", "inspect", "close")

-----------------------------------------------------------------------------
(* The life of the validation container.                                   *)

\* check_controls on the container before it is started.
Inspect ==
    /\ at = "inspect"
    /\ \E o \in Outcomes :
        /\ o.effect # "late" /\ Look(o)
        /\ LET ok == Returned(o) /\ sealed
           IN  /\ at' = IF ok THEN "start" ELSE "close"
               /\ sup' = [sup EXCEPT !.failure = ~ok]
    /\ UNCHANGED <<stream, files, guestVars, worldVars, exposed, drifted>>

StartedBox == [box EXCEPT !.validation = IF @ = "created" THEN "running" ELSE @]

\* What becomes of the history when the containers and the controls are these.
Exposes(b, ctl) == exposed' = (exposed \/ (b.validation = "running" /\ ~ctl))

\* start --attach: once started, the client stays to read the stream.
Start ==
    /\ at = "start"
    /\ \E o \in Outcomes :
        /\ Ask(o, "start", StartedBox)
        /\ at' = IF Returned(o) THEN "attached" ELSE "close"
        /\ sup' = [sup EXCEPT !.failure = ~Returned(o), !.streaming = TRUE]
    /\ Exposes(box', sealed)
    /\ UNCHANGED <<stream, files, guestVars, worldVars, drifted>>

\* A line the protocol does not allow raises, and the client is killed.
ReadLine ==
    /\ at = "attached" /\ pipe # <<>>
    /\ IF Accepts(stream, Head(pipe))
       THEN /\ stream' = Feed(stream, Head(pipe))
            /\ pipe' = Tail(pipe)
            /\ UNCHANGED <<at, sup>>
       ELSE /\ at' = "close"
            /\ sup' = [sup EXCEPT !.failure = TRUE]
            /\ pipe' = <<>>
            /\ UNCHANGED stream
    /\ UNCHANGED <<files, code, guest, daemonVars, worldVars, signals, trouble, exposed, drifted>>

\* The client leaves with the exit code of the container, when it has ended.
AttachEnds ==
    /\ at = "attached" /\ pipe = <<>> /\ ~Running
    /\ at' = "close"
    /\ sup' = [sup EXCEPT !.failure = ~Complete(stream),
                          !.attach = IF Complete(stream) THEN code ELSE @]
    /\ UNCHANGED <<stream, files, guestVars, daemonVars, worldVars, signals, trouble, exposed,
                   drifted>>

\* The deadline passes, a signal comes, a write fails; or the client loses
\* the daemon and exits with an error of its own.
AttachBreaks ==
    /\ at = "attached"
    /\ at' = "close"
    /\ \E o \in Outcomes :
        /\ ~Returned(o) /\ o.effect # "late" /\ Look(o)
        /\ sup' = [sup EXCEPT !.failure = Raised(o) \/ ~Complete(stream),
                              !.attach = IF Raised(o) THEN @ ELSE 1]
    /\ pipe' = <<>>
    /\ UNCHANGED <<stream, files, code, guest, worldVars, exposed, drifted>>

CloseStream ==
    /\ at = "close"
    /\ \E o \in LocalOutcomes :
        /\ Look(o)
        /\ sup' = [sup EXCEPT !.failure = @ \/ (sup.streaming /\ Raised(o))]
    /\ at' = IF "validation" \in sup.cid THEN "stop" ELSE "verify after"
    /\ UNCHANGED <<stream, files, guestVars, worldVars, exposed, drifted>>

-----------------------------------------------------------------------------
(* cleanup_container: every command is tried, whatever became of the one   *)
(* before, and the state looked at in the end decides.                     *)

\* The processes of the container are killed; Docker may fail to wind it up.
Halted(b) ==
    IF b.validation = "running"
    THEN {[b EXCEPT !.validation = e] : e \in {"exited", "dead"}}
    ELSE {b}

\* A container that is stopped or killed does not exit with 0.
Halt(outcomes, next) ==
    \E o \in outcomes :
        /\ \E b \in Halted(box) : Ask(o, "none", b)
        /\ o.effect # "late"
        /\ code' = IF Running /\ o.effect = "now" THEN 1 ELSE code
        /\ sup' = [sup EXCEPT !.errors = @ \/ Raised(o)]
        /\ at' = next
        /\ UNCHANGED <<stream, files, guest, pipe, worldVars, exposed, drifted>>

Stop == at = "stop" /\ Halt(Outcomes, "kill")
Kill == at = "kill" /\ Halt(Outcomes, "wait")

\* A refused wait is recorded and no error; a wait for a container that goes
\* on running meets its deadline.
Wait ==
    /\ at = "wait"
    /\ at' = "final inspect"
    /\ \E o \in Outcomes :
        /\ o.effect # "late" /\ Look(o)
        /\ sup' = [sup EXCEPT !.errors = @ \/ Raised(o) \/ (Returned(o) /\ Running)]
    /\ UNCHANGED <<stream, files, guestVars, worldVars, exposed, drifted>>

\* Where the clean-up goes after the final look at the container.
CleanupEnds(errors) == IF errors THEN "emergency kill" ELSE "verify after"

\* Mutant: that no command raised is taken for the container being down.
FinalInspectTrusting ==
    /\ at = "final inspect"
    /\ \E o \in Outcomes :
        /\ o.effect # "late" /\ Look(o)
        /\ sup' = [sup EXCEPT !.errors = @ \/ ~Returned(o), !.reaped = Returned(o),
                              !.final = code]
        /\ at' = CleanupEnds(sup'.errors)
    /\ UNCHANGED <<stream, files, guestVars, worldVars, exposed, drifted>>

FinalInspect ==
    /\ at = "final inspect"
    /\ \E o \in Outcomes :
        /\ o.effect # "late" /\ Look(o)
        /\ sup' = [sup EXCEPT
                    !.errors = @ \/ ~Returned(o) \/ box.validation \in {"running", "dead"},
                    !.reaped = Returned(o) /\ ~Running,
                    !.final  = IF Returned(o) /\ ~Running THEN code ELSE @]
        /\ at' = CleanupEnds(sup'.errors)
    /\ UNCHANGED <<stream, files, guestVars, worldVars, exposed, drifted>>

\* Mutant: the emergency kill goes through Runner.run, which records it.
EmergencyKillRecorded ==
    /\ at = "emergency kill"
    /\ Halt({o \in Outcomes : disk = "full" => o.how = "raises" /\ o.effect = "never"},
            "cleanup failed")

\* Kill and wait without evidence; the errors stand.
EmergencyKill == at = "emergency kill" /\ Halt(UnrecordedOutcomes, "cleanup failed")

CleanupFails ==
    /\ at = "cleanup failed"
    /\ sup' = [sup EXCEPT !.failure = TRUE]
    /\ at' = "verify after"
    /\ UNCHANGED <<stream, files, daemonVars, guestVars, worldVars, signals, trouble, exposed,
                   drifted>>

\* A signal between two commands of the clean-up ends it.
CleanupInterrupted ==
    /\ at \in Cleanup /\ signals < MaxSignals
    /\ signals' = signals + 1
    /\ trouble' = TRUE
    /\ sup' = [sup EXCEPT !.failure = TRUE]
    /\ at' = "verify after"
    /\ UNCHANGED <<stream, files, daemonVars, guestVars, worldVars, exposed, drifted>>

-----------------------------------------------------------------------------
(* The verdict.                                                            *)

\* The snapshots and the image are verified again, after failures too.
VerifyAfter ==
    /\ at = "verify after"
    /\ \E o \in Outcomes :
        /\ o.effect # "late" /\ Look(o)
        /\ sup' = [sup EXCEPT !.failure = @ \/ ~Returned(o) \/ sources = "changed"]
    /\ at' = "record"
    /\ UNCHANGED <<stream, files, guestVars, worldVars, exposed, drifted>>

\* lifecycle.json is saved, and a complete archive extracted; a failure is
\* raised after that only.
Record ==
    /\ at = "record"
    /\ \E o \in LocalOutcomes, extracts \in BOOLEAN :
        /\ Look(o)
        /\ at' = IF Returned(o) /\ (stream.ended => extracts) /\ ~sup.failure
                 THEN "judge" ELSE "fail"
    /\ UNCHANGED <<sup, stream, files, guestVars, worldVars, exposed, drifted>>

\* Mutant: what the guest reports is enough, however it ended.
SucceededByReport == sup.reaped /\ sealed /\ stream.guest_ok

\* The container was wound up with exit code 0, as was its client; it still
\* has its controls; and the guest reported success.
Succeeded ==
    /\ sup.reaped /\ sealed
    /\ sup.final = 0 /\ sup.attach = 0
    /\ stream.guest_ok

Judge ==
    /\ at = "judge"
    /\ \E o \in Outcomes :
        /\ o.effect # "late" /\ Look(o)
        /\ at' = IF Returned(o) /\ Succeeded THEN "recheck" ELSE "fail"
    /\ UNCHANGED <<sup, stream, files, guestVars, worldVars, exposed, drifted>>

\* Manifest, record and snapshots once more.
Recheck ==
    /\ at = "recheck"
    /\ \E o \in LocalOutcomes, agrees \in BOOLEAN :
        /\ Look(o)
        /\ at' = IF Returned(o) /\ agrees /\ sources = "as listed" THEN "write" ELSE "fail"
    /\ UNCHANGED <<sup, stream, files, guestVars, worldVars, exposed, drifted>>

\* provision.json or validation.json; an exception may follow the write.
WriteResult(result) ==
    /\ at = "write"
    /\ \E o \in LocalOutcomes :
        /\ Look(o)
        /\ files' = IF o.effect = "now" THEN files \cup {result} ELSE files
        /\ at' = IF Returned(o) THEN "report" ELSE "fail"
    /\ UNCHANGED <<sup, stream, guestVars, worldVars, exposed, drifted>>

WriteVerdict == WriteResult("validation")

\* Its path is printed, to a reader who may be gone.
Report ==
    /\ at = "report"
    /\ \E o \in LocalOutcomes, printed \in BOOLEAN :
        /\ Look(o)
        /\ at' = IF Returned(o) /\ printed THEN "ended" ELSE "fail"
        /\ files' = IF Returned(o) /\ printed THEN files \cup {"exit 0"} ELSE files
    /\ UNCHANGED <<sup, stream, guestVars, worldVars, exposed, drifted>>

\* failure.json; what raises here is not caught.
Fail ==
    /\ at = "fail"
    /\ \E o \in LocalOutcomes :
        /\ Look(o)
        /\ files' = IF o.effect = "now" THEN files \cup {"failure"} ELSE files
    /\ at' = "ended"
    /\ UNCHANGED <<sup, stream, guestVars, worldVars, exposed, drifted>>

SupervisorStep ==
    \/ VerifyInputs \/ Configure \/ CheckRecord
    \/ CreateMetadata \/ RecoverMetadata \/ CopyReceipt \/ RemoveMetadata
    \/ CreateValidation \/ RecoverValidation \/ Inspect
    \/ Start \/ ReadLine \/ AttachEnds \/ AttachBreaks \/ CloseStream
    \/ Stop \/ Kill \/ Wait \/ FinalInspect \/ EmergencyKill \/ CleanupFails
    \/ CleanupInterrupted
    \/ VerifyAfter \/ Record \/ Judge \/ Recheck \/ WriteVerdict \/ Report \/ Fail

-----------------------------------------------------------------------------
(* The guest, from qualification to the end of the export.                 *)

guestFrame == <<supVars, late, worldVars, signals, trouble, exposed, drifted>>

InGuest(phase) == Running /\ guest.at = phase

\* Mutant: one gate too many.
GuestGateOffByOne ==
    /\ InGuest("gates")
    /\ \E leaves \in BOOLEAN :
         guest' = [guest EXCEPT !.passed = @ + 1, !.left = @ \/ leaves,
                                !.at = IF guest.passed = Gates THEN "check" ELSE @]
    /\ UNCHANGED <<box, code, pipe, guestFrame>>

\* A gate passes, and may leave processes behind; or it fails, or runs out of
\* its time, and with it the run.
GuestGate ==
    /\ InGuest("gates")
    /\ \/ \E leaves \in BOOLEAN :
            guest' = [guest EXCEPT !.passed = @ + 1, !.left = @ \/ leaves,
                                   !.at = IF guest.passed + 1 = Gates THEN "check" ELSE @]
       \/ guest' = [guest EXCEPT !.at = "final"]
    /\ UNCHANGED <<box, code, pipe, guestFrame>>

\* All gates passed: the sources in the image and the PID namespace are
\* looked at, children_remaining.
GuestCheck ==
    /\ InGuest("check")
    /\ \E unchanged \in BOOLEAN :
        guest' = [guest EXCEPT !.ok = unchanged /\ ~guest.left, !.at = "final"]
    /\ UNCHANGED <<box, code, pipe, guestFrame>>

\* Looked at again before the export, whatever happened.
GuestFinal ==
    /\ InGuest("final")
    /\ \E unchanged \in BOOLEAN :
        guest' = [guest EXCEPT !.ok = @ /\ unchanged /\ ~guest.left, !.at = "export"]
    /\ UNCHANGED <<box, code, pipe, guestFrame>>

OrphansEnd ==
    /\ Running /\ guest.left
    /\ guest' = [guest EXCEPT !.left = FALSE]
    /\ UNCHANGED <<box, code, pipe, guestFrame>>

\* One line of the archive; something else may write to stdout before it.
\* With no client attached it is lost: the container has no log.
GuestExport ==
    /\ InGuest("export")
    /\ \E noise \in BOOLEAN :
        pipe' = IF at # "attached" THEN pipe
                ELSE pipe \o (IF noise THEN <<Noise>> ELSE <<>>) \o
                     <<Line(guest.sent, guest.ok)>>
    /\ guest' = [guest EXCEPT !.sent = @ + 1,
                              !.at = IF guest.sent = Chunks + 1 THEN "exit" ELSE @]
    /\ UNCHANGED <<box, code, guestFrame>>

\* The outputs exceed a limit, and nothing is exported.
GuestExportFails ==
    /\ InGuest("export") /\ guest.sent = 0
    /\ guest' = [guest EXCEPT !.ok = FALSE, !.at = "exit"]
    /\ UNCHANGED <<box, code, pipe, guestFrame>>

Exited(status) ==
    /\ box' \in Halted(box)
    /\ code' = status
    /\ UNCHANGED <<guest, pipe, guestFrame>>

GuestExit == InGuest("exit") /\ Exited(IF guest.ok THEN 0 ELSE 1)

\* Mutant: timeout only asks, and a guest may not listen.
TtlWithoutKill == Running /\ guest.at # "gates" /\ Exited(1)

\* The TTL of the entry point, `timeout --kill-after`, or the kernel's memory
\* limit, ends the guest wherever it is.
TtlExpires == Running /\ Exited(1)

GuestStep ==
    \/ GuestGate \/ GuestCheck \/ GuestFinal \/ OrphansEnd
    \/ GuestExport \/ GuestExportFails \/ GuestExit \/ TtlExpires

-----------------------------------------------------------------------------
(* Everything else.  Nobody looks at controls, snapshots and the disk once *)
(* the supervisor is over.                                                 *)

\* The daemon carries out what a client had asked for before it was killed.
LateRequest ==
    \E request \in late :
        /\ late' = late \ {request}
        /\ box' = IF request = "start" THEN StartedBox
                  ELSE [box EXCEPT ![request] = IF @ = "none" THEN "created" ELSE @]
        /\ trouble' = (trouble \/ (request = "start" /\ at \notin BeforeCleanup \cup Cleanup))
        /\ Exposes(box', sealed)
        /\ UNCHANGED <<supVars, guestVars, worldVars, signals, drifted>>

\* The supervisor is killed outright; its client may be about to start the
\* container.
SupervisorKilled ==
    /\ at \notin Over
    /\ at' = "killed"
    /\ late' \in (IF at = "start" THEN {late, late \cup {"start"}} ELSE {late})
    /\ UNCHANGED <<sup, stream, files, box, guestVars, worldVars, signals, trouble, exposed,
                   drifted>>

\* Somebody else updates the container, and may update it back.
Loosen ==
    /\ at \notin Over /\ box.validation # "none"
    /\ sealed' = ~sealed
    /\ exposed' = (sealed /\ Running)
    /\ UNCHANGED <<supVars, daemonVars, guestVars, sources, disk, signals, trouble, drifted>>

\* A snapshot is changed, or changed back.
Drift ==
    /\ at \notin Over
    /\ sources' \in {"as listed", "changed"} \ {sources}
    /\ drifted' = (sources = "as listed" /\ at \notin {"write", "report", "fail"})
    /\ UNCHANGED <<supVars, daemonVars, guestVars, sealed, disk, signals, trouble, exposed>>

DiskFills ==
    /\ at \notin Over /\ disk = "free"
    /\ disk' = "full"
    /\ UNCHANGED <<supVars, daemonVars, guestVars, sealed, sources, signals, trouble, exposed,
                   drifted>>

World == LateRequest \/ SupervisorKilled \/ Loosen \/ Drift \/ DiskFills

NewSupervisor ==
    [raising |-> FALSE, cid |-> {}, failure |-> FALSE, errors |-> FALSE,
     streaming |-> FALSE, reaped |-> FALSE, final |-> 1, attach |-> 1]

NoContainers == [metadata |-> "none", validation |-> "none"]

Init ==
    /\ at = "verify"
    /\ sup = NewSupervisor
    /\ box = NoContainers
    /\ code = 1
    /\ sealed = TRUE
    /\ late = {}
    /\ guest = [at |-> "gates", passed |-> 0, ok |-> FALSE, left |-> FALSE, sent |-> 0]
    /\ pipe = <<>>
    /\ stream = NewStream
    /\ sources = "as listed"
    /\ disk = "free"
    /\ signals = 0
    /\ files = {}
    /\ trouble = FALSE
    /\ exposed = FALSE
    /\ drifted = FALSE

-----------------------------------------------------------------------------
(* Correctness.                                                            *)

\* The guest passed every gate and left nothing running.
GuestPassed == guest.ok /\ guest.passed = Gates /\ ~guest.left

(* Whatever fails, is late or is interrupted, the verdict is given only on *)
(* a guest that passed every gate and left no process, exported its whole  *)
(* archive and exited by itself.  If its container ran without the         *)
(* controls, or a source was changed before the last look at it, somebody  *)
(* had changed that back: the supervisor looks at the controls before the  *)
(* start and after the end, and at the sources at three moments, and no    *)
(* change that stays gets past the next look.                              *)
PassedIsProven ==
    "validation" \in files =>
        /\ GuestPassed
        /\ stream.ended /\ stream.received = Chunks
        /\ box = [metadata |-> "removed", validation |-> "exited"] /\ code = 0
        /\ ~exposed /\ ~drifted

(* The evidence that the container was wound up stays true: unless the run *)
(* has failed already, no container runs after it, and no request to start *)
(* one is under way.                                                       *)
ReapedIsDown ==
    sup.reaped /\ ~sup.failure => ~Running /\ late \cap {"start", "validation"} = {}

(* A container that was started is down when the supervisor ends, whatever *)
(* command of the clean-up failed and even though no evidence could be     *)
(* written.  There are three exceptions: a signal came in the clean-up;    *)
(* the daemon did not carry out the last resort, the emergency kill; or it *)
(* carried out a start whose client had been killed (Runner.run), and only *)
(* after the last command of the clean-up.                                 *)
NeverLeftRunning == at = "ended" /\ ~trouble => ~Running

(* Every run comes to an end, with a verdict or without, and in the end no *)
(* container is running, were the supervisor killed outright.              *)
EndsQuietly == <>[](at \in Over /\ ~Running)
=============================================================================

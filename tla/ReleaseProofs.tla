---------------------------- MODULE ReleaseProofs ----------------------------
(***************************************************************************)
(* What a release verdict is worth, for any number of gates, chunks, base  *)
(* images and signals: the invariant of the two commands, the containers,  *)
(* the guest and its stream, and that every step keeps it.                 *)
(***************************************************************************)
EXTENDS ReleaseProvision, SequenceTheorems, TLAPS

-----------------------------------------------------------------------------
(* Sequences whose elements may be anything, as what a pipe holds.         *)

\* A sequence, whatever its elements are.
IsSeq(s) == \E S : s \in Seq(S)

(* A sequence has a length, and is a function on the indices up to it.     *)
LEMMA SeqShape ==
    ASSUME NEW s, IsSeq(s)
    PROVE  Len(s) \in Nat /\ DOMAIN s = 1..Len(s) /\ s = [i \in 1..Len(s) |-> s[i]]
  <1>1. PICK S : s \in Seq(S)
    BY DEF IsSeq
  <1>2. Len(s) \in Nat /\ s \in [1..Len(s) -> S]
    BY <1>1, LenProperties
  <1> QED
    BY <1>2

(* The empty sequence is one.                                              *)
LEMMA EmptyIsSeq == IsSeq(<<>>) /\ Len(<<>>) = 0
  BY EmptySeq DEF IsSeq

(* All but the first element.                                              *)
LEMMA TailIsSeq ==
    ASSUME NEW s, IsSeq(s), s # <<>>
    PROVE  /\ IsSeq(Tail(s)) /\ Len(s) \in Nat \ {0} /\ Len(Tail(s)) = Len(s) - 1
           /\ Head(s) = s[1] /\ \A i \in 1..Len(Tail(s)) : Tail(s)[i] = s[i + 1]
  <1>1. PICK S : s \in Seq(S)
    BY DEF IsSeq
  <1>2. /\ Head(s) = s[1] /\ Tail(s) \in Seq(S) /\ Len(Tail(s)) = Len(s) - 1
        /\ \A i \in 1..Len(Tail(s)) : Tail(s)[i] = s[i + 1]
    BY <1>1, HeadTailProperties
  <1>3. Len(s) \in Nat \ {0}
    BY <1>1, LenProperties, EmptySeq
  <1> QED
    BY <1>2, <1>3 DEF IsSeq

(* One sequence after another.                                             *)
LEMMA ConcatIsSeq ==
    ASSUME NEW s, NEW t, IsSeq(s), IsSeq(t)
    PROVE  /\ IsSeq(s \o t) /\ Len(s \o t) = Len(s) + Len(t)
           /\ \A i \in 1..Len(s) : (s \o t)[i] = s[i]
           /\ \A i \in 1..Len(t) : (s \o t)[Len(s) + i] = t[i]
  <1>1. PICK S : s \in Seq(S)
    BY DEF IsSeq
  <1>2. PICK T : t \in Seq(T)
    BY DEF IsSeq
  <1>3. s \in Seq(S \cup T) /\ t \in Seq(S \cup T)
    BY <1>1, <1>2, SeqMonotonic
  <1>4. Len(s) \in Nat /\ Len(t) \in Nat
    BY <1>1, <1>2, LenProperties
  <1> HIDE <1>1, <1>2
  <1>5. /\ s \o t \in Seq(S \cup T) /\ Len(s \o t) = Len(s) + Len(t)
        /\ \A i \in 1..(Len(s) + Len(t)) :
              (s \o t)[i] = IF i <= Len(s) THEN s[i] ELSE t[i - Len(s)]
    BY <1>3, ConcatProperties
  <1>6. \A i \in 1..Len(s) : (s \o t)[i] = s[i]
    BY <1>4, <1>5
  <1>7. \A i \in 1..Len(t) : (s \o t)[Len(s) + i] = t[i]
    <2> TAKE i \in 1..Len(t)
    <2>1. Len(s) + i \in 1..(Len(s) + Len(t)) /\ ~(Len(s) + i <= Len(s))
            /\ Len(s) + i - Len(s) = i
      BY <1>4
    <2> QED
      BY <1>5, <2>1
  <1> QED
    BY <1>5, <1>6, <1>7 DEF IsSeq

(* One element after a sequence.                                           *)
LEMMA ConcatOneIsSeq ==
    ASSUME NEW s, IsSeq(s), NEW e
    PROVE  /\ IsSeq(s \o <<e>>) /\ Len(s \o <<e>>) = Len(s) + 1
           /\ \A i \in 1..Len(s) : (s \o <<e>>)[i] = s[i]
           /\ (s \o <<e>>)[Len(s) + 1] = e
  <1> DEFINE t == <<e>>
  <1>1. t \in Seq({e}) /\ Len(t) = 1 /\ t[1] = e
    OBVIOUS
  <1>2. IsSeq(t)
    BY <1>1 DEF IsSeq
  <1> HIDE DEF t
  <1>3. /\ IsSeq(s \o t) /\ Len(s \o t) = Len(s) + Len(t)
        /\ \A i \in 1..Len(s) : (s \o t)[i] = s[i]
        /\ \A i \in 1..Len(t) : (s \o t)[Len(s) + i] = t[i]
    BY <1>2, ConcatIsSeq
  <1>4. 1 \in 1..Len(t)
    BY <1>1
  <1>5. (s \o t)[Len(s) + 1] = e
    BY <1>1, <1>3, <1>4
  <1> QED
    BY <1>1, <1>3, <1>5 DEF t

-----------------------------------------------------------------------------
(* The shape of the variables.                                             *)

SupFields == {"raising", "cid", "failure", "errors", "streaming", "reaped", "final", "attach"}

Stages ==
    BeforeCleanup \cup Cleanup \cup Over \cup
    {"copy context", "pull", "pin", "build", "inspect image", "cleanup failed",
     "verify after", "record", "judge", "recheck", "write", "report", "fail"}

MetadataStates   == {"none", "created", "removed"}
ValidationStates == {"none", "created", "running", "exited", "dead"}

Typed ==
    /\ at \in Stages
    /\ DOMAIN sup = SupFields /\ sup.cid \subseteq {"metadata", "validation"}
    /\ box \in [metadata : MetadataStates, validation : ValidationStates]
    /\ late \subseteq {"metadata", "validation", "start"}
    /\ signals \in 0..MaxSignals
    /\ files \subseteq {"provision", "validation", "failure", "exit 0"}
    /\ moved \subseteq pulled /\ pulled \subseteq Bases
    /\ command \in {"provision", "validate"}

\* The guest is sound only with every gate passed and nothing left behind,
\* and has sent nothing before it exports.
GuestOK ==
    /\ DOMAIN guest = {"at", "passed", "ok", "left", "sent"}
    /\ guest.at \in {"gates", "check", "final", "export", "exit"}
    /\ guest.passed \in 0..Gates /\ guest.sent \in 0..(Chunks + 2)
    /\ guest.at = "gates" => guest.passed < Gates /\ ~guest.ok
    /\ guest.at = "check" => guest.passed = Gates
    /\ guest.at \in {"gates", "check", "final"} => guest.sent = 0
    /\ guest.at = "export" => guest.sent < Chunks + 2
    /\ guest.ok => guest.passed = Gates /\ ~guest.left

\* How many lines of the archive a stream has taken.
Taken(s) == IF ~s.started THEN 0 ELSE s.received + (IF s.ended THEN 2 ELSE 1)

\* A stream that has ended took every chunk, and its verdict is the guest's.
StreamOK ==
    /\ DOMAIN stream = {"started", "received", "ended", "guest_ok"}
    /\ stream.received \in 0..Chunks
    /\ stream.ended => stream.started /\ stream.received = Chunks
    /\ ~stream.started => stream.received = 0
    /\ stream.guest_ok => stream.ended /\ guest.ok
    /\ guest.sent = 0 => pipe = <<>> /\ ~stream.started

NoiseFree(s, n) == \A i \in 1..n : s[i] # Noise

\* Up to the first noise, what is in the pipe are the lines the guest sent
\* and the stream has not taken, in their order.
PipeOK ==
    /\ IsSeq(pipe)
    /\ at = "attached" =>
        /\ \A i \in 1..Len(pipe) :
            NoiseFree(pipe, i) => pipe[i] = Line(Taken(stream) + i - 1, guest.ok)
        /\ NoiseFree(pipe, Len(pipe)) => Taken(stream) + Len(pipe) = guest.sent

-----------------------------------------------------------------------------
(* Stages of the two commands.                                             *)

BeforeCreate ==
    {"verify", "configure", "check record", "create metadata", "recover metadata",
     "copy receipt", "remove metadata", "create"}

AfterCleanup == {"verify after", "record", "judge", "recheck", "write", "report"}

AfterRemoval ==
    {"create", "recover", "inspect", "start", "attached", "close", "cleanup failed"}
        \cup Cleanup \cup AfterCleanup

AfterLook ==
    {"emergency kill", "cleanup failed", "fail"} \cup AfterCleanup \cup Over

\* Nothing has been asked about a validation container.
Fresh == command = "provision" \/ at \in BeforeCreate

\* None was started, nor was the daemon asked to.
NotStarted == Fresh \/ at \in {"recover", "inspect", "start"}

\* Requests that may yet make a container, or make one run.
Starts == late \cap {"start", "validation"}

FreshOK ==
    /\ Fresh => box.validation = "none" /\ Starts = {} /\ ~sup.reaped
    /\ NotStarted =>
        /\ ~Running /\ "start" \notin late /\ ~exposed
        /\ code = 1 /\ stream = NewStream /\ guest.sent = 0
    /\ at \in {"inspect", "start", "attached"} =>
        command = "validate" /\ "validation" \in sup.cid /\ ~sup.raising /\ ~sup.failure

\* The supervisor has custody of what runs or may come to run; of a request
\* given up it knows that the run failed; and without trouble the clean-up
\* ends what runs.
CustodyOK ==
    /\ Running \/ "start" \in late => "validation" \in sup.cid
    /\ at \notin {"recover", "killed"} /\ Starts # {} => sup.failure
    /\ at = "recover" /\ Starts # {} => sup.raising
    /\ Running /\ ~trouble => at \in Cleanup \cup {"attached", "close", "killed"}
    /\ at \in AfterRemoval => box.metadata = "removed"
    /\ code = 0 => box.validation \in {"exited", "dead"}
    /\ exposed => ~sealed

ReapedOK ==
    /\ sup.reaped => at \in AfterLook
    /\ ReapedIsDown
    /\ sup.reaped /\ ~sup.failure /\ sup.final = 0 => code = 0
    /\ sup.reaped /\ ~sup.failure /\ at \in AfterCleanup => box.validation # "dead"

\* What the verdict is given on.
Proven ==
    /\ sup.reaped /\ ~sup.failure
    /\ guest.ok /\ stream.ended
    /\ box.metadata = "removed" /\ box.validation = "exited"
    /\ code = 0 /\ ~exposed

VerdictOK ==
    /\ command = "validate" /\ at \in {"judge", "recheck", "write", "report"} => ~sup.failure
    /\ command = "validate" /\ at \in {"recheck", "write", "report"} => Proven
    /\ "validation" \in files => Proven /\ command = "validate"

DriftOK ==
    /\ drifted => sources = "changed"
    /\ at \in {"write", "report"} => ~drifted
    /\ files \cap {"provision", "validation"} # {} =>
        ~drifted /\ at \in {"report", "fail"} \cup Over

Bound ==
    /\ image.built = TRUE /\ image.sources # "changed"
    /\ image.sources = "as listed" => image.strays = {}

BoundOK ==
    /\ command = "validate" \/ "provision" \in files => Bound
    /\ at = "build" => dockerfile = "digest"
    /\ at \in {"inspect image", "create metadata", "recover metadata", "copy receipt",
               "remove metadata", "recheck", "write", "report"} => Bound

\* Inductive: what the results below need, of each other and of the stages
\* that lead up to a verdict.
IInv ==
    /\ Typed /\ GuestOK /\ StreamOK /\ PipeOK /\ FreshOK /\ CustodyOK /\ ReapedOK
    /\ VerdictOK /\ DriftOK /\ BoundOK

-----------------------------------------------------------------------------
(* How a step may end.                                                     *)

(* What is known of an outcome: a step that returned had its effect, and a *)
(* request is left with the daemon only by a client that failed.           *)
LEMMA OutcomeFacts ==
    ASSUME NEW o \in Outcomes
    PROVE  /\ o.effect \in {"now", "never", "late"}
           /\ o.how \in {"returns", "refused", "raises", "fails", "signalled"}
           /\ o.how = "returns" => o.effect = "now"
           /\ o.how = "refused" => o.effect = "never"
           /\ o.how = "raises" => o.effect # "late"
           /\ o.how = "signalled" => signals < MaxSignals
  BY DEF Outcomes

(* A step that asks the daemon nothing ends as other steps do.             *)
LEMMA LocalOutcomesAreOutcomes == LocalOutcomes \subseteq Outcomes
  BY DEF LocalOutcomes

(* Whatever the outcome, signals stay within their bound and trouble stays *)
(* noted; and trouble is noted of a signal in the clean-up, and of an      *)
(* emergency kill that left the container running.                         *)
LEMMA NotedFacts ==
    ASSUME Typed, NEW o \in Outcomes, Noted(o)
    PROVE  /\ signals' \in 0..MaxSignals
           /\ trouble => trouble'
           /\ at \in Cleanup /\ o.how = "signalled" => trouble'
           /\ at = "emergency kill" /\ Running /\ o.how # "raises" /\ o.effect # "now" => trouble'
  <1>1. signals' \in 0..MaxSignals
    <2>1. signals \in 0..MaxSignals /\ MaxSignals \in Nat
      BY GatesAssumption DEF Typed
    <2>2. signals' = signals + (IF o.how = "signalled" THEN 1 ELSE 0)
      BY Zenon DEF Noted
    <2> QED
      BY <2>1, <2>2, OutcomeFacts
  <1>2. trouble => trouble'
    BY Zenon DEF Noted
  <1>3. at \in Cleanup /\ o.how = "signalled" => trouble'
    BY Zenon DEF Noted
  <1>4. at = "emergency kill" /\ Running /\ o.how # "raises" /\ o.effect # "now" => trouble'
    BY Zenon DEF Noted
  <1> QED
    BY <1>1, <1>2, <1>3, <1>4

-----------------------------------------------------------------------------
(* The initial state.                                                      *)

(* The invariant holds before provision has done anything.                 *)
LEMMA InitIInv == ReleaseInit => IInv
  <1> SUFFICES ASSUME ReleaseInit PROVE IInv
    OBVIOUS
  <1>1. Gates \in Nat \ {0} /\ MaxSignals \in Nat /\ Chunks \in Nat
    BY GatesAssumption, ChunksAssumption
  <1>2. DOMAIN sup = SupFields /\ sup.cid = {}
    BY DEF ReleaseInit, Init, NewSupervisor, SupFields
  <1>3. ~sup.reaped
    BY DEF ReleaseInit, Init, NewSupervisor
  <1>4. /\ DOMAIN guest = {"at", "passed", "ok", "left", "sent"}
        /\ guest.at = "gates" /\ guest.passed = 0 /\ guest.sent = 0
    BY DEF ReleaseInit, Init
  <1>5. ~guest.ok
    BY DEF ReleaseInit, Init
  <1>6. DOMAIN stream = {"started", "received", "ended", "guest_ok"} /\ stream.received = 0
    BY DEF ReleaseInit, Init, NewStream
  <1>7. ~stream.started /\ ~stream.ended /\ ~stream.guest_ok
    BY DEF ReleaseInit, Init, NewStream
  <1>8. box = [metadata |-> "none", validation |-> "none"] /\ stream = NewStream
    BY DEF ReleaseInit, Init, NoContainers
  <1>9. /\ at = "verify" /\ code = 1 /\ late = {} /\ pipe = <<>> /\ signals = 0 /\ files = {}
        /\ command = "provision" /\ pulled = {} /\ moved = {}
    BY DEF ReleaseInit, Init
  <1>10. ~exposed /\ ~drifted
    BY DEF ReleaseInit, Init
  <1>11. ~Running /\ Starts = {}
    BY <1>8, <1>9 DEF Running, Starts
  <1>12. Typed
    <2>1. at \in Stages
      BY <1>9 DEF Stages, BeforeCleanup
    <2>2. box \in [metadata : MetadataStates, validation : ValidationStates]
      BY <1>8 DEF MetadataStates, ValidationStates
    <2> QED
      BY <1>1, <1>2, <1>9, <2>1, <2>2 DEF Typed
  <1>13. GuestOK
    BY <1>1, <1>4, <1>5 DEF GuestOK
  <1>14. StreamOK
    BY <1>1, <1>6, <1>7, <1>9 DEF StreamOK
  <1>15. PipeOK
    BY <1>9, EmptyIsSeq DEF PipeOK
  <1>16. FreshOK
    BY <1>3, <1>4, <1>8, <1>9, <1>10, <1>11 DEF FreshOK
  <1>17. CustodyOK
    <2>1. at \notin AfterRemoval
      BY <1>9 DEF AfterRemoval, AfterCleanup, Cleanup
    <2> QED
      BY <1>9, <1>10, <1>11, <2>1 DEF CustodyOK
  <1>18. ReapedOK
    BY <1>3 DEF ReapedOK, ReapedIsDown
  <1>19. VerdictOK /\ DriftOK /\ BoundOK
    BY <1>9, <1>10 DEF VerdictOK, DriftOK, BoundOK
  <1> QED
    BY <1>12, <1>13, <1>14, <1>15, <1>16, <1>17, <1>18, <1>19 DEF IInv

-----------------------------------------------------------------------------
(* The guest and its stream.                                               *)

\* What a step of the guest leaves alone, and what it may do to the container
\* that it runs in.
GuestLeaves == UNCHANGED <<guestFrame, provisionVars>>

(* Of the invariant, a step inside the running container disturbs what is  *)
(* said of guest, stream and pipe only.                                    *)
LEMMA InsideIInv ==
    ASSUME IInv, Running, GuestLeaves, UNCHANGED <<box, code>>,
           GuestOK', StreamOK', PipeOK'
    PROVE  IInv'
  <1> USE DEF GuestLeaves, guestFrame, provisionVars, contextVars, supVars, worldVars
  <1>1. Typed'
    BY DEF IInv, Typed
  <1>2. ~NotStarted
    BY DEF IInv, FreshOK
  <1>3. FreshOK'
    BY <1>2 DEF IInv, FreshOK, Fresh, NotStarted
  <1>4. CustodyOK'
    BY DEF IInv, CustodyOK, Starts, Running
  <1>5. ReapedOK'
    BY DEF IInv, ReapedOK, ReapedIsDown, Running
  <1>6. VerdictOK'
    BY DEF IInv, VerdictOK, Proven, Running
  <1>7. DriftOK'
    BY DEF IInv, DriftOK
  <1>8. BoundOK'
    BY DEF IInv, BoundOK, Bound
  <1> QED
    BY <1>1, <1>3, <1>4, <1>5, <1>6, <1>7, <1>8 DEF IInv

(* Before the guest exports, nothing of its verdict is in the stream.      *)
LEMMA SilentIInv ==
    ASSUME IInv, Running, GuestLeaves, UNCHANGED <<box, code, pipe>>, GuestOK',
           guest.sent = 0, guest'.sent = 0
    PROVE  IInv'
  <1> USE DEF GuestLeaves, guestFrame, supVars
  <1>1. pipe = <<>> /\ ~stream.started /\ ~stream.guest_ok /\ ~stream.ended
    BY DEF IInv, StreamOK
  <1>2. StreamOK'
    BY <1>1 DEF IInv, StreamOK
  <1>3. PipeOK'
    BY <1>1 DEF IInv, PipeOK, NoiseFree, Taken
  <1> QED
    BY <1>2, <1>3, InsideIInv

(* A gate that passes, or fails, is counted and nothing more.              *)
LEMMA GuestGateIInv ==
    ASSUME IInv, GuestGate, UNCHANGED provisionVars
    PROVE  IInv'
  <1>1. Running /\ GuestLeaves /\ UNCHANGED <<box, code, pipe>> /\ guest.at = "gates"
    BY DEF GuestGate, InGuest, GuestLeaves
  <1>2. guest.sent = 0 /\ guest.passed < Gates /\ ~guest.ok /\ guest.passed \in 0..Gates
            /\ DOMAIN guest = {"at", "passed", "ok", "left", "sent"} /\ Gates \in Nat
    BY <1>1, GatesAssumption DEF IInv, GuestOK
  <1>3. GuestOK' /\ guest'.sent = 0
    <2>1. CASE \E leaves \in BOOLEAN :
            guest' = [guest EXCEPT !.passed = @ + 1, !.left = @ \/ leaves,
                                   !.at = IF guest.passed + 1 = Gates THEN "check" ELSE @]
      <3>1. PICK leaves \in BOOLEAN :
              guest' = [guest EXCEPT !.passed = @ + 1, !.left = @ \/ leaves,
                                     !.at = IF guest.passed + 1 = Gates THEN "check" ELSE @]
        BY <2>1
      <3>2. /\ DOMAIN guest' = DOMAIN guest /\ guest'.passed = guest.passed + 1
            /\ guest'.at = IF guest.passed + 1 = Gates THEN "check" ELSE "gates"
            /\ guest'.sent = guest.sent
        BY <1>1, <1>2, <3>1
      <3>3. ~guest'.ok
        BY <1>2, <3>1
      <3> QED
        BY <1>2, <3>2, <3>3, ChunksAssumption DEF GuestOK
    <2>2. CASE guest' = [guest EXCEPT !.at = "final"]
      <3>1. /\ DOMAIN guest' = DOMAIN guest /\ guest'.passed = guest.passed
            /\ guest'.at = "final" /\ guest'.sent = guest.sent
        BY <1>2, <2>2
      <3>2. ~guest'.ok
        BY <1>2, <2>2
      <3> QED
        BY <1>2, <3>1, <3>2, ChunksAssumption DEF GuestOK
    <2> QED
      BY <2>1, <2>2 DEF GuestGate
  <1> QED
    BY <1>1, <1>2, <1>3, SilentIInv

(* A guest is found sound only with all gates passed and nothing left      *)
(* behind.                                                                 *)
LEMMA GuestCheckIInv ==
    ASSUME IInv, GuestCheck, UNCHANGED provisionVars
    PROVE  IInv'
  <1>1. Running /\ GuestLeaves /\ UNCHANGED <<box, code, pipe>> /\ guest.at = "check"
    BY DEF GuestCheck, InGuest, GuestLeaves
  <1>2. guest.sent = 0 /\ guest.passed = Gates
            /\ DOMAIN guest = {"at", "passed", "ok", "left", "sent"} /\ Gates \in Nat
    BY <1>1, GatesAssumption DEF IInv, GuestOK
  <1>3. PICK unchanged \in BOOLEAN :
            guest' = [guest EXCEPT !.ok = unchanged /\ ~guest.left, !.at = "final"]
    BY DEF GuestCheck
  <1>4. /\ DOMAIN guest' = DOMAIN guest /\ guest'.passed = guest.passed
        /\ guest'.at = "final" /\ guest'.sent = guest.sent /\ guest'.left = guest.left
    BY <1>2, <1>3
  <1>5. guest'.ok => ~guest.left
    BY <1>2, <1>3
  <1>6. GuestOK'
    BY <1>2, <1>4, <1>5, ChunksAssumption DEF GuestOK
  <1> QED
    BY <1>1, <1>2, <1>4, <1>6, SilentIInv

(* The last look at the guest can only find it less sound.                 *)
LEMMA GuestFinalIInv ==
    ASSUME IInv, GuestFinal, UNCHANGED provisionVars
    PROVE  IInv'
  <1>1. Running /\ GuestLeaves /\ UNCHANGED <<box, code, pipe>> /\ guest.at = "final"
    BY DEF GuestFinal, InGuest, GuestLeaves
  <1>2. guest.sent = 0 /\ guest.passed \in 0..Gates
            /\ DOMAIN guest = {"at", "passed", "ok", "left", "sent"} /\ Chunks \in Nat
            /\ (guest.ok => guest.passed = Gates)
    BY <1>1, ChunksAssumption DEF IInv, GuestOK
  <1>3. PICK unchanged \in BOOLEAN :
            guest' = [guest EXCEPT !.ok = @ /\ unchanged /\ ~guest.left, !.at = "export"]
    BY DEF GuestFinal
  <1>4. /\ DOMAIN guest' = DOMAIN guest /\ guest'.passed = guest.passed
        /\ guest'.at = "export" /\ guest'.sent = guest.sent /\ guest'.left = guest.left
    BY <1>2, <1>3
  <1>5. guest'.ok => guest.ok /\ ~guest.left
    BY <1>2, <1>3
  <1>6. GuestOK'
    BY <1>2, <1>4, <1>5 DEF GuestOK
  <1> QED
    BY <1>1, <1>2, <1>4, <1>6, SilentIInv

(* A process left behind may end; the guest is no sounder for it.          *)
LEMMA OrphansEndIInv ==
    ASSUME IInv, OrphansEnd, UNCHANGED provisionVars
    PROVE  IInv'
  <1>1. Running /\ GuestLeaves /\ UNCHANGED <<box, code, pipe>>
    BY DEF OrphansEnd, GuestLeaves
  <1>2. DOMAIN guest = {"at", "passed", "ok", "left", "sent"}
    BY DEF IInv, GuestOK
  <1>3. guest' = [guest EXCEPT !.left = FALSE]
    BY DEF OrphansEnd
  <1>4. /\ DOMAIN guest' = DOMAIN guest /\ guest'.at = guest.at /\ guest'.passed = guest.passed
        /\ guest'.sent = guest.sent /\ guest'.ok = guest.ok
    BY <1>2, <1>3
  <1>5. ~guest'.left
    BY <1>2, <1>3
  <1>6. GuestOK'
    BY <1>4, <1>5 DEF IInv, GuestOK
  <1>7. UNCHANGED <<at, stream, pipe>>
    BY <1>1 DEF GuestLeaves, guestFrame, supVars
  <1>8. StreamOK'
    BY <1>4, <1>7 DEF IInv, StreamOK
  <1>9. PipeOK'
    BY <1>4, <1>7 DEF IInv, PipeOK, NoiseFree
  <1> QED
    BY <1>1, <1>6, <1>8, <1>9, InsideIInv

(* Noise is neither a line of the archive, nor takes its place.            *)
LEMMA NoiseIsNoLine ==
    ASSUME NEW n, NEW ok
    PROVE  Line(n, ok) # Noise
  BY DEF Line, Noise, ArchiveStart, ArchiveChunk, ArchiveEnd

\* The pipe, with this line at its end.
LineSent(p, before, line) == p \o before \o <<line>>

(* A line goes to the end of the pipe, behind the noise if there is any.   *)
LEMMA LineAtTheEnd ==
    ASSUME NEW p, IsSeq(p), NEW line, NEW before \in {<<>>, <<Noise>>}
    PROVE  /\ IsSeq(LineSent(p, before, line))
           /\ \A i \in 1..Len(p) : LineSent(p, before, line)[i] = p[i]
           /\ before = <<Noise>> =>
                /\ Len(LineSent(p, before, line)) = Len(p) + 2
                /\ LineSent(p, before, line)[Len(p) + 1] = Noise
           /\ before = <<>> =>
                /\ Len(LineSent(p, before, line)) = Len(p) + 1
                /\ LineSent(p, before, line)[Len(p) + 1] = line
  <1> DEFINE q == LineSent(p, before, line)
  <1> HIDE DEF q
  <1>1. Len(p) \in Nat
    BY SeqShape
  <1>2. CASE before = <<Noise>>
    <2> DEFINE s == p \o <<Noise>>
    <2>1. IsSeq(s) /\ Len(s) = Len(p) + 1 /\ (\A i \in 1..Len(p) : s[i] = p[i])
            /\ s[Len(p) + 1] = Noise
      BY ConcatOneIsSeq
    <2>2. q = s \o <<line>>
      BY <1>2 DEF q, LineSent
    <2> DEFINE r == s \o <<line>>
    <2> HIDE DEF s
    <2>3. IsSeq(r) /\ Len(r) = Len(s) + 1 /\ \A i \in 1..Len(s) : r[i] = s[i]
      BY <2>1, ConcatOneIsSeq
    <2> HIDE DEF r
    <2>4. IsSeq(q) /\ Len(q) = Len(s) + 1 /\ \A i \in 1..Len(s) : q[i] = s[i]
      BY <2>2, <2>3 DEF r
    <2>5. Len(p) + 1 \in 1..Len(s) /\ \A i \in 1..Len(p) : i \in 1..Len(s)
      BY <1>1, <2>1
    <2>6. Len(q) = Len(p) + 2
      BY <1>1, <2>1, <2>4
    <2>7. before # <<>>
      BY <1>2
    <2> QED
      BY <1>2, <2>7, <2>1, <2>4, <2>5, <2>6 DEF q
  <1>3. CASE before = <<>>
    <2> DEFINE s == p \o <<>>
    <2>1. IsSeq(<<>>) /\ Len(<<>>) = 0
      BY EmptyIsSeq
    <2>2. IsSeq(s) /\ Len(s) = Len(p) + Len(<<>>) /\ \A i \in 1..Len(p) : s[i] = p[i]
      BY <2>1, ConcatIsSeq
    <2>3. Len(s) = Len(p)
      BY <1>1, <2>1, <2>2
    <2>4. q = s \o <<line>>
      BY <1>3 DEF q, LineSent
    <2> DEFINE r == s \o <<line>>
    <2> HIDE DEF s
    <2>5. /\ IsSeq(r) /\ Len(r) = Len(s) + 1 /\ r[Len(s) + 1] = line
          /\ \A i \in 1..Len(s) : r[i] = s[i]
      BY <2>2, ConcatOneIsSeq
    <2> HIDE DEF r
    <2>6. /\ IsSeq(q) /\ Len(q) = Len(s) + 1 /\ q[Len(s) + 1] = line
          /\ \A i \in 1..Len(s) : q[i] = s[i]
      BY <2>4, <2>5 DEF r
    <2>7. before # <<Noise>>
      BY <1>3
    <2> QED
      BY <1>3, <2>7, <2>2, <2>3, <2>6 DEF q
  <1> QED
    BY <1>2, <1>3

(* With the line that is sent next at its end, behind noise or not, the    *)
(* pipe is still what it should be.                                        *)
LEMMA PipeExtended ==
    ASSUME IInv, at = "attached", UNCHANGED <<at, stream>>,
           guest'.sent = guest.sent + 1, guest'.ok = guest.ok,
           IsSeq(pipe'), \A i \in 1..Len(pipe) : pipe'[i] = pipe[i],
           \/ Len(pipe') = Len(pipe) + 2 /\ pipe'[Len(pipe) + 1] = Noise
           \/ /\ Len(pipe') = Len(pipe) + 1
              /\ pipe'[Len(pipe) + 1] = Line(guest.sent, guest.ok)
    PROVE  PipeOK'
  <1>1. Len(pipe) \in Nat
    BY SeqShape DEF IInv, PipeOK
  <1>2. guest.sent \in Nat /\ Taken(stream) \in Nat
    BY ChunksAssumption DEF IInv, GuestOK, StreamOK, Taken
  <1>3. Taken(stream') = Taken(stream)
    OBVIOUS
  <1>4. /\ \A i \in 1..Len(pipe) :
              NoiseFree(pipe, i) => pipe[i] = Line(Taken(stream) + i - 1, guest.ok)
        /\ NoiseFree(pipe, Len(pipe)) => Taken(stream) + Len(pipe) = guest.sent
    BY DEF IInv, PipeOK
  <1>5. \A i \in 1..Len(pipe) : NoiseFree(pipe', i) => NoiseFree(pipe, i)
    BY <1>1 DEF NoiseFree
  <1>6. CASE Len(pipe') = Len(pipe) + 2 /\ pipe'[Len(pipe) + 1] = Noise
    <2>1. \A i \in (Len(pipe) + 1)..(Len(pipe) + 2) : ~NoiseFree(pipe', i)
      BY <1>1, <1>6 DEF NoiseFree
    <2>2. ASSUME NEW i \in 1..Len(pipe'), NoiseFree(pipe', i)
          PROVE  pipe'[i] = Line(Taken(stream) + i - 1, guest.ok)
      <3>1. i \in 1..Len(pipe)
        BY <1>1, <1>6, <2>1, <2>2
      <3> QED
        BY <1>4, <1>5, <2>2, <3>1
    <2>3. ~NoiseFree(pipe', Len(pipe'))
      BY <1>1, <1>6, <2>1
    <2> QED
      BY <1>3, <2>2, <2>3 DEF PipeOK
  <1>7. CASE /\ Len(pipe') = Len(pipe) + 1
             /\ pipe'[Len(pipe) + 1] = Line(guest.sent, guest.ok)
    <2>1. NoiseFree(pipe', Len(pipe) + 1) => NoiseFree(pipe, Len(pipe))
      BY <1>1 DEF NoiseFree
    <2>2. ASSUME NEW i \in 1..Len(pipe'), NoiseFree(pipe', i)
          PROVE  pipe'[i] = Line(Taken(stream) + i - 1, guest.ok)
      <3>1. CASE i \in 1..Len(pipe)
        BY <1>4, <1>5, <2>2, <3>1
      <3>2. CASE i = Len(pipe) + 1
        <4>1. Taken(stream) + i - 1 = guest.sent
          BY <1>1, <1>2, <1>4, <2>1, <2>2, <3>2
        <4> QED
          BY <1>7, <3>2, <4>1
      <3>3. i \in 1..Len(pipe) \/ i = Len(pipe) + 1
        BY <1>1, <1>7, <2>2
      <3> QED
        BY <3>1, <3>2, <3>3
    <2>3. NoiseFree(pipe', Len(pipe')) => Taken(stream) + Len(pipe') = guest.sent + 1
      BY <1>1, <1>2, <1>4, <1>7, <2>1
    <2> QED
      BY <1>3, <2>2, <2>3 DEF PipeOK
  <1> QED
    BY <1>6, <1>7

(* The guest sends the next line of its archive, or loses it.              *)
LEMMA GuestExportIInv ==
    ASSUME IInv, GuestExport, UNCHANGED provisionVars
    PROVE  IInv'
  <1>1. Running /\ GuestLeaves /\ UNCHANGED <<box, code>> /\ guest.at = "export"
    BY DEF GuestExport, InGuest, GuestLeaves
  <1>2. /\ DOMAIN guest = {"at", "passed", "ok", "left", "sent"} /\ Chunks \in Nat
        /\ guest.sent \in 0..(Chunks + 1) /\ guest.passed \in 0..Gates
    BY <1>1, ChunksAssumption DEF IInv, GuestOK
  <1>3. guest' = [guest EXCEPT !.sent = @ + 1,
                               !.at = IF guest.sent = Chunks + 1 THEN "exit" ELSE @]
    BY DEF GuestExport
  <1>4. /\ DOMAIN guest' = DOMAIN guest /\ guest'.passed = guest.passed
        /\ guest'.sent = guest.sent + 1 /\ guest'.ok = guest.ok /\ guest'.left = guest.left
        /\ guest'.at = IF guest.sent = Chunks + 1 THEN "exit" ELSE "export"
    BY <1>1, <1>2, <1>3
  <1>5. GuestOK'
    BY <1>2, <1>4 DEF IInv, GuestOK
  <1>6. UNCHANGED <<at, stream>>
    BY <1>1 DEF GuestLeaves, guestFrame, supVars
  <1>7. StreamOK'
    BY <1>2, <1>4, <1>6 DEF IInv, StreamOK
  <1>8. PipeOK'
    <2>1. CASE at = "attached"
      <3>1. PICK noise \in BOOLEAN :
              pipe' = pipe \o (IF noise THEN <<Noise>> ELSE <<>>) \o <<Line(guest.sent, guest.ok)>>
        BY <2>1 DEF GuestExport
      <3>2. IsSeq(pipe)
        BY DEF IInv, PipeOK
      <3> DEFINE line == Line(guest.sent, guest.ok)
                 before == IF noise THEN <<Noise>> ELSE <<>>
                 q == LineSent(pipe, before, line)
      <3> HIDE DEF line
      <3>5. before \in {<<>>, <<Noise>>}
        OBVIOUS
      <3> HIDE DEF before
      <3>3. /\ IsSeq(q) /\ \A i \in 1..Len(pipe) : q[i] = pipe[i]
            /\ before = <<Noise>> => Len(q) = Len(pipe) + 2 /\ q[Len(pipe) + 1] = Noise
            /\ before = <<>> => Len(q) = Len(pipe) + 1 /\ q[Len(pipe) + 1] = line
        BY <3>2, <3>5, LineAtTheEnd
      <3>4. pipe' = q
        BY <3>1 DEF line, before, LineSent
      <3> HIDE DEF q
      <3> HIDE <3>1
      <3> QED
        BY <1>4, <1>6, <2>1, <3>5, <3>3, <3>4, PipeExtended DEF line
    <2>2. CASE at # "attached"
      BY <1>6, <2>2 DEF GuestExport, IInv, PipeOK
    <2> QED
      BY <2>1, <2>2
  <1> QED
    BY <1>1, <1>5, <1>7, <1>8, InsideIInv

(* A guest whose outputs exceed a limit is no longer sound, and sends      *)
(* nothing.                                                                *)
LEMMA GuestExportFailsIInv ==
    ASSUME IInv, GuestExportFails, UNCHANGED provisionVars
    PROVE  IInv'
  <1>1. Running /\ GuestLeaves /\ UNCHANGED <<box, code, pipe>> /\ guest.sent = 0
    BY DEF GuestExportFails, InGuest, GuestLeaves
  <1>2. DOMAIN guest = {"at", "passed", "ok", "left", "sent"} /\ guest.passed \in 0..Gates
            /\ Chunks \in Nat
    BY ChunksAssumption DEF IInv, GuestOK
  <1>3. guest' = [guest EXCEPT !.ok = FALSE, !.at = "exit"]
    BY DEF GuestExportFails
  <1>4. /\ DOMAIN guest' = DOMAIN guest /\ guest'.passed = guest.passed
        /\ guest'.at = "exit" /\ guest'.sent = guest.sent
    BY <1>2, <1>3
  <1>5. ~guest'.ok
    BY <1>2, <1>3
  <1>6. GuestOK'
    BY <1>1, <1>2, <1>4, <1>5 DEF GuestOK
  <1> QED
    BY <1>1, <1>4, <1>6, SilentIInv


-----------------------------------------------------------------------------
(* What most steps of the supervisor leave alone.                          *)

(* The invariants of guest and stream, when neither moves.                 *)
LEMMA SameGuest ==
    ASSUME IInv, UNCHANGED <<guest, pipe, stream>>, at' = "attached" => at = "attached"
    PROVE  GuestOK' /\ StreamOK' /\ PipeOK'
  <1>1. GuestOK'
    BY DEF IInv, GuestOK
  <1>2. StreamOK'
    BY DEF IInv, StreamOK
  <1>3. PipeOK'
    BY DEF IInv, PipeOK, NoiseFree
  <1> QED
    BY <1>1, <1>2, <1>3

Late == {"judge", "recheck", "write", "report", "fail"} \cup Over

BoundStages ==
    {"inspect image", "create metadata", "recover metadata", "copy receipt",
     "remove metadata", "recheck", "write", "report"}

(* Before the verdict is near, nothing has been recorded that could be     *)
(* wrong.                                                                  *)
LEMMA EarlyVerdict ==
    ASSUME IInv, at \notin Late, at' \notin {"judge", "recheck", "write", "report", "build"},
           UNCHANGED <<files, command, drifted, sources, image, dockerfile>>,
           at' \in BoundStages => at \in BoundStages \/ command = "validate"
    PROVE  VerdictOK' /\ DriftOK' /\ BoundOK'
  <1>1. files \cap {"provision", "validation"} = {}
    BY DEF IInv, DriftOK, Late, Over
  <1>2. "validation" \notin files' /\ "provision" \notin files'
    BY <1>1
  <1>3. VerdictOK'
    BY <1>2 DEF VerdictOK
  <1>4. DriftOK'
    BY <1>1 DEF IInv, DriftOK
  <1>5. BoundOK'
    BY <1>2 DEF IInv, BoundOK, Bound, BoundStages
  <1> QED
    BY <1>3, <1>4, <1>5

(* A step from one stage to another that asks the daemon for nothing and   *)
(* starts or ends no phase of the container's life.                        *)
LEMMA MoveIInv ==
    ASSUME IInv,
           UNCHANGED <<sup, stream, box, late, guestVars, sealed, exposed, command>>,
           trouble => trouble',
           at \notin Cleanup \cup {"recover", "attached", "close", "killed"},
           at' \notin Cleanup \cup {"recover", "inspect", "start", "attached"},
           at' \in BeforeCreate => at \in BeforeCreate \/ command = "provision",
           at' \in AfterRemoval => at \in AfterRemoval,
           at \in AfterLook => at' \in AfterLook,
           at' \in AfterCleanup /\ at \in AfterLook => at \in AfterCleanup
    PROVE  GuestOK' /\ StreamOK' /\ PipeOK' /\ FreshOK' /\ CustodyOK' /\ ReapedOK'
  <1>1. UNCHANGED <<code, guest, pipe>>
    BY DEF guestVars
  <1>2. GuestOK' /\ StreamOK' /\ PipeOK'
    BY <1>1, SameGuest
  <1>3. FreshOK'
    BY <1>1 DEF IInv, FreshOK, Fresh, NotStarted, Starts, Running
  <1>4. CustodyOK'
    BY <1>1 DEF IInv, CustodyOK, Starts, Running
  <1>5. ReapedOK'
    BY <1>1 DEF IInv, ReapedOK, ReapedIsDown, Running
  <1> QED
    BY <1>2, <1>3, <1>4, <1>5

-----------------------------------------------------------------------------
(* The end of the guest.                                                   *)

(* What becomes of a container whose processes are killed.                 *)
LEMMA HaltedFacts ==
    ASSUME Typed, NEW b \in Halted(box)
    PROVE  /\ b \in [metadata : MetadataStates, validation : ValidationStates]
           /\ b.metadata = box.metadata
           /\ Running  => b.validation \in {"exited", "dead"}
           /\ ~Running => b = box
  <1>1. CASE Running
    <2>1. PICK e \in {"exited", "dead"} : b = [box EXCEPT !.validation = e]
      BY <1>1 DEF Halted, Running
    <2> QED
      BY <1>1, <2>1 DEF Typed, ValidationStates
  <1>2. CASE ~Running
    BY <1>2 DEF Halted, Running, Typed
  <1> QED
    BY <1>1, <1>2

(* The guest exits, or its time to live ends it: a container runs no more, *)
(* and no verdict had been given while it ran.                             *)
LEMMA ExitedIInv ==
    ASSUME IInv, Running, NEW status, Exited(status), UNCHANGED provisionVars
    PROVE  IInv'
  <1>1. UNCHANGED <<guest, pipe, at, sup, stream, files, late, sealed, sources, disk, signals,
                    trouble, exposed, drifted, command, context, pulled, moved, dockerfile,
                    image>>
    BY DEF Exited, guestFrame, supVars, worldVars, provisionVars, contextVars
  <1>2. /\ box' \in [metadata : MetadataStates, validation : ValidationStates]
        /\ box'.metadata = box.metadata /\ box'.validation \in {"exited", "dead"}
    BY HaltedFacts DEF Exited, IInv
  <1>3. ~Running' /\ ~NotStarted
    BY <1>2 DEF Running, IInv, FreshOK
  <1>4. ~(sup.reaped /\ ~sup.failure) /\ ~Proven
    BY DEF IInv, ReapedOK, ReapedIsDown, Proven, Running
  <1>5. Typed'
    BY <1>1, <1>2 DEF IInv, Typed
  <1>6. GuestOK' /\ StreamOK' /\ PipeOK'
    BY <1>1, SameGuest
  <1>7. FreshOK'
    BY <1>1, <1>3 DEF IInv, FreshOK, Fresh, NotStarted
  <1>8. CustodyOK'
    BY <1>1, <1>2, <1>3 DEF IInv, CustodyOK, Starts
  <1>9. ReapedOK'
    BY <1>1, <1>4 DEF IInv, ReapedOK, ReapedIsDown
  <1>10. VerdictOK'
    BY <1>1, <1>4 DEF IInv, VerdictOK
  <1>11. DriftOK'
    BY <1>1 DEF IInv, DriftOK
  <1>12. BoundOK'
    BY <1>1 DEF IInv, BoundOK, Bound
  <1> QED
    BY <1>5, <1>6, <1>7, <1>8, <1>9, <1>10, <1>11, <1>12 DEF IInv

(* Every step of the guest keeps the invariant.                            *)
LEMMA GuestStepIInv ==
    ASSUME IInv, GuestStep, UNCHANGED provisionVars
    PROVE  IInv'
  <1>1. CASE GuestExit
    BY <1>1, ExitedIInv DEF GuestExit, InGuest
  <1>2. CASE TtlExpires
    BY <1>2, ExitedIInv DEF TtlExpires
  <1> QED
    BY <1>1, <1>2, GuestGateIInv, GuestCheckIInv, GuestFinalIInv, OrphansEndIInv,
       GuestExportIInv, GuestExportFailsIInv
    DEF GuestStep

-----------------------------------------------------------------------------
(* The supervisor's end of the stream.                                     *)

(* The next line of the archive is taken for what it is: the stream stays  *)
(* sound, and has taken one line more.                                     *)
LEMMA FeedTakesLine ==
    ASSUME GuestOK, StreamOK, UNCHANGED guest, guest.sent # 0,
           NEW line, line = Line(Taken(stream), guest.ok),
           Accepts(stream, line), stream' = Feed(stream, line)
    PROVE  StreamOK' /\ Taken(stream') = Taken(stream) + 1
  <1>1. /\ DOMAIN stream = {"started", "received", "ended", "guest_ok"}
        /\ Chunks \in Nat /\ stream.received \in 0..Chunks
    BY ChunksAssumption DEF StreamOK
  <1>2. ~stream.ended /\ ~stream.guest_ok
    BY DEF Accepts, StreamOK
  <1>3. CASE ~stream.started
    <2>1. Taken(stream) = 0 /\ stream.received = 0
      BY <1>3 DEF Taken, StreamOK
    <2>2. line = ArchiveStart /\ line.event = "archive-start"
      BY <2>1 DEF Line, ArchiveStart
    <2>3. stream' = [stream EXCEPT !.started = TRUE]
      BY <2>2 DEF Feed
    <2>4. /\ DOMAIN stream' = DOMAIN stream /\ stream'.received = stream.received
          /\ stream'.ended = stream.ended /\ stream'.guest_ok = stream.guest_ok
      BY <1>1, <2>3
    <2>5. stream'.started
      BY <1>1, <2>3
    <2>6. ~stream'.ended /\ ~stream'.guest_ok
      BY <1>2, <2>4
    <2>7. StreamOK'
      BY <1>1, <2>4, <2>5, <2>6 DEF StreamOK
    <2>8. Taken(stream') = 1
      BY <2>1, <2>4, <2>5, <2>6 DEF Taken
    <2> QED
      BY <2>1, <2>7, <2>8
  <1>4. CASE stream.started
    <2>1. Taken(stream) = stream.received + 1
      BY <1>2, <1>4 DEF Taken
    <2>2. CASE stream.received < Chunks
      <3>1. line = ArchiveChunk /\ line.event = "archive-chunk"
        BY <1>1, <2>1, <2>2 DEF Line, ArchiveChunk
      <3>2. stream' = [stream EXCEPT !.received = @ + 1]
        BY <3>1 DEF Feed
      <3>3. /\ DOMAIN stream' = DOMAIN stream /\ stream'.received = stream.received + 1
            /\ stream'.ended = stream.ended /\ stream'.guest_ok = stream.guest_ok
            /\ stream'.started = stream.started
        BY <1>1, <3>2
      <3>4. stream'.started /\ ~stream'.ended /\ ~stream'.guest_ok
        BY <1>2, <1>4, <3>3
      <3>5. StreamOK'
        BY <1>1, <2>2, <3>3, <3>4 DEF StreamOK
      <3>6. Taken(stream') = stream.received + 1 + 1
        BY <3>3, <3>4 DEF Taken
      <3> QED
        BY <2>1, <3>5, <3>6
    <2>3. CASE stream.received = Chunks
      <3>1. line = ArchiveEnd(guest.ok)
        BY <1>1, <2>1, <2>3 DEF Line
      <3>2. line.event = "archive-end" /\ line.guest_ok = guest.ok
        BY <3>1 DEF ArchiveEnd
      <3>3. stream' = [stream EXCEPT !.ended = TRUE, !.guest_ok = line.guest_ok]
        BY <3>2 DEF Feed
      <3>4. /\ DOMAIN stream' = DOMAIN stream /\ stream'.received = stream.received
            /\ stream'.started = stream.started
        BY <1>1, <3>3
      <3>5. stream'.ended
        BY <1>1, <3>3
      <3>6. stream'.guest_ok = guest.ok
        BY <1>1, <3>2, <3>3
      <3>7. stream'.started
        BY <1>4, <3>4
      <3>8. StreamOK'
        BY <1>1, <2>3, <3>4, <3>5, <3>6, <3>7 DEF StreamOK
      <3>9. Taken(stream') = Chunks + 2
        BY <2>3, <3>4, <3>5, <3>7 DEF Taken
      <3> QED
        BY <1>1, <2>1, <2>3, <3>8, <3>9
    <2> QED
      BY <1>1, <2>2, <2>3
  <1> QED
    BY <1>3, <1>4

(* A line the protocol allows leaves the rest of the pipe in order.        *)
LEMMA PipeConsumed ==
    ASSUME IInv, at = "attached", at' = at, pipe # <<>>, UNCHANGED guest,
           Accepts(stream, Head(pipe)), stream' = Feed(stream, Head(pipe)),
           pipe' = Tail(pipe)
    PROVE  StreamOK' /\ PipeOK'
  <1> DEFINE k == Taken(stream)
             n == Len(pipe)
  <1>1. /\ IsSeq(Tail(pipe)) /\ n \in Nat \ {0} /\ Len(Tail(pipe)) = n - 1
        /\ Head(pipe) = pipe[1] /\ \A i \in 1..(n - 1) : Tail(pipe)[i] = pipe[i + 1]
    BY TailIsSeq DEF IInv, PipeOK
  <1>2. k \in Nat /\ guest.sent \in Nat
    BY ChunksAssumption DEF IInv, GuestOK, StreamOK, Taken
  <1>3. /\ \A i \in 1..n : NoiseFree(pipe, i) => pipe[i] = Line(k + i - 1, guest.ok)
        /\ NoiseFree(pipe, n) => k + n = guest.sent
    BY DEF IInv, PipeOK
  <1>4. pipe[1] # Noise
    <2>1. Noise.event = "noise"
      BY DEF Noise
    <2> QED
      BY <1>1, <2>1 DEF Accepts
  <1>5. NoiseFree(pipe, 1)
    BY <1>4 DEF NoiseFree
  <1>6. Head(pipe) = Line(k, guest.ok)
    <2>1. 1 \in 1..n /\ k + 1 - 1 = k
      BY <1>1, <1>2
    <2> QED
      BY <1>1, <1>3, <1>5, <2>1
  <1>7. guest.sent # 0
    BY DEF IInv, StreamOK
  <1>8. StreamOK' /\ Taken(stream') = k + 1
    BY <1>6, <1>7, FeedTakesLine DEF IInv
  <1>9. \A i \in 1..(n - 1) : NoiseFree(Tail(pipe), i) => NoiseFree(pipe, i + 1)
    <2> SUFFICES ASSUME NEW i \in 1..(n - 1), NoiseFree(Tail(pipe), i),
                        NEW j \in 1..(i + 1)
                 PROVE  pipe[j] # Noise
      BY DEF NoiseFree
    <2>1. CASE j = 1
      BY <1>4, <2>1
    <2>2. CASE j # 1
      <3>1. j - 1 \in 1..i /\ j - 1 \in 1..(n - 1) /\ j - 1 + 1 = j
        BY <1>1, <2>2
      <3> QED
        BY <1>1, <3>1 DEF NoiseFree
    <2> QED
      BY <2>1, <2>2
  <1> HIDE DEF k, n
  <1>10. ASSUME NEW i \in 1..(n - 1), NoiseFree(Tail(pipe), i)
         PROVE  Tail(pipe)[i] = Line(k + 1 + i - 1, guest.ok)
    <2>1. i + 1 \in 1..n /\ k + (i + 1) - 1 = k + 1 + i - 1
      BY <1>1, <1>2
    <2> QED
      BY <1>1, <1>3, <1>9, <1>10, <2>1
  <1>11. NoiseFree(Tail(pipe), n - 1) => k + 1 + (n - 1) = guest.sent
    <2>1. CASE n = 1
      BY <1>2, <1>3, <1>5, <2>1
    <2>2. CASE n # 1
      <3>1. n - 1 \in 1..(n - 1) /\ n - 1 + 1 = n
        BY <1>1, <2>2
      <3> QED
        BY <1>1, <1>2, <1>3, <1>9, <3>1
    <2> QED
      BY <2>1, <2>2
  <1> QED
    BY <1>1, <1>8, <1>10, <1>11 DEF PipeOK

(* The client of the attached container is gone: what the pipe holds is    *)
(* lost, and the clean-up is next.                                         *)
LEMMA StreamGivenUp ==
    ASSUME IInv, at = "attached", at' = "close", command = "validate",
           UNCHANGED <<files, code, guest, box, late, stream, sealed, exposed, drifted,
                       sources, provisionVars>>,
           signals' \in 0..MaxSignals, trouble => trouble', pipe' = <<>>,
           NEW failure \in BOOLEAN, NEW attach,
           sup' = [sup EXCEPT !.failure = failure, !.attach = attach]
    PROVE  IInv'
  <1>1. DOMAIN sup = SupFields
    BY DEF IInv, Typed
  <1>2. /\ DOMAIN sup' = SupFields /\ sup'.cid = sup.cid /\ sup'.raising = sup.raising
        /\ sup'.reaped = sup.reaped /\ sup'.final = sup.final
    BY <1>1 DEF SupFields
  <1> HIDE DEF SupFields
  <1>3. ~sup.failure /\ "validation" \in sup.cid /\ Starts = {} /\ ~sup.reaped /\ ~Fresh
    BY DEF IInv, FreshOK, CustodyOK, ReapedOK, AfterLook, AfterCleanup, Over, Fresh, BeforeCreate
  <1>4. Typed'
    BY <1>2 DEF IInv, Typed, Stages, BeforeCleanup, provisionVars, contextVars
  <1>5. GuestOK'
    BY DEF IInv, GuestOK
  <1>6. StreamOK'
    BY DEF IInv, StreamOK
  <1>7. PipeOK'
    BY EmptyIsSeq DEF PipeOK
  <1>8. command' = command /\ ~NotStarted' /\ ~Fresh'
    BY DEF NotStarted, Fresh, BeforeCreate, provisionVars
  <1>9. FreshOK'
    BY <1>8 DEF FreshOK
  <1>10. CustodyOK'
    BY <1>2, <1>3 DEF IInv, CustodyOK, Starts, Running, AfterRemoval
  <1>11. ReapedOK'
    BY <1>2, <1>3 DEF ReapedOK, ReapedIsDown
  <1>12. VerdictOK' /\ DriftOK' /\ BoundOK'
    <2>1. at \notin Late /\ at' \notin BoundStages
      BY DEF Late, Over, BoundStages
    <2> QED
      BY <2>1, EarlyVerdict DEF provisionVars, contextVars
  <1> QED
    BY <1>4, <1>5, <1>6, <1>7, <1>9, <1>10, <1>11, <1>12 DEF IInv

(* A line is read, or refused and the stream given up.                     *)
LEMMA ReadLineIInv ==
    ASSUME IInv, ReadLine, command = "validate", UNCHANGED provisionVars
    PROVE  IInv'
  <1>1. /\ UNCHANGED <<files, code, guest, box, late, sealed, sources, disk, signals, trouble,
                       exposed, drifted, command, context, pulled, moved, dockerfile, image>>
        /\ at = "attached" /\ pipe # <<>>
    BY DEF ReadLine, daemonVars, worldVars, provisionVars, contextVars
  <1>2. CASE Accepts(stream, Head(pipe))
    <2>1. UNCHANGED <<at, sup>> /\ stream' = Feed(stream, Head(pipe)) /\ pipe' = Tail(pipe)
      BY <1>2 DEF ReadLine
    <2>2. StreamOK' /\ PipeOK'
      BY <1>1, <1>2, <2>1, PipeConsumed
    <2>3. Typed' /\ GuestOK'
      BY <1>1, <2>1 DEF IInv, Typed, GuestOK
    <2>4. FreshOK'
      BY <1>1, <2>1 DEF IInv, FreshOK, Fresh, NotStarted, Starts, BeforeCreate
    <2>5. CustodyOK'
      BY <1>1, <2>1 DEF IInv, CustodyOK, Starts, Running
    <2>6. ReapedOK'
      BY <1>1, <2>1 DEF IInv, ReapedOK, ReapedIsDown, Running
    <2>7. at \notin Late
      BY <1>1 DEF Late, Over
    <2>8. VerdictOK' /\ DriftOK' /\ BoundOK'
      BY <1>1, <2>1, <2>7, EarlyVerdict DEF BoundStages
    <2> QED
      BY <2>2, <2>3, <2>4, <2>5, <2>6, <2>8 DEF IInv
  <1>3. CASE ~Accepts(stream, Head(pipe))
    <2>1. /\ at' = "close" /\ sup' = [sup EXCEPT !.failure = TRUE] /\ pipe' = <<>>
          /\ UNCHANGED stream
      BY <1>3 DEF ReadLine
    <2>2. sup' = [sup EXCEPT !.failure = TRUE, !.attach = sup.attach]
      <3>1. DOMAIN sup = SupFields
        BY DEF IInv, Typed
      <3> QED
        BY <2>1, <3>1
    <2>3. signals' \in 0..MaxSignals
      BY <1>1 DEF IInv, Typed
    <2> QED
      BY <1>1, <2>1, <2>2, <2>3, StreamGivenUp
  <1> QED
    BY <1>2, <1>3

(* The client exits with its container.                                    *)
LEMMA AttachEndsIInv ==
    ASSUME IInv, AttachEnds, command = "validate", UNCHANGED provisionVars
    PROVE  IInv'
  <1>1. /\ UNCHANGED <<stream, files, code, guest, box, late, sealed, sources, disk, signals,
                       trouble, exposed, drifted>>
        /\ at = "attached" /\ pipe = <<>> /\ pipe' = <<>> /\ at' = "close"
    BY DEF AttachEnds, daemonVars, worldVars, guestVars
  <1>2. signals' \in 0..MaxSignals
    BY <1>1 DEF IInv, Typed
  <1> DEFINE failure == ~Complete(stream)
             attach == IF Complete(stream) THEN code ELSE sup.attach
  <1>3. sup' = [sup EXCEPT !.failure = failure, !.attach = attach] /\ failure \in BOOLEAN
    BY DEF AttachEnds
  <1> HIDE DEF failure, attach
  <1> QED
    BY <1>1, <1>2, <1>3, StreamGivenUp

(* The client is killed at its deadline, or loses the daemon.              *)
LEMMA AttachBreaksIInv ==
    ASSUME IInv, AttachBreaks, command = "validate", UNCHANGED provisionVars
    PROVE  IInv'
  <1>1. /\ UNCHANGED <<stream, files, code, guest, sealed, sources, disk, exposed, drifted>>
        /\ at = "attached" /\ pipe' = <<>> /\ at' = "close"
    BY DEF AttachBreaks, worldVars
  <1>2. PICK o \in Outcomes :
          /\ Look(o)
          /\ sup' = [sup EXCEPT !.failure = Raised(o) \/ ~Complete(stream),
                                !.attach = IF Raised(o) THEN @ ELSE 1]
    BY DEF AttachBreaks
  <1>3. UNCHANGED <<box, late>> /\ Noted(o)
    BY <1>2 DEF Look, daemonVars
  <1>4. signals' \in 0..MaxSignals /\ (trouble => trouble')
    BY <1>3, NotedFacts DEF IInv
  <1> DEFINE failure == Raised(o) \/ ~Complete(stream)
             attach == IF Raised(o) THEN sup.attach ELSE 1
  <1>5. sup' = [sup EXCEPT !.failure = failure, !.attach = attach] /\ failure \in BOOLEAN
    BY <1>2
  <1> HIDE DEF failure, attach
  <1> QED
    BY <1>1, <1>3, <1>4, <1>5, StreamGivenUp

-----------------------------------------------------------------------------
(* The containers are created.                                             *)

(* A step of the supervisor on its way to the containers leaves these.     *)
LEMMA TypedStep ==
    ASSUME IInv, DOMAIN sup' = DOMAIN sup, sup'.cid \subseteq {"metadata", "validation"},
           at' \in Stages, box' \in [metadata : MetadataStates, validation : ValidationStates],
           late' \subseteq {"metadata", "validation", "start"}, signals' \in 0..MaxSignals,
           UNCHANGED <<files, provisionVars>>
    PROVE  Typed'
  BY DEF IInv, Typed, provisionVars, contextVars

(* A step before anything was asked about a validation container.          *)
LEMMA FreshStep ==
    ASSUME IInv, Fresh,
           UNCHANGED <<stream, code, guest, pipe, exposed, command>>,
           box'.validation = box.validation, Starts' = Starts,
           "start" \in late' <=> "start" \in late, sup'.reaped = sup.reaped,
           at' \notin {"recover", "inspect", "start", "attached"},
           at' \in AfterRemoval => box'.metadata = "removed"
    PROVE  GuestOK' /\ StreamOK' /\ PipeOK' /\ FreshOK' /\ CustodyOK' /\ ReapedOK'
  <1>1. NotStarted
    BY DEF NotStarted
  <1>2. box.validation = "none" /\ Starts = {} /\ "start" \notin late
            /\ code = 1 /\ stream = NewStream /\ guest.sent = 0
    BY <1>1 DEF IInv, FreshOK
  <1>3. ~sup.reaped /\ ~exposed
    BY <1>1 DEF IInv, FreshOK
  <1>4. ~sup'.reaped /\ ~exposed'
    BY <1>3
  <1>5. box'.validation = "none" /\ Starts' = {} /\ "start" \notin late'
            /\ code' = 1 /\ stream' = NewStream /\ guest'.sent = 0
    BY <1>2
  <1>6. ~Running'
    BY <1>5 DEF Running
  <1>7. GuestOK' /\ StreamOK' /\ PipeOK'
    BY SameGuest
  <1>8. FreshOK'
    BY <1>4, <1>5, <1>6 DEF FreshOK
  <1>9. CustodyOK'
    BY <1>4, <1>5, <1>6 DEF CustodyOK
  <1>10. ReapedOK'
    BY <1>4 DEF ReapedOK, ReapedIsDown
  <1> QED
    BY <1>7, <1>8, <1>9, <1>10

(* The first of the two containers, which is never started.                *)
LEMMA CreateMetadataIInv ==
    ASSUME IInv, CreateMetadata, UNCHANGED provisionVars
    PROVE  IInv'
  <1>1. /\ UNCHANGED <<stream, files, code, guest, pipe, sources, disk, exposed, drifted,
                       sealed>>
        /\ at = "create metadata" /\ at' = "recover metadata"
    BY DEF CreateMetadata, Create, guestVars
  <1>2. PICK o \in Outcomes :
          /\ Ask(o, "metadata", [box EXCEPT !["metadata"] = "created"])
          /\ sup' = [sup EXCEPT !.raising = ~Returned(o)]
    BY DEF CreateMetadata, Create
  <1>3. /\ DOMAIN sup = SupFields
        /\ box \in [metadata : MetadataStates, validation : ValidationStates]
    BY DEF IInv, Typed
  <1>4. DOMAIN sup' = DOMAIN sup /\ sup'.cid = sup.cid /\ sup'.reaped = sup.reaped
    BY <1>2, <1>3 DEF SupFields
  <1>5. /\ box' \in [metadata : MetadataStates, validation : ValidationStates]
        /\ box'.validation = box.validation
    BY <1>2, <1>3 DEF Ask, MetadataStates
  <1>6. late' = late \/ late' = late \cup {"metadata"}
    BY <1>2 DEF Ask
  <1>7. Starts' = Starts /\ ("start" \in late' <=> "start" \in late)
    BY <1>6 DEF Starts
  <1>8. signals' \in 0..MaxSignals
    BY <1>2, NotedFacts DEF Ask, IInv
  <1>9. Fresh /\ at' \notin AfterRemoval /\ at \notin Late /\ at \in BoundStages
    BY <1>1 DEF Fresh, BeforeCreate, AfterRemoval, AfterCleanup, Cleanup, Late, Over, BoundStages
  <1>10. Typed'
    <2>1. late' \subseteq {"metadata", "validation", "start"}
      BY <1>6 DEF IInv, Typed
    <2>2. at' \in Stages
      BY <1>1 DEF Stages, BeforeCleanup
    <2>3. sup'.cid \subseteq {"metadata", "validation"}
      BY <1>4 DEF IInv, Typed
    <2> QED
      BY <1>1, <1>4, <1>5, <1>8, <2>1, <2>2, <2>3, TypedStep
  <1>11. UNCHANGED <<command, image, dockerfile>>
    BY DEF provisionVars, contextVars
  <1>12. GuestOK' /\ StreamOK' /\ PipeOK' /\ FreshOK' /\ CustodyOK' /\ ReapedOK'
    BY <1>1, <1>4, <1>5, <1>7, <1>9, <1>11, FreshStep
  <1>13. VerdictOK' /\ DriftOK' /\ BoundOK'
    BY <1>1, <1>9, <1>11, EarlyVerdict
  <1> QED
    BY <1>10, <1>12, <1>13 DEF IInv

(* What recovering the custody of a container tells the supervisor: it     *)
(* goes on only with the container in its custody and nothing raised.      *)
LEMMA RecoverFacts ==
    ASSUME IInv, NEW c \in {"metadata", "validation"}, NEW next, NEW failed, next # failed,
           RecoverCustody(c, next, failed)
    PROVE  /\ UNCHANGED <<stream, files, code, guest, pipe, box, late, sources, disk, sealed,
                         exposed, drifted>>
           /\ signals' \in 0..MaxSignals /\ (trouble => trouble')
           /\ at' \in {next, failed}
           /\ DOMAIN sup' = DOMAIN sup /\ sup'.reaped = sup.reaped
           /\ sup.cid \subseteq sup'.cid /\ sup'.cid \subseteq {"metadata", "validation"}
           /\ ~sup'.raising
           /\ sup'.failure = (at' = failed)
           /\ at' = next => ~sup.raising /\ c \in sup'.cid
  <1>1. UNCHANGED <<stream, files, code, guest, pipe, sources, disk, sealed, exposed, drifted>>
    BY DEF RecoverCustody, guestVars, worldVars
  <1>2. PICK o \in Outcomes, found \in BOOLEAN :
          /\ ~found => \/ o.how = "signalled"
                       \/ sup.raising /\ (box[c] = "none" \/ ~Returned(o))
          /\ Look(o)
          /\ LET ok == Returned(o) /\ ~sup.raising
             IN  /\ at' = IF ok THEN next ELSE failed
                 /\ sup' = [sup EXCEPT !.raising = FALSE, !.failure = ~ok,
                                       !.cid = IF found THEN @ \cup {c} ELSE @]
    BY DEF RecoverCustody
  <1>3. UNCHANGED <<box, late>> /\ Noted(o)
    BY <1>2 DEF Look, daemonVars
  <1>4. signals' \in 0..MaxSignals /\ (trouble => trouble')
    BY <1>3, NotedFacts DEF IInv
  <1>5. DOMAIN sup = SupFields /\ sup.cid \subseteq {"metadata", "validation"}
    BY DEF IInv, Typed
  <1> DEFINE ok == Returned(o) /\ ~sup.raising
             cid == IF found THEN sup.cid \cup {c} ELSE sup.cid
  <1>6. at' = (IF ok THEN next ELSE failed)
    BY <1>2
  <1>7. sup' = [sup EXCEPT !.raising = FALSE, !.failure = ~ok, !.cid = cid]
    BY <1>2
  <1> HIDE DEF ok, cid
  <1>8. DOMAIN sup' = DOMAIN sup /\ sup'.reaped = sup.reaped /\ sup'.cid = cid
    BY <1>5, <1>7 DEF SupFields
  <1>9. ~sup'.raising
    BY <1>5, <1>7 DEF SupFields
  <1>10. sup'.failure = ~ok
    BY <1>5, <1>7 DEF SupFields
  <1>11. sup.cid \subseteq cid /\ cid \subseteq {"metadata", "validation"}
    BY <1>5 DEF cid
  <1>12. ok => ~sup.raising /\ c \in cid
    BY <1>2 DEF ok, cid, Returned
  <1> QED
    BY <1>1, <1>3, <1>4, <1>6, <1>8, <1>9, <1>10, <1>11, <1>12

(* Custody of the metadata container.                                      *)
LEMMA RecoverMetadataIInv ==
    ASSUME IInv, RecoverMetadata, UNCHANGED provisionVars
    PROVE  IInv'
  <1>1. at = "recover metadata" /\ RecoverCustody("metadata", "copy receipt", "fail")
    BY DEF RecoverMetadata
  <1>2. /\ UNCHANGED <<stream, files, code, guest, pipe, box, late, sources, disk, sealed,
                       exposed, drifted>>
        /\ signals' \in 0..MaxSignals
        /\ at' \in {"copy receipt", "fail"}
        /\ DOMAIN sup' = DOMAIN sup /\ sup'.reaped = sup.reaped
        /\ sup'.cid \subseteq {"metadata", "validation"}
    BY <1>1, RecoverFacts
  <1>3. /\ Fresh /\ at' \notin AfterRemoval /\ at' \in Stages
        /\ at \notin Late /\ at \in BoundStages
    BY <1>1, <1>2
    DEF Fresh, BeforeCreate, BeforeCleanup, Stages, AfterRemoval, AfterCleanup, Cleanup, Late,
        Over, BoundStages
  <1>4. UNCHANGED <<command, image, dockerfile>>
    BY DEF provisionVars, contextVars
  <1>5. Typed'
    BY <1>2, <1>3, TypedStep DEF IInv, Typed
  <1>6. GuestOK' /\ StreamOK' /\ PipeOK' /\ FreshOK' /\ CustodyOK' /\ ReapedOK'
    BY <1>2, <1>3, <1>4, FreshStep DEF Starts
  <1>7. VerdictOK' /\ DriftOK' /\ BoundOK'
    BY <1>2, <1>3, <1>4, EarlyVerdict
  <1> QED
    BY <1>5, <1>6, <1>7 DEF IInv

(* The metadata container goes away again, or the run has failed.  Only    *)
(* provision looks at its inputs again right after.                        *)
LEMMA RemoveMetadataIInv ==
    ASSUME IInv, NEW next, RemoveMetadataThen(next), UNCHANGED provisionVars,
           next = "create" \/ (next = "recheck" /\ command = "provision")
    PROVE  IInv'
  <1>1. /\ UNCHANGED <<sup, stream, files, code, guest, pipe, sources, disk, exposed, drifted>>
        /\ at = "remove metadata"
    BY DEF RemoveMetadataThen, guestVars, worldVars
  <1>2. PICK o \in Outcomes :
          /\ o.effect # "late" /\ Ask(o, "none", [box EXCEPT !.metadata = "removed"])
          /\ at' = IF Returned(o) THEN next ELSE "fail"
    BY DEF RemoveMetadataThen
  <1>3. box \in [metadata : MetadataStates, validation : ValidationStates]
    BY DEF IInv, Typed
  <1>4. /\ box' \in [metadata : MetadataStates, validation : ValidationStates]
        /\ box'.validation = box.validation /\ late' = late
        /\ at' # "fail" => box'.metadata = "removed"
    BY <1>2, <1>3, OutcomeFacts DEF Ask, MetadataStates, Returned
  <1>5. signals' \in 0..MaxSignals
    BY <1>2, NotedFacts DEF Ask, IInv
  <1>6. at' \in {"create", "recheck", "fail"} /\ (at' = "recheck" => command = "provision")
    BY <1>2
  <1>7. /\ Fresh /\ at' \in Stages /\ "fail" \notin AfterRemoval
        /\ at \notin Late /\ at \in BoundStages
    BY <1>1, <1>6
    DEF Fresh, BeforeCreate, BeforeCleanup, Stages, AfterRemoval, AfterCleanup, Cleanup, Late,
        Over, BoundStages
  <1>8. UNCHANGED <<command, image, dockerfile>>
    BY DEF provisionVars, contextVars
  <1>9. Typed'
    BY <1>1, <1>4, <1>5, <1>7, TypedStep DEF IInv, Typed
  <1>10. GuestOK' /\ StreamOK' /\ PipeOK' /\ FreshOK' /\ CustodyOK' /\ ReapedOK'
    <2>1. at' \notin {"recover", "inspect", "start", "attached"}
      BY <1>6
    <2> QED
      BY <1>1, <1>4, <1>7, <1>8, <2>1, FreshStep DEF Starts
  <1>11. VerdictOK' /\ DriftOK' /\ BoundOK'
    <2>1. CASE at' # "recheck"
      <3>1. at' \notin {"judge", "recheck", "write", "report", "build"}
        BY <1>6, <2>1
      <3> QED
        BY <1>1, <1>7, <1>8, <3>1, EarlyVerdict
    <2>2. CASE at' = "recheck"
      <3>1. files \cap {"provision", "validation"} = {}
        BY <1>1 DEF IInv, DriftOK, Over
      <3>2. "validation" \notin files' /\ command' # "validate"
        BY <1>1, <1>6, <1>8, <2>2, <3>1
      <3>3. VerdictOK'
        BY <3>2 DEF VerdictOK
      <3>4. DriftOK'
        BY <1>1, <2>2, <3>1 DEF IInv, DriftOK
      <3>5. Bound
        BY <1>1 DEF IInv, BoundOK
      <3>6. BoundOK'
        BY <1>8, <2>2, <3>5 DEF BoundOK, Bound
      <3> QED
        BY <3>3, <3>4, <3>6
    <2> QED
      BY <2>1, <2>2
  <1> QED
    BY <1>9, <1>10, <1>11 DEF IInv

(* Of the validation container, the supervisor knows at least that its     *)
(* creation was asked for and may come late.                               *)
LEMMA CreateValidationIInv ==
    ASSUME IInv, CreateValidation, command = "validate", UNCHANGED provisionVars
    PROVE  IInv'
  <1>1. /\ UNCHANGED <<stream, files, code, guest, pipe, sources, disk, exposed, drifted>>
        /\ at = "create" /\ at' = "recover"
    BY DEF CreateValidation, Create, guestVars
  <1>2. PICK o \in Outcomes :
          /\ Ask(o, "validation", [box EXCEPT !["validation"] = "created"])
          /\ sup' = [sup EXCEPT !.raising = ~Returned(o)]
    BY DEF CreateValidation, Create
  <1>3. /\ DOMAIN sup = SupFields
        /\ box \in [metadata : MetadataStates, validation : ValidationStates]
    BY DEF IInv, Typed
  <1>4. DOMAIN sup' = DOMAIN sup /\ sup'.cid = sup.cid /\ sup'.reaped = sup.reaped
    BY <1>2, <1>3 DEF SupFields
  <1>5. sup'.raising = ~Returned(o)
    BY <1>2, <1>3 DEF SupFields
  <1>6. /\ box.validation = "none" /\ Starts = {} /\ "start" \notin late
        /\ code = 1 /\ stream = NewStream /\ guest.sent = 0
    BY <1>1 DEF IInv, FreshOK, NotStarted, Fresh, BeforeCreate
  <1>7. ~sup.reaped /\ ~exposed
    BY <1>1 DEF IInv, FreshOK, NotStarted, Fresh, BeforeCreate
  <1>8. /\ box' \in [metadata : MetadataStates, validation : ValidationStates]
        /\ box'.validation \in {"none", "created"} /\ box'.metadata = box.metadata
    <2> DEFINE b == [box EXCEPT !["validation"] = "created"]
    <2>1. b.validation = "created" /\ b.metadata = box.metadata
      BY <1>3
    <2>2. b \in [metadata : MetadataStates, validation : ValidationStates]
      BY <1>3 DEF ValidationStates
    <2>3. box' = b \/ box' = box
      BY <1>2 DEF Ask
    <2> HIDE DEF b
    <2>4. CASE box' = b
      BY <2>1, <2>2, <2>4
    <2>5. CASE box' = box
      BY <1>3, <1>6, <2>5
    <2> QED
      BY <2>3, <2>4, <2>5
  <1>9. late' = late \/ (late' = late \cup {"validation"} /\ o.effect = "late")
    BY <1>2 DEF Ask
  <1>10. "start" \notin late' /\ (Starts' # {} => o.effect = "late")
    BY <1>6, <1>9 DEF Starts
  <1>11. Starts' # {} => sup'.raising
    <2>1. ASSUME o.effect = "late" PROVE ~Returned(o)
      BY <2>1, OutcomeFacts DEF Returned
    <2> QED
      BY <1>5, <1>10, <2>1
  <1>12. signals' \in 0..MaxSignals
    BY <1>2, NotedFacts DEF Ask, IInv
  <1>13. UNCHANGED <<command, image, dockerfile>>
    BY DEF provisionVars, contextVars
  <1>14. ~Running'
    BY <1>8 DEF Running
  <1>15. /\ at' \in Stages /\ at' \notin BeforeCreate /\ at \in AfterRemoval
         /\ at \notin Late /\ at' \notin BoundStages
    BY <1>1 DEF Stages, BeforeCleanup, BeforeCreate, AfterRemoval, Late, Over, BoundStages
  <1>16. Typed'
    <2>1. late' \subseteq {"metadata", "validation", "start"}
      BY <1>9 DEF IInv, Typed
    <2>2. sup'.cid \subseteq {"metadata", "validation"}
      BY <1>4 DEF IInv, Typed
    <2> QED
      BY <1>1, <1>4, <1>8, <1>12, <1>15, <2>1, <2>2, TypedStep
  <1>17. GuestOK' /\ StreamOK' /\ PipeOK'
    BY <1>1, SameGuest
  <1>18. FreshOK'
    <2>1. ~Fresh' /\ ~exposed'
      BY <1>1, <1>7, <1>13, <1>15 DEF Fresh
    <2>2. code' = 1 /\ stream' = NewStream /\ guest'.sent = 0
      BY <1>1, <1>6
    <2> QED
      BY <1>1, <1>10, <1>14, <2>1, <2>2 DEF FreshOK
  <1>19. CustodyOK'
    <2>1. box.metadata = "removed"
      BY <1>15 DEF IInv, CustodyOK
    <2>2. ~exposed' /\ code' = 1 /\ box'.metadata = "removed"
      BY <1>1, <1>6, <1>7, <1>8, <2>1
    <2> QED
      BY <1>1, <1>10, <1>11, <1>14, <2>2 DEF CustodyOK
  <1>20. ReapedOK'
    BY <1>4, <1>7 DEF ReapedOK, ReapedIsDown
  <1>21. VerdictOK' /\ DriftOK' /\ BoundOK'
    BY <1>1, <1>13, <1>15, EarlyVerdict
  <1> QED
    BY <1>16, <1>17, <1>18, <1>19, <1>20, <1>21 DEF IInv

(* The run goes on only with the container in custody; else it has failed, *)
(* and a request that was given up with it.                                *)
LEMMA RecoverValidationIInv ==
    ASSUME IInv, RecoverValidation, command = "validate", UNCHANGED provisionVars
    PROVE  IInv'
  <1>1. at = "recover" /\ RecoverCustody("validation", "inspect", "close")
    BY DEF RecoverValidation
  <1>2. /\ UNCHANGED <<stream, files, code, guest, pipe, box, late, sources, disk, sealed,
                       exposed, drifted>>
        /\ signals' \in 0..MaxSignals /\ (trouble => trouble')
        /\ at' \in {"inspect", "close"}
        /\ DOMAIN sup' = DOMAIN sup /\ sup'.reaped = sup.reaped
        /\ sup'.cid \subseteq {"metadata", "validation"}
    BY <1>1, RecoverFacts
  <1>3. /\ ~sup'.raising
        /\ sup'.failure = (at' = "close")
        /\ at' = "inspect" => ~sup.raising /\ "validation" \in sup'.cid
    BY <1>1, RecoverFacts
  <1>4. NotStarted /\ at \in AfterRemoval /\ at' \in AfterRemoval /\ at' \notin BeforeCreate
    BY <1>1, <1>2 DEF NotStarted, AfterRemoval, BeforeCreate
  <1>5. at' \in Stages /\ at \notin AfterLook /\ at \notin Late /\ at' \notin BoundStages
    BY <1>1, <1>2
    DEF Stages, BeforeCleanup, AfterLook, AfterCleanup, Over, Late, BoundStages
  <1>6. UNCHANGED <<command, image, dockerfile>>
    BY DEF provisionVars, contextVars
  <1>7. /\ "start" \notin late' /\ code' = 1 /\ stream' = NewStream /\ guest'.sent = 0
        /\ Starts' = Starts /\ box'.metadata = "removed"
    BY <1>2, <1>4 DEF IInv, FreshOK, CustodyOK, Starts
  <1>8. ~Running' /\ ~exposed'
    BY <1>2, <1>4 DEF IInv, FreshOK, Running
  <1>9. ~sup'.reaped
    BY <1>2, <1>5 DEF IInv, ReapedOK
  <1>10. Typed'
    BY <1>2, <1>5, TypedStep DEF IInv, Typed
  <1>11. GuestOK' /\ StreamOK' /\ PipeOK'
    BY <1>2, SameGuest
  <1>12. FreshOK'
    <2>1. ~Fresh' /\ command' = "validate"
      BY <1>4, <1>6 DEF Fresh
    <2>2. at' \in {"inspect", "start", "attached"} => "validation" \in sup'.cid /\ ~sup'.failure
      BY <1>2, <1>3
    <2> QED
      BY <1>3, <1>7, <1>8, <2>1, <2>2 DEF FreshOK
  <1>13. CustodyOK'
    <2>1. at' # "recover"
      BY <1>2
    <2>2. ASSUME Starts' # {} PROVE sup'.failure
      <3>1. sup.raising
        BY <1>1, <1>7, <2>2 DEF IInv, CustodyOK
      <3>2. at' = "close"
        BY <1>2, <1>3, <3>1
      <3> QED
        BY <1>3, <3>2
    <2> QED
      BY <1>7, <1>8, <2>1, <2>2 DEF CustodyOK
  <1>14. ReapedOK'
    BY <1>9 DEF ReapedOK, ReapedIsDown
  <1>15. VerdictOK' /\ DriftOK' /\ BoundOK'
    BY <1>2, <1>5, <1>6, EarlyVerdict
  <1> QED
    BY <1>10, <1>11, <1>12, <1>13, <1>14, <1>15 DEF IInv

-----------------------------------------------------------------------------
(* The life of the validation container.                                   *)

(* check_controls: not started without the controls.                       *)
LEMMA InspectIInv ==
    ASSUME IInv, Inspect, UNCHANGED provisionVars
    PROVE  IInv'
  <1>1. /\ UNCHANGED <<stream, files, code, guest, pipe, sources, disk, sealed, exposed,
                       drifted>>
        /\ at = "inspect"
    BY DEF Inspect, guestVars, worldVars
  <1>2. PICK o \in Outcomes :
          /\ Look(o)
          /\ LET ok == Returned(o) /\ sealed
             IN  /\ at' = IF ok THEN "start" ELSE "close"
                 /\ sup' = [sup EXCEPT !.failure = ~ok]
    BY DEF Inspect
  <1>3. UNCHANGED <<box, late>> /\ Noted(o)
    BY <1>2 DEF Look, daemonVars
  <1>4. signals' \in 0..MaxSignals
    BY <1>3, NotedFacts DEF IInv
  <1>5. DOMAIN sup = SupFields
    BY DEF IInv, Typed
  <1> DEFINE ok == Returned(o) /\ sealed
  <1>6. at' = (IF ok THEN "start" ELSE "close") /\ sup' = [sup EXCEPT !.failure = ~ok]
    BY <1>2
  <1> HIDE DEF ok
  <1>7. DOMAIN sup' = DOMAIN sup /\ sup'.cid = sup.cid /\ sup'.reaped = sup.reaped
            /\ sup'.raising = sup.raising
    BY <1>5, <1>6 DEF SupFields
  <1>8. sup'.failure = ~ok
    BY <1>5, <1>6 DEF SupFields
  <1>9. at' \in {"start", "close"} /\ (at' = "start" => ~sup'.failure)
    BY <1>6, <1>8
  <1>10. /\ NotStarted /\ at \in AfterRemoval /\ at' \notin BeforeCreate
         /\ at' \in Stages /\ at \notin AfterLook /\ at \notin Late /\ at' \notin BoundStages
    BY <1>1, <1>9
    DEF NotStarted, AfterRemoval, BeforeCreate, Stages, BeforeCleanup, AfterLook, AfterCleanup,
        Over, Late, BoundStages
  <1>11. /\ command = "validate" /\ "validation" \in sup.cid
         /\ "start" \notin late /\ code = 1 /\ stream = NewStream /\ guest.sent = 0
         /\ box.metadata = "removed"
    BY <1>1, <1>10 DEF IInv, FreshOK, CustodyOK
  <1>12. ~sup.raising /\ ~sup.failure /\ ~Running /\ ~exposed
    BY <1>1, <1>10 DEF IInv, FreshOK
  <1>13. Starts = {}
    BY <1>1, <1>12 DEF IInv, CustodyOK
  <1>14. ~sup.reaped
    BY <1>10 DEF IInv, ReapedOK
  <1>15. UNCHANGED <<command, image, dockerfile>>
    BY DEF provisionVars, contextVars
  <1>16. /\ "start" \notin late' /\ code' = 1 /\ stream' = NewStream /\ guest'.sent = 0
         /\ Starts' = {} /\ box'.metadata = "removed" /\ command' = "validate"
         /\ "validation" \in sup'.cid
    BY <1>1, <1>3, <1>7, <1>11, <1>13, <1>15 DEF Starts
  <1>17. ~sup'.raising /\ ~Running' /\ ~exposed' /\ ~sup'.reaped
    BY <1>1, <1>3, <1>7, <1>12, <1>14 DEF Running
  <1>18. Typed'
    BY <1>1, <1>3, <1>4, <1>7, <1>10, TypedStep DEF IInv, Typed
  <1>19. GuestOK' /\ StreamOK' /\ PipeOK'
    BY <1>1, <1>9, SameGuest
  <1>20. FreshOK'
    <2>1. ~Fresh'
      BY <1>10, <1>16 DEF Fresh
    <2> QED
      BY <1>9, <1>16, <1>17, <2>1 DEF FreshOK
  <1>21. CustodyOK'
    BY <1>16, <1>17 DEF CustodyOK
  <1>22. ReapedOK'
    BY <1>17 DEF ReapedOK, ReapedIsDown
  <1>23. VerdictOK' /\ DriftOK' /\ BoundOK'
    <2>1. at' \notin {"judge", "recheck", "write", "report", "build"}
      BY <1>9
    <2> QED
      BY <1>1, <1>10, <1>15, <2>1, EarlyVerdict
  <1> QED
    BY <1>18, <1>19, <1>20, <1>21, <1>22, <1>23 DEF IInv

(* What a request to start the container makes of it.                      *)
LEMMA StartedFacts ==
    ASSUME Typed
    PROVE  /\ StartedBox \in [metadata : MetadataStates, validation : ValidationStates]
           /\ StartedBox.metadata = box.metadata
           /\ box.validation = "created" => StartedBox.validation = "running"
           /\ box.validation # "created" => StartedBox = box
  <1> DEFINE v == IF box.validation = "created" THEN "running" ELSE box.validation
  <1>1. box \in [metadata : MetadataStates, validation : ValidationStates]
    BY DEF Typed
  <1>2. StartedBox = [box EXCEPT !.validation = v]
    BY DEF StartedBox
  <1>3. v \in ValidationStates
    BY <1>1 DEF ValidationStates
  <1> QED
    BY <1>1, <1>2, <1>3

(* start --attach: a request to start the container that is given up is    *)
(* one that failed the run.                                                *)
LEMMA StartIInv ==
    ASSUME IInv, Start, UNCHANGED provisionVars
    PROVE  IInv'
  <1>1. /\ UNCHANGED <<stream, files, code, guest, pipe, sources, disk, sealed, drifted>>
        /\ at = "start" /\ Exposes(box', sealed)
    BY DEF Start, guestVars, worldVars
  <1>2. PICK o \in Outcomes :
          /\ Ask(o, "start", StartedBox)
          /\ at' = IF Returned(o) THEN "attached" ELSE "close"
          /\ sup' = [sup EXCEPT !.failure = ~Returned(o), !.streaming = TRUE]
    BY DEF Start
  <1>3. signals' \in 0..MaxSignals
    BY <1>2, NotedFacts DEF Ask, IInv
  <1>4. DOMAIN sup = SupFields /\ box \in [metadata : MetadataStates, validation : ValidationStates]
    BY DEF IInv, Typed
  <1>5. DOMAIN sup' = DOMAIN sup /\ sup'.cid = sup.cid /\ sup'.reaped = sup.reaped
            /\ sup'.raising = sup.raising
    BY <1>2, <1>4 DEF SupFields
  <1>6. sup'.failure = ~Returned(o)
    BY <1>2, <1>4 DEF SupFields
  <1>7. at' \in {"attached", "close"} /\ (at' = "attached" => ~sup'.failure)
    BY <1>2, <1>6
  <1>8. /\ NotStarted /\ at \in AfterRemoval /\ at' \notin BeforeCreate
        /\ at' \in Stages /\ at \notin AfterLook /\ at \notin Late /\ at' \notin BoundStages
    BY <1>1, <1>7
    DEF NotStarted, AfterRemoval, BeforeCreate, Stages, BeforeCleanup, AfterLook, AfterCleanup,
        Over, Late, BoundStages
  <1>9. /\ command = "validate" /\ "validation" \in sup.cid
        /\ "start" \notin late /\ code = 1 /\ stream = NewStream /\ guest.sent = 0
        /\ box.metadata = "removed"
    BY <1>1, <1>8 DEF IInv, FreshOK, CustodyOK
  <1>10. ~sup.raising /\ ~sup.failure /\ ~Running /\ ~exposed
    BY <1>1, <1>8 DEF IInv, FreshOK
  <1>11. Starts = {}
    BY <1>1, <1>10 DEF IInv, CustodyOK
  <1>12. ~sup.reaped
    BY <1>8 DEF IInv, ReapedOK
  <1>13. UNCHANGED <<command, image, dockerfile>>
    BY DEF provisionVars, contextVars
  <1>14. /\ box' \in [metadata : MetadataStates, validation : ValidationStates]
         /\ box'.metadata = box.metadata
    <2>1. box' = StartedBox \/ box' = box
      BY <1>2 DEF Ask
    <2>2. Typed
      BY DEF IInv
    <2>3. CASE box' = StartedBox
      BY <2>2, <2>3, StartedFacts
    <2>4. CASE box' = box
      BY <1>4, <2>4
    <2> QED
      BY <2>1, <2>3, <2>4
  <1>15. late' = late \/ (late' = late \cup {"start"} /\ o.effect = "late")
    BY <1>2 DEF Ask
  <1>16. Starts' # {} => sup'.failure
    <2>1. Starts' # {} => o.effect = "late"
      BY <1>11, <1>15 DEF Starts
    <2>2. ASSUME o.effect = "late" PROVE ~Returned(o)
      BY <2>2, OutcomeFacts DEF Returned
    <2> QED
      BY <1>6, <2>1, <2>2
  <1>17. exposed' => ~sealed'
    BY <1>1, <1>10 DEF Exposes
  <1>18. /\ code' = 1 /\ box'.metadata = "removed" /\ command' = "validate"
         /\ "validation" \in sup'.cid
    BY <1>1, <1>5, <1>9, <1>13, <1>14
  <1>19. ~sup'.raising /\ ~sup'.reaped
    BY <1>5, <1>10, <1>12
  <1>20. Typed'
    <2>1. late' \subseteq {"metadata", "validation", "start"}
      BY <1>15 DEF IInv, Typed
    <2>2. sup'.cid \subseteq {"metadata", "validation"}
      BY <1>5 DEF IInv, Typed
    <2> QED
      BY <1>1, <1>3, <1>5, <1>8, <1>14, <2>1, <2>2, TypedStep
  <1>21. GuestOK' /\ StreamOK' /\ PipeOK'
    <2>1. GuestOK' /\ StreamOK'
      BY <1>1 DEF IInv, GuestOK, StreamOK
    <2>2. pipe' = <<>> /\ guest'.sent = 0
      BY <1>1, <1>9 DEF IInv, StreamOK
    <2>3. Taken(stream') = 0
      BY <1>1, <1>9 DEF Taken, NewStream
    <2>4. PipeOK'
      BY <2>2, <2>3, EmptyIsSeq DEF PipeOK
    <2> QED
      BY <2>1, <2>4
  <1>22. FreshOK'
    <2>1. ~Fresh'
      BY <1>8, <1>18 DEF Fresh
    <2>2. ~NotStarted'
      BY <1>7, <2>1 DEF NotStarted
    <2> QED
      BY <1>7, <1>18, <1>19, <2>1, <2>2 DEF FreshOK
  <1>23. CustodyOK'
    <2>1. at' \in {"attached", "close"} /\ at' # "recover"
      BY <1>7
    <2> QED
      BY <1>16, <1>17, <1>18, <2>1 DEF CustodyOK
  <1>24. ReapedOK'
    BY <1>19 DEF ReapedOK, ReapedIsDown
  <1>25. VerdictOK' /\ DriftOK' /\ BoundOK'
    <2>1. at' \notin {"judge", "recheck", "write", "report", "build"}
      BY <1>7
    <2> QED
      BY <1>1, <1>8, <1>13, <2>1, EarlyVerdict
  <1> QED
    BY <1>20, <1>21, <1>22, <1>23, <1>24, <1>25 DEF IInv

-----------------------------------------------------------------------------
(* The clean-up.                                                           *)

Ending == {"close", "cleanup failed", "verify after"} \cup Cleanup

(* What the evidence that the container is down says stays true as long as *)
(* no container comes to run and the evidence itself is left alone.        *)
LEMMA ReapedKept ==
    ASSUME IInv, sup'.reaped = sup.reaped, sup'.final = sup.final,
           sup.failure => sup'.failure, late' = late,
           ~Running => box' = box /\ code' = code,
           sup.reaped => at' \in AfterLook,
           sup.reaped /\ ~sup'.failure /\ at' \in AfterCleanup => at \in AfterCleanup
    PROVE  ReapedOK'
  <1>1. CASE sup'.reaped /\ ~sup'.failure
    <2>1. sup.reaped /\ ~sup.failure
      BY <1>1
    <2>2. ~Running /\ Starts = {}
      BY <2>1 DEF IInv, ReapedOK, ReapedIsDown, Starts
    <2>3. box' = box /\ code' = code
      BY <2>2
    <2>4. ~Running'
      BY <2>2, <2>3 DEF Running
    <2>5. ReapedIsDown'
      BY <2>2, <2>4 DEF ReapedIsDown, Starts
    <2>6. sup'.final = 0 => code' = 0
      BY <2>1, <2>3 DEF IInv, ReapedOK
    <2>7. at' \in AfterCleanup => box'.validation # "dead"
      BY <1>1, <2>1, <2>3 DEF IInv, ReapedOK
    <2> QED
      BY <2>1, <2>5, <2>6, <2>7 DEF ReapedOK
  <1>2. CASE ~(sup'.reaped /\ ~sup'.failure)
    <2>1. ReapedIsDown'
      BY <1>2 DEF ReapedIsDown
    <2>2. sup'.reaped => at' \in AfterLook
      OBVIOUS
    <2> QED
      BY <1>2, <2>1, <2>2 DEF ReapedOK
  <1> QED
    BY <1>1, <1>2

(* The exit code of a container that was halted is not that of success.    *)
LEMMA OneIsNotZero == 1 # 0
  OBVIOUS

(* A step from the closed stream to the record.                            *)
LEMMA EndingStep ==
    ASSUME IInv, command = "validate", at \in Ending,
           at' \in Cleanup \cup {"cleanup failed", "verify after", "record"},
           UNCHANGED <<stream, files, guest, pipe, late, sealed, sources, exposed, drifted,
                       provisionVars>>,
           signals' \in 0..MaxSignals,
           DOMAIN sup' = DOMAIN sup, sup'.cid = sup.cid, sup.failure => sup'.failure,
           box' \in [metadata : MetadataStates, validation : ValidationStates],
           box'.metadata = box.metadata,
           Running' => Running, ~Running => box' = box, code' \in {code, 1},
           Running' /\ ~trouble' => at' \in Cleanup,
           ReapedOK'
    PROVE  IInv'
  <1>1. UNCHANGED <<command, image, dockerfile>>
    BY DEF provisionVars, contextVars
  <1>2. /\ at' \in Stages /\ at' \notin BeforeCreate /\ at \in AfterRemoval
        /\ at \notin {"recover", "killed"}
        /\ at' \notin {"recover", "inspect", "start", "attached"}
        /\ at \notin Late /\ at' \notin {"judge", "recheck", "write", "report", "build"}
        /\ at' \notin BoundStages
    BY DEF Stages, Ending, Cleanup, BeforeCreate, AfterRemoval, AfterCleanup, Late, Over,
           BoundStages
  <1>3. Typed'
    BY <1>2, TypedStep DEF IInv, Typed
  <1>4. GuestOK' /\ StreamOK' /\ PipeOK'
    BY <1>2, SameGuest
  <1>5. FreshOK'
    BY <1>1, <1>2 DEF FreshOK, Fresh, NotStarted
  <1>6. CustodyOK'
    <2>1. Starts' = Starts
      BY DEF Starts
    <2>2. "validation" \in sup'.cid \/ ~(Running' \/ "start" \in late')
      BY DEF IInv, CustodyOK
    <2>3. Starts' # {} => sup'.failure
      BY <1>2, <2>1 DEF IInv, CustodyOK
    <2>4. box'.metadata = "removed"
      BY <1>2 DEF IInv, CustodyOK
    <2>5. code' = 0 => box'.validation \in {"exited", "dead"}
      <3>1. code' = 0 => code = 0
        <4>1. code' = code \/ code' = 1
          BY Zenon
        <4> QED
          BY <4>1, OneIsNotZero, Zenon
      <3>2. code = 0 => ~Running /\ box.validation \in {"exited", "dead"}
        BY DEF IInv, CustodyOK, Running
      <3> QED
        BY <3>1, <3>2
    <2>6. exposed' => ~sealed'
      BY DEF IInv, CustodyOK
    <2> QED
      BY <1>2, <2>2, <2>3, <2>4, <2>5, <2>6 DEF CustodyOK
  <1>7. VerdictOK' /\ DriftOK' /\ BoundOK'
    BY <1>1, <1>2, EarlyVerdict
  <1> QED
    BY <1>3, <1>4, <1>5, <1>6, <1>7 DEF IInv

(* The part of EndingStep for a step that leaves the container alone.      *)
LEMMA EndingLook ==
    ASSUME IInv, command = "validate", at \in Ending,
           at' \in Cleanup \cup {"cleanup failed", "verify after", "record"},
           UNCHANGED <<stream, files, code, guest, pipe, box, late, sealed, sources, exposed,
                       drifted, provisionVars>>,
           signals' \in 0..MaxSignals,
           DOMAIN sup' = DOMAIN sup, sup'.cid = sup.cid, sup.failure => sup'.failure,
           Running /\ ~trouble' => at' \in Cleanup,
           ReapedOK'
    PROVE  IInv'
  <1>1. box' \in [metadata : MetadataStates, validation : ValidationStates]
    BY DEF IInv, Typed
  <1>2. Running' = Running
    BY DEF Running
  <1> QED
    BY <1>1, <1>2, EndingStep

(* The stream is closed, and the clean-up is next if there is something in *)
(* custody.                                                                *)
LEMMA CloseStreamIInv ==
    ASSUME IInv, CloseStream, command = "validate", UNCHANGED provisionVars
    PROVE  IInv'
  <1>1. /\ UNCHANGED <<stream, files, code, guest, pipe, sources, disk, sealed, exposed,
                       drifted>>
        /\ at = "close"
        /\ at' = IF "validation" \in sup.cid THEN "stop" ELSE "verify after"
    BY DEF CloseStream, guestVars, worldVars
  <1>2. PICK o \in LocalOutcomes :
          /\ Look(o)
          /\ sup' = [sup EXCEPT !.failure = @ \/ (sup.streaming /\ Raised(o))]
    BY DEF CloseStream
  <1>3. UNCHANGED <<box, late>> /\ Noted(o) /\ o \in Outcomes
    BY <1>2, LocalOutcomesAreOutcomes DEF Look, daemonVars
  <1>4. signals' \in 0..MaxSignals
    BY <1>3, NotedFacts DEF IInv
  <1>5. DOMAIN sup = SupFields
    BY DEF IInv, Typed
  <1>6. DOMAIN sup' = DOMAIN sup /\ sup'.cid = sup.cid /\ sup'.reaped = sup.reaped
            /\ sup'.final = sup.final
    BY <1>2, <1>5 DEF SupFields
  <1>7. sup.failure => sup'.failure
    BY <1>2, <1>5 DEF SupFields
  <1>8. at \in Ending /\ at \notin AfterLook /\ "stop" \in Cleanup
    BY <1>1 DEF Ending, AfterLook, AfterCleanup, Over, Cleanup
  <1>9. ~sup.reaped
    BY <1>8 DEF IInv, ReapedOK
  <1>10. ReapedOK'
    BY <1>6, <1>9 DEF ReapedOK, ReapedIsDown
  <1>11. Running => at' \in Cleanup
    BY <1>1, <1>8 DEF IInv, CustodyOK
  <1>12. at' \in Cleanup \cup {"cleanup failed", "verify after", "record"}
    BY <1>1, <1>8
  <1> QED
    BY <1>1, <1>3, <1>4, <1>6, <1>7, <1>8, <1>10, <1>11, <1>12, EndingLook

(* Stop, kill, and the kill in the end: with every command tried, whatever *)
(* became of the one before, the last leaves a container running only if   *)
(* the daemon does not carry it out.                                       *)
LEMMA HaltIInv ==
    ASSUME IInv, NEW outcomes, outcomes \subseteq Outcomes, NEW next, Halt(outcomes, next),
           command = "validate", UNCHANGED provisionVars,
           \/ at \in {"stop", "kill"} /\ next \in {"kill", "wait"}
           \/ /\ at = "emergency kill" /\ next = "cleanup failed"
              /\ outcomes = UnrecordedOutcomes
    PROVE  IInv'
  <1>1. PICK o \in outcomes :
          /\ \E b \in Halted(box) : Ask(o, "none", b)
          /\ o.effect # "late"
          /\ code' = IF Running /\ o.effect = "now" THEN 1 ELSE code
          /\ sup' = [sup EXCEPT !.errors = @ \/ Raised(o)]
          /\ at' = next
          /\ UNCHANGED <<stream, files, guest, pipe, worldVars, exposed, drifted>>
    BY DEF Halt
  <1>2. PICK b \in Halted(box) : Ask(o, "none", b)
    BY <1>1
  <1>3. o \in Outcomes /\ Noted(o) /\ at' = next
        /\ UNCHANGED <<stream, files, guest, pipe, sealed, sources, exposed, drifted>>
    BY <1>1, <1>2 DEF Ask, worldVars
  <1>4. /\ b \in [metadata : MetadataStates, validation : ValidationStates]
        /\ b.metadata = box.metadata
        /\ b.validation # "running"
        /\ ~Running => b = box
    BY HaltedFacts DEF IInv, Running
  <1>5. box' = (IF o.effect = "now" THEN b ELSE box) /\ late' = late
    BY <1>1, <1>2 DEF Ask
  <1>6. /\ box' \in [metadata : MetadataStates, validation : ValidationStates]
        /\ box'.metadata = box.metadata
        /\ ~Running => box' = box /\ code' = code
        /\ code' \in {code, 1}
    BY <1>1, <1>4, <1>5 DEF IInv, Typed
  <1>7. Running' => Running /\ o.effect # "now"
    BY <1>4, <1>5 DEF Running
  <1>8. signals' \in 0..MaxSignals
    BY <1>3, NotedFacts DEF IInv
  <1>9. DOMAIN sup = SupFields
    BY DEF IInv, Typed
  <1>10. DOMAIN sup' = DOMAIN sup /\ sup'.cid = sup.cid /\ sup'.reaped = sup.reaped
            /\ sup'.final = sup.final /\ sup'.failure = sup.failure
    BY <1>1, <1>9 DEF SupFields
  <1>11. at \in Ending /\ at \in Cleanup
         /\ at' \in Cleanup \cup {"cleanup failed", "verify after", "record"}
    BY <1>3 DEF Ending, Cleanup
  <1>12. Running' /\ ~trouble' => at' \in Cleanup
    <2>1. CASE at \in {"stop", "kill"}
      BY <1>3, <2>1 DEF Cleanup
    <2>2. CASE at = "emergency kill"
      <3>1. o.how # "raises"
        BY <1>1, <2>2 DEF UnrecordedOutcomes
      <3>2. Running' => Running /\ o.effect # "now"
        BY <1>7
      <3>3. Running' => trouble'
        BY <1>3, <2>2, <3>1, <3>2, NotedFacts DEF IInv
      <3> QED
        BY <3>3
    <2> QED
      BY <2>1, <2>2
  <1>13. ReapedOK'
    <2>1. sup.reaped => at' \in AfterLook
      <3>1. CASE at \in {"stop", "kill"}
        <4>1. at \notin AfterLook
          BY <3>1 DEF AfterLook, AfterCleanup, Over
        <4> QED
          BY <4>1 DEF IInv, ReapedOK
      <3>2. CASE at = "emergency kill"
        BY <1>3, <3>2 DEF AfterLook
      <3> QED
        BY <3>1, <3>2
    <2>2. at' \notin AfterCleanup
      BY <1>3 DEF AfterCleanup
    <2> QED
      BY <1>5, <1>6, <1>10, <2>1, <2>2, ReapedKept
  <1> QED
    BY <1>3, <1>5, <1>6, <1>7, <1>8, <1>10, <1>11, <1>12, <1>13, EndingStep

(* The container is waited for.                                            *)
LEMMA WaitIInv ==
    ASSUME IInv, Wait, command = "validate", UNCHANGED provisionVars
    PROVE  IInv'
  <1>1. /\ UNCHANGED <<stream, files, code, guest, pipe, sources, disk, sealed, exposed,
                       drifted>>
        /\ at = "wait" /\ at' = "final inspect"
    BY DEF Wait, guestVars, worldVars
  <1>2. PICK o \in Outcomes :
          Look(o) /\ sup' = [sup EXCEPT !.errors = @ \/ Raised(o) \/ (Returned(o) /\ Running)]
    BY DEF Wait
  <1>3. UNCHANGED <<box, late>> /\ Noted(o)
    BY <1>2 DEF Look, daemonVars
  <1>4. signals' \in 0..MaxSignals
    BY <1>3, NotedFacts DEF IInv
  <1>5. DOMAIN sup = SupFields
    BY DEF IInv, Typed
  <1>6. DOMAIN sup' = DOMAIN sup /\ sup'.cid = sup.cid /\ sup'.reaped = sup.reaped
            /\ sup'.failure = sup.failure
    BY <1>2, <1>5 DEF SupFields
  <1>7. at \in Ending /\ at' \in Cleanup /\ at \notin AfterLook
    BY <1>1 DEF Ending, Cleanup, AfterLook, AfterCleanup, Over
  <1>8. ~sup.reaped
    BY <1>7 DEF IInv, ReapedOK
  <1>9. ReapedOK'
    BY <1>6, <1>8 DEF ReapedOK, ReapedIsDown
  <1> QED
    BY <1>1, <1>3, <1>4, <1>6, <1>7, <1>9, EndingLook

(* The look at the container that decides: evidence that it is down is     *)
(* taken only of a container that is, and the clean-up ends without errors *)
(* only with one that was wound up.                                        *)
LEMMA FinalInspectIInv ==
    ASSUME IInv, FinalInspect, command = "validate", UNCHANGED provisionVars
    PROVE  IInv'
  <1>1. /\ UNCHANGED <<stream, files, code, guest, pipe, sources, disk, sealed, exposed,
                       drifted>>
        /\ at = "final inspect" /\ at' = CleanupEnds(sup'.errors)
    BY DEF FinalInspect, guestVars, worldVars
  <1>2. PICK o \in Outcomes :
          /\ Look(o)
          /\ sup' = [sup EXCEPT
                      !.errors = @ \/ ~Returned(o) \/ box.validation \in {"running", "dead"},
                      !.reaped = Returned(o) /\ ~Running,
                      !.final  = IF Returned(o) /\ ~Running THEN code ELSE @]
    BY DEF FinalInspect
  <1>3. UNCHANGED <<box, late>> /\ Noted(o)
    BY <1>2 DEF Look, daemonVars
  <1>4. signals' \in 0..MaxSignals
    BY <1>3, NotedFacts DEF IInv
  <1>5. DOMAIN sup = SupFields
    BY DEF IInv, Typed
  <1>6. DOMAIN sup' = DOMAIN sup /\ sup'.cid = sup.cid /\ sup'.failure = sup.failure
    BY <1>2, <1>5 DEF SupFields
  <1>7. sup'.reaped => ~Running
    BY <1>2, <1>5 DEF SupFields
  <1>8. sup'.reaped => sup'.final = code
    BY <1>2, <1>5 DEF SupFields
  <1>9. ~sup'.errors => box.validation \notin {"running", "dead"}
    BY <1>2, <1>5 DEF SupFields
  <1>10. at \in Ending /\ at \notin {"recover", "killed"} /\ "emergency kill" \in Cleanup
    BY <1>1 DEF Ending, Cleanup
  <1>11. /\ at' \in {"emergency kill", "verify after"}
         /\ at' = "verify after" => ~sup'.errors
    BY <1>1 DEF CleanupEnds
  <1>12. Running => at' \in Cleanup
    BY <1>9, <1>10, <1>11 DEF Running
  <1>13. ReapedOK'
    <2>1. sup'.reaped => at' \in AfterLook
      BY <1>11 DEF AfterLook, AfterCleanup
    <2>2. ReapedIsDown'
      <3>1. Starts # {} => sup.failure
        BY <1>10 DEF IInv, CustodyOK
      <3>2. sup'.reaped => ~Running'
        BY <1>3, <1>7 DEF Running
      <3>3. ~sup'.failure => late' \cap {"start", "validation"} = {}
        BY <1>3, <1>6, <3>1 DEF Starts
      <3> QED
        BY <3>2, <3>3 DEF ReapedIsDown
    <2>3. sup'.reaped /\ sup'.final = 0 => code' = 0
      BY <1>1, <1>8
    <2>4. at' \in AfterCleanup => box'.validation # "dead"
      BY <1>3, <1>9, <1>11 DEF AfterCleanup
    <2> QED
      BY <2>1, <2>2, <2>3, <2>4 DEF ReapedOK
  <1> QED
    BY <1>1, <1>3, <1>4, <1>6, <1>10, <1>11, <1>12, <1>13, EndingLook

(* A clean-up that failed has failed the run.                              *)
LEMMA CleanupFailsIInv ==
    ASSUME IInv, CleanupFails, command = "validate", UNCHANGED provisionVars
    PROVE  IInv'
  <1>1. /\ UNCHANGED <<stream, files, code, guest, pipe, box, late, sources, disk, sealed,
                       exposed, drifted, signals, trouble>>
        /\ at = "cleanup failed" /\ at' = "verify after"
        /\ sup' = [sup EXCEPT !.failure = TRUE]
    BY DEF CleanupFails, guestVars, worldVars, daemonVars
  <1>2. signals' \in 0..MaxSignals /\ DOMAIN sup = SupFields
    BY <1>1 DEF IInv, Typed
  <1>3. DOMAIN sup' = DOMAIN sup /\ sup'.cid = sup.cid
    BY <1>1, <1>2 DEF SupFields
  <1>4. sup'.failure
    BY <1>1, <1>2 DEF SupFields
  <1>5. at \in Ending /\ at' \in AfterLook
        /\ at \notin Cleanup \cup {"attached", "close", "killed"}
    BY <1>1 DEF Ending, Cleanup, AfterLook, AfterCleanup
  <1>6. Running => trouble'
    BY <1>1, <1>5 DEF IInv, CustodyOK
  <1>7. ReapedOK'
    BY <1>4, <1>5 DEF ReapedOK, ReapedIsDown
  <1> QED
    BY <1>1, <1>2, <1>3, <1>4, <1>5, <1>6, <1>7, EndingLook

(* A signal in the clean-up has failed the run, and is trouble.            *)
LEMMA CleanupInterruptedIInv ==
    ASSUME IInv, CleanupInterrupted, command = "validate", UNCHANGED provisionVars
    PROVE  IInv'
  <1>1. /\ UNCHANGED <<stream, files, code, guest, pipe, box, late, sources, disk, sealed,
                       exposed, drifted>>
        /\ at \in Cleanup /\ at' = "verify after"
        /\ sup' = [sup EXCEPT !.failure = TRUE]
        /\ signals < MaxSignals /\ signals' = signals + 1
    BY DEF CleanupInterrupted, guestVars, worldVars, daemonVars
  <1>2. trouble'
    BY DEF CleanupInterrupted
  <1>3. DOMAIN sup = SupFields
    BY DEF IInv, Typed
  <1>4. signals' \in 0..MaxSignals
    <2>1. signals \in 0..MaxSignals /\ MaxSignals \in Nat
      BY GatesAssumption DEF IInv, Typed
    <2>2. signals < MaxSignals /\ signals' = signals + 1
      BY <1>1
    <2> QED
      BY <2>1, <2>2
  <1>5. DOMAIN sup' = DOMAIN sup /\ sup'.cid = sup.cid
    BY <1>1, <1>3 DEF SupFields
  <1>6. sup'.failure
    BY <1>1, <1>3 DEF SupFields
  <1>7. at \in Ending /\ at' \in AfterLook
    BY <1>1 DEF Ending, AfterLook, AfterCleanup
  <1>8. ReapedOK'
    BY <1>6, <1>7 DEF ReapedOK, ReapedIsDown
  <1> QED
    BY <1>1, <1>2, <1>4, <1>5, <1>6, <1>7, <1>8, EndingLook

(* Sources and image are verified again.                                   *)
LEMMA VerifyAfterIInv ==
    ASSUME IInv, VerifyAfter, command = "validate", UNCHANGED provisionVars
    PROVE  IInv'
  <1>1. /\ UNCHANGED <<stream, files, code, guest, pipe, sources, disk, sealed, exposed,
                       drifted>>
        /\ at = "verify after" /\ at' = "record"
    BY DEF VerifyAfter, guestVars, worldVars
  <1>2. PICK o \in Outcomes :
          /\ Look(o)
          /\ sup' = [sup EXCEPT !.failure = @ \/ ~Returned(o) \/ sources = "changed"]
    BY DEF VerifyAfter
  <1>3. UNCHANGED <<box, late>> /\ Noted(o)
    BY <1>2 DEF Look, daemonVars
  <1>4. signals' \in 0..MaxSignals /\ (trouble => trouble')
    BY <1>3, NotedFacts DEF IInv
  <1>5. DOMAIN sup = SupFields
    BY DEF IInv, Typed
  <1>6. DOMAIN sup' = DOMAIN sup /\ sup'.cid = sup.cid /\ sup'.reaped = sup.reaped
            /\ sup'.final = sup.final
    BY <1>2, <1>5 DEF SupFields
  <1>7. sup.failure => sup'.failure
    BY <1>2, <1>5 DEF SupFields
  <1>8. /\ at \in Ending /\ at \notin Cleanup \cup {"attached", "close", "killed"}
        /\ at \in AfterCleanup /\ at' \in AfterLook
    BY <1>1 DEF Ending, Cleanup, AfterCleanup, AfterLook
  <1>9. Running => trouble'
    BY <1>4, <1>8 DEF IInv, CustodyOK
  <1>10. ReapedOK'
    BY <1>1, <1>3, <1>6, <1>7, <1>8, ReapedKept
  <1> QED
    BY <1>1, <1>3, <1>4, <1>6, <1>7, <1>8, <1>9, <1>10, EndingLook

-----------------------------------------------------------------------------
(* Steps that only look, or only prepare.                                  *)

(* The types, after a step from one stage to another.                      *)
LEMMA TypedMove ==
    ASSUME IInv, NEW o \in Outcomes, Noted(o), at' \in Stages,
           UNCHANGED <<sup, box, late, command>>,
           files' \subseteq {"provision", "validation", "failure", "exit 0"},
           moved' \subseteq pulled', pulled' \subseteq Bases
    PROVE  Typed'
  <1>1. signals' \in 0..MaxSignals
    BY NotedFacts DEF IInv
  <1> QED
    BY <1>1 DEF IInv, Typed

Preparing ==
    {"verify", "configure", "check record", "copy receipt", "copy context", "pull", "pin",
     "build", "inspect image"}

Prepared == {"configure", "check record", "create metadata", "remove metadata",
             "copy context", "pull", "pin", "fail", "ended"}

(* A step that prepares the image or looks at it is of no consequence for  *)
(* the containers.                                                         *)
LEMMA PreparingStep ==
    ASSUME IInv, at \in Preparing, at' \in Prepared \cup {"build", "inspect image"},
           UNCHANGED <<sup, stream, box, late, guestVars, sealed, exposed, command>>,
           trouble => trouble',
           at' \in BeforeCreate => at \in BeforeCreate \/ command = "provision"
    PROVE  GuestOK' /\ StreamOK' /\ PipeOK' /\ FreshOK' /\ CustodyOK' /\ ReapedOK'
  <1>1. /\ at \notin Cleanup \cup {"recover", "attached", "close", "killed"}
        /\ at' \notin Cleanup \cup {"recover", "inspect", "start", "attached"}
        /\ at' \notin AfterRemoval
        /\ at \notin AfterLook
    BY DEF Preparing, Prepared, Cleanup, AfterRemoval, AfterCleanup, AfterLook, Over
  <1> QED
    BY <1>1, MoveIInv

(* So it is for the verdict, if the image stays what it was.               *)
LEMMA PreparingIInv ==
    ASSUME IInv, at \in Preparing, at' \in Prepared, NEW o \in Outcomes, Noted(o),
           UNCHANGED <<sup, stream, box, late, guestVars, sealed, exposed, command,
                       files, drifted, sources, image, dockerfile>>,
           moved' \subseteq pulled', pulled' \subseteq Bases,
           at' \in BeforeCreate => at \in BeforeCreate \/ command = "provision",
           at' \in BoundStages => at \in BoundStages \/ command = "validate"
    PROVE  IInv'
  <1>1. /\ at' \in Stages /\ at \notin Late
        /\ at' \notin {"judge", "recheck", "write", "report", "build"}
    BY DEF Preparing, Prepared, Stages, BeforeCleanup, Late, Over
  <1>2. Typed'
    BY <1>1, TypedMove DEF IInv, Typed
  <1>3. trouble => trouble'
    BY NotedFacts DEF IInv
  <1>4. GuestOK' /\ StreamOK' /\ PipeOK' /\ FreshOK' /\ CustodyOK' /\ ReapedOK'
    BY <1>3, PreparingStep
  <1>5. VerdictOK' /\ DriftOK' /\ BoundOK'
    BY <1>1, EarlyVerdict
  <1> QED
    BY <1>2, <1>4, <1>5 DEF IInv

(* The steps of validate, and those it shares with provision.              *)
LEMMA VerifyInputsIInv ==
    ASSUME IInv, VerifyInputs, UNCHANGED provisionVars
    PROVE  IInv'
  <1>1. PICK o \in LocalOutcomes : Noted(o) /\ at' \in {"configure", "fail", "ended"}
    BY DEF VerifyInputs
  <1>2. o \in Outcomes
    BY LocalOutcomesAreOutcomes
  <1>3. /\ UNCHANGED <<sup, stream, box, late, guestVars, sealed, exposed, command,
                       files, drifted, sources, image, dockerfile, moved, pulled>>
        /\ at = "verify"
    BY DEF VerifyInputs, daemonVars, worldVars, provisionVars, contextVars
  <1>4. /\ at \in Preparing /\ at \in BeforeCreate /\ at' \in Prepared
        /\ at' \notin BoundStages
    BY <1>1, <1>3 DEF Preparing, BeforeCreate, Prepared, BoundStages
  <1>5. moved' \subseteq pulled' /\ pulled' \subseteq Bases
    BY <1>3 DEF IInv, Typed
  <1> QED
    BY <1>1, <1>2, <1>3, <1>4, <1>5, PreparingIInv

(* The daemon is looked at, by either command.                             *)
LEMMA ConfigureIInv ==
    ASSUME IInv, NEW next \in {"check record", "copy context"}, ConfigureThen(next),
           UNCHANGED provisionVars
    PROVE  IInv'
  <1>1. PICK o \in Outcomes : Look(o) /\ at' \in {next, "fail"}
    BY DEF ConfigureThen
  <1>2. /\ UNCHANGED <<sup, stream, box, late, guestVars, sealed, exposed, command,
                       files, drifted, sources, image, dockerfile, moved, pulled>>
        /\ at = "configure" /\ Noted(o)
    BY <1>1 DEF ConfigureThen, Look, daemonVars, worldVars, provisionVars, contextVars
  <1>3. /\ at \in Preparing /\ at \in BeforeCreate /\ at' \in Prepared
        /\ at' \notin BoundStages
    BY <1>1, <1>2 DEF Preparing, BeforeCreate, Prepared, BoundStages
  <1>4. moved' \subseteq pulled' /\ pulled' \subseteq Bases
    BY <1>2 DEF IInv, Typed
  <1> QED
    BY <1>2, <1>3, <1>4, PreparingIInv

(* validate goes on with the image on the provision record, which is       *)
(* bound.                                                                  *)
LEMMA CheckRecordIInv ==
    ASSUME IInv, CheckRecord, command = "validate", UNCHANGED provisionVars
    PROVE  IInv'
  <1>1. PICK o \in Outcomes : Look(o) /\ at' \in {"create metadata", "fail"}
    BY DEF CheckRecord
  <1>2. /\ UNCHANGED <<sup, stream, box, late, guestVars, sealed, exposed, command,
                       files, drifted, sources, image, dockerfile, moved, pulled>>
        /\ at = "check record" /\ Noted(o)
    BY <1>1 DEF CheckRecord, Look, daemonVars, worldVars, provisionVars, contextVars
  <1>3. at \in Preparing /\ at \in BeforeCreate /\ at' \in Prepared
    BY <1>1, <1>2 DEF Preparing, BeforeCreate, Prepared
  <1>4. moved' \subseteq pulled' /\ pulled' \subseteq Bases
    BY <1>2 DEF IInv, Typed
  <1> QED
    BY <1>2, <1>3, <1>4, PreparingIInv

(* The receipt is copied out of the image, which stays what it is.         *)
LEMMA CopyReceiptIInv ==
    ASSUME IInv, CopyReceipt, UNCHANGED provisionVars
    PROVE  IInv'
  <1>1. PICK o \in Outcomes : Look(o) /\ at' \in {"remove metadata", "fail"}
    BY DEF CopyReceipt
  <1>2. /\ UNCHANGED <<sup, stream, box, late, guestVars, sealed, exposed, command,
                       files, drifted, sources, image, dockerfile, moved, pulled>>
        /\ at = "copy receipt" /\ Noted(o)
    BY <1>1 DEF CopyReceipt, Look, daemonVars, worldVars, provisionVars, contextVars
  <1>3. at \in Preparing /\ at \in BeforeCreate /\ at' \in Prepared /\ at \in BoundStages
    BY <1>1, <1>2 DEF Preparing, BeforeCreate, Prepared, BoundStages
  <1>4. moved' \subseteq pulled' /\ pulled' \subseteq Bases
    BY <1>2 DEF IInv, Typed
  <1> QED
    BY <1>2, <1>3, <1>4, PreparingIInv

-----------------------------------------------------------------------------
(* The image.                                                              *)

(* The sources are copied into the build context.                          *)
LEMMA CopyContextIInv ==
    ASSUME IInv, CopyContext, command = "provision"
    PROVE  IInv'
  <1>1. PICK o \in LocalOutcomes : Noted(o) /\ at' \in {"pull", "fail"}
    BY DEF CopyContext
  <1>2. o \in Outcomes
    BY LocalOutcomesAreOutcomes
  <1>3. /\ UNCHANGED <<sup, stream, box, late, guestVars, sealed, exposed, command,
                       files, drifted, sources, image, dockerfile, moved, pulled>>
        /\ at = "copy context"
    BY DEF CopyContext, provisionFrame, daemonVars, worldVars
  <1>4. at \in Preparing /\ at' \in Prepared /\ at' \notin BoundStages
    BY <1>1, <1>3 DEF Preparing, Prepared, BoundStages
  <1>5. moved' \subseteq pulled' /\ pulled' \subseteq Bases
    BY <1>3 DEF IInv, Typed
  <1> QED
    BY <1>1, <1>2, <1>3, <1>4, <1>5, PreparingIInv

(* A base is recorded before its tag can have moved since.                 *)
LEMMA PullBaseIInv ==
    ASSUME IInv, PullBase, command = "provision"
    PROVE  IInv'
  <1>1. PICK o \in Outcomes, b \in Bases \ pulled :
          /\ Noted(o) /\ at' \in {"pull", "pin", "fail"}
          /\ pulled' = pulled \cup {b} \/ pulled' = pulled
    BY DEF PullBase
  <1>2. /\ UNCHANGED <<sup, stream, box, late, guestVars, sealed, exposed, command,
                       files, drifted, sources, image, dockerfile, moved>>
        /\ at = "pull"
    BY DEF PullBase, provisionFrame, daemonVars, worldVars
  <1>3. at \in Preparing /\ at' \in Prepared /\ at' \notin BoundStages
    BY <1>1, <1>2 DEF Preparing, Prepared, BoundStages
  <1>4. moved' \subseteq pulled' /\ pulled' \subseteq Bases
    BY <1>1, <1>2 DEF IInv, Typed
  <1> QED
    BY <1>1, <1>2, <1>3, <1>4, PreparingIInv

(* The image is looked at, which stays what it is.                         *)
LEMMA InspectImageIInv ==
    ASSUME IInv, InspectImage, command = "provision"
    PROVE  IInv'
  <1>1. PICK o \in Outcomes : Noted(o) /\ at' \in {"create metadata", "fail"}
    BY DEF InspectImage
  <1>2. /\ UNCHANGED <<sup, stream, box, late, guestVars, sealed, exposed, command,
                       files, drifted, sources, image, dockerfile, moved, pulled>>
        /\ at = "inspect image"
    BY DEF InspectImage, provisionFrame, contextVars, daemonVars, worldVars
  <1>3. at \in Preparing /\ at' \in Prepared /\ at \in BoundStages
    BY <1>1, <1>2 DEF Preparing, Prepared, BoundStages
  <1>4. moved' \subseteq pulled' /\ pulled' \subseteq Bases
    BY <1>2 DEF IInv, Typed
  <1> QED
    BY <1>1, <1>2, <1>3, <1>4, PreparingIInv

(* The build only begins with the Dockerfile on digests.                   *)
LEMMA PinBasesIInv ==
    ASSUME IInv, PinBases, command = "provision"
    PROVE  IInv'
  <1>1. PICK o \in LocalOutcomes :
          /\ Noted(o)
          /\ dockerfile' = IF o.effect = "now" THEN "digest" ELSE dockerfile
          /\ at' = IF Returned(o) THEN "build" ELSE "fail"
    BY DEF PinBases
  <1>2. o \in Outcomes
    BY LocalOutcomesAreOutcomes
  <1>3. /\ UNCHANGED <<sup, stream, box, late, guestVars, sealed, exposed, command,
                       files, drifted, sources, image, moved, pulled>>
        /\ at = "pin"
    BY DEF PinBases, provisionFrame, daemonVars, worldVars
  <1>4. at' = "build" => dockerfile' = "digest"
    BY <1>1, <1>2, OutcomeFacts DEF Returned
  <1>5. at' \in {"build", "fail"}
    BY <1>1
  <1>6. /\ at \in Preparing /\ at' \in Prepared \cup {"build", "inspect image"}
        /\ at' \in Stages /\ at' \notin BeforeCreate
    BY <1>3, <1>5 DEF Preparing, Prepared, Stages, BeforeCreate
  <1>7. trouble => trouble'
    BY <1>1, <1>2, NotedFacts DEF IInv
  <1>8. Typed'
    BY <1>1, <1>2, <1>3, <1>6, TypedMove DEF IInv, Typed
  <1>9. GuestOK' /\ StreamOK' /\ PipeOK' /\ FreshOK' /\ CustodyOK' /\ ReapedOK'
    BY <1>3, <1>6, <1>7, PreparingStep
  <1>10. files' \cap {"provision", "validation"} = {}
    BY <1>3 DEF IInv, DriftOK, Over
  <1>11. VerdictOK'
    BY <1>5, <1>10 DEF VerdictOK
  <1>12. DriftOK'
    BY <1>3, <1>5, <1>10 DEF IInv, DriftOK
  <1>13. BoundOK'
    BY <1>3, <1>4, <1>5, <1>10 DEF BoundOK
  <1> QED
    BY <1>8, <1>9, <1>11, <1>12, <1>13 DEF IInv

(* The image that was built is the one recorded: from the sources listed   *)
(* on the bases pulled, unless the context was replaced.                   *)
LEMMA BuildImageIInv ==
    ASSUME IInv, BuildImage, command = "provision"
    PROVE  IInv'
  <1>1. PICK o \in Outcomes :
          /\ Returned(o) => context # "changed"
          /\ Noted(o)
          /\ image' = IF o.effect # "never" /\ context # "changed"
                      THEN [built   |-> TRUE,
                            strays  |-> IF context = "replaced" THEN Bases
                                        ELSE IF dockerfile = "digest" THEN {} ELSE moved,
                            sources |-> context]
                      ELSE image
          /\ at' = IF Returned(o) THEN "inspect image" ELSE "fail"
    BY DEF BuildImage
  <1>2. /\ UNCHANGED <<sup, stream, box, late, guestVars, sealed, exposed, command,
                       files, drifted, sources, moved, pulled, dockerfile>>
        /\ at = "build"
    BY DEF BuildImage, provisionFrame, contextVars, daemonVars, worldVars
  <1>3. dockerfile = "digest"
    BY <1>2 DEF IInv, BoundOK
  <1>4. at' = "inspect image" => Bound'
    <2>1. SUFFICES ASSUME at' = "inspect image" PROVE Bound'
      OBVIOUS
    <2>2. Returned(o)
      BY <1>1, <2>1
    <2>3. o.effect # "never" /\ context # "changed"
      BY <1>1, <2>2, OutcomeFacts DEF Returned
    <2> QED
      BY <1>1, <1>3, <2>3 DEF Bound
  <1>5. at' \in {"inspect image", "fail"}
    BY <1>1
  <1>6. /\ at \in Preparing /\ at' \in Prepared \cup {"build", "inspect image"}
        /\ at' \in Stages /\ at' \notin BeforeCreate
    BY <1>2, <1>5 DEF Preparing, Prepared, Stages, BeforeCreate
  <1>7. trouble => trouble'
    BY <1>1, NotedFacts DEF IInv
  <1>8. Typed'
    BY <1>1, <1>2, <1>6, TypedMove DEF IInv, Typed
  <1>9. GuestOK' /\ StreamOK' /\ PipeOK' /\ FreshOK' /\ CustodyOK' /\ ReapedOK'
    BY <1>2, <1>6, <1>7, PreparingStep
  <1>10. files' \cap {"provision", "validation"} = {}
    BY <1>2 DEF IInv, DriftOK, Over
  <1>11. VerdictOK'
    BY <1>5, <1>10 DEF VerdictOK
  <1>12. DriftOK'
    BY <1>2, <1>5, <1>10 DEF IInv, DriftOK
  <1>13. BoundOK'
    BY <1>2, <1>4, <1>5, <1>10 DEF BoundOK
  <1> QED
    BY <1>8, <1>9, <1>11, <1>12, <1>13 DEF IInv

-----------------------------------------------------------------------------
(* The verdict.                                                            *)

Judging == {"record", "judge", "recheck", "write", "report", "fail"}

(* The steps after the clean-up change neither container, guest nor what   *)
(* the supervisor knows.                                                   *)
LEMMA JudgingStep ==
    ASSUME IInv, at \in Judging, NEW o \in Outcomes \cup LocalOutcomes, Noted(o),
           UNCHANGED <<sup, stream, box, late, guestVars, sealed, exposed, drifted, sources,
                       provisionVars>>,
           at' \in {"judge", "recheck", "write", "report", "fail", "ended"},
           at' \in AfterCleanup => at \in AfterCleanup,
           files' \subseteq {"provision", "validation", "failure", "exit 0"}
    PROVE  /\ Typed' /\ GuestOK' /\ StreamOK' /\ PipeOK' /\ FreshOK' /\ CustodyOK' /\ ReapedOK'
           /\ command' = command /\ Bound' = Bound /\ Proven' = Proven
           /\ sup'.failure = sup.failure
  <1>1. o \in Outcomes
    BY LocalOutcomesAreOutcomes
  <1>2. UNCHANGED <<command, image, moved, pulled, code, guest, pipe>>
    BY DEF provisionVars, contextVars, guestVars
  <1>3. trouble => trouble'
    BY <1>1, NotedFacts DEF IInv
  <1>4. /\ at \notin Cleanup \cup {"recover", "attached", "close", "killed"}
        /\ at' \notin Cleanup \cup {"recover", "inspect", "start", "attached"}
        /\ at' \notin BeforeCreate /\ at' \in Stages /\ at' \in AfterLook
        /\ at' \in AfterRemoval => at' \in AfterCleanup
        /\ AfterCleanup \subseteq AfterRemoval
    BY DEF Judging, Cleanup, BeforeCreate, Stages, AfterLook, AfterCleanup, AfterRemoval, Over
  <1>5. at' \in AfterRemoval => at \in AfterRemoval
    BY <1>4
  <1>6. Typed'
    BY <1>1, <1>2, <1>4, TypedMove DEF IInv, Typed
  <1>7. GuestOK' /\ StreamOK' /\ PipeOK' /\ FreshOK' /\ CustodyOK' /\ ReapedOK'
    BY <1>2, <1>3, <1>4, <1>5, MoveIInv
  <1>8. Bound' = Bound /\ Proven' = Proven /\ sup'.failure = sup.failure
    BY <1>2 DEF Bound, Proven
  <1> QED
    BY <1>2, <1>6, <1>7, <1>8

(* Only a run that has not failed is judged.                               *)
LEMMA RecordIInv ==
    ASSUME IInv, Record, command = "validate", UNCHANGED provisionVars
    PROVE  IInv'
  <1>1. PICK o \in LocalOutcomes :
          Look(o) /\ at' \in {"judge", "fail"} /\ (at' = "judge" => ~sup.failure)
    BY DEF Record
  <1>2. /\ UNCHANGED <<sup, stream, files, box, late, guestVars, sealed, exposed, drifted,
                       sources>>
        /\ at = "record" /\ Noted(o)
    BY <1>1 DEF Record, Look, daemonVars, worldVars
  <1>3. at \in Judging /\ at \in AfterCleanup
    BY <1>2 DEF Judging, AfterCleanup
  <1>4. files' \subseteq {"provision", "validation", "failure", "exit 0"}
    BY <1>2 DEF IInv, Typed
  <1>5. /\ Typed' /\ GuestOK' /\ StreamOK' /\ PipeOK' /\ FreshOK' /\ CustodyOK' /\ ReapedOK'
        /\ command' = command /\ Bound' = Bound /\ sup'.failure = sup.failure
    BY <1>1, <1>2, <1>3, <1>4, JudgingStep
  <1>6. files' \cap {"provision", "validation"} = {}
    BY <1>2 DEF IInv, DriftOK, Over
  <1>7. VerdictOK'
    BY <1>1, <1>5, <1>6 DEF VerdictOK
  <1>8. DriftOK'
    BY <1>1, <1>2, <1>6 DEF IInv, DriftOK
  <1>9. BoundOK'
    BY <1>1, <1>5, <1>6 DEF IInv, BoundOK
  <1> QED
    BY <1>5, <1>7, <1>8, <1>9 DEF IInv

(* What succeeded was proven: the guest reported success, its container    *)
(* exited by itself with all its controls.                                 *)
LEMMA JudgeIInv ==
    ASSUME IInv, Judge, command = "validate", UNCHANGED provisionVars
    PROVE  IInv'
  <1>1. PICK o \in Outcomes :
          Look(o) /\ at' \in {"recheck", "fail"} /\ (at' = "recheck" => Succeeded)
    BY DEF Judge
  <1>2. /\ UNCHANGED <<sup, stream, files, box, late, guestVars, sealed, exposed, drifted,
                       sources>>
        /\ at = "judge" /\ Noted(o)
    BY <1>1 DEF Judge, Look, daemonVars, worldVars
  <1>3. at \in Judging /\ at \in AfterCleanup /\ at \in AfterRemoval
    BY <1>2 DEF Judging, AfterCleanup, AfterRemoval
  <1>4. files' \subseteq {"provision", "validation", "failure", "exit 0"}
    BY <1>2 DEF IInv, Typed
  <1>5. /\ Typed' /\ GuestOK' /\ StreamOK' /\ PipeOK' /\ FreshOK' /\ CustodyOK' /\ ReapedOK'
        /\ command' = command /\ Bound' = Bound /\ Proven' = Proven
        /\ sup'.failure = sup.failure
    BY <1>1, <1>2, <1>3, <1>4, JudgingStep
  <1>6. files' \cap {"provision", "validation"} = {}
    BY <1>2 DEF IInv, DriftOK, Over
  <1>7. ~sup.failure /\ Bound
    BY <1>2 DEF IInv, VerdictOK, BoundOK
  <1>8. Succeeded => Proven
    <2>1. SUFFICES ASSUME Succeeded PROVE Proven
      OBVIOUS
    <2>2. sup.reaped /\ sealed /\ stream.guest_ok /\ sup.final = 0
      BY <2>1 DEF Succeeded
    <2>3. guest.ok /\ stream.ended /\ ~exposed
      BY <2>2 DEF IInv, StreamOK, CustodyOK
    <2>4. box.metadata = "removed"
      BY <1>3 DEF IInv, CustodyOK
    <2>5. code = 0
      BY <1>7, <2>2 DEF IInv, ReapedOK
    <2>6. box.validation # "dead"
      BY <1>3, <1>7, <2>2 DEF IInv, ReapedOK
    <2>7. box.validation = "exited"
      BY <2>5, <2>6 DEF IInv, CustodyOK
    <2> QED
      BY <1>7, <2>2, <2>3, <2>4, <2>5, <2>7 DEF Proven
  <1>9. VerdictOK'
    BY <1>1, <1>5, <1>6, <1>7, <1>8 DEF VerdictOK
  <1>10. DriftOK'
    BY <1>1, <1>2, <1>6 DEF IInv, DriftOK
  <1>11. BoundOK'
    BY <1>1, <1>5, <1>7 DEF BoundOK
  <1> QED
    BY <1>5, <1>9, <1>10, <1>11 DEF IInv

(* The last look at the sources: none had changed before it.               *)
LEMMA RecheckIInv ==
    ASSUME IInv, Recheck, UNCHANGED provisionVars
    PROVE  IInv'
  <1>1. PICK o \in LocalOutcomes :
          Look(o) /\ at' \in {"write", "fail"} /\ (at' = "write" => sources = "as listed")
    BY DEF Recheck
  <1>2. /\ UNCHANGED <<sup, stream, files, box, late, guestVars, sealed, exposed, drifted,
                       sources>>
        /\ at = "recheck" /\ Noted(o)
    BY <1>1 DEF Recheck, Look, daemonVars, worldVars
  <1>3. at \in Judging /\ at \in AfterCleanup
    BY <1>2 DEF Judging, AfterCleanup
  <1>4. files' \subseteq {"provision", "validation", "failure", "exit 0"}
    BY <1>2 DEF IInv, Typed
  <1>5. /\ Typed' /\ GuestOK' /\ StreamOK' /\ PipeOK' /\ FreshOK' /\ CustodyOK' /\ ReapedOK'
        /\ command' = command /\ Bound' = Bound /\ Proven' = Proven
        /\ sup'.failure = sup.failure
    BY <1>1, <1>2, <1>3, <1>4, JudgingStep
  <1>6. files' \cap {"provision", "validation"} = {}
    BY <1>2 DEF IInv, DriftOK, Over
  <1>7. Bound /\ (command = "validate" => Proven /\ ~sup.failure)
    BY <1>2 DEF IInv, VerdictOK, BoundOK
  <1>8. VerdictOK'
    BY <1>1, <1>5, <1>6, <1>7 DEF VerdictOK
  <1>9. DriftOK'
    <2>1. at' = "write" => ~drifted'
      BY <1>1, <1>2 DEF IInv, DriftOK
    <2>2. drifted' => sources' = "changed"
      BY <1>2 DEF IInv, DriftOK
    <2> QED
      BY <1>1, <1>6, <2>1, <2>2 DEF DriftOK
  <1>10. BoundOK'
    BY <1>1, <1>5, <1>7 DEF BoundOK
  <1> QED
    BY <1>5, <1>8, <1>9, <1>10 DEF IInv

(* The result is saved on what was proven, and on nothing that had         *)
(* changed.                                                                *)
LEMMA WriteResultIInv ==
    ASSUME IInv, NEW result \in {"provision", "validation"}, WriteResult(result),
           result = "validation" => command = "validate", UNCHANGED provisionVars
    PROVE  IInv'
  <1>1. PICK o \in LocalOutcomes :
          /\ Look(o)
          /\ files' = IF o.effect = "now" THEN files \cup {result} ELSE files
          /\ at' = IF Returned(o) THEN "report" ELSE "fail"
    BY DEF WriteResult
  <1>2. /\ UNCHANGED <<sup, stream, box, late, guestVars, sealed, exposed, drifted, sources>>
        /\ at = "write" /\ Noted(o) /\ at' \in {"report", "fail"}
        /\ files' \in {files, files \cup {result}}
    BY <1>1 DEF WriteResult, Look, daemonVars, worldVars
  <1>3. at \in Judging /\ at \in AfterCleanup
    BY <1>2 DEF Judging, AfterCleanup
  <1>4. files' \subseteq {"provision", "validation", "failure", "exit 0"}
    BY <1>2 DEF IInv, Typed
  <1>5. /\ Typed' /\ GuestOK' /\ StreamOK' /\ PipeOK' /\ FreshOK' /\ CustodyOK' /\ ReapedOK'
        /\ command' = command /\ Bound' = Bound /\ Proven' = Proven
        /\ sup'.failure = sup.failure
    BY <1>1, <1>2, <1>3, <1>4, JudgingStep
  <1>6. files \cap {"provision", "validation"} = {}
    BY <1>2 DEF IInv, DriftOK, Over
  <1>7. Bound /\ (command = "validate" => Proven /\ ~sup.failure) /\ ~drifted
    BY <1>2 DEF IInv, VerdictOK, BoundOK, DriftOK
  <1>8. "validation" \in files' => command = "validate"
    BY <1>2, <1>6
  <1>9. VerdictOK'
    BY <1>5, <1>7, <1>8 DEF VerdictOK
  <1>10. DriftOK'
    <2>1. ~drifted'
      BY <1>2, <1>7
    <2> QED
      BY <1>2, <2>1 DEF DriftOK
  <1>11. BoundOK'
    BY <1>2, <1>5, <1>7 DEF BoundOK
  <1> QED
    BY <1>5, <1>9, <1>10, <1>11 DEF IInv

(* What is saved stays as good as it was when the run comes to an end.     *)
LEMMA ReportedIInv ==
    ASSUME IInv, at \in {"report", "fail"}, at' \in {"fail", "ended"},
           NEW o \in LocalOutcomes, Noted(o),
           UNCHANGED <<sup, stream, box, late, guestVars, sealed, exposed, drifted, sources,
                       provisionVars>>,
           files' \subseteq files \cup {"exit 0", "failure"}
    PROVE  IInv'
  <1>1. at \in Judging /\ at' \notin AfterCleanup
    BY DEF Judging, AfterCleanup
  <1>2. files' \subseteq {"provision", "validation", "failure", "exit 0"}
    BY DEF IInv, Typed
  <1>3. /\ Typed' /\ GuestOK' /\ StreamOK' /\ PipeOK' /\ FreshOK' /\ CustodyOK' /\ ReapedOK'
        /\ command' = command /\ Bound' = Bound /\ Proven' = Proven
    BY <1>1, <1>2, JudgingStep
  <1>4. files' \cap {"provision", "validation"} \subseteq files
    OBVIOUS
  <1>5. VerdictOK'
    BY <1>3, <1>4 DEF IInv, VerdictOK
  <1>6. DriftOK'
    BY <1>4 DEF IInv, DriftOK, Over
  <1>7. BoundOK'
    BY <1>3, <1>4 DEF IInv, BoundOK
  <1> QED
    BY <1>3, <1>5, <1>6, <1>7 DEF IInv

(* The path of what was saved is printed.                                  *)
LEMMA ReportIInv ==
    ASSUME IInv, Report, UNCHANGED provisionVars
    PROVE  IInv'
  <1>1. PICK o \in LocalOutcomes, printed \in BOOLEAN :
          /\ Look(o)
          /\ at' = IF Returned(o) /\ printed THEN "ended" ELSE "fail"
          /\ files' = IF Returned(o) /\ printed THEN files \cup {"exit 0"} ELSE files
    BY DEF Report
  <1>2. /\ UNCHANGED <<sup, stream, box, late, guestVars, sealed, exposed, drifted, sources>>
        /\ at = "report" /\ Noted(o) /\ at' \in {"fail", "ended"}
        /\ files' \subseteq files \cup {"exit 0", "failure"}
    BY <1>1 DEF Report, Look, daemonVars, worldVars
  <1> QED
    BY <1>1, <1>2, ReportedIInv

(* failure.json takes nothing back that was saved before.                  *)
LEMMA FailIInv ==
    ASSUME IInv, Fail, UNCHANGED provisionVars
    PROVE  IInv'
  <1>1. PICK o \in LocalOutcomes :
          /\ Look(o)
          /\ files' = IF o.effect = "now" THEN files \cup {"failure"} ELSE files
    BY DEF Fail
  <1>2. /\ UNCHANGED <<sup, stream, box, late, guestVars, sealed, exposed, drifted, sources>>
        /\ at = "fail" /\ Noted(o) /\ at' \in {"fail", "ended"}
        /\ files' \subseteq files \cup {"exit 0", "failure"}
    BY <1>1 DEF Fail, Look, daemonVars, worldVars
  <1> QED
    BY <1>1, <1>2, ReportedIInv

-----------------------------------------------------------------------------
(* The two commands.                                                       *)

(* Every step of validate keeps the invariant.                             *)
LEMMA SupervisorStepIInv ==
    ASSUME IInv, SupervisorStep, command = "validate", UNCHANGED provisionVars
    PROVE  IInv'
  <1>1. CASE VerifyInputs \/ Configure \/ CheckRecord
    BY <1>1, VerifyInputsIInv, ConfigureIInv, CheckRecordIInv DEF Configure
  <1>2. CASE CreateMetadata \/ RecoverMetadata \/ CopyReceipt \/ RemoveMetadata
    BY <1>2, CreateMetadataIInv, RecoverMetadataIInv, CopyReceiptIInv, RemoveMetadataIInv
    DEF RemoveMetadata
  <1>3. CASE CreateValidation \/ RecoverValidation \/ Inspect \/ Start
    BY <1>3, CreateValidationIInv, RecoverValidationIInv, InspectIInv, StartIInv
  <1>4. CASE ReadLine \/ AttachEnds \/ AttachBreaks \/ CloseStream
    BY <1>4, ReadLineIInv, AttachEndsIInv, AttachBreaksIInv, CloseStreamIInv
  <1>5. CASE Stop \/ Kill \/ EmergencyKill
    <2>1. UnrecordedOutcomes \subseteq Outcomes
      BY DEF UnrecordedOutcomes
    <2>2. CASE Stop
      BY <2>2, HaltIInv DEF Stop
    <2>3. CASE Kill
      BY <2>3, HaltIInv DEF Kill
    <2>4. CASE EmergencyKill
      BY <2>1, <2>4, HaltIInv DEF EmergencyKill
    <2> QED
      BY <1>5, <2>2, <2>3, <2>4
  <1>6. CASE Wait \/ FinalInspect \/ CleanupFails \/ CleanupInterrupted \/ VerifyAfter
    BY <1>6, WaitIInv, FinalInspectIInv, CleanupFailsIInv, CleanupInterruptedIInv,
       VerifyAfterIInv
  <1>7. CASE Record \/ Judge \/ Recheck \/ Report \/ Fail
    BY <1>7, RecordIInv, JudgeIInv, RecheckIInv, ReportIInv, FailIInv
  <1>8. CASE WriteVerdict
    BY <1>8, WriteResultIInv DEF WriteVerdict
  <1> QED
    BY <1>1, <1>2, <1>3, <1>4, <1>5, <1>6, <1>7, <1>8 DEF SupervisorStep

(* Every step of provision keeps the invariant.                            *)
LEMMA ProvisionStepIInv ==
    ASSUME IInv, ProvisionStep
    PROVE  IInv'
  <1>1. command = "provision"
    BY DEF ProvisionStep
  <1>2. CASE SharedStep
    <2>1. UNCHANGED provisionVars
      BY <1>2 DEF SharedStep
    <2>2. CASE VerifyInputs \/ ConfigureThen("copy context") \/ CopyReceipt
      BY <2>1, <2>2, VerifyInputsIInv, ConfigureIInv, CopyReceiptIInv
    <2>3. CASE CreateMetadata \/ RecoverMetadata
      BY <2>1, <2>3, CreateMetadataIInv, RecoverMetadataIInv
    <2>4. CASE RemoveMetadataThen("recheck")
      BY <1>1, <2>1, <2>4, RemoveMetadataIInv
    <2>5. CASE Recheck \/ Report \/ Fail
      BY <2>1, <2>5, RecheckIInv, ReportIInv, FailIInv
    <2>6. CASE WriteResult("provision")
      BY <2>1, <2>6, WriteResultIInv
    <2> QED
      BY <1>2, <2>2, <2>3, <2>4, <2>5, <2>6 DEF SharedStep
  <1>3. CASE CopyContext \/ PullBase \/ PinBases \/ BuildImage \/ InspectImage
    BY <1>1, <1>3, CopyContextIInv, PullBaseIInv, PinBasesIInv, BuildImageIInv, InspectImageIInv
  <1> QED
    BY <1>2, <1>3 DEF ProvisionStep

-----------------------------------------------------------------------------
(* Everything around the two commands.                                     *)

(* What the daemon makes of a request that was given up.                   *)
LEMMA LateFacts ==
    ASSUME IInv, NEW request \in late,
           box' = IF request = "start" THEN StartedBox
                  ELSE [box EXCEPT ![request] = IF @ = "none" THEN "created" ELSE @]
    PROVE  /\ box' \in [metadata : MetadataStates, validation : ValidationStates]
           /\ box.metadata = "removed" => box'.metadata = "removed"
           /\ box.validation \in {"running", "exited", "dead"} =>
                 box'.validation = box.validation
           /\ Running' /\ ~Running => request = "start"
           /\ request = "metadata" => box'.validation = box.validation
           /\ request \in {"metadata", "validation", "start"}
  <1>1. /\ box \in [metadata : MetadataStates, validation : ValidationStates]
        /\ request \in {"metadata", "validation", "start"}
    BY DEF IInv, Typed
  <1>2. CASE request = "start"
    <2>1. /\ StartedBox \in [metadata : MetadataStates, validation : ValidationStates]
          /\ StartedBox.metadata = box.metadata
          /\ box.validation # "created" => StartedBox = box
      BY StartedFacts DEF IInv
    <2> QED
      BY <1>1, <1>2, <2>1
  <1>3. CASE request = "metadata"
    <2> DEFINE m == IF box.metadata = "none" THEN "created" ELSE box.metadata
    <2>1. box' = [box EXCEPT !["metadata"] = m]
      BY <1>3
    <2>2. m \in MetadataStates /\ (box.metadata = "removed" => m = "removed")
      BY <1>1 DEF MetadataStates
    <2> HIDE DEF m
    <2>3. /\ box' \in [metadata : MetadataStates, validation : ValidationStates]
          /\ box'.metadata = m /\ box'.validation = box.validation
      BY <1>1, <2>1, <2>2
    <2> QED
      BY <1>1, <1>3, <2>2, <2>3 DEF Running
  <1>4. CASE request = "validation"
    <2> DEFINE v == IF box.validation = "none" THEN "created" ELSE box.validation
    <2>1. box' = [box EXCEPT !["validation"] = v]
      BY <1>4
    <2>2. /\ v \in ValidationStates /\ (box.validation # "none" => v = box.validation)
          /\ box.validation = "none" => v = "created"
      BY <1>1 DEF ValidationStates
    <2> HIDE DEF v
    <2>3. /\ box' \in [metadata : MetadataStates, validation : ValidationStates]
          /\ box'.metadata = box.metadata /\ box'.validation = v
      BY <1>1, <2>1, <2>2
    <2> QED
      BY <1>1, <1>4, <2>2, <2>3 DEF Running
  <1> QED
    BY <1>1, <1>2, <1>3, <1>4

(* A late request makes no container run that is not in custody, nor one   *)
(* of a run that has not failed.                                           *)
LEMMA LateRequestIInv ==
    ASSUME IInv, LateRequest, UNCHANGED provisionVars
    PROVE  IInv'
  <1>1. PICK request \in late :
          /\ late' = late \ {request}
          /\ box' = IF request = "start" THEN StartedBox
                    ELSE [box EXCEPT ![request] = IF @ = "none" THEN "created" ELSE @]
          /\ trouble' = (trouble \/ (request = "start" /\ at \notin BeforeCleanup \cup Cleanup))
          /\ Exposes(box', sealed)
          /\ UNCHANGED <<supVars, guestVars, worldVars, signals, drifted>>
    BY DEF LateRequest
  <1>2. /\ UNCHANGED <<at, sup, stream, files, code, guest, pipe, sealed, sources, signals,
                       drifted, command, moved, pulled, image, dockerfile>>
        /\ late' = late \ {request}
    BY <1>1 DEF supVars, guestVars, worldVars, provisionVars, contextVars
  <1>3. /\ box' \in [metadata : MetadataStates, validation : ValidationStates]
        /\ box.metadata = "removed" => box'.metadata = "removed"
        /\ box.validation \in {"running", "exited", "dead"} => box'.validation = box.validation
        /\ request = "metadata" => box'.validation = box.validation
        /\ request \in {"metadata", "validation", "start"}
    BY <1>1, LateFacts
  <1>4. Running' /\ ~Running => request = "start"
    BY <1>1, LateFacts
  <1>5. exposed' => exposed \/ (Running' /\ ~sealed)
    BY <1>1 DEF Exposes, Running
  <1>6. trouble => trouble'
    BY <1>1
  <1>7. ~trouble' /\ request = "start" => at \in BeforeCleanup \cup Cleanup
    BY <1>1
  <1>8. Starts' \subseteq Starts /\ (Starts = {} => request = "metadata")
            /\ (request = "start" => "start" \in late)
    BY <1>2, <1>3 DEF Starts
  <1>9. Typed'
    BY <1>2, <1>3 DEF IInv, Typed
  <1>10. GuestOK' /\ StreamOK' /\ PipeOK'
    BY <1>2, SameGuest
  <1>11. FreshOK'
    <2>1. ASSUME Fresh PROVE box'.validation = "none" /\ Starts' = {} /\ ~sup'.reaped
      <3>1. box.validation = "none" /\ Starts = {} /\ ~sup.reaped
        BY <2>1 DEF IInv, FreshOK
      <3> QED
        BY <1>2, <1>3, <1>8, <3>1
    <2>2. ASSUME NotStarted
          PROVE  /\ ~Running' /\ "start" \notin late' /\ ~exposed'
                 /\ code' = 1 /\ stream' = NewStream /\ guest'.sent = 0
      <3>1. ~Running /\ "start" \notin late /\ ~exposed
        BY <2>2 DEF IInv, FreshOK
      <3>2. code = 1 /\ stream = NewStream /\ guest.sent = 0
        BY <2>2 DEF IInv, FreshOK
      <3>3. ~Running'
        BY <1>4, <1>8, <3>1
      <3>4. ~exposed'
        BY <1>5, <3>1, <3>3
      <3>5. code' = 1 /\ stream' = NewStream /\ guest'.sent = 0
        BY <1>2, <3>2
      <3>6. "start" \notin late'
        BY <1>2, <3>1
      <3> QED
        BY <3>3, <3>4, <3>5, <3>6
    <2>3. Fresh' = Fresh /\ NotStarted' = NotStarted
      BY <1>2 DEF Fresh, NotStarted
    <2>4. at' \in {"inspect", "start", "attached"} =>
            command' = "validate" /\ "validation" \in sup'.cid /\ ~sup'.raising /\ ~sup'.failure
      BY <1>2 DEF IInv, FreshOK
    <2> QED
      BY <2>1, <2>2, <2>3, <2>4 DEF FreshOK
  <1>12. CustodyOK'
    <2>1. Running' \/ "start" \in late' => "validation" \in sup'.cid
      BY <1>2, <1>4, <1>8 DEF IInv, CustodyOK
    <2>2. /\ at' \notin {"recover", "killed"} /\ Starts' # {} => sup'.failure
          /\ at' = "recover" /\ Starts' # {} => sup'.raising
      BY <1>2, <1>8 DEF IInv, CustodyOK
    <2>3. Running' /\ ~trouble' => at' \in Cleanup \cup {"attached", "close", "killed"}
      <3>1. CASE Running
        BY <1>2, <1>6, <3>1 DEF IInv, CustodyOK
      <3>2. CASE ~Running /\ Running' /\ ~trouble'
        <4>1. "start" \in late /\ at \in BeforeCleanup \cup Cleanup
          BY <1>4, <1>7, <1>8, <3>2
        <4>2. ~NotStarted
          BY <4>1 DEF IInv, FreshOK
        <4>3. at \in Cleanup \cup {"attached", "close"}
          BY <4>1, <4>2 DEF NotStarted, Fresh, BeforeCreate, BeforeCleanup
        <4> QED
          BY <1>2, <4>3
      <3> QED
        BY <3>1, <3>2
    <2>4. at' \in AfterRemoval => box'.metadata = "removed"
      BY <1>2, <1>3 DEF IInv, CustodyOK
    <2>5. code' = 0 => box'.validation \in {"exited", "dead"}
      <3>1. code' = 0 => code = 0
        BY <1>2
      <3>2. code = 0 => box.validation \in {"exited", "dead"}
        BY DEF IInv, CustodyOK
      <3> QED
        BY <1>3, <3>1, <3>2
    <2>6. exposed' => ~sealed'
      BY <1>2, <1>5 DEF IInv, CustodyOK
    <2> QED
      BY <2>1, <2>2, <2>3, <2>4, <2>5, <2>6 DEF CustodyOK
  <1>13. sup.reaped /\ ~sup.failure =>
            /\ Starts = {} /\ Starts' = {} /\ box'.validation = box.validation
            /\ ~Running /\ ~Running'
    <2>1. SUFFICES ASSUME sup.reaped /\ ~sup.failure
                   PROVE  Starts = {} /\ ~Running
      BY <1>3, <1>8 DEF Running
    <2> QED
      BY <2>1 DEF IInv, ReapedOK, ReapedIsDown, Starts
  <1>14. ReapedOK'
    <2>1. /\ sup'.reaped => at' \in AfterLook
          /\ sup'.reaped /\ ~sup'.failure /\ sup'.final = 0 => code' = 0
      BY <1>2 DEF IInv, ReapedOK
    <2>2. ReapedIsDown'
      BY <1>2, <1>13 DEF ReapedIsDown, Starts
    <2>3. sup'.reaped /\ ~sup'.failure /\ at' \in AfterCleanup => box'.validation # "dead"
      BY <1>2, <1>13 DEF IInv, ReapedOK
    <2> QED
      BY <2>1, <2>2, <2>3 DEF ReapedOK
  <1>15. Proven => Proven'
    <2>1. SUFFICES ASSUME Proven PROVE Proven'
      OBVIOUS
    <2>2. box'.validation = "exited" /\ box'.metadata = "removed"
      BY <1>3, <2>1 DEF Proven
    <2>3. ~exposed'
      BY <1>5, <1>13, <2>1 DEF Proven
    <2> QED
      BY <1>2, <2>1, <2>2, <2>3 DEF Proven
  <1>16. VerdictOK'
    BY <1>2, <1>15 DEF IInv, VerdictOK
  <1>17. DriftOK' /\ BoundOK'
    BY <1>2 DEF IInv, DriftOK, BoundOK, Bound
  <1> QED
    BY <1>9, <1>10, <1>11, <1>12, <1>14, <1>16, <1>17 DEF IInv

(* Killed outright, the supervisor may leave a request to start the        *)
(* container it has in custody.                                            *)
LEMMA SupervisorKilledIInv ==
    ASSUME IInv, SupervisorKilled, UNCHANGED provisionVars
    PROVE  IInv'
  <1>1. /\ UNCHANGED <<sup, stream, files, box, code, guest, pipe, sealed, sources, signals,
                       trouble, exposed, drifted, command, moved, pulled, image, dockerfile>>
        /\ at \notin Over /\ at' = "killed"
        /\ late' = late \/ (at = "start" /\ late' = late \cup {"start"})
    BY DEF SupervisorKilled, guestVars, worldVars, provisionVars, contextVars
  <1>2. /\ at' \in Stages /\ at' \in Over /\ at' \in AfterLook /\ at' \notin BeforeCreate
        /\ at' \notin AfterRemoval /\ at' \notin AfterCleanup
        /\ at' \notin {"judge", "recheck", "write", "report", "build"} /\ at' \notin BoundStages
    BY <1>1 DEF Stages, Over, AfterLook, BeforeCreate, AfterRemoval, AfterCleanup, Cleanup,
                BoundStages
  <1>3. at = "start" => /\ command = "validate" /\ "validation" \in sup.cid
                        /\ ~sup.reaped
    <2>1. at = "start" => at \notin AfterLook
      BY DEF AfterLook, AfterCleanup, Over
    <2> QED
      BY <2>1 DEF IInv, FreshOK, ReapedOK
  <1>4. Typed'
    BY <1>1, <1>2 DEF IInv, Typed
  <1>5. GuestOK' /\ StreamOK' /\ PipeOK'
    BY <1>1, SameGuest
  <1>6. Running' = Running /\ (at # "start" => Starts' = Starts /\ late' = late)
    BY <1>1 DEF Running, Starts
  <1>7. FreshOK'
    <2>1. CASE command = "provision"
      <3>1. at # "start" /\ Fresh /\ NotStarted
        BY <1>3, <2>1 DEF Fresh, NotStarted
      <3> QED
        BY <1>1, <1>6, <3>1 DEF IInv, FreshOK
    <2>2. CASE command # "provision"
      <3>1. ~Fresh' /\ ~NotStarted'
        BY <1>1, <1>2, <2>2 DEF Fresh, NotStarted
      <3> QED
        BY <1>1, <3>1 DEF FreshOK
    <2> QED
      BY <2>1, <2>2
  <1>8. CustodyOK'
    <2>1. Running' \/ "start" \in late' => "validation" \in sup'.cid
      BY <1>1, <1>3, <1>6 DEF IInv, CustodyOK
    <2>2. code' = 0 => box'.validation \in {"exited", "dead"}
      BY <1>1 DEF IInv, CustodyOK
    <2>3. exposed' => ~sealed'
      BY <1>1 DEF IInv, CustodyOK
    <2> QED
      BY <1>1, <1>2, <2>1, <2>2, <2>3 DEF CustodyOK
  <1>9. ReapedOK'
    <2>1. sup.reaped => late' = late
      BY <1>1, <1>3
    <2>2. ReapedIsDown'
      BY <1>1, <1>6, <2>1 DEF IInv, ReapedOK, ReapedIsDown
    <2> QED
      BY <1>1, <1>2, <2>2 DEF IInv, ReapedOK
  <1>10. Proven' = Proven
    BY <1>1 DEF Proven
  <1>11. VerdictOK'
    BY <1>1, <1>2, <1>10 DEF IInv, VerdictOK
  <1>12. DriftOK'
    BY <1>1, <1>2 DEF IInv, DriftOK
  <1>13. BoundOK'
    BY <1>1, <1>2 DEF IInv, BoundOK, Bound, BoundStages
  <1> QED
    BY <1>4, <1>5, <1>7, <1>8, <1>9, <1>11, <1>12, <1>13 DEF IInv

(* Whoever loosens the controls of a container that runs has exposed it    *)
(* until they are given back, and can only do so before a verdict is near. *)
LEMMA LoosenIInv ==
    ASSUME IInv, Loosen, UNCHANGED provisionVars
    PROVE  IInv'
  <1>1. /\ UNCHANGED <<at, sup, stream, files, box, late, code, guest, pipe, sources, signals,
                       trouble, drifted, command, moved, pulled, image, dockerfile>>
        /\ box.validation # "none"
    BY DEF Loosen, supVars, daemonVars, guestVars, provisionVars, contextVars
  <1>2. exposed' => ~sealed'
    BY DEF Loosen
  <1>3. exposed' => Running
    BY DEF Loosen
  <1>4. Running' = Running /\ Starts' = Starts
    BY <1>1 DEF Running, Starts
  <1>5. Typed'
    BY <1>1 DEF IInv, Typed
  <1>6. GuestOK' /\ StreamOK' /\ PipeOK'
    BY <1>1, SameGuest
  <1>7. FreshOK'
    BY <1>1, <1>3, <1>4 DEF IInv, FreshOK, Fresh, NotStarted
  <1>8. CustodyOK'
    BY <1>1, <1>2, <1>4 DEF IInv, CustodyOK
  <1>9. ReapedOK'
    BY <1>1, <1>4 DEF IInv, ReapedOK, ReapedIsDown
  <1>10. Proven => Proven'
    BY <1>1, <1>3 DEF Proven, Running
  <1>11. VerdictOK'
    BY <1>1, <1>10 DEF IInv, VerdictOK
  <1>12. DriftOK' /\ BoundOK'
    BY <1>1 DEF IInv, DriftOK, BoundOK, Bound
  <1> QED
    BY <1>5, <1>6, <1>7, <1>8, <1>9, <1>11, <1>12 DEF IInv

(* A step of which only DriftOK has something to say.                      *)
LEMMA OutsideIInv ==
    ASSUME IInv,
           UNCHANGED <<at, sup, stream, files, box, late, code, guest, pipe, sealed, signals,
                       trouble, exposed, command, pulled, image, dockerfile>>,
           moved' \subseteq pulled, DriftOK'
    PROVE  IInv'
  <1>1. Typed'
    BY DEF IInv, Typed
  <1>2. GuestOK' /\ StreamOK' /\ PipeOK'
    BY SameGuest
  <1>3. FreshOK'
    BY DEF IInv, FreshOK, Fresh, NotStarted, Starts, Running
  <1>4. CustodyOK'
    BY DEF IInv, CustodyOK, Starts, Running
  <1>5. ReapedOK'
    BY DEF IInv, ReapedOK, ReapedIsDown, Running
  <1>6. VerdictOK'
    BY DEF IInv, VerdictOK, Proven
  <1>7. BoundOK'
    BY DEF IInv, BoundOK, Bound
  <1> QED
    BY <1>1, <1>2, <1>3, <1>4, <1>5, <1>6, <1>7 DEF IInv

(* A snapshot that is changed unseen and stays so is changed after the     *)
(* last look at it.                                                        *)
LEMMA DriftIInv ==
    ASSUME IInv, Drift, UNCHANGED provisionVars
    PROVE  IInv'
  <1>1. /\ UNCHANGED <<at, sup, stream, files, box, late, code, guest, pipe, sealed, signals,
                       trouble, exposed, command, pulled, moved, image, dockerfile>>
        /\ at \notin Over
    BY DEF Drift, supVars, daemonVars, guestVars, provisionVars, contextVars
  <1>2. drifted' => sources' = "changed" /\ at \notin {"write", "report", "fail"}
    BY DEF Drift
  <1>3. files \cap {"provision", "validation"} # {} => at \in {"report", "fail"}
    BY <1>1 DEF IInv, DriftOK
  <1>4. DriftOK'
    BY <1>1, <1>2, <1>3 DEF DriftOK
  <1> QED
    BY <1>1, <1>4, OutsideIInv DEF IInv, Typed

(* Every step around the supervisor keeps the invariant.                   *)
LEMMA WorldIInv ==
    ASSUME IInv, World, UNCHANGED provisionVars
    PROVE  IInv'
  <1>1. CASE DiskFills
    <2>1. /\ UNCHANGED <<at, sup, stream, files, box, late, code, guest, pipe, sealed, signals,
                         trouble, exposed, command, pulled, moved, image, dockerfile>>
          /\ UNCHANGED <<drifted, sources>>
      BY <1>1 DEF DiskFills, supVars, daemonVars, guestVars, provisionVars, contextVars
    <2>2. DriftOK'
      BY <2>1 DEF IInv, DriftOK
    <2> QED
      BY <2>1, <2>2, OutsideIInv DEF IInv, Typed
  <1> QED
    BY <1>1, LateRequestIInv, SupervisorKilledIInv, LoosenIInv, DriftIInv DEF World

(* validate begins on a provision record, with an image that is bound, and *)
(* with containers of its own.                                             *)
LEMMA StartValidateIInv ==
    ASSUME IInv, StartValidate
    PROVE  IInv'
  <1>1. /\ UNCHANGED <<stream, late, code, guest, pipe, sealed, sources, signals, trouble,
                       exposed, drifted, image>>
        /\ command = "provision" /\ "provision" \in files
        /\ command' = "validate" /\ at' = "verify" /\ files' = {}
        /\ pulled' = {} /\ moved' = {} /\ sup' = NewSupervisor /\ box' = NoContainers
    BY DEF StartValidate, guestVars, worldVars
  <1>2. DOMAIN sup' = SupFields /\ sup'.cid = {}
    BY <1>1 DEF NewSupervisor, SupFields
  <1>3. ~sup'.reaped
    BY <1>1 DEF NewSupervisor
  <1>4. box' = [metadata |-> "none", validation |-> "none"]
    BY <1>1 DEF NoContainers
  <1>5. Fresh /\ NotStarted
    BY <1>1 DEF Fresh, NotStarted
  <1>6. /\ Starts = {} /\ "start" \notin late
        /\ code = 1 /\ stream = NewStream /\ guest.sent = 0
    BY <1>5 DEF IInv, FreshOK
  <1>7. ~exposed /\ Bound
    BY <1>1, <1>5 DEF IInv, FreshOK, BoundOK
  <1>8. /\ Starts' = {} /\ "start" \notin late'
        /\ code' = 1 /\ stream' = NewStream /\ guest'.sent = 0
    BY <1>1, <1>6 DEF Starts
  <1>9. ~exposed' /\ Bound' /\ ~Running' /\ box'.validation = "none"
    <2>1. ~exposed' /\ Bound'
      BY <1>1, <1>7 DEF Bound
    <2>2. ~Running' /\ box'.validation = "none"
      BY <1>4 DEF Running
    <2> QED
      BY <2>1, <2>2
  <1>10. Typed'
    <2>1. at' \in Stages
      BY <1>1 DEF Stages, BeforeCleanup
    <2>2. box' \in [metadata : MetadataStates, validation : ValidationStates]
      BY <1>4 DEF MetadataStates, ValidationStates
    <2>3. late' \subseteq {"metadata", "validation", "start"} /\ signals' \in 0..MaxSignals
      BY <1>1 DEF IInv, Typed
    <2> QED
      BY <1>1, <1>2, <2>1, <2>2, <2>3 DEF Typed
  <1>11. GuestOK' /\ StreamOK' /\ PipeOK'
    BY <1>1, SameGuest
  <1>12. FreshOK'
    BY <1>1, <1>3, <1>8, <1>9 DEF FreshOK
  <1>13. CustodyOK'
    <2>1. at' \notin AfterRemoval
      BY <1>1 DEF AfterRemoval, AfterCleanup, Cleanup
    <2> QED
      BY <1>8, <1>9, <2>1 DEF CustodyOK
  <1>14. ReapedOK'
    BY <1>3 DEF ReapedOK, ReapedIsDown
  <1>15. VerdictOK'
    BY <1>1 DEF VerdictOK
  <1>16. DriftOK'
    BY <1>1 DEF IInv, DriftOK
  <1>17. BoundOK'
    BY <1>1, <1>9 DEF BoundOK
  <1> QED
    BY <1>10, <1>11, <1>12, <1>13, <1>14, <1>15, <1>16, <1>17 DEF IInv

(* Every step of the two commands and of everything around them keeps the  *)
(* invariant.                                                              *)
LEMMA NextIInv == IInv /\ [ReleaseNext]_releaseVars => IInv'
  <1> SUFFICES ASSUME IInv, [ReleaseNext]_releaseVars
               PROVE  IInv'
    OBVIOUS
  <1>1. CASE ProvisionStep
    BY <1>1, ProvisionStepIInv
  <1>2. CASE ValidateStep
    BY <1>2, SupervisorStepIInv DEF ValidateStep
  <1>3. CASE StartValidate
    BY <1>3, StartValidateIInv
  <1>4. CASE (GuestStep \/ World) /\ UNCHANGED provisionVars
    BY <1>4, GuestStepIInv, WorldIInv
  <1>5. CASE TagMoves
    <2>1. PICK b \in pulled \ moved : moved' = moved \cup {b}
      BY <1>5 DEF TagMoves
    <2>2. /\ UNCHANGED <<at, sup, stream, files, box, late, code, guest, pipe, sealed, signals,
                         trouble, exposed, command, pulled, image, dockerfile>>
          /\ UNCHANGED <<drifted, sources>>
      BY <1>5 DEF TagMoves, vars, supVars, daemonVars, guestVars, worldVars
    <2>3. moved' \subseteq pulled
      BY <2>1 DEF IInv, Typed
    <2>4. DriftOK'
      BY <2>2 DEF IInv, DriftOK
    <2> QED
      BY <2>2, <2>3, <2>4, OutsideIInv
  <1>6. CASE ContextDrifts
    <2>1. /\ UNCHANGED <<at, sup, stream, files, box, late, code, guest, pipe, sealed, signals,
                         trouble, exposed, command, pulled, moved, image, dockerfile>>
          /\ UNCHANGED <<drifted, sources>>
      BY <1>6 DEF ContextDrifts, vars, supVars, daemonVars, guestVars, worldVars
    <2>2. DriftOK'
      BY <2>1 DEF IInv, DriftOK
    <2> QED
      BY <2>1, <2>2, OutsideIInv DEF IInv, Typed
  <1>7. CASE ContextReplaced
    <2>1. /\ UNCHANGED <<at, sup, stream, files, box, late, code, guest, pipe, sealed, signals,
                         trouble, exposed, command, pulled, moved, image, dockerfile>>
          /\ UNCHANGED <<drifted, sources>>
      BY <1>7 DEF ContextReplaced, vars, supVars, daemonVars, guestVars, worldVars
    <2>2. DriftOK'
      BY <2>1 DEF IInv, DriftOK
    <2> QED
      BY <2>1, <2>2, OutsideIInv DEF IInv, Typed
  <1>8. CASE UNCHANGED releaseVars
    <2>1. /\ UNCHANGED <<at, sup, stream, files, box, late, code, guest, pipe, sealed, signals,
                         trouble, exposed, command, pulled, moved, image, dockerfile>>
          /\ UNCHANGED <<drifted, sources>>
      BY <1>8 DEF releaseVars, vars, supVars, daemonVars, guestVars, worldVars, provisionVars,
                  contextVars
    <2>2. DriftOK'
      BY <2>1 DEF IInv, DriftOK
    <2> QED
      BY <2>1, <2>2, OutsideIInv DEF IInv, Typed
  <1> QED
    BY <1>1, <1>2, <1>3, <1>4, <1>5, <1>6, <1>7, <1>8 DEF ReleaseNext

(* The invariant holds in every state of every run.                        *)
LEMMA AlwaysIInv == Spec => []IInv
  <1>1. ReleaseInit => IInv
    BY InitIInv
  <1>2. IInv /\ [ReleaseNext]_releaseVars => IInv'
    BY NextIInv
  <1> QED
    BY <1>1, <1>2, PTL DEF Spec

-----------------------------------------------------------------------------
(* The results.                                                            *)

(* The variables keep the shape the code gives them, for any number of     *)
(* gates, chunks, base images and signals.                                 *)
THEOREM ReleaseIsTyped == Spec => []TypeOK
  <1>1. IInv => TypeOK
    <2> SUFFICES ASSUME IInv PROVE TypeOK
      OBVIOUS
    <2>1. box.metadata \in MetadataStates /\ box.validation \in ValidationStates
      BY DEF IInv, Typed
    <2>2. guest.passed \in 0..Gates /\ guest.sent \in 0..(Chunks + 2)
            /\ stream.received \in 0..Chunks
      BY DEF IInv, GuestOK, StreamOK
    <2>3. at \in Stages
      BY DEF IInv, Typed
    <2>4. sup.cid \subseteq {"metadata", "validation"}
            /\ late \subseteq {"metadata", "validation", "start"}
            /\ signals \in 0..MaxSignals
            /\ files \subseteq {"provision", "validation", "failure", "exit 0"}
            /\ moved \subseteq pulled /\ pulled \subseteq Bases
      BY DEF IInv, Typed
    <2> QED
      BY <2>1, <2>2, <2>3, <2>4 DEF TypeOK, MetadataStates, ValidationStates, Stages
  <1> QED
    BY <1>1, AlwaysIInv, PTL

(* A verdict "validation" is only ever on a guest that passed every gate,  *)
(* left nothing running, exported its whole archive and exited by itself   *)
(* with 0; and a container that ran without its controls, or a source that *)
(* was changed before the last look at it, had been changed back.          *)
THEOREM VerdictIsProven == Spec => []PassedIsProven
  <1>1. IInv => PassedIsProven
    <2> SUFFICES ASSUME IInv, "validation" \in files
                 PROVE  /\ GuestPassed
                        /\ stream.ended /\ stream.received = Chunks
                        /\ box = [metadata |-> "removed", validation |-> "exited"] /\ code = 0
                        /\ ~exposed /\ ~drifted
      BY DEF PassedIsProven
    <2>1. Proven
      BY DEF IInv, VerdictOK
    <2>2. guest.ok /\ stream.ended /\ ~exposed
      BY <2>1 DEF Proven
    <2>3. box.metadata = "removed" /\ box.validation = "exited" /\ code = 0
      BY <2>1 DEF Proven
    <2>4. GuestPassed
      BY <2>2 DEF IInv, GuestOK, GuestPassed
    <2>5. stream.received = Chunks
      BY <2>2 DEF IInv, StreamOK
    <2>6. box = [metadata |-> "removed", validation |-> "exited"]
      BY <2>3 DEF IInv, Typed
    <2>7. ~drifted
      BY DEF IInv, DriftOK
    <2> QED
      BY <2>2, <2>3, <2>4, <2>5, <2>6, <2>7
  <1> QED
    BY <1>1, AlwaysIInv, PTL

(* The evidence that the container was wound up stays true to the end of   *)
(* the run, late requests and all.                                         *)
THEOREM ReapedStaysDown == Spec => []ReapedIsDown
  <1>1. IInv => ReapedIsDown
    BY DEF IInv, ReapedOK
  <1> QED
    BY <1>1, AlwaysIInv, PTL

(* No run ends with the container running, unless a signal came in the     *)
(* clean-up, the daemon did not carry out the emergency kill, or it        *)
(* carried out a start given up before only after the clean-up.            *)
THEOREM CleanupSuffices == Spec => []NeverLeftRunning
  <1>1. IInv => NeverLeftRunning
    BY DEF IInv, CustodyOK, NeverLeftRunning, Cleanup
  <1> QED
    BY <1>1, AlwaysIInv, PTL

(* A provision record, and a verdict that rests on it, is of an image of   *)
(* the sources listed on the bases recorded, whatever tags moved, and      *)
(* never of one of changed sources, unless all that vouches for the        *)
(* context was replaced with them.                                         *)
THEOREM ProvisionBinds == Spec => []ProvisionIsBound
  <1>1. IInv => ProvisionIsBound
    <2> SUFFICES ASSUME IInv, files \cap {"provision", "validation"} # {}
                 PROVE  Bound /\ ~drifted
      BY DEF ProvisionIsBound, Bound
    <2>1. Bound
      BY DEF IInv, BoundOK, VerdictOK
    <2>2. ~drifted
      BY DEF IInv, DriftOK
    <2> QED
      BY <2>1, <2>2
  <1> QED
    BY <1>1, AlwaysIInv, PTL
=============================================================================

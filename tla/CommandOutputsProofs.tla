------------------------- MODULE CommandOutputsProofs -------------------------
(***************************************************************************)
(* Keys and share files, for any number of processes, commands and shares: *)
(* no command destroys one that is whole, nobody else can read one, and    *)
(* only a kill leaves half of one behind; a build that reports leaves what *)
(* opens, and a keygen two keys that belong together.                      *)
(*                                                                         *)
(* IInv is about who may touch a secret: it was created by its writer, who *)
(* is the only one to have it open.  ReportsOK, on top of it, is about the *)
(* commands under way: what a build or a keygen has behind it is whole and *)
(* of its own making, since no other command writes under its names.       *)
(***************************************************************************)
EXTENDS CommandOutputs, SequenceTheorems, TLAPS

\* What a plan says of a name: key and shares are created, the extract is
\* overwritten, everything else replaced.
AsPlanned(w) ==
    /\ w.name \in Names
    /\ w.name \in Kept => w.how = "exclusive"
    /\ w.how = "exclusive" => w.name \in Kept
    /\ w.how = "overwrite" <=> w.name = Out

\* A process is idle, or somewhere in a plan; only an extract overwrites.
ProcessOK(c) ==
    /\ DOMAIN c = DOMAIN Idle
    /\ c.left \in Seq(Writes)
    /\ \A i \in 1..Len(c.left) : AsPlanned(c.left[i])
    /\ c.at \in {"shares", "open", "write", "chmod"} => Len(c.left) > 0
    /\ \A i \in 1..Len(c.left) : c.job = "extract" => c.left[i].how = "overwrite"
    /\ c.at = "chmod" => Head(c.left).how = "overwrite"

ProcessesOK ==
    /\ DOMAIN proc = Processes
    /\ \A p \in Processes : ProcessOK(proc[p])

FilesOK ==
    /\ DOMAIN files = Names
    /\ \A name \in Names : DOMAIN files[name] = {"state", "wide", "of"}

Writing(p, name) == proc[p].at = "write" /\ Current(p).name = name

\* Who writes a secret created it, and nobody else has it open.
WritersOK ==
    \A p \in Processes, name \in Kept :
        Writing(p, name) =>
            /\ files[name].state = "torn" /\ proc[p].linked
            /\ \A q \in Processes : Writing(q, name) => q = p

SecretsOK == WritersOK /\ AlwaysNarrow /\ TornOnlyByKill

\* Inductive, and with two of the properties in it.
IInv == ProcessesOK /\ FilesOK /\ SecretsOK

-----------------------------------------------------------------------------
(* The plans.                                                              *)

LEMMA OutIsReplaced == Out \in Names /\ Out \notin Kept
  BY DEF Out, Names, Kept, ShareNames, Share, Key

LEMMA DocumentsAreNotKept ==
    /\ {Surface, Plus, Pub} \subseteq Names
    /\ {Surface, Plus, Pub} \cap Kept = {}
    /\ Out \notin {Surface, Plus, Pub}
  BY DEF Surface, Plus, Pub, Out, Names, Documents, Kept, ShareNames, Share, Key

LEMMA KeptIsKept ==
    /\ Kept \subseteq Names /\ Key \in Kept
    /\ \A i \in 1..Shares : Share(i) \in Kept
  BY DEF Names, Kept, ShareNames

LEMMA BuildIsPlanned ==
    /\ BuildPlan \in Seq(Writes) /\ Len(BuildPlan) > 0
    /\ \A i \in 1..Len(BuildPlan) :
         AsPlanned(BuildPlan[i]) /\ BuildPlan[i].how # "overwrite"
  <1> DEFINE shareWrites == [i \in 1..Shares |-> [name |-> Share(i), how |-> "exclusive"]]
  <1>1. Shares \in Nat
    BY OutputsAssumption
  <1>2. /\ \A i \in 1..Shares : shareWrites[i] \in Writes
        /\ \A i \in 1..Shares : AsPlanned(shareWrites[i])
    BY KeptIsKept, OutIsReplaced DEF Writes, Ways, AsPlanned
  <1>3. shareWrites \in Seq(Writes) /\ Len(shareWrites) = Shares
    BY <1>1, <1>2
  <1>4. /\ WriteDocument \in Seq(Writes) /\ Len(WriteDocument) = 2
        /\ \A i \in 1..2 : AsPlanned(WriteDocument[i]) /\ WriteDocument[i].how = "replace"
    BY DocumentsAreNotKept DEF WriteDocument, Writes, Ways, AsPlanned
  <1>5. BuildPlan = WriteDocument \o shareWrites
    BY DEF BuildPlan
  <1>6. \A i \in 1..Shares : shareWrites[i].how = "exclusive"
    OBVIOUS
  <1> HIDE DEF shareWrites
  <1>7. /\ BuildPlan \in Seq(Writes) /\ Len(BuildPlan) = 2 + Shares
        /\ \A i \in 1..Len(BuildPlan) :
             BuildPlan[i] = IF i <= 2 THEN WriteDocument[i] ELSE shareWrites[i - 2]
    <2>1. /\ BuildPlan \in Seq(Writes)
          /\ Len(BuildPlan) = Len(WriteDocument) + Len(shareWrites)
          /\ \A i \in 1..(Len(WriteDocument) + Len(shareWrites)) :
               BuildPlan[i] = IF i <= Len(WriteDocument) THEN WriteDocument[i]
                              ELSE shareWrites[i - Len(WriteDocument)]
      <3>1. WriteDocument \in Seq(Writes) /\ shareWrites \in Seq(Writes)
        BY <1>3, <1>4
      <3> HIDE DEF BuildPlan
      <3>2. QED
        BY ONLY <1>5, <3>1, ConcatProperties, Zenon
    <2>2. QED
      BY <1>3, <1>4, <2>1
  <1>8. ASSUME NEW i \in 1..Len(BuildPlan)
        PROVE  AsPlanned(BuildPlan[i]) /\ BuildPlan[i].how # "overwrite"
    <2>1. CASE i <= 2
      BY <1>4, <1>7, <2>1
    <2>2. CASE i > 2
      <3>1. i - 2 \in 1..Shares /\ BuildPlan[i] = shareWrites[i - 2]
        BY <1>1, <1>7, <2>2
      <3>2. QED
        BY <1>2, <1>6, <3>1
    <2>3. QED
      BY <2>1, <2>2
  <1>9. QED
    BY <1>1, <1>7, <1>8

LEMMA KeygenIsPlanned ==
    /\ KeygenPlan \in Seq(Writes) /\ Len(KeygenPlan) > 0
    /\ \A i \in 1..Len(KeygenPlan) :
         AsPlanned(KeygenPlan[i]) /\ KeygenPlan[i].how # "overwrite"
  BY KeptIsKept, DocumentsAreNotKept, OutIsReplaced DEF KeygenPlan, Writes, Ways, AsPlanned

LEMMA ExtractIsPlanned ==
    /\ ExtractPlan \in Seq(Writes) /\ Len(ExtractPlan) > 0
    /\ \A i \in 1..Len(ExtractPlan) :
         AsPlanned(ExtractPlan[i]) /\ ExtractPlan[i].how = "overwrite"
  BY OutIsReplaced DEF ExtractPlan, Writes, Ways, AsPlanned

-----------------------------------------------------------------------------
(* One process.                                                            *)

LEMMA IdleIsOK == ProcessOK(Idle)
  BY DEF ProcessOK, Idle

LEMMA StartedIsOK ==
    ASSUME NEW job, NEW number, NEW alone, NEW begins \in {"open", "shares"},
           NEW plan \in Seq(Writes), Len(plan) > 0,
           \A i \in 1..Len(plan) :
             AsPlanned(plan[i]) /\ (job = "extract" => plan[i].how = "overwrite")
    PROVE  ProcessOK(Started(job, number, begins, plan, alone))
  BY DEF ProcessOK, Started, Idle

LEMMA ProceedIsOK ==
    ASSUME NEW c, ProcessOK(c), Len(c.left) > 0
    PROVE  ProcessOK(Proceed(c)) /\ Proceed(c).at \in {"idle", "open"}
  <1>1. CASE Len(c.left) = 1
    BY <1>1, IdleIsOK DEF Proceed, Idle
  <1>2. CASE Len(c.left) # 1
    <2>1. Proceed(c) = [c EXCEPT !.left = Tail(@), !.at = "open", !.linked = FALSE]
      BY <1>2 DEF Proceed
    <2>2. /\ DOMAIN Proceed(c) = DOMAIN Idle
          /\ Proceed(c).left = Tail(c.left) /\ Proceed(c).at = "open"
          /\ Proceed(c).job = c.job
      BY <2>1 DEF ProcessOK, Idle
    <2>3. /\ Tail(c.left) \in Seq(Writes) /\ Len(Tail(c.left)) = Len(c.left) - 1
          /\ \A i \in 1..Len(Tail(c.left)) :
               i + 1 \in 1..Len(c.left) /\ Tail(c.left)[i] = c.left[i + 1]
      BY <1>2 DEF ProcessOK
    <2>4. Len(Tail(c.left)) > 0
      <3>1. c.left \in Seq(Writes)
        BY DEF ProcessOK
      <3>2. Len(c.left) \in Nat
        BY <3>1
      <3>3. \A n \in Nat : n > 0 /\ n # 1 => n - 1 > 0
        OBVIOUS
      <3>4. QED
        BY <1>2, <2>3, <3>2, <3>3, Zenon
    <2>5. \A i \in 1..Len(Tail(c.left)) :
            /\ AsPlanned(Tail(c.left)[i])
            /\ c.job = "extract" => Tail(c.left)[i].how = "overwrite"
      BY <2>3 DEF ProcessOK
    <2>6. QED
      BY <2>2, <2>3, <2>4, <2>5 DEF ProcessOK
  <1>3. QED
    BY <1>1, <1>2

\* What a process is writing is as planned.
LEMMA CurrentIsPlanned ==
    ASSUME ProcessesOK, NEW p \in Processes,
           proc[p].at \in {"open", "write", "chmod"}
    PROVE  /\ AsPlanned(Current(p)) /\ Current(p).name \in Names
           /\ Len(proc[p].left) > 0
           /\ proc[p].job = "extract" => Current(p).how = "overwrite"
           /\ proc[p].at = "chmod" => Current(p).how = "overwrite"
  <1>1. ProcessOK(proc[p])
    BY DEF ProcessesOK
  <1>2. Len(proc[p].left) > 0 /\ proc[p].left \in Seq(Writes)
    BY <1>1 DEF ProcessOK
  <1>3. Current(p) = proc[p].left[1] /\ 1 \in 1..Len(proc[p].left)
    BY <1>2 DEF Current
  <1>4. AsPlanned(Current(p)) /\ (proc[p].job = "extract" => Current(p).how = "overwrite")
    BY <1>1, <1>3 DEF ProcessOK
  <1>5. proc[p].at = "chmod" => Current(p).how = "overwrite"
    BY <1>1 DEF ProcessOK, Current
  <1>6. QED
    BY <1>2, <1>4, <1>5 DEF AsPlanned

-----------------------------------------------------------------------------
(* The processes keep to their plans.                                      *)

LEMMA OneProcessMoves ==
    ASSUME ProcessesOK, NEW p \in Processes, NEW c, ProcessOK(c),
           proc' = [proc EXCEPT ![p] = c]
    PROVE  ProcessesOK'
  BY DEF ProcessesOK

LEMMA StepsKeepProcesses == ProcessesOK /\ [Next]_vars => ProcessesOK'
  <1> SUFFICES ASSUME ProcessesOK, [Next]_vars PROVE ProcessesOK'
    OBVIOUS
  <1>1. ASSUME NEW p \in Processes, Build(p) PROVE ProcessesOK'
    <2>1. ProcessOK(Started("build", begun + 1, "open", BuildPlan, Busy("build") = {}))
      BY BuildIsPlanned, StartedIsOK
    <2>2. \A q \in Processes : ProcessOK([proc[q] EXCEPT !.alone = FALSE])
      BY DEF ProcessesOK, ProcessOK, Idle
    <2>3. QED
      BY <1>1, <2>1, <2>2 DEF Build, ProcessesOK
  <1>2. ASSUME NEW p \in Processes, Keygen(p) PROVE ProcessesOK'
    BY <1>2, KeygenIsPlanned, StartedIsOK, OneProcessMoves DEF Keygen
  <1>3. ASSUME NEW p \in Processes, NEW name \in Documents, ReadDocument(p, name)
        PROVE  ProcessesOK'
    BY <1>3, ExtractIsPlanned, StartedIsOK, OneProcessMoves DEF ReadDocument
  <1>4. ASSUME NEW p \in Processes, ReadShares(p) PROVE ProcessesOK'
    <2>1. ProcessOK([proc[p] EXCEPT !.at = "open"])
      BY <1>4 DEF ReadShares, ProcessesOK, ProcessOK, Idle
    <2>2. QED
      BY <1>4, <2>1, IdleIsOK, OneProcessMoves DEF ReadShares, ProcessesOK
  <1>5. ASSUME NEW p \in Processes, Open(p) PROVE ProcessesOK'
    <2>1. ProcessOK([proc[p] EXCEPT !.at = "write", !.linked = TRUE])
      BY <1>5 DEF Open, ProcessesOK, ProcessOK, Idle
    <2>2. QED
      BY <1>5, <2>1 DEF Open, ProcessesOK
  <1>6. ASSUME NEW p \in Processes, Refuse(p) \/ ChmodFails(p) \/ Kill(p) PROVE ProcessesOK'
    BY <1>6, IdleIsOK, OneProcessMoves DEF Refuse, ChmodFails, Kill
  <1>7. ASSUME NEW p \in Processes, Write(p) \/ Chmod(p) PROVE ProcessesOK'
    <2>1. Len(proc[p].left) > 0 /\ ProcessOK(proc[p])
      BY <1>7, CurrentIsPlanned DEF Write, Chmod, ProcessesOK
    <2>2. ProcessOK(Proceed(proc[p]))
      BY <2>1, ProceedIsOK
    <2>3. CASE proc' = [proc EXCEPT ![p] = Proceed(proc[p])]
      BY <2>2, <2>3, OneProcessMoves
    <2>4. CASE Write(p) /\ Current(p).how = "overwrite"
      <3>1. ProcessOK([proc[p] EXCEPT !.at = "chmod"])
        BY <2>1, <2>4 DEF Current, ProcessOK, Idle
      <3>2. QED
        BY <2>4, <3>1 DEF Write, ProcessesOK
    <2>5. QED
      BY <1>7, <2>3, <2>4 DEF Write, Chmod
  <1>8. ASSUME NEW p \in Processes, FailToWrite(p) PROVE ProcessesOK'
    <2>1. \A q \in Processes : ProcessOK([proc[q] EXCEPT !.linked = FALSE])
      BY DEF ProcessesOK, ProcessOK, Idle
    <2>2. CASE proc' = [proc EXCEPT ![p] = Idle]
      BY <2>2, IdleIsOK, OneProcessMoves
    <2>3. CASE proc' = Unlinked(p, Current(p).name)
      BY <2>1, <2>3, IdleIsOK DEF Unlinked, ProcessesOK
    <2>4. QED
      BY <1>8, <2>2, <2>3 DEF FailToWrite
  <1>9. ASSUME NEW name \in Kept, TakeAway(name) PROVE ProcessesOK'
    BY <1>9 DEF TakeAway, ProcessesOK
  <1>10. CASE UNCHANGED vars
    BY <1>10 DEF vars, ProcessesOK
  <1>11. QED
    BY <1>1, <1>2, <1>3, <1>4, <1>5, <1>6, <1>7, <1>8, <1>9, <1>10 DEF Next, Step

-----------------------------------------------------------------------------
(* The files.                                                              *)

\* What a write does to its file, and that it does nothing to another.
LEMMA WriteChanges ==
    ASSUME FilesOK, NEW p \in Processes, Write(p), Current(p).name \in Names
    PROVE  /\ FilesOK'
           /\ \A n \in Names : files'[n].wide <=> files[n].wide
           /\ \A n \in Names \ {Current(p).name} : files'[n] = files[n]
           /\ proc[p].linked /\ ~Contested(p) =>
                files'[Current(p).name].state = "whole"
  <1> DEFINE name  == Current(p).name
             whole == [files[name] EXCEPT !.state = "whole", !.of = proc[p].number]
             mixed == [files[name] EXCEPT !.state = "torn", !.of = 0]
             after == {whole} \cup (IF Contested(p) THEN {mixed} ELSE {})
  <1>1. DOMAIN files[name] = {"state", "wide", "of"}
    BY DEF FilesOK
  <1>2. /\ DOMAIN whole = {"state", "wide", "of"} /\ whole.wide = files[name].wide
        /\ whole.state = "whole"
        /\ DOMAIN mixed = {"state", "wide", "of"} /\ mixed.wide = files[name].wide
    BY <1>1
  <1>3. CASE ~proc[p].linked
    <2>1. files' = files
      BY <1>3 DEF Write
    <2>2. QED
      BY <1>3, <2>1 DEF FilesOK
  <1>4. CASE proc[p].linked
    <2>1. files' \in {[files EXCEPT ![name] = file] : file \in after}
      BY <1>4 DEF Write
    <2> HIDE DEF after
    <2>2. PICK file \in after : files' = [files EXCEPT ![name] = file]
      BY <2>1
    <2> USE DEF after
    <2>3. file \in {whole, mixed} /\ (~Contested(p) => file = whole)
      BY <2>2
    <2> HIDE DEF whole, mixed
    <2>4. /\ DOMAIN file = {"state", "wide", "of"} /\ file.wide = files[name].wide
          /\ ~Contested(p) => file.state = "whole"
      BY <1>2, <2>3
    <2> HIDE DEF name
    <2>5. /\ DOMAIN files' = Names /\ files'[name] = file
          /\ \A n \in Names \ {name} : files'[n] = files[n]
      BY <2>2 DEF FilesOK, name
    <2>6. \A n \in Names : DOMAIN files'[n] = {"state", "wide", "of"}
      BY <2>4, <2>5 DEF FilesOK
    <2>7. \A n \in Names : files'[n].wide = files[n].wide
      BY <2>4, <2>5
    <2>8. QED
      BY <2>4, <2>5, <2>6, <2>7 DEF FilesOK, name
  <1>5. QED
    BY <1>3, <1>4

LEMMA StepsKeepFiles == FilesOK /\ ProcessesOK /\ [Next]_vars => FilesOK'
  <1> SUFFICES ASSUME FilesOK, ProcessesOK, [Next]_vars PROVE FilesOK'
    OBVIOUS
  <1>1. ASSUME NEW p \in Processes, Step(p), files' # files PROVE FilesOK'
    <2>1. Open(p) \/ Write(p) \/ Chmod(p) \/ FailToWrite(p)
      BY <1>1 DEF Step, Build, Keygen, ReadDocument, ReadShares, Refuse, ChmodFails, Kill
    <2>2. CASE Open(p)
      BY <2>2 DEF Open, Opened, FilesOK
    <2>3. CASE Write(p)
      BY <2>3, WriteChanges, CurrentIsPlanned DEF Write
    <2>4. CASE Chmod(p)
      BY <2>4 DEF Chmod, FilesOK
    <2>5. CASE FailToWrite(p)
      BY <1>1, <2>5 DEF FailToWrite, FilesOK, Absent
    <2>6. QED
      BY <2>1, <2>2, <2>3, <2>4, <2>5
  <1>2. ASSUME NEW name \in Kept, TakeAway(name) PROVE FilesOK'
    BY <1>2 DEF TakeAway, FilesOK, Absent
  <1>3. CASE UNCHANGED files
    BY <1>3 DEF FilesOK
  <1>4. QED
    BY <1>1, <1>2, <1>3 DEF Next, vars

-----------------------------------------------------------------------------
(* Keys and shares.                                                        *)

\* A step that touches no file, and after which nobody writes who did not.
LEMMA BystandersKeepSecrets ==
    ASSUME SecretsOK, UNCHANGED files, tightened' => tightened,
           killedAt \subseteq killedAt',
           \A q \in Processes, name \in Kept :
             Writing(q, name)' => Writing(q, name) /\ proc'[q].linked = proc[q].linked,
           \A q \in Processes, name \in Kept :
             Writing(q, name) => Writing(q, name)' \/ name \in killedAt'
    PROVE  SecretsOK'
  <1>1. WritersOK'
    BY DEF SecretsOK, WritersOK
  <1>2. AlwaysNarrow'
    BY DEF SecretsOK, AlwaysNarrow
  <1>3. TornOnlyByKill'
    BY DEF SecretsOK, TornOnlyByKill, Writing
  <1>4. QED
    BY <1>1, <1>2, <1>3 DEF SecretsOK

LEMMA StartsKeepSecrets ==
    ASSUME IInv, NEW p \in Processes,
           \/ Build(p) \/ Keygen(p) \/ ReadShares(p)
           \/ \E name \in Documents : ReadDocument(p, name)
    PROVE  SecretsOK'
  <1>1. UNCHANGED <<files, tightened, killedAt>> /\ proc[p].at \in {"idle", "shares"}
    <2>1. UNCHANGED <<files, tightened, killedAt>>
      BY DEF Build, Keygen, ReadShares, ReadDocument, historyVars
    <2>2. proc[p] = Idle \/ proc[p].at = "shares"
      BY DEF Build, Keygen, ReadShares, ReadDocument
    <2>3. QED
      BY <2>1, <2>2 DEF Idle
  <1>2. ProcessesOK
    BY DEF IInv
  <1>3. /\ proc'[p].at # "write"
        /\ \A q \in Processes \ {p} :
             /\ proc'[q].at = proc[q].at /\ proc'[q].left = proc[q].left
             /\ proc'[q].linked = proc[q].linked
    BY <1>2 DEF Build, Keygen, ReadShares, ReadDocument, Started, ProcessesOK, ProcessOK, Idle
  <1>4. QED
    BY <1>1, <1>3, BystandersKeepSecrets DEF IInv, Writing, Current

LEMMA EndsKeepSecrets ==
    ASSUME IInv, NEW p \in Processes, Refuse(p) \/ ChmodFails(p) \/ Kill(p)
    PROVE  SecretsOK'
  <1>1. UNCHANGED <<files, tightened>> /\ killedAt \subseteq killedAt'
    BY DEF Refuse, ChmodFails, Kill, historyVars
  <1>2. proc' = [proc EXCEPT ![p] = Idle] /\ DOMAIN proc = Processes
    BY DEF Refuse, ChmodFails, Kill, IInv, ProcessesOK
  <1>3. proc[p].at = "write" => Current(p).name \in killedAt'
    BY DEF Refuse, ChmodFails, Kill
  <1>4. QED
    BY <1>1, <1>2, <1>3, BystandersKeepSecrets DEF IInv, Writing, Current, Idle

LEMMA OpenKeepsSecrets ==
    ASSUME IInv, NEW p \in Processes, Open(p)
    PROVE  SecretsOK'
  <1> DEFINE name == Current(p).name
  <1>1. proc[p].at = "open" /\ UNCHANGED <<tightened, killedAt>>
    BY DEF Open, historyVars
  <1>2. AsPlanned(Current(p)) /\ name \in Names
    BY <1>1, CurrentIsPlanned DEF IInv
  <1>3. /\ files'[name] = [state |-> "torn", of |-> 0,
                           wide |-> IF Exists(name) THEN files[name].wide
                                    ELSE Current(p).how = "replace"]
        /\ \A n \in Names \ {name} : files'[n] = files[n]
    BY <1>2 DEF Open, Opened, IInv, FilesOK
  <1>3a. files'[name].wide =>
           (Exists(name) /\ files[name].wide) \/ (~Exists(name) /\ Current(p).how = "replace")
    <2>1. CASE Exists(name)
      BY <1>3, <2>1
    <2>2. CASE ~Exists(name)
      <3>1. files'[name].wide = (Current(p).how = "replace")
        BY <1>3, <2>2
      <3>2. QED
        BY <2>2, <3>1, Zenon
    <2>3. QED
      BY <2>1, <2>2
  <1>4. /\ proc'[p].at = "write" /\ proc'[p].left = proc[p].left /\ proc'[p].linked
        /\ \A q \in Processes \ {p} : proc'[q] = proc[q]
    BY DEF Open, IInv, ProcessesOK, ProcessOK, Idle
  <1>5. name \in Kept => ~Exists(name)
    BY <1>2 DEF Open, AsPlanned
  <1>6. /\ \A n \in Kept : Writing(p, n)' <=> n = name
        /\ \A q \in Processes \ {p}, n \in Kept : Writing(q, n)' <=> Writing(q, n)
    BY <1>4 DEF Writing, Current
  <1>7. WritersOK'
    <2>1. name \in Kept => \A q \in Processes : ~Writing(q, name)
      BY <1>5 DEF IInv, SecretsOK, WritersOK, Exists
    <2>2. ASSUME NEW q \in Processes, NEW n \in Kept, Writing(q, n)'
          PROVE  /\ files'[n].state = "torn" /\ proc'[q].linked
                 /\ \A r \in Processes : Writing(r, n)' => r = q
      <3>1. CASE n = name
        <4>1. q = p
          BY <1>6, <2>1, <2>2, <3>1
        <4>2. QED
          BY <1>3, <1>4, <1>6, <2>1, <3>1, <4>1
      <3>2. CASE n # name
        <4>1. q # p /\ Writing(q, n) /\ n \in Names
          BY <1>6, <2>2, <3>2, KeptIsKept
        <4>2. QED
          BY <1>3, <1>4, <1>6, <3>2, <4>1 DEF IInv, SecretsOK, WritersOK
      <3>3. QED
        BY <3>1, <3>2
    <2>3. QED
      BY <2>2 DEF WritersOK
  <1>8. AlwaysNarrow'
    <2>1. ~files'[name].wide \/ name \notin Kept
      BY <1>2, <1>3a, <1>5 DEF AsPlanned
    <2>2. \A n \in Kept : ~files'[n].wide
      BY <1>3, <2>1, KeptIsKept DEF IInv, SecretsOK, AlwaysNarrow
    <2>3. ASSUME tightened PROVE ~files'[Out].wide
      <3>1. ~files[Out].wide
        BY <2>3 DEF IInv, SecretsOK, AlwaysNarrow
      <3>2. CASE name = Out
        BY <1>2, <1>3a, <3>1, <3>2 DEF AsPlanned
      <3>3. CASE name # Out
        BY <1>3, <3>1, <3>3, OutIsReplaced
      <3>4. QED
        BY <3>2, <3>3
    <2>4. tightened' => tightened
      BY <1>1
    <2>5. QED
      BY <2>2, <2>3, <2>4 DEF AlwaysNarrow
  <1>9. TornOnlyByKill'
    <2>1. ASSUME NEW n \in Kept, files'[n].state = "torn"
          PROVE  n \in killedAt' \/ \E q \in Processes : Writing(q, n)'
      <3>1. CASE n = name
        BY <1>6, <3>1
      <3>2. CASE n # name
        <4>1. files[n].state = "torn"
          BY <1>3, <2>1, <3>2, KeptIsKept
        <4>2. n \in killedAt \/ \E q \in Processes : Writing(q, n)
          BY <4>1 DEF IInv, SecretsOK, TornOnlyByKill, Writing
        <4>3. ~Writing(p, n)
          BY <1>1 DEF Writing
        <4>4. QED
          BY <1>1, <1>6, <4>2, <4>3
      <3>3. QED
        BY <3>1, <3>2
    <2>2. QED
      BY <2>1 DEF TornOnlyByKill, Writing
  <1>10. QED
    BY <1>7, <1>8, <1>9 DEF SecretsOK

\* A process that leaves its file behind it, in whatever state, has none any more.
LEMMA WriterMovesOn ==
    ASSUME IInv, NEW p \in Processes, Write(p)
    PROVE  /\ proc'[p].at # "write"
           /\ \A q \in Processes \ {p} : proc'[q] = proc[q]
  <1>1. ProcessOK(proc[p]) /\ Len(proc[p].left) > 0
    BY CurrentIsPlanned DEF Write, IInv, ProcessesOK
  <1>2. Proceed(proc[p]).at # "write"
    BY <1>1, ProceedIsOK
  <1>3. DOMAIN proc = Processes /\ "at" \in DOMAIN proc[p]
    BY <1>1 DEF IInv, ProcessesOK, ProcessOK, Idle
  <1>4. CASE proc' = [proc EXCEPT ![p].at = "chmod"]
    BY <1>3, <1>4
  <1>5. CASE proc' = [proc EXCEPT ![p] = Proceed(@)]
    BY <1>2, <1>3, <1>5
  <1>6. QED
    BY <1>4, <1>5 DEF Write

\* A secret that is written is then whole: nobody else has it open.
LEMMA WrittenSecretIsWhole ==
    ASSUME IInv, NEW p \in Processes, Write(p), Current(p).name \in Kept
    PROVE  files'[Current(p).name].state = "whole"
  <1>1. Writing(p, Current(p).name)
    BY DEF Write, Writing
  <1>2. proc[p].linked /\ files[Current(p).name].state = "torn"
    BY <1>1 DEF IInv, SecretsOK, WritersOK
  <1>3. ~Contested(p)
    BY <1>1, <1>2 DEF Contested, Writing, IInv, SecretsOK, WritersOK
  <1>4. QED
    BY <1>2, <1>3, KeptIsKept, WriteChanges DEF IInv

\* What only an extract does.
LEMMA WriteKeepsHistory ==
    ASSUME IInv, NEW p \in Processes, Write(p)
    PROVE  killedAt' = killedAt /\ (tightened' => tightened)
  <1>1. proc[p].job = "extract" => Current(p).how = "overwrite"
    BY CurrentIsPlanned DEF Write, IInv
  <1>2. CASE Current(p).how = "overwrite"
    BY <1>2 DEF Write, historyVars
  <1>3. CASE Current(p).how # "overwrite"
    BY <1>1, <1>3 DEF Write, Report
  <1>4. QED
    BY <1>2, <1>3

LEMMA WriteKeepsSecrets ==
    ASSUME IInv, NEW p \in Processes, Write(p)
    PROVE  SecretsOK'
  <1> DEFINE name == Current(p).name
  <1>1. name \in Names /\ Writing(p, name)
    BY CurrentIsPlanned DEF Write, Writing, IInv
  <1>2. /\ \A n \in Names : files'[n].wide <=> files[n].wide
        /\ \A n \in Names \ {name} : files'[n] = files[n]
    BY <1>1, WriteChanges DEF IInv
  <1>3. /\ \A n \in Kept : ~Writing(p, n)'
        /\ \A q \in Processes \ {p}, n \in Kept : Writing(q, n)' <=> Writing(q, n)
        /\ \A q \in Processes \ {p} : proc'[q] = proc[q]
    BY WriterMovesOn DEF Writing, Current
  <1>4. WritersOK'
    <2>1. ASSUME NEW q \in Processes, NEW n \in Kept, Writing(q, n)'
          PROVE  /\ files'[n].state = "torn" /\ proc'[q].linked
                 /\ \A r \in Processes : Writing(r, n)' => r = q
      <3>1. q # p /\ Writing(q, n)
        BY <1>3, <2>1
      <3>2. n # name
        BY <1>1, <3>1 DEF IInv, SecretsOK, WritersOK
      <3>3. QED
        BY <1>2, <1>3, <3>1, <3>2, KeptIsKept DEF IInv, SecretsOK, WritersOK
    <2>2. QED
      BY <2>1 DEF WritersOK
  <1>5. AlwaysNarrow'
    BY <1>2, WriteKeepsHistory, KeptIsKept, OutIsReplaced
       DEF IInv, SecretsOK, AlwaysNarrow
  <1>6. TornOnlyByKill'
    <2>1. ASSUME NEW n \in Kept, files'[n].state = "torn"
          PROVE  n \in killedAt' \/ \E q \in Processes : Writing(q, n)'
      <3>1. n # name
        BY <2>1, WrittenSecretIsWhole
      <3>2. n \in killedAt \/ \E q \in Processes : Writing(q, n)
        BY <1>2, <2>1, <3>1, KeptIsKept DEF IInv, SecretsOK, TornOnlyByKill, Writing
      <3>3. ~Writing(p, n)
        BY <3>1 DEF Writing
      <3>4. QED
        BY <1>3, <3>2, <3>3, WriteKeepsHistory
    <2>2. QED
      BY <2>1 DEF TornOnlyByKill, Writing
  <1>7. QED
    BY <1>4, <1>5, <1>6 DEF SecretsOK

LEMMA ChmodKeepsSecrets ==
    ASSUME IInv, NEW p \in Processes, Chmod(p)
    PROVE  SecretsOK'
  <1>1. proc[p].at = "chmod" /\ Current(p).name = Out /\ Len(proc[p].left) > 0
    BY CurrentIsPlanned DEF Chmod, IInv, AsPlanned
  <1>2. /\ \A n \in Kept : files'[n] = files[n]
        /\ ~files'[Out].wide
    BY <1>1, KeptIsKept, OutIsReplaced DEF Chmod, IInv, FilesOK
  <1>3. Proceed(proc[p]).at # "write"
    BY <1>1, ProceedIsOK DEF IInv, ProcessesOK
  <1>4. proc'[p].at # "write" /\ \A q \in Processes \ {p} : proc'[q] = proc[q]
    BY <1>3 DEF Chmod, IInv, ProcessesOK
  <1>5. \A q \in Processes, n \in Kept :
           /\ Writing(q, n)' <=> Writing(q, n)
           /\ Writing(q, n)' => proc'[q] = proc[q]
    BY <1>1, <1>4 DEF Writing, Current
  <1>6. killedAt' = killedAt
    BY DEF Chmod, Report
  <1>7. WritersOK'
    BY <1>2, <1>5 DEF IInv, SecretsOK, WritersOK
  <1>8. AlwaysNarrow'
    BY <1>2 DEF IInv, SecretsOK, AlwaysNarrow
  <1>9. TornOnlyByKill'
    BY <1>2, <1>5, <1>6 DEF IInv, SecretsOK, TornOnlyByKill, Writing
  <1>10. QED
    BY <1>7, <1>8, <1>9 DEF SecretsOK

\* A write that fails: the file of a process that replaces is no secret, any
\* other is unlinked, and its process is over.
LEMMA FailureKeepsSecrets ==
    ASSUME IInv, NEW p \in Processes, FailToWrite(p)
    PROVE  SecretsOK'
  <1> DEFINE name == Current(p).name
  <1>1. Writing(p, name) /\ AsPlanned(Current(p)) /\ name \in Names
    BY CurrentIsPlanned DEF FailToWrite, Writing, IInv
  <1>2. UNCHANGED <<tightened, killedAt>>
    BY DEF FailToWrite, historyVars
  <1>3. CASE Current(p).how = "replace"
    <2>1. name \notin Kept /\ name # Out
      BY <1>1, <1>3 DEF AsPlanned
    <2>2. \A n \in Kept \cup {Out} : files'[n] = files[n]
      BY <1>3, <2>1, KeptIsKept, OutIsReplaced DEF FailToWrite, IInv, FilesOK
    <2>3. /\ proc'[p].at # "write" /\ \A q \in Processes \ {p} : proc'[q] = proc[q]
      BY <1>3 DEF FailToWrite, IInv, ProcessesOK, Idle
    <2>4. \A q \in Processes, n \in Kept :
             /\ Writing(q, n)' <=> Writing(q, n)
             /\ Writing(q, n)' => proc'[q] = proc[q]
      BY <2>1, <2>3 DEF Writing, Current
    <2>5. WritersOK'
      BY <2>2, <2>4 DEF IInv, SecretsOK, WritersOK
    <2>6. AlwaysNarrow'
      BY <1>2, <2>2 DEF IInv, SecretsOK, AlwaysNarrow
    <2>7. TornOnlyByKill'
      BY <1>2, <2>2, <2>4 DEF IInv, SecretsOK, TornOnlyByKill, Writing
    <2>8. QED
      BY <2>5, <2>6, <2>7 DEF SecretsOK
  <1>4. CASE Current(p).how # "replace"
    <2>1. files' = [files EXCEPT ![name] = Absent] /\ proc' = Unlinked(p, name)
      BY <1>4 DEF FailToWrite
    <2>2. /\ files'[name] = Absent
          /\ \A n \in Names \ {name} : files'[n] = files[n]
      BY <1>1, <2>1 DEF IInv, FilesOK
    <2>3. proc'[p] = Idle
      BY <2>1 DEF Unlinked
    <2>4. \A q \in Processes \ {p}, n \in Kept :
             /\ Writing(q, n)' <=> Writing(q, n)
             /\ Writing(q, n) /\ n # name => proc'[q] = proc[q]
      BY <2>1 DEF Unlinked, Writing, Current, IInv, ProcessesOK, ProcessOK, Idle
    <2>5. \A n \in Kept : ~Writing(p, n)'
      BY <2>3 DEF Writing, Idle
    <2>6. WritersOK'
      <3>1. ASSUME NEW q \in Processes, NEW n \in Kept, Writing(q, n)'
            PROVE  /\ files'[n].state = "torn" /\ proc'[q].linked
                   /\ \A r \in Processes : Writing(r, n)' => r = q
        <4>1. q # p /\ Writing(q, n)
          BY <2>4, <2>5, <3>1
        <4>2. n # name
          BY <1>1, <4>1 DEF IInv, SecretsOK, WritersOK
        <4>3. QED
          BY <2>2, <2>4, <2>5, <4>1, <4>2, KeptIsKept DEF IInv, SecretsOK, WritersOK
      <3>2. QED
        BY <3>1 DEF WritersOK
    <2>7. AlwaysNarrow'
      BY <1>2, <2>2, KeptIsKept, OutIsReplaced DEF IInv, SecretsOK, AlwaysNarrow, Absent
    <2>8. TornOnlyByKill'
      <3>1. ASSUME NEW n \in Kept, files'[n].state = "torn"
            PROVE  n \in killedAt' \/ \E q \in Processes : Writing(q, n)'
        <4>1. n # name
          BY <2>2, <3>1 DEF Absent
        <4>2. n \in killedAt \/ \E q \in Processes : Writing(q, n)
          BY <2>2, <3>1, <4>1, KeptIsKept DEF IInv, SecretsOK, TornOnlyByKill, Writing
        <4>3. ~Writing(p, n)
          BY <4>1 DEF Writing
        <4>4. QED
          BY <1>2, <2>4, <4>2, <4>3
      <3>2. QED
        BY <3>1 DEF TornOnlyByKill, Writing
    <2>9. QED
      BY <2>6, <2>7, <2>8 DEF SecretsOK
  <1>5. QED
    BY <1>3, <1>4

LEMMA TakeAwayKeepsSecrets ==
    ASSUME IInv, NEW name \in Kept, TakeAway(name)
    PROVE  SecretsOK'
  <1>1. UNCHANGED <<proc, tightened>> /\ \A p \in Processes : proc[p] = Idle
    BY DEF TakeAway
  <1>2. \A p \in Processes, n \in Kept : ~Writing(p, n) /\ ~Writing(p, n)'
    BY <1>1 DEF Writing, Idle
  <1>3. /\ files'[name] = Absent
        /\ \A n \in Names \ {name} : files'[n] = files[n]
        /\ killedAt' = killedAt \ {name}
    BY KeptIsKept DEF TakeAway, IInv, FilesOK
  <1>4. WritersOK'
    BY <1>2 DEF WritersOK
  <1>5. AlwaysNarrow'
    BY <1>1, <1>3, KeptIsKept, OutIsReplaced DEF IInv, SecretsOK, AlwaysNarrow, Absent
  <1>6. TornOnlyByKill'
    <2>1. ASSUME NEW n \in Kept, files'[n].state = "torn" PROVE n \in killedAt'
      <3>1. n # name /\ files[n].state = "torn"
        BY <1>3, <2>1, KeptIsKept DEF Absent
      <3>2. QED
        BY <1>2, <1>3, <3>1 DEF IInv, SecretsOK, TornOnlyByKill, Writing
    <2>2. QED
      BY <2>1 DEF TornOnlyByKill
  <1>7. QED
    BY <1>4, <1>5, <1>6 DEF SecretsOK

-----------------------------------------------------------------------------
(* The theorems.                                                           *)

LEMMA CommandsBeginWell == Init => IInv
  <1> SUFFICES ASSUME Init PROVE IInv
    OBVIOUS
  <1>1. ProcessesOK
    BY IdleIsOK DEF Init, ProcessesOK
  <1>2. \A name \in Kept : files[name] = Absent
    BY KeptIsKept, OutIsReplaced DEF Init
  <1>3. FilesOK
    BY DEF Init, FilesOK, Absent, OfTheUser
  <1>4. WritersOK
    BY DEF Init, WritersOK, Writing, Idle
  <1>5. AlwaysNarrow
    BY <1>2 DEF Init, AlwaysNarrow, Absent
  <1>6. TornOnlyByKill
    BY <1>2 DEF TornOnlyByKill, Absent
  <1>7. QED
    BY <1>1, <1>3, <1>4, <1>5, <1>6 DEF IInv, SecretsOK

LEMMA StepsKeepInvariant == IInv /\ [Next]_vars => IInv'
  <1> SUFFICES ASSUME IInv, [Next]_vars PROVE IInv'
    OBVIOUS
  <1>1. ProcessesOK' /\ FilesOK'
    BY StepsKeepProcesses, StepsKeepFiles DEF IInv
  <1>2. ASSUME NEW p \in Processes, Step(p) PROVE SecretsOK'
    <2>1. CASE \/ Build(p) \/ Keygen(p) \/ ReadShares(p)
               \/ \E name \in Documents : ReadDocument(p, name)
      BY <2>1, StartsKeepSecrets
    <2>2. CASE Refuse(p) \/ ChmodFails(p) \/ Kill(p)
      BY <2>2, EndsKeepSecrets
    <2>3. CASE Open(p) \/ Write(p) \/ Chmod(p) \/ FailToWrite(p)
      BY <2>3, OpenKeepsSecrets, WriteKeepsSecrets, ChmodKeepsSecrets, FailureKeepsSecrets
    <2>4. QED
      BY <1>2, <2>1, <2>2, <2>3 DEF Step
  <1>3. ASSUME UNCHANGED vars PROVE SecretsOK'
    <2>1. UNCHANGED <<files, proc, tightened, killedAt>>
      BY <1>3 DEF vars, historyVars
    <2>2. \A q \in Processes, name \in Kept :
             (Writing(q, name)' <=> Writing(q, name)) /\ proc'[q].linked = proc[q].linked
      BY <2>1 DEF Writing, Current
    <2>3. killedAt \subseteq killedAt' /\ (tightened' => tightened)
      BY <2>1
    <2>4. SecretsOK
      BY DEF IInv
    <2>5. QED
      BY <2>1, <2>2, <2>3, <2>4, BystandersKeepSecrets DEF Writing, Current
  <1>4. ASSUME NEW name \in Kept, TakeAway(name) PROVE SecretsOK'
    BY <1>4, TakeAwayKeepsSecrets
  <1>5. SecretsOK'
    BY <1>2, <1>3, <1>4 DEF Next
  <1>6. QED
    BY <1>1, <1>5 DEF IInv

LEMMA CommandsInvariant == Spec => []IInv
  BY CommandsBeginWell, StepsKeepInvariant, PTL DEF Spec

\* The part about the window, with what a file that is not there is like.
WindowOK ==
    /\ files[Out].state = "absent" => ~files[Out].wide
    /\ WideInWindow

\* A step that leaves the file alone, and after which whoever was at it still is
\* or was killed.
LEMMA BystandersKeepWindow ==
    ASSUME WindowOK, files'[Out] = files[Out],
           \A q \in Processes : Extracting(q) => Extracting(q)' \/ Out \in killedAt',
           Out \in killedAt => Out \in killedAt'
    PROVE  WindowOK'
  <1>1. OfTheUser' = OfTheUser
    BY DEF OfTheUser
  <1>2. WideInWindow'
    BY <1>1 DEF WindowOK, WideInWindow
  <1>3. QED
    BY <1>2 DEF WindowOK

LEMMA StartsKeepWindow ==
    ASSUME IInv, WindowOK, NEW p \in Processes,
           \/ Build(p) \/ Keygen(p) \/ ReadShares(p) \/ Refuse(p)
           \/ \E name \in Documents : ReadDocument(p, name)
    PROVE  WindowOK'
  <1>1. UNCHANGED <<files, killedAt>> /\ proc[p].at \in {"idle", "shares", "open"}
    <2>1. UNCHANGED <<files, killedAt>>
      BY DEF Build, Keygen, ReadShares, ReadDocument, Refuse, historyVars
    <2>2. proc[p] = Idle \/ proc[p].at \in {"shares", "open"}
      BY DEF Build, Keygen, ReadShares, ReadDocument, Refuse
    <2>3. QED
      BY <2>1, <2>2 DEF Idle
  <1>2. ProcessesOK
    BY DEF IInv
  <1>3. \A q \in Processes \ {p} : proc'[q].at = proc[q].at /\ proc'[q].left = proc[q].left
    BY <1>2 DEF Build, Keygen, ReadShares, ReadDocument, Refuse, Started, ProcessesOK,
                ProcessOK, Idle
  <1>4. \A q \in Processes : Extracting(q) => Extracting(q)'
    BY <1>1, <1>3 DEF Extracting, Current
  <1>5. QED
    BY <1>1, <1>4, BystandersKeepWindow

LEMMA EndsKeepWindow ==
    ASSUME IInv, WindowOK, NEW p \in Processes, ChmodFails(p) \/ Kill(p)
    PROVE  WindowOK'
  <1>1. /\ UNCHANGED files /\ killedAt \subseteq killedAt'
        /\ \A q \in Processes \ {p} : proc'[q] = proc[q]
    BY DEF ChmodFails, Kill, historyVars, IInv, ProcessesOK
  <1>2. \A q \in Processes \ {p} : Extracting(q) => Extracting(q)'
    BY <1>1 DEF Extracting, Current
  <1>3. CASE ~files[Out].wide
    BY <1>1, <1>3 DEF WindowOK, WideInWindow
  <1>4. CASE files[Out].wide
    <2>1. Exists(Out)
      BY <1>4 DEF WindowOK, Exists
    <2>2. Extracting(p) => Kill(p)
      BY <2>1 DEF ChmodFails, Extracting
    <2>3. Extracting(p) => Out \in killedAt'
      BY <2>2 DEF Kill, Extracting
    <2>4. QED
      BY <1>1, <1>2, <2>3, BystandersKeepWindow
  <1>5. QED
    BY <1>3, <1>4

LEMMA OpenKeepsWindow ==
    ASSUME IInv, WindowOK, NEW p \in Processes, Open(p)
    PROVE  WindowOK'
  <1> DEFINE name == Current(p).name
  <1>1. name \in Names /\ proc[p].at = "open" /\ killedAt' = killedAt
    BY CurrentIsPlanned DEF Open, IInv, historyVars
  <1>2. /\ files'[name].state = "torn"
        /\ \A n \in Names \ {name} : files'[n] = files[n]
    BY <1>1 DEF Open, Opened, IInv, FilesOK
  <1>3. /\ proc'[p].at = "write" /\ proc'[p].left = proc[p].left
        /\ \A q \in Processes \ {p} : proc'[q] = proc[q]
    BY DEF Open, IInv, ProcessesOK, ProcessOK, Idle
  <1>4. CASE name = Out
    <2>1. Extracting(p)'
      BY <1>3, <1>4 DEF Extracting, Current
    <2>2. QED
      BY <1>2, <1>4, <2>1 DEF WindowOK, WideInWindow
  <1>5. CASE name # Out
    <2>1. \A q \in Processes : Extracting(q) => Extracting(q)'
      BY <1>1, <1>3 DEF Extracting, Current
    <2>2. QED
      BY <1>1, <1>2, <1>5, <2>1, OutIsReplaced, BystandersKeepWindow
  <1>6. QED
    BY <1>4, <1>5

LEMMA WriteKeepsWindow ==
    ASSUME IInv, WindowOK, NEW p \in Processes, Write(p)
    PROVE  WindowOK'
  <1> DEFINE name == Current(p).name
  <1>1. /\ name \in Names /\ AsPlanned(Current(p)) /\ Len(proc[p].left) > 0
        /\ proc[p].at = "write"
    BY CurrentIsPlanned DEF Write, IInv
  <1>2. /\ \A n \in Names : files'[n].wide <=> files[n].wide
        /\ \A n \in Names \ {name} : files'[n] = files[n]
    BY <1>1, WriteChanges DEF IInv
  <1>3. \A q \in Processes \ {p} : proc'[q] = proc[q]
    BY WriterMovesOn
  <1>4. CASE name = Out
    <2>1. Current(p).how = "overwrite"
      BY <1>1, <1>4 DEF AsPlanned
    <2>2. proc' = [proc EXCEPT ![p].at = "chmod"]
      BY <2>1 DEF Write
    <2>3. proc'[p].at = "chmod" /\ proc'[p].left = proc[p].left
      BY <2>2 DEF IInv, ProcessesOK, ProcessOK, Idle
    <2>4. Extracting(p)'
      BY <1>4, <2>3 DEF Extracting, Current
    <2>5. files'[Out].state = "absent" => files[Out].state = "absent"
      BY <1>1, <1>4 DEF Write, IInv, FilesOK
    <2>6. QED
      BY <1>2, <2>4, <2>5, OutIsReplaced DEF WindowOK, WideInWindow
  <1>5. CASE name # Out
    <2>1. \A q \in Processes : Extracting(q) => Extracting(q)'
      BY <1>3, <1>5 DEF Extracting, Current
    <2>2. killedAt' = killedAt
      BY WriteKeepsHistory
    <2>3. QED
      BY <1>2, <1>5, <2>1, <2>2, OutIsReplaced, BystandersKeepWindow
  <1>6. QED
    BY <1>4, <1>5

LEMMA ChmodKeepsWindow ==
    ASSUME IInv, WindowOK, NEW p \in Processes, Chmod(p)
    PROVE  WindowOK'
  <1>1. Current(p).name = Out
    BY CurrentIsPlanned DEF Chmod, IInv, AsPlanned
  <1>2. ~files'[Out].wide
    BY <1>1, OutIsReplaced DEF Chmod, IInv, FilesOK
  <1>3. QED
    BY <1>2 DEF WindowOK, WideInWindow

LEMMA FailureKeepsWindow ==
    ASSUME IInv, WindowOK, NEW p \in Processes, FailToWrite(p)
    PROVE  WindowOK'
  <1> DEFINE name == Current(p).name
  <1>1. name \in Names /\ AsPlanned(Current(p)) /\ killedAt' = killedAt
    BY CurrentIsPlanned DEF FailToWrite, IInv, historyVars
  <1>2. CASE name = Out
    <2>1. Current(p).how # "replace"
      BY <1>1, <1>2 DEF AsPlanned
    <2>2. files'[Out] = Absent
      BY <1>1, <1>2, <2>1 DEF FailToWrite, IInv, FilesOK
    <2>3. ~files'[Out].wide
      BY <2>2 DEF Absent
    <2>4. QED
      BY <2>3 DEF WindowOK, WideInWindow
  <1>3. CASE name # Out
    <2>1. files'[Out] = files[Out]
      BY <1>1, <1>3, OutIsReplaced DEF FailToWrite, IInv, FilesOK
    <2>2. \A q \in Processes \ {p} : proc'[q].at = proc[q].at /\ proc'[q].left = proc[q].left
      BY DEF FailToWrite, Unlinked, IInv, ProcessesOK, ProcessOK, Idle
    <2>3. \A q \in Processes : Extracting(q) => Extracting(q)'
      BY <1>3, <2>2 DEF Extracting, Current
    <2>4. QED
      BY <1>1, <2>1, <2>3, BystandersKeepWindow
  <1>4. QED
    BY <1>2, <1>3

LEMMA TakeAwayKeepsWindow ==
    ASSUME IInv, WindowOK, NEW name \in Kept, TakeAway(name)
    PROVE  WindowOK'
  <1>1. /\ proc' = proc /\ files'[Out] = files[Out]
        /\ Out \in killedAt => Out \in killedAt'
    BY OutIsReplaced, KeptIsKept DEF TakeAway, IInv, FilesOK
  <1>2. \A q \in Processes : Extracting(q) => Extracting(q)'
    BY <1>1 DEF Extracting, Current
  <1>3. QED
    BY <1>1, <1>2, BystandersKeepWindow

LEMMA WindowBegins == Init => WindowOK
  <1> SUFFICES ASSUME Init PROVE WindowOK
    OBVIOUS
  <1>1. files[Out] = Absent \/ files[Out] = OfTheUser
    BY OutIsReplaced DEF Init
  <1>2. ~Absent.wide /\ OfTheUser.state = "whole"
    BY DEF Absent, OfTheUser
  <1>3. QED
    BY <1>1, <1>2 DEF WindowOK, WideInWindow

LEMMA StepsKeepWindow == IInv /\ WindowOK /\ [Next]_vars => WindowOK'
  <1> SUFFICES ASSUME IInv, WindowOK, [Next]_vars PROVE WindowOK'
    OBVIOUS
  <1>1. ASSUME NEW p \in Processes, Step(p) PROVE WindowOK'
    BY <1>1, StartsKeepWindow, EndsKeepWindow, OpenKeepsWindow, WriteKeepsWindow,
       ChmodKeepsWindow, FailureKeepsWindow DEF Step
  <1>2. ASSUME NEW name \in Kept, TakeAway(name) PROVE WindowOK'
    BY <1>2, TakeAwayKeepsWindow
  <1>3. CASE UNCHANGED vars
    BY <1>3, BystandersKeepWindow DEF vars, historyVars, Extracting, Current
  <1>4. QED
    BY <1>1, <1>2, <1>3 DEF Next

(* Keys and shares are readable to nobody else from their first moment on; *)
(* what is extracted over a file that others may read is so between its    *)
(* truncation and its chmod, after a kill in between, and never again once *)
(* an extract has reported.                                                *)
THEOREM SecretsWideOnlyInWindow == Spec => []SecretsNarrow
  <1>1. IInv /\ WindowOK => SecretsNarrow
    BY DEF IInv, SecretsOK, WindowOK, SecretsNarrow
  <1>2. Spec => []WindowOK
    BY CommandsInvariant, WindowBegins, StepsKeepWindow, PTL DEF Spec
  <1>3. QED
    BY <1>1, <1>2, CommandsInvariant, PTL

(* Of the ways a command may end, only a kill leaves half a secret behind. *)
THEOREM OnlyKillsTear == Spec => []TornOnlyByKill
  <1>1. IInv => TornOnlyByKill
    BY DEF IInv, SecretsOK
  <1>2. QED
    BY <1>1, CommandsInvariant, PTL

(* Whatever commands run, run at once, are refused, fail or are killed, a  *)
(* secret that is whole stays as it is until its user takes it away.       *)
THEOREM SecretsSurvive == Spec => SecretsKept
  <1> DEFINE Kind(name) ==
               files[name].state = "whole" =>
                 \/ files'[name] = files[name]
                 \/ files'[name] = Absent /\ \A p \in Processes : proc[p] = Idle
  <1>1. ASSUME IInv, [Next]_vars, NEW name \in Kept, files[name].state = "whole"
        PROVE  \/ files'[name] = files[name]
               \/ files'[name] = Absent /\ \A p \in Processes : proc[p] = Idle
    <2>1. name \in Names /\ name # Out
      BY KeptIsKept, OutIsReplaced
    <2>2. ASSUME NEW p \in Processes, Step(p), files' # files
          PROVE  files'[name] = files[name]
      <3>1. Open(p) \/ Write(p) \/ Chmod(p) \/ FailToWrite(p)
        BY <2>2 DEF Step, Build, Keygen, ReadDocument, ReadShares, Refuse, ChmodFails, Kill
      <3>2. AsPlanned(Current(p)) /\ Current(p).name \in Names
        BY <1>1, <3>1, CurrentIsPlanned DEF Open, Write, Chmod, FailToWrite, IInv
      <3>3. Current(p).name # name
        <4>1. CASE Open(p)
          BY <1>1, <3>2, <4>1 DEF Open, AsPlanned, Exists
        <4>2. CASE Write(p) \/ FailToWrite(p)
          <5>1. ~Writing(p, name)
            BY <1>1 DEF IInv, SecretsOK, WritersOK
          <5>2. QED
            BY <4>2, <5>1 DEF Write, FailToWrite, Writing
        <4>3. CASE Chmod(p)
          BY <1>1, <2>1, <4>3, CurrentIsPlanned DEF Chmod, IInv, AsPlanned
        <4>4. QED
          BY <3>1, <4>1, <4>2, <4>3
      <3>4. CASE Open(p)
        BY <1>1, <2>1, <3>3, <3>4 DEF Open, Opened, IInv, FilesOK
      <3>5. CASE Write(p)
        BY <1>1, <2>1, <3>2, <3>3, <3>5, WriteChanges DEF IInv
      <3>6. CASE Chmod(p)
        BY <1>1, <2>1, <3>3, <3>6 DEF Chmod, IInv, FilesOK
      <3>7. CASE FailToWrite(p)
        BY <1>1, <2>1, <2>2, <3>3, <3>7 DEF FailToWrite, IInv, FilesOK
      <3>8. QED
        BY <3>1, <3>4, <3>5, <3>6, <3>7
    <2>3. ASSUME NEW other \in Kept, TakeAway(other)
          PROVE  \/ files'[name] = files[name]
                 \/ files'[name] = Absent /\ \A p \in Processes : proc[p] = Idle
      BY <1>1, <2>1, <2>3, KeptIsKept DEF TakeAway, IInv, FilesOK
    <2>4. CASE UNCHANGED vars
      BY <2>4 DEF vars
    <2>5. QED
      BY <1>1, <2>2, <2>3, <2>4 DEF Next
  <1>2. IInv /\ [Next]_vars => [\A name \in Kept : Kind(name)]_vars
    BY <1>1
  <1>3. QED
    BY <1>2, CommandsInvariant, PTL DEF Spec, SecretsKept

-----------------------------------------------------------------------------
(* What a command that has reported leaves behind.                         *)

BuildNames == Documents \cup ShareNames
PairNames  == {Key, Pub}
PubPlan    == <<[name |-> Pub, how |-> "replace"]>>

NamesLeft(left) == {left[i].name : i \in 1..Len(left)}

Held(name, number) == files[name].state = "whole" /\ files[name].of = number

CountersTyped ==
    /\ begun \in 0..MaxCommands /\ opens \in 0..begun /\ paired \in 0..begun
    /\ tightened \in BOOLEAN /\ killedAt \subseteq Names

FilesTyped ==
    \A name \in Names :
        /\ files[name].state \in {"absent", "torn", "whole"}
        /\ files[name].wide \in BOOLEAN
        /\ files[name].of \in 0..begun
        /\ files[name].state # "whole" => files[name].of = 0

\* What is on disk is a record under each name.
IsRecord(f) == f = [x \in {"state", "wide", "of"} |-> f[x]]

FilesAreRecords ==
    /\ files = [name \in Names |-> files[name]]
    /\ \A name \in Names : IsRecord(files[name])

\* Whoever is idle has nothing left.
ProcessTyped(c) ==
    /\ c.number \in 0..begun
    /\ c.at \in {"idle", "shares", "open", "write", "chmod"}
    /\ c.at = "idle" => c = Idle
    /\ Len(c.left) <= Shares + 2

\* What TypeOK is about.
TypesOK == CountersTyped /\ FilesTyped /\ \A p \in Processes : ProcessTyped(proc[p])

\* Which names a command writes.
JobOK(c) ==
    /\ c.job \in {"none", "build", "keygen", "extract"}
    /\ c.job = "build" => NamesLeft(c.left) \subseteq BuildNames
    /\ c.job = "keygen" => c.at \in {"open", "write"} /\ c.left \in {KeygenPlan, PubPlan}
    /\ c.job \in {"none", "extract"} => NamesLeft(c.left) \subseteq {Out}

JobsOK == \A p \in Processes : JobOK(proc[p])

Alone(p) == proc[p].job = "build" /\ proc[p].alone

\* A build that is alone is the only one, and has whole and its own whatever it
\* has behind it; when one has reported no other has begun.
BuildsOK ==
    /\ \A p \in Processes : Alone(p) =>
         /\ opens = 0
         /\ \A q \in Processes \ {p} : proc[q].job # "build"
         /\ \A name \in BuildNames \ NamesLeft(proc[p].left) : Held(name, proc[p].number)
         /\ proc[p].at = "write" =>
              proc[p].linked /\ files[Current(p).name].state = "torn"
    /\ opens # 0 =>
         /\ \A p \in Processes : proc[p].job # "build"
         /\ \A name \in BuildNames : Held(name, opens)

\* A keygen that has created its key.
KeyMade(p) ==
    /\ proc[p].job = "keygen"
    /\ proc[p].at = "write" \/ Current(p).name = Pub

\* There is one of them at most, its key is its own, and none is left when one
\* has reported.
PairsOK ==
    /\ \A p \in Processes : KeyMade(p) =>
         /\ paired = 0
         /\ \A q \in Processes \ {p} : ~KeyMade(q)
         /\ Current(p).name = Pub => Held(Key, proc[p].number)
         /\ proc[p].at = "write" =>
              proc[p].linked /\ files[Current(p).name].state = "torn"
    /\ paired # 0 =>
         /\ \A p \in Processes : ~KeyMade(p)
         /\ \A name \in PairNames : Held(name, paired)

ReportsOK == TypesOK /\ FilesAreRecords /\ JobsOK /\ BuildsOK /\ PairsOK

(* The names of a build, of a key pair and of an extract.                  *)
LEMMA NamesAreDistinct ==
    /\ BuildNames \cap PairNames = {} /\ Out \notin BuildNames \cup PairNames
    /\ Key # Pub /\ Key \in Kept /\ Pub \notin Kept
    /\ BuildNames \cup PairNames \cup {Out} \subseteq Names
    /\ Kept \subseteq ShareNames \cup {Key} /\ Documents \cap Kept = {}
  BY DEF BuildNames, PairNames, Documents, ShareNames, Share, Surface, Plus, Key, Pub, Out,
         Names, Kept

(* What is left to write when one file is written.                         *)
LEMMA TailLeavesNames ==
    ASSUME NEW left \in Seq(Writes), Len(left) > 0
    PROVE  /\ Tail(left) \in Seq(Writes) /\ Len(Tail(left)) = Len(left) - 1
           /\ Head(left).name \in NamesLeft(left)
           /\ NamesLeft(Tail(left)) \subseteq NamesLeft(left)
           /\ NamesLeft(left) \subseteq {Head(left).name} \cup NamesLeft(Tail(left))
  <1>1. /\ Tail(left) \in Seq(Writes) /\ Len(Tail(left)) = Len(left) - 1
        /\ Head(left) = left[1] /\ Len(left) \in Nat
        /\ \A i \in 1..Len(Tail(left)) : Tail(left)[i] = left[i + 1]
    OBVIOUS
  <1>2. Head(left).name \in NamesLeft(left)
    BY <1>1 DEF NamesLeft
  <1>3. ASSUME NEW i \in 1..Len(Tail(left)) PROVE Tail(left)[i].name \in NamesLeft(left)
    <2>1. i + 1 \in 1..Len(left) /\ Tail(left)[i] = left[i + 1]
      BY <1>1
    <2>2. QED
      BY <2>1 DEF NamesLeft
  <1>4. ASSUME NEW i \in 1..Len(left), i # 1 PROVE left[i].name \in NamesLeft(Tail(left))
    <2>1. i - 1 \in 1..Len(Tail(left)) /\ left[i] = Tail(left)[i - 1]
      BY <1>1, <1>4
    <2>2. QED
      BY <2>1 DEF NamesLeft
  <1>5. NamesLeft(Tail(left)) \subseteq NamesLeft(left)
    BY <1>3 DEF NamesLeft
  <1>6. NamesLeft(left) \subseteq {Head(left).name} \cup NamesLeft(Tail(left))
    BY <1>1, <1>4 DEF NamesLeft
  <1>7. QED
    BY <1>1, <1>2, <1>5, <1>6

(* A file that is the last leaves no name behind it.                       *)
LEMMA LastName ==
    ASSUME NEW left \in Seq(Writes), Len(left) = 1
    PROVE  NamesLeft(left) = {Head(left).name}
  <1>1. Head(left) = left[1] /\ \A i \in 1..Len(left) : i = 1
    OBVIOUS
  <1>2. QED
    BY <1>1 DEF NamesLeft

(* A build writes all its names, and in Shares + 2 files.                  *)
LEMMA BuildWritesItsNames ==
    NamesLeft(BuildPlan) = BuildNames /\ Len(BuildPlan) = Shares + 2
  <1> DEFINE shareWrites == [i \in 1..Shares |-> [name |-> Share(i), how |-> "exclusive"]]
  <1>1. Shares \in Nat
    BY OutputsAssumption
  <1>2. shareWrites \in Seq(Writes) /\ Len(shareWrites) = Shares
    <2>1. \A i \in 1..Shares : shareWrites[i] \in Writes
      BY KeptIsKept DEF Writes, Ways
    <2>2. QED
      BY <1>1, <2>1
  <1>3. /\ WriteDocument \in Seq(Writes) /\ Len(WriteDocument) = 2
        /\ WriteDocument[1].name = Surface /\ WriteDocument[2].name = Plus
    BY DocumentsAreNotKept DEF WriteDocument, Writes, Ways
  <1>4. BuildPlan = WriteDocument \o shareWrites
    BY DEF BuildPlan
  <1>5. \A i \in 1..Shares : shareWrites[i].name = Share(i)
    OBVIOUS
  <1> HIDE DEF shareWrites
  <1>6. /\ Len(BuildPlan) = 2 + Shares
        /\ \A i \in 1..(2 + Shares) :
             BuildPlan[i] = IF i <= 2 THEN WriteDocument[i] ELSE shareWrites[i - 2]
    <2>1. /\ Len(BuildPlan) = Len(WriteDocument) + Len(shareWrites)
          /\ \A i \in 1..(Len(WriteDocument) + Len(shareWrites)) :
               BuildPlan[i] = IF i <= Len(WriteDocument) THEN WriteDocument[i]
                              ELSE shareWrites[i - Len(WriteDocument)]
      <3>1. WriteDocument \in Seq(Writes) /\ shareWrites \in Seq(Writes)
        BY <1>2, <1>3
      <3> HIDE DEF BuildPlan
      <3>2. QED
        BY ONLY <1>4, <3>1, ConcatProperties, Zenon
    <2>2. QED
      BY <1>2, <1>3, <2>1
  <1>7. BuildPlan[1].name = Surface /\ BuildPlan[2].name = Plus
    BY <1>1, <1>3, <1>6
  <1>8. \A i \in 1..Shares : BuildPlan[i + 2].name = Share(i) /\ i + 2 \in 1..Len(BuildPlan)
    BY <1>1, <1>5, <1>6
  <1>9. ASSUME NEW i \in 1..Len(BuildPlan) PROVE BuildPlan[i].name \in BuildNames
    <2>1. i = 1 \/ i = 2 \/ (i - 2 \in 1..Shares /\ BuildPlan[i].name = Share(i - 2))
      BY <1>1, <1>5, <1>6
    <2>2. QED
      BY <1>7, <2>1 DEF BuildNames, Documents, ShareNames
  <1>10. ASSUME NEW name \in BuildNames PROVE name \in NamesLeft(BuildPlan)
    <2>1. 1 \in 1..Len(BuildPlan) /\ 2 \in 1..Len(BuildPlan)
      BY <1>1, <1>6
    <2>2. CASE name \in Documents
      BY <1>7, <2>1, <2>2 DEF Documents, NamesLeft
    <2>3. CASE name \in ShareNames
      <3>1. PICK i \in 1..Shares : name = Share(i)
        BY <2>3 DEF ShareNames
      <3>2. QED
        BY <1>8, <3>1 DEF NamesLeft
    <2>4. QED
      BY <2>2, <2>3 DEF BuildNames
  <1>11. NamesLeft(BuildPlan) = BuildNames
    BY <1>9, <1>10 DEF NamesLeft
  <1>12. QED
    BY <1>1, <1>6, <1>11

(* A key pair is written in two files, an extract in one.                  *)
LEMMA ShortPlans ==
    /\ Len(KeygenPlan) = 2 /\ Head(KeygenPlan).name = Key /\ Tail(KeygenPlan) = PubPlan
    /\ Len(PubPlan) = 1 /\ Head(PubPlan).name = Pub
    /\ Len(ExtractPlan) = 1 /\ NamesLeft(ExtractPlan) = {Out} /\ NamesLeft(<<>>) = {}
    /\ NamesLeft(KeygenPlan) \subseteq PairNames /\ NamesLeft(PubPlan) \subseteq PairNames
  <1>1. /\ Len(KeygenPlan) = 2 /\ Head(KeygenPlan).name = Key
        /\ KeygenPlan[1].name = Key /\ KeygenPlan[2].name = Pub
        /\ Len(PubPlan) = 1 /\ Head(PubPlan).name = Pub /\ PubPlan[1].name = Pub
        /\ Len(ExtractPlan) = 1 /\ ExtractPlan[1].name = Out
    BY DEF KeygenPlan, PubPlan, ExtractPlan
  <1>2. Tail(KeygenPlan) = PubPlan
    BY DEF KeygenPlan, PubPlan
  <1>3. NamesLeft(ExtractPlan) = {Out} /\ NamesLeft(<<>>) = {}
    BY <1>1 DEF NamesLeft
  <1>4. NamesLeft(KeygenPlan) \subseteq PairNames /\ NamesLeft(PubPlan) \subseteq PairNames
    <2>1. \A i \in 1..2 : KeygenPlan[i].name \in PairNames
      BY <1>1 DEF PairNames
    <2>2. \A i \in 1..1 : PubPlan[i].name \in PairNames
      BY <1>1 DEF PairNames
    <2>3. QED
      BY <1>1, <2>1, <2>2 DEF NamesLeft
  <1>5. QED
    BY <1>1, <1>2, <1>3, <1>4

-----------------------------------------------------------------------------
(* What a step does to its process, to the others and to the files.        *)

(* The fields of a process that proceeds.                                  *)
LEMMA ProceedFields ==
    ASSUME NEW c, ProcessOK(c), Len(c.left) > 0
    PROVE  /\ Len(c.left) = 1 => Proceed(c) = Idle
           /\ Len(c.left) # 1 =>
                /\ Proceed(c).job = c.job /\ Proceed(c).number = c.number
                /\ Proceed(c).alone = c.alone /\ Proceed(c).at = "open"
                /\ Proceed(c).left = Tail(c.left) /\ Proceed(c).linked = FALSE
  BY DEF Proceed, ProcessOK, Idle

(* The other processes lose at most that they are alone, to a build, and   *)
(* the name of the file they write, to a failure over the same file.       *)
LEMMA OthersStay ==
    ASSUME ProcessesOK, NEW p \in Processes, Step(p), NEW q \in Processes \ {p}
    PROVE  \/ proc'[q] = proc[q]
           \/ Build(p) /\ proc'[q] = [proc[q] EXCEPT !.alone = FALSE]
           \/ /\ FailToWrite(p) /\ Current(p).how # "replace"
              /\ proc[q].at = "write" /\ Current(q).name = Current(p).name
              /\ proc'[q] = [proc[q] EXCEPT !.linked = FALSE]
  <1>1. DOMAIN proc = Processes
    BY DEF ProcessesOK
  <1>2. CASE Build(p)
    BY <1>2 DEF Build
  <1>3. CASE FailToWrite(p)
    BY <1>1, <1>3 DEF FailToWrite, Unlinked
  <1>4. CASE Write(p)
    BY <1>1, <1>4 DEF Write
  <1>5. CASE \/ Keygen(p) \/ \E name \in Documents : ReadDocument(p, name)
             \/ ReadShares(p) \/ Open(p) \/ Refuse(p) \/ Chmod(p) \/ ChmodFails(p) \/ Kill(p)
    BY <1>1, <1>5 DEF Keygen, ReadDocument, ReadShares, Open, Refuse, Chmod, ChmodFails, Kill
  <1>6. QED
    BY <1>2, <1>3, <1>4, <1>5 DEF Step

(* So their command goes on as it was.                                     *)
LEMMA OthersGoOn ==
    ASSUME ProcessesOK, NEW p \in Processes, Step(p), NEW q \in Processes \ {p}
    PROVE  /\ proc'[q].job = proc[q].job /\ proc'[q].number = proc[q].number
           /\ proc'[q].at = proc[q].at /\ proc'[q].left = proc[q].left
           /\ ~Build(p) => proc'[q].alone = proc[q].alone
           /\ Build(p) => proc'[q].alone = FALSE
           /\ proc[q].linked /\ ~(proc[p].at = "write" /\ proc[q].at = "write"
                                  /\ Current(q).name = Current(p).name) => proc'[q].linked
  <1>1. DOMAIN proc[q] = DOMAIN Idle
    BY DEF ProcessesOK, ProcessOK
  <1>2. CASE proc'[q] = proc[q] /\ ~Build(p)
    BY <1>2
  <1>3. CASE Build(p)
    <2>1. proc'[q] = [proc[q] EXCEPT !.alone = FALSE]
      BY <1>3 DEF Build
    <2>2. /\ proc'[q].job = proc[q].job /\ proc'[q].number = proc[q].number
          /\ proc'[q].at = proc[q].at /\ proc'[q].left = proc[q].left
          /\ proc'[q].linked = proc[q].linked /\ proc'[q].alone = FALSE
      BY <1>1, <2>1 DEF Idle
    <2>3. QED
      BY <1>3, <2>2
  <1>4. CASE /\ FailToWrite(p) /\ proc[q].at = "write" /\ Current(q).name = Current(p).name
             /\ proc'[q] = [proc[q] EXCEPT !.linked = FALSE] /\ ~Build(p)
    <2>1. /\ proc'[q].job = proc[q].job /\ proc'[q].number = proc[q].number
          /\ proc'[q].at = proc[q].at /\ proc'[q].left = proc[q].left
          /\ proc'[q].alone = proc[q].alone
      BY <1>1, <1>4 DEF Idle
    <2>2. proc[p].at = "write"
      BY <1>4 DEF FailToWrite
    <2>3. QED
      BY <1>4, <2>1, <2>2
  <1>5. QED
    BY <1>2, <1>3, <1>4, OthersStay

(* What a step does to its own process.                                    *)
LEMMA OwnProcess ==
    ASSUME ProcessesOK, NEW p \in Processes, Step(p)
    PROVE  /\ Build(p) =>
                proc'[p] = Started("build", begun + 1, "open", BuildPlan, Busy("build") = {})
           /\ Keygen(p) => proc'[p] = Started("keygen", begun + 1, "open", KeygenPlan, FALSE)
           /\ \A name \in Documents : ReadDocument(p, name) =>
                proc'[p] = Started("extract", files[name].of, "shares", ExtractPlan, FALSE)
           /\ ReadShares(p) =>
                proc'[p] = Idle \/ proc'[p] = [proc[p] EXCEPT !.at = "open"]
           /\ Open(p) => proc'[p] = [proc[p] EXCEPT !.at = "write", !.linked = TRUE]
           /\ Write(p) /\ Current(p).how = "overwrite" =>
                proc'[p] = [proc[p] EXCEPT !.at = "chmod"]
           /\ Chmod(p) \/ (Write(p) /\ Current(p).how # "overwrite") =>
                proc'[p] = Proceed(proc[p])
           /\ Refuse(p) \/ ChmodFails(p) \/ FailToWrite(p) \/ Kill(p) => proc'[p] = Idle
  <1>1. DOMAIN proc = Processes
    BY DEF ProcessesOK
  <1>2. Build(p) =>
          proc'[p] = Started("build", begun + 1, "open", BuildPlan, Busy("build") = {})
    BY DEF Build
  <1>3. /\ Keygen(p) => proc'[p] = Started("keygen", begun + 1, "open", KeygenPlan, FALSE)
        /\ \A name \in Documents : ReadDocument(p, name) =>
             proc'[p] = Started("extract", files[name].of, "shares", ExtractPlan, FALSE)
    BY <1>1 DEF Keygen, ReadDocument
  <1>4. ReadShares(p) => proc'[p] = Idle \/ proc'[p] = [proc[p] EXCEPT !.at = "open"]
    BY <1>1 DEF ReadShares
  <1>5. Open(p) => proc'[p] = [proc[p] EXCEPT !.at = "write", !.linked = TRUE]
    <2>1. ASSUME Open(p)
          PROVE  proc' = [proc EXCEPT ![p] = [proc[p] EXCEPT !.at = "write", !.linked = TRUE]]
      BY <2>1 DEF Open
    <2>2. QED
      BY <1>1, <2>1
  <1>6. /\ Write(p) /\ Current(p).how = "overwrite" =>
             proc'[p] = [proc[p] EXCEPT !.at = "chmod"]
        /\ Write(p) /\ Current(p).how # "overwrite" => proc'[p] = Proceed(proc[p])
        /\ Chmod(p) => proc'[p] = Proceed(proc[p])
    BY <1>1 DEF Write, Chmod
  <1>7. Refuse(p) \/ ChmodFails(p) \/ Kill(p) => proc'[p] = Idle
    BY <1>1 DEF Refuse, ChmodFails, Kill
  <1>8. FailToWrite(p) => proc'[p] = Idle
    BY <1>1 DEF FailToWrite, Unlinked
  <1>9. QED
    BY <1>2, <1>3, <1>4, <1>5, <1>6, <1>7, <1>8

(* A step touches the file its process is at, and no other.                *)
LEMMA OtherFilesStay ==
    ASSUME ProcessesOK, FilesOK, NEW p \in Processes, Step(p)
    PROVE  \/ files' = files
           \/ /\ proc[p].at \in {"open", "write", "chmod"}
              /\ \A n \in Names \ {Current(p).name} : files'[n] = files[n]
  <1>1. ASSUME files' # files
        PROVE  /\ proc[p].at \in {"open", "write", "chmod"}
               /\ \A n \in Names \ {Current(p).name} : files'[n] = files[n]
    <2>1. Open(p) \/ Write(p) \/ Chmod(p) \/ FailToWrite(p)
      BY <1>1 DEF Step, Build, Keygen, ReadDocument, ReadShares, Refuse, ChmodFails, Kill
    <2>2. proc[p].at \in {"open", "write", "chmod"}
      BY <2>1 DEF Open, Write, Chmod, FailToWrite
    <2>3. CASE Open(p)
      BY <2>2, <2>3, CurrentIsPlanned DEF Open, Opened, FilesOK
    <2>4. CASE Write(p)
      BY <2>2, <2>4, CurrentIsPlanned, WriteChanges
    <2>5. CASE Chmod(p)
      BY <2>2, <2>5, CurrentIsPlanned DEF Chmod, FilesOK
    <2>6. CASE FailToWrite(p)
      BY <1>1, <2>2, <2>6, CurrentIsPlanned DEF FailToWrite, FilesOK
    <2>7. QED
      BY <2>1, <2>2, <2>3, <2>4, <2>5, <2>6
  <1>2. QED
    BY <1>1

(* What a write makes of its file.                                         *)
LEMMA WriteMakes ==
    ASSUME FilesOK, NEW p \in Processes, Write(p), Current(p).name \in Names
    PROVE  LET name == Current(p).name IN
           \/ ~proc[p].linked /\ files' = files
           \/ /\ proc[p].linked /\ files'[name].wide = files[name].wide
              /\ files'[name].state = "whole" /\ files'[name].of = proc[p].number
           \/ /\ proc[p].linked /\ files'[name].wide = files[name].wide
              /\ Contested(p) /\ files'[name].state = "torn" /\ files'[name].of = 0
  <1> DEFINE name  == Current(p).name
             whole == [files[name] EXCEPT !.state = "whole", !.of = proc[p].number]
             mixed == [files[name] EXCEPT !.state = "torn", !.of = 0]
             after == {whole} \cup (IF Contested(p) THEN {mixed} ELSE {})
  <1>1. DOMAIN files[name] = {"state", "wide", "of"}
    BY DEF FilesOK
  <1>2. /\ whole.wide = files[name].wide /\ whole.state = "whole" /\ whole.of = proc[p].number
        /\ mixed.wide = files[name].wide /\ mixed.state = "torn" /\ mixed.of = 0
    BY <1>1
  <1>3. CASE ~proc[p].linked
    BY <1>3 DEF Write
  <1>4. CASE proc[p].linked
    <2>1. files' \in {[files EXCEPT ![name] = file] : file \in after}
      BY <1>4 DEF Write
    <2> HIDE DEF after
    <2>2. PICK file \in after : files' = [files EXCEPT ![name] = file]
      BY <2>1
    <2> USE DEF after
    <2>3. file = whole \/ (Contested(p) /\ file = mixed)
      BY <2>2
    <2> HIDE DEF whole, mixed, after
    <2>4. files'[name] = file
      BY <2>2 DEF FilesOK
    <2>5. QED
      BY <1>2, <1>4, <2>3, <2>4
  <1>5. QED
    BY <1>3, <1>4

-----------------------------------------------------------------------------
(* Types.                                                                  *)

(* The steps that write a file to its end, and so may report.              *)
LEMMA HistoryMoves ==
    ASSUME ProcessesOK, NEW p \in Processes, Step(p)
    PROVE  /\ \/ UNCHANGED historyVars
              \/ Build(p) /\ opens' = 0 /\ UNCHANGED <<paired, tightened, killedAt>>
              \/ (Chmod(p) \/ (Write(p) /\ Current(p).how # "overwrite"))
                   /\ Report(p, Len(proc[p].left))
              \/ Kill(p) /\ UNCHANGED <<opens, paired, tightened>>
           /\ begun' = begun \/ (begun < MaxCommands /\ begun' = begun + 1)
  <1>1. CASE Build(p)
    BY <1>1 DEF Build
  <1>2. CASE Kill(p)
    BY <1>2 DEF Kill
  <1>3. CASE Write(p) \/ Chmod(p)
    BY <1>3 DEF Write, Chmod
  <1>4. CASE \/ Keygen(p) \/ \E name \in Documents : ReadDocument(p, name)
             \/ ReadShares(p) \/ Open(p) \/ Refuse(p) \/ ChmodFails(p) \/ FailToWrite(p)
    BY <1>4 DEF Keygen, ReadDocument, ReadShares, Open, Refuse, ChmodFails, FailToWrite
  <1>5. QED
    BY <1>1, <1>2, <1>3, <1>4 DEF Step

(* Numbers are given in order, and what has reported had one.              *)
LEMMA CountersStayTyped ==
    ASSUME ProcessesOK, FilesOK, TypesOK, NEW p \in Processes, Step(p)
    PROVE  CountersTyped' /\ begun \in Nat /\ begun' \in Nat /\ begun <= begun'
  <1>1. /\ begun \in 0..MaxCommands /\ MaxCommands \in Nat /\ begun \in Nat
        /\ opens \in 0..begun /\ paired \in 0..begun /\ proc[p].number \in 0..begun
    BY OutputsAssumption DEF TypesOK, CountersTyped, ProcessTyped
  <1>2. begun' \in 0..MaxCommands /\ begun' \in Nat /\ begun <= begun'
    BY <1>1, HistoryMoves
  <1>3. opens' \in {opens, 0, proc[p].number} /\ paired' \in {paired, proc[p].number}
    BY HistoryMoves DEF historyVars, Report
  <1>4. opens' \in 0..begun' /\ paired' \in 0..begun'
    BY <1>1, <1>2, <1>3
  <1>5. tightened' \in BOOLEAN
    <2>1. tightened \in BOOLEAN
      BY DEF TypesOK, CountersTyped
    <2>2. CASE tightened' = tightened
      BY <2>1, <2>2
    <2>3. CASE Report(p, Len(proc[p].left))
      BY <2>3 DEF Report
    <2>4. QED
      BY <2>2, <2>3, HistoryMoves DEF historyVars
  <1>6. killedAt' \subseteq Names
    <2>1. killedAt \subseteq Names
      BY DEF TypesOK, CountersTyped
    <2>2. CASE Kill(p)
      <3>1. proc[p].at \in {"write", "chmod"} => Current(p).name \in Names
        BY CurrentIsPlanned
      <3>2. QED
        BY <2>1, <2>2, <3>1 DEF Kill
    <2>3. CASE ~Kill(p)
      BY <2>1, <2>3, HistoryMoves DEF historyVars, Report
    <2>4. QED
      BY <2>2, <2>3
  <1>7. QED
    BY <1>1, <1>2, <1>4, <1>5, <1>6 DEF CountersTyped

(* A file that is opened, and one whose writing fails.                     *)
LEMMA OpenMakes ==
    ASSUME FilesOK, NEW p \in Processes, Open(p), Current(p).name \in Names
    PROVE  LET name == Current(p).name IN
           /\ files'[name].state = "torn" /\ files'[name].of = 0
           /\ files'[name].wide = (IF Exists(name) THEN files[name].wide
                                                   ELSE Current(p).how = "replace")
  BY DEF Open, Opened, FilesOK

(* So it is left torn, or has no name any more.                            *)
LEMMA FailureMakes ==
    ASSUME FilesOK, NEW p \in Processes, FailToWrite(p), Current(p).name \in Names
    PROVE  LET name == Current(p).name IN
           \/ files' = files
           \/ files'[name].state = "torn" /\ files'[name].of = 0
                /\ files'[name].wide = files[name].wide
           \/ files'[name] = Absent
  <1> DEFINE name == Current(p).name
  <1>1. DOMAIN files[name] = {"state", "wide", "of"} /\ DOMAIN files = Names
    BY DEF FilesOK
  <1>2. CASE Current(p).how = "replace" /\ proc[p].linked
    <2>1. files' = [files EXCEPT ![name].state = "torn", ![name].of = 0]
      BY <1>2 DEF FailToWrite
    <2>2. QED
      BY <1>1, <2>1
  <1>3. CASE Current(p).how = "replace" /\ ~proc[p].linked
    BY <1>3 DEF FailToWrite
  <1>4. CASE Current(p).how # "replace"
    BY <1>1, <1>4 DEF FailToWrite
  <1>5. QED
    BY <1>2, <1>3, <1>4

FileTyped(file) ==
    /\ file.state \in {"absent", "torn", "whole"}
    /\ file.wide \in BOOLEAN
    /\ file.of \in 0..begun
    /\ file.state # "whole" => file.of = 0

(* Only a whole file has a maker.                                          *)
LEMMA FilesStayTyped ==
    ASSUME ProcessesOK, FilesOK, TypesOK, NEW p \in Processes, Step(p)
    PROVE  FilesTyped'
  <1> DEFINE name == Current(p).name
  <1>1. begun \in Nat /\ begun' \in Nat /\ begun <= begun'
    BY CountersStayTyped
  <1>2. \A n \in Names : FileTyped(files[n])
    BY DEF TypesOK, FilesTyped, FileTyped
  <1>3. ASSUME NEW n \in Names, files'[n] = files[n] PROVE FileTyped(files[n])'
    <2>1. /\ files[n].state \in {"absent", "torn", "whole"}
          /\ files[n].of \in 0..begun
          /\ files[n].state # "whole" => files[n].of = 0
      BY <1>2 DEF FileTyped
    <2>2. files[n].wide \in BOOLEAN
      BY <1>2 DEF FileTyped
    <2>3. files[n].of \in 0..begun'
      BY <1>1, <2>1
    <2>4. QED
      BY <1>3, <2>1, <2>2, <2>3 DEF FileTyped
  <1>4. ASSUME NEW n \in Names, n = name, proc[p].at \in {"open", "write", "chmod"},
               files'[n] # files[n]
        PROVE  FileTyped(files[n])'
    <2>1. /\ name \in Names /\ name = n /\ proc[p].number \in 0..begun
          /\ DOMAIN files = Names /\ DOMAIN files[n] = {"state", "wide", "of"}
      BY <1>4, CurrentIsPlanned DEF TypesOK, ProcessTyped, FilesOK
    <2>2. 0 \in 0..begun' /\ proc[p].number \in 0..begun'
      BY <1>1, <2>1
    <2>3. files[n].wide \in BOOLEAN
      BY <1>2, <2>1 DEF FileTyped
    <2>4. CASE Open(p)
      <3>1. files'[n].wide \in BOOLEAN
        <4>1. CASE Exists(n)
          BY <2>1, <2>3, <2>4, <4>1, OpenMakes
        <4>2. CASE ~Exists(n)
          <5>1. files'[n].wide = (Current(p).how = "replace")
            BY <2>1, <2>4, <4>2, OpenMakes
          <5>2. QED
            BY <5>1
        <4>3. QED
          BY <4>1, <4>2
      <3>2. files'[n].state = "torn" /\ files'[n].of = 0
        BY <2>1, <2>4, OpenMakes
      <3>3. QED
        BY <2>2, <3>1, <3>2 DEF FileTyped
    <2>5. CASE Write(p)
      <3>1. files'[n].wide = files[n].wide
        BY <1>4, <2>1, <2>5, WriteMakes
      <3>2. \/ files'[n].state = "whole" /\ files'[n].of = proc[p].number
            \/ files'[n].state = "torn" /\ files'[n].of = 0
        BY <1>4, <2>1, <2>5, WriteMakes
      <3>3. QED
        BY <2>2, <2>3, <3>1, <3>2 DEF FileTyped
    <2>6. CASE Chmod(p)
      <3>1. /\ files'[n].state = files[n].state /\ files'[n].of = files[n].of
            /\ files'[n].wide = FALSE
        BY <2>1, <2>6 DEF Chmod
      <3>2. /\ files[n].state \in {"absent", "torn", "whole"}
            /\ files[n].of \in 0..begun
            /\ files[n].state # "whole" => files[n].of = 0
        BY <1>2, <2>1 DEF FileTyped
      <3>3. files[n].of \in 0..begun'
        BY <1>1, <3>2
      <3>4. QED
        BY <3>1, <3>2, <3>3 DEF FileTyped
    <2>7. CASE FailToWrite(p)
      <3>1. CASE files'[n] = Absent
        <4>1. Absent.state = "absent" /\ Absent.of = 0 /\ Absent.wide \in BOOLEAN
          BY DEF Absent
        <4>2. QED
          BY <2>2, <3>1, <4>1 DEF FileTyped
      <3>2. CASE /\ files'[n].state = "torn" /\ files'[n].of = 0
                 /\ files'[n].wide = files[n].wide
        BY <2>2, <2>3, <3>2 DEF FileTyped
      <3>3. QED
        BY <1>4, <2>1, <2>7, <3>1, <3>2, FailureMakes
    <2>8. files' # files
      BY <1>4
    <2>9. QED
      BY <2>4, <2>5, <2>6, <2>7, <2>8
         DEF Step, Build, Keygen, ReadDocument, ReadShares, Refuse, ChmodFails, Kill
  <1>5. ASSUME NEW n \in Names PROVE FileTyped(files[n])'
    <2>1. CASE files'[n] = files[n]
      BY <1>3, <2>1
    <2>2. CASE files'[n] # files[n]
      <3>1. proc[p].at \in {"open", "write", "chmod"} /\ n = name
        BY <2>2, OtherFilesStay
      <3>2. QED
        BY <1>4, <2>2, <3>1
    <2>3. QED
      BY <2>1, <2>2
  <1>6. QED
    BY <1>5 DEF FilesTyped, FileTyped

(* Setting what is set already.                                            *)
LEMMA SameValue ==
    ASSUME NEW f, f = [x \in DOMAIN f |-> f[x]], NEW x \in DOMAIN f
    PROVE  [f EXCEPT ![x] = f[x]] = f
  OBVIOUS

(* Whom a build leaves idle.                                               *)
LEMMA IdleIsAlone == [Idle EXCEPT !.alone = FALSE] = Idle
  <1>1. Idle = [x \in DOMAIN Idle |-> Idle[x]]
    BY DEF Idle
  <1>2. "alone" \in DOMAIN Idle
    BY DEF Idle
  <1>3. Idle["alone"] = FALSE
    BY DEF Idle
  <1>4. [Idle EXCEPT !["alone"] = Idle["alone"]] = Idle
    BY <1>1, <1>2, SameValue
  <1>5. [Idle EXCEPT !["alone"] = FALSE] = Idle
    BY <1>3, <1>4, Zenon
  <1>6. QED
    BY <1>5

(* The fields of a process that begins.                                    *)
LEMMA StartedFields ==
    ASSUME NEW job, NEW number, NEW begins, NEW plan, NEW alone
    PROVE  LET c == Started(job, number, begins, plan, alone) IN
           /\ c.job = job /\ c.number = number /\ c.at = begins /\ c.left = plan
           /\ c.alone = alone
  BY DEF Started

(* Whoever is idle is idle through and through.                            *)
LEMMA ProcessesStayTyped ==
    ASSUME ProcessesOK, FilesOK, TypesOK, NEW p \in Processes, Step(p)
    PROVE  \A q \in Processes : ProcessTyped(proc[q])'
  <1>1. begun \in Nat /\ begun' \in Nat /\ begun <= begun' /\ Shares \in Nat
    BY CountersStayTyped, OutputsAssumption
  <1>2. \A q \in Processes : ProcessTyped(proc[q])
    BY DEF TypesOK
  <1>3. ASSUME NEW q \in Processes \ {p} PROVE ProcessTyped(proc[q])'
    <2>1. /\ proc'[q].number = proc[q].number /\ proc'[q].at = proc[q].at
          /\ proc'[q].left = proc[q].left
      BY <1>3, OthersGoOn
    <2>2. proc[q].number \in 0..begun'
      BY <1>1, <1>2 DEF ProcessTyped
    <2>3. proc'[q].at = "idle" => proc'[q] = Idle
      <3>1. ASSUME proc[q].at = "idle" PROVE proc'[q] = Idle
        <4>1. proc[q] = Idle
          BY <1>2, <3>1 DEF ProcessTyped
        <4>2. QED
          BY <1>3, <3>1, <4>1, IdleIsAlone, OthersStay
      <3>2. QED
        BY <2>1, <3>1
    <2>4. QED
      BY <1>2, <2>1, <2>2, <2>3 DEF ProcessTyped
  <1>4. ASSUME proc'[p] = Idle PROVE ProcessTyped(proc[p])'
    <2>1. Idle.number = 0 /\ Idle.at = "idle" /\ Len(Idle.left) = 0
      BY DEF Idle
    <2>2. 0 \in 0..begun' /\ 0 <= Shares + 2
      BY <1>1
    <2>3. QED
      BY <1>4, <2>1, <2>2 DEF ProcessTyped
  <1>5. ProcessTyped(proc[p])'
    <2>1. /\ proc[p].number \in 0..begun' /\ Len(proc[p].left) <= Shares + 2
      BY <1>1, <1>2 DEF ProcessTyped
    <2>2. ASSUME NEW c, proc'[p] = c, c.number \in 0..begun', c.at \in {"open", "shares", "write", "chmod"},
                 Len(c.left) <= Shares + 2
          PROVE  ProcessTyped(proc[p])'
      BY <2>2 DEF ProcessTyped
    <2>3. CASE Build(p) \/ Keygen(p)
      <3>1. begun' = begun + 1
        BY <2>3 DEF Build, Keygen
      <3>2. begun + 1 \in 0..begun' /\ 2 <= Shares + 2
        BY <1>1, <3>1
      <3>3. CASE Build(p)
        <4>1. proc'[p] = Started("build", begun + 1, "open", BuildPlan, Busy("build") = {})
          BY <3>3, OwnProcess
        <4>2. /\ proc'[p].number = begun + 1 /\ proc'[p].at = "open"
              /\ proc'[p].left = BuildPlan
          BY <4>1, StartedFields
        <4>3. Len(proc'[p].left) <= Shares + 2
          BY <1>1, <4>2, BuildWritesItsNames
        <4>4. QED
          BY <2>2, <3>2, <4>2, <4>3
      <3>4. CASE Keygen(p)
        <4>1. proc'[p] = Started("keygen", begun + 1, "open", KeygenPlan, FALSE)
          BY <3>4, OwnProcess
        <4>2. /\ proc'[p].number = begun + 1 /\ proc'[p].at = "open"
              /\ proc'[p].left = KeygenPlan
          BY <4>1 DEF Started
        <4>3. QED
          BY <2>2, <3>2, <4>2, ShortPlans
      <3>5. QED
        BY <2>3, <3>3, <3>4
    <2>4. ASSUME NEW name \in Documents, ReadDocument(p, name) PROVE ProcessTyped(proc[p])'
      <3>1. files[name].of \in 0..begun
        BY DEF TypesOK, FilesTyped, Names
      <3>2. files[name].of \in 0..begun' /\ 1 <= Shares + 2
        BY <1>1, <3>1
      <3>3. QED
        <4>1. proc'[p] = Started("extract", files[name].of, "shares", ExtractPlan, FALSE)
          BY <2>4, OwnProcess
        <4>2. /\ proc'[p].number = files[name].of /\ proc'[p].at = "shares"
              /\ proc'[p].left = ExtractPlan
          BY <4>1 DEF Started
        <4>3. QED
          BY <2>2, <3>2, <4>2, ShortPlans
    <2>5. CASE ReadShares(p) \/ Open(p) \/ (Write(p) /\ Current(p).how = "overwrite")
      <3>1. DOMAIN proc[p] = DOMAIN Idle
        BY DEF ProcessesOK, ProcessOK
      <3>2. \/ proc'[p] = Idle
            \/ /\ proc'[p].number = proc[p].number /\ proc'[p].left = proc[p].left
               /\ proc'[p].at \in {"open", "write", "chmod"}
        BY <2>5, <3>1, OwnProcess DEF Idle
      <3>3. QED
        BY <1>4, <2>1, <2>2, <3>2
    <2>6. CASE Chmod(p) \/ (Write(p) /\ Current(p).how # "overwrite")
      <3>1. ProcessOK(proc[p]) /\ Len(proc[p].left) > 0 /\ proc[p].left \in Seq(Writes)
        BY <2>6, CurrentIsPlanned DEF Chmod, Write, ProcessesOK, ProcessOK
      <3>2. proc'[p] = Proceed(proc[p])
        BY <2>6, OwnProcess
      <3>3. CASE Len(proc[p].left) = 1
        BY <1>4, <3>1, <3>2, <3>3, ProceedFields
      <3>4. CASE Len(proc[p].left) # 1
        <4>1. /\ proc'[p].number = proc[p].number /\ proc'[p].at = "open"
              /\ proc'[p].left = Tail(proc[p].left)
          BY <3>1, <3>2, <3>4, ProceedFields
        <4>2. Len(Tail(proc[p].left)) <= Shares + 2
          BY <1>1, <2>1, <3>1, TailLeavesNames
        <4>3. QED
          BY <2>1, <2>2, <4>1, <4>2
      <3>5. QED
        BY <3>3, <3>4
    <2>7. CASE Refuse(p) \/ ChmodFails(p) \/ FailToWrite(p) \/ Kill(p)
      BY <1>4, <2>7, OwnProcess
    <2>8. QED
      BY <2>3, <2>4, <2>5, <2>6, <2>7 DEF Step
  <1>6. QED
    BY <1>3, <1>5

(* All of TypeOK but that what is on disk are records.                     *)
LEMMA TypesStay ==
    ASSUME ProcessesOK, FilesOK, TypesOK, [Next]_vars
    PROVE  TypesOK'
  <1>1. ASSUME NEW p \in Processes, Step(p) PROVE TypesOK'
    BY <1>1, CountersStayTyped, FilesStayTyped, ProcessesStayTyped DEF TypesOK
  <1>2. ASSUME NEW name \in Kept, TakeAway(name) PROVE TypesOK'
    <2>1. /\ begun' = begun /\ proc' = proc /\ tightened' = tightened
          /\ opens' \in {opens, 0} /\ paired' \in {paired, 0} /\ killedAt' \subseteq killedAt
      BY <1>2 DEF TakeAway
    <2>2. begun \in Nat
      BY OutputsAssumption DEF TypesOK, CountersTyped
    <2>3. CountersTyped'
      BY <2>1, <2>2 DEF TypesOK, CountersTyped
    <2>4. \A n \in Names : files'[n] = files[n] \/ files'[n] = Absent
      BY <1>2 DEF TakeAway, FilesOK
    <2>5. /\ Absent.state = "absent" /\ Absent.of = 0 /\ Absent.wide \in BOOLEAN
          /\ 0 \in 0..begun
      BY <2>2 DEF Absent
    <2>6. FilesTyped'
      BY <2>1, <2>4, <2>5 DEF TypesOK, FilesTyped
    <2>7. \A q \in Processes : ProcessTyped(proc[q])'
      BY <2>1 DEF TypesOK, ProcessTyped
    <2>8. QED
      BY <2>3, <2>6, <2>7 DEF TypesOK
  <1>3. CASE UNCHANGED vars
    BY <1>3 DEF vars, historyVars, TypesOK, CountersTyped, FilesTyped, ProcessTyped
  <1>4. QED
    BY <1>1, <1>2, <1>3 DEF Next

(* A function of which one value is changed.                               *)
LEMMA ChangeOne ==
    ASSUME NEW f, NEW S, f = [x \in S |-> f[x]], NEW a, NEW v, NEW g, g = [f EXCEPT ![a] = v]
    PROVE  /\ g = [x \in S |-> g[x]]
           /\ \A x \in S : g[x] = f[x] \/ g[x] = v
  OBVIOUS

(* A field that is changed leaves a record.                                *)
LEMMA ChangedIsRecord ==
    ASSUME NEW f, IsRecord(f), NEW x, NEW v
    PROVE  IsRecord([f EXCEPT ![x] = v])
  BY DEF IsRecord

(* A file that is changed for a record.                                    *)
LEMMA FileChanges ==
    ASSUME FilesAreRecords, NEW name \in Names, NEW v, IsRecord(v),
           files' = [files EXCEPT ![name] = v]
    PROVE  FilesAreRecords'
  <1>1. /\ files' = [x \in Names |-> files'[x]]
        /\ \A x \in Names : files'[x] = files[x] \/ files'[x] = v
    BY ChangeOne DEF FilesAreRecords
  <1>2. \A x \in Names : IsRecord(files'[x])
    BY <1>1 DEF FilesAreRecords
  <1>3. QED
    BY <1>1, <1>2 DEF FilesAreRecords, IsRecord

(* What is on disk stays records.                                          *)
LEMMA RecordsStay ==
    ASSUME ProcessesOK, FilesAreRecords, [Next]_vars
    PROVE  FilesAreRecords'
  <1>1. IsRecord(Absent)
    BY DEF Absent, IsRecord
  <1>2. CASE files' = files
    BY <1>2 DEF FilesAreRecords, IsRecord
  <1>3. ASSUME NEW p \in Processes, Step(p), files' # files PROVE FilesAreRecords'
    <2> DEFINE name == Current(p).name
    <2>1. Open(p) \/ Write(p) \/ Chmod(p) \/ FailToWrite(p)
      BY <1>3 DEF Step, Build, Keygen, ReadDocument, ReadShares, Refuse, ChmodFails, Kill
    <2>2. name \in Names /\ IsRecord(files[name])
      BY <2>1, CurrentIsPlanned DEF Open, Write, Chmod, FailToWrite, FilesAreRecords
    <2>3. CASE Open(p)
      <3> DEFINE wide == IF Exists(name) THEN files[name].wide ELSE Current(p).how = "replace"
      <3>1. files' = [files EXCEPT ![name] = [state |-> "torn", of |-> 0, wide |-> wide]]
        BY <2>3 DEF Open, Opened
      <3> HIDE DEF wide
      <3>2. IsRecord([state |-> "torn", of |-> 0, wide |-> wide])
        BY DEF IsRecord
      <3>3. QED
        BY <2>2, <3>1, <3>2, FileChanges
    <2>4. CASE Write(p)
      <3> DEFINE whole == [files[name] EXCEPT !.state = "whole", !.of = proc[p].number]
                 mixed == [files[name] EXCEPT !.state = "torn", !.of = 0]
                 after == {whole} \cup (IF Contested(p) THEN {mixed} ELSE {})
      <3>1. files' \in {[files EXCEPT ![name] = file] : file \in after}
        BY <1>3, <2>4 DEF Write
      <3> HIDE DEF after
      <3>2. PICK file \in after : files' = [files EXCEPT ![name] = file]
        BY <3>1
      <3> USE DEF after
      <3>3. file = whole \/ file = mixed
        BY <3>2
      <3> HIDE DEF after
      <3>4. IsRecord(whole) /\ IsRecord(mixed)
        BY <2>2, ChangedIsRecord
      <3> HIDE DEF whole, mixed
      <3>5. IsRecord(file)
        BY <3>3, <3>4
      <3>6. QED
        BY <2>2, <3>2, <3>5, FileChanges
    <2>5. CASE Chmod(p)
      <3>1. files' = [files EXCEPT ![name] = [files[name] EXCEPT !.wide = FALSE]]
        BY <2>5 DEF Chmod
      <3> DEFINE file == [files[name] EXCEPT !.wide = FALSE]
      <3>2. IsRecord(file)
        BY <2>2, ChangedIsRecord
      <3> HIDE DEF file
      <3>3. files' = [files EXCEPT ![name] = file]
        BY <3>1 DEF file
      <3>4. QED
        BY <2>2, <3>2, <3>3, FileChanges
    <2>6. CASE FailToWrite(p)
      <3>1. CASE Current(p).how = "replace"
        <4> DEFINE file == [files[name] EXCEPT !.state = "torn", !.of = 0]
        <4>1. files' = [files EXCEPT ![name].state = "torn", ![name].of = 0]
          BY <1>3, <2>6, <3>1 DEF FailToWrite
        <4>2. files' = [files EXCEPT ![name] = file]
          BY <2>2, <4>1 DEF FilesAreRecords
        <4>3. IsRecord(file)
          BY <2>2, ChangedIsRecord
        <4> HIDE DEF file
        <4>4. QED
          BY <2>2, <4>2, <4>3, FileChanges
      <3>2. CASE Current(p).how # "replace"
        BY <1>1, <2>2, <2>6, <3>2, FileChanges DEF FailToWrite
      <3>3. QED
        BY <3>1, <3>2
    <2>7. QED
      BY <2>1, <2>3, <2>4, <2>5, <2>6
  <1>4. ASSUME NEW name \in Kept, TakeAway(name) PROVE FilesAreRecords'
    BY <1>1, <1>4, KeptIsKept, FileChanges DEF TakeAway
  <1>5. QED
    BY <1>2, <1>3, <1>4 DEF Next, vars

-----------------------------------------------------------------------------
(* The commands keep to their names.                                       *)

(* What a process that is at a file writes to is still left to it.         *)
LEMMA CurrentIsLeft ==
    ASSUME ProcessesOK, NEW p \in Processes, proc[p].at \in {"open", "write", "chmod"}
    PROVE  /\ ProcessOK(proc[p]) /\ proc[p].left \in Seq(Writes) /\ Len(proc[p].left) > 0
           /\ Current(p) = Head(proc[p].left)
           /\ Current(p).name \in NamesLeft(proc[p].left)
  <1>1. ProcessOK(proc[p]) /\ proc[p].left \in Seq(Writes) /\ Len(proc[p].left) > 0
    BY CurrentIsPlanned DEF ProcessesOK, ProcessOK
  <1>2. QED
    BY <1>1, TailLeavesNames DEF Current

(* A process at a file of a build, or of a key pair, runs that command.    *)
LEMMA JobOfName ==
    ASSUME ProcessesOK, JobsOK, NEW p \in Processes,
           proc[p].at \in {"open", "write", "chmod"}
    PROVE  /\ Current(p).name \in BuildNames => proc[p].job = "build"
           /\ Current(p).name \in PairNames => proc[p].job = "keygen"
           /\ proc[p].job = "build" => Current(p).name \in BuildNames
           /\ proc[p].job = "keygen" => Current(p).name \in PairNames
           /\ proc[p].job \in {"build", "keygen"} => Current(p).how # "overwrite"
  <1>1. Current(p).name \in NamesLeft(proc[p].left) /\ JobOK(proc[p])
    BY CurrentIsLeft DEF JobsOK
  <1>2. /\ proc[p].job = "build" => Current(p).name \in BuildNames
        /\ proc[p].job = "keygen" => Current(p).name \in PairNames
        /\ proc[p].job \in {"none", "extract"} => Current(p).name = Out
        /\ proc[p].job \in {"none", "build", "keygen", "extract"}
    BY <1>1, ShortPlans DEF JobOK
  <1>3. Current(p).how = "overwrite" => Current(p).name = Out
    BY CurrentIsPlanned DEF AsPlanned
  <1>4. QED
    BY <1>2, <1>3, NamesAreDistinct

(* A command writes under its own names until it ends.                     *)
LEMMA JobsStay ==
    ASSUME ProcessesOK, JobsOK, [Next]_vars
    PROVE  JobsOK'
  <1>1. JobOK(Idle)
    <2>1. Idle.job = "none" /\ Idle.left = <<>>
      BY DEF Idle
    <2>2. QED
      BY <2>1, ShortPlans DEF JobOK
  <1>2. ASSUME NEW p \in Processes, Step(p), NEW q \in Processes \ {p} PROVE JobOK(proc'[q])
    <2>1. /\ proc'[q].job = proc[q].job /\ proc'[q].at = proc[q].at
          /\ proc'[q].left = proc[q].left
      BY <1>2, OthersGoOn
    <2>2. QED
      BY <2>1 DEF JobsOK, JobOK
  <1>3. ASSUME NEW p \in Processes, Step(p) PROVE JobOK(proc'[p])
    <2>1. DOMAIN proc[p] = DOMAIN Idle /\ JobOK(proc[p])
      BY DEF ProcessesOK, ProcessOK, JobsOK
    <2>2. CASE Build(p)
      <3>1. proc'[p] = Started("build", begun + 1, "open", BuildPlan, Busy("build") = {})
        BY <1>3, <2>2, OwnProcess
      <3>2. proc'[p].job = "build" /\ proc'[p].left = BuildPlan
        BY <3>1, StartedFields
      <3>3. QED
        BY <3>2, BuildWritesItsNames DEF JobOK
    <2>3. CASE Keygen(p)
      <3>1. proc'[p] = Started("keygen", begun + 1, "open", KeygenPlan, FALSE)
        BY <1>3, <2>3, OwnProcess
      <3>2. proc'[p].job = "keygen" /\ proc'[p].at = "open" /\ proc'[p].left = KeygenPlan
        BY <3>1 DEF Started
      <3>3. QED
        BY <3>2 DEF JobOK
    <2>4. ASSUME NEW name \in Documents, ReadDocument(p, name) PROVE JobOK(proc'[p])
      <3>1. proc'[p] = Started("extract", files[name].of, "shares", ExtractPlan, FALSE)
        BY <1>3, <2>4, OwnProcess
      <3>2. proc'[p].job = "extract" /\ proc'[p].left = ExtractPlan
        BY <3>1 DEF Started
      <3>3. QED
        BY <3>2, ShortPlans DEF JobOK
    <2>5. CASE ReadShares(p) \/ Open(p)
      <3>1. \/ proc'[p] = Idle
            \/ /\ proc'[p].job = proc[p].job /\ proc'[p].left = proc[p].left
               /\ proc'[p].at \in {"open", "write"}
        BY <1>3, <2>1, <2>5, OwnProcess DEF Idle
      <3>2. QED
        BY <1>1, <2>1, <3>1 DEF JobOK
    <2>6. CASE Write(p) /\ Current(p).how = "overwrite"
      <3>1. proc'[p].job = proc[p].job /\ proc'[p].left = proc[p].left
        BY <1>3, <2>1, <2>6, OwnProcess DEF Idle
      <3>2. proc[p].job # "keygen"
        BY <2>6, JobOfName DEF Write
      <3>3. QED
        BY <2>1, <3>1, <3>2 DEF JobOK
    <2>7. CASE Chmod(p) \/ (Write(p) /\ Current(p).how # "overwrite")
      <3>1. proc[p].at \in {"open", "write", "chmod"} /\ proc'[p] = Proceed(proc[p])
        BY <1>3, <2>7, OwnProcess DEF Write, Chmod
      <3>2. /\ ProcessOK(proc[p]) /\ proc[p].left \in Seq(Writes) /\ Len(proc[p].left) > 0
        BY <3>1, CurrentIsLeft
      <3>3. CASE Len(proc[p].left) = 1
        BY <1>1, <3>1, <3>2, <3>3, ProceedFields
      <3>4. CASE Len(proc[p].left) # 1
        <4>1. /\ proc'[p].job = proc[p].job /\ proc'[p].at = "open"
              /\ proc'[p].left = Tail(proc[p].left)
          <5>1. /\ Proceed(proc[p]).job = proc[p].job /\ Proceed(proc[p]).at = "open"
                /\ Proceed(proc[p]).left = Tail(proc[p].left)
            BY <3>2, <3>4, ProceedFields
          <5>2. QED
            BY <3>1, <5>1
        <4>2. NamesLeft(proc'[p].left) \subseteq NamesLeft(proc[p].left)
          BY <3>2, <4>1, TailLeavesNames
        <4>3. proc[p].job = "keygen" => proc[p].left = KeygenPlan /\ proc'[p].left = PubPlan
          BY <2>1, <3>4, <4>1, ShortPlans DEF JobOK
        <4>4. QED
          BY <2>1, <4>1, <4>2, <4>3 DEF JobOK
      <3>5. QED
        BY <3>3, <3>4
    <2>8. CASE Refuse(p) \/ ChmodFails(p) \/ FailToWrite(p) \/ Kill(p)
      BY <1>1, <1>3, <2>8, OwnProcess
    <2>9. QED
      BY <1>3, <2>2, <2>3, <2>4, <2>5, <2>6, <2>7, <2>8 DEF Step
  <1>4. CASE proc' = proc
    BY <1>4 DEF JobsOK, JobOK
  <1>5. ASSUME NEW p \in Processes, Step(p) PROVE JobsOK'
    <2>1. \A q \in Processes : JobOK(proc'[q])
      BY <1>2, <1>3, <1>5
    <2>2. QED
      BY <2>1 DEF JobsOK, JobOK
  <1>6. QED
    BY <1>4, <1>5 DEF Next, TakeAway, vars

-----------------------------------------------------------------------------
(* Builds.                                                                 *)

(* A step of another command leaves documents and shares as they are.      *)
LEMMA OtherCommandsLeaveBuilds ==
    ASSUME ProcessesOK, FilesOK, JobsOK, NEW p \in Processes, Step(p), proc[p].job # "build"
    PROVE  /\ \A name \in BuildNames : files'[name] = files[name]
           /\ ~Build(p) => opens' = opens
           /\ Build(p) \/ proc'[p].job # "build"
  <1>1. ASSUME NEW name \in BuildNames PROVE files'[name] = files[name]
    <2>1. name \in Names
      BY NamesAreDistinct
    <2>2. proc[p].at \in {"open", "write", "chmod"} => Current(p).name # name
      BY JobOfName
    <2>3. QED
      BY <2>1, <2>2, OtherFilesStay
  <1>2. ~Build(p) => opens' = opens
    BY HistoryMoves DEF historyVars, Report
  <1>3. Build(p) \/ proc'[p].job # "build"
    <2>1. DOMAIN proc[p] = DOMAIN Idle /\ Idle.job = "none"
      BY DEF ProcessesOK, ProcessOK, Idle
    <2>2. CASE Keygen(p)
      <3>1. proc'[p] = Started("keygen", begun + 1, "open", KeygenPlan, FALSE)
        BY <2>2, OwnProcess
      <3>2. proc'[p].job = "keygen"
        BY <3>1 DEF Started
      <3>3. QED
        BY <3>2
    <2>3. ASSUME NEW name \in Documents, ReadDocument(p, name) PROVE proc'[p].job # "build"
      <3>1. proc'[p] = Started("extract", files[name].of, "shares", ExtractPlan, FALSE)
        BY <2>3, OwnProcess
      <3>2. proc'[p].job = "extract"
        BY <3>1 DEF Started
      <3>3. QED
        BY <3>2
    <2>4. CASE ReadShares(p) \/ Open(p) \/ (Write(p) /\ Current(p).how = "overwrite")
      <3>1. proc'[p] = Idle \/ proc'[p].job = proc[p].job
        BY <2>1, <2>4, OwnProcess DEF Idle
      <3>2. QED
        BY <2>1, <3>1
    <2>5. CASE Chmod(p) \/ (Write(p) /\ Current(p).how # "overwrite")
      <3>1. ProcessOK(proc[p]) /\ Len(proc[p].left) > 0 /\ proc'[p] = Proceed(proc[p])
        BY <2>5, OwnProcess, CurrentIsLeft DEF Write, Chmod
      <3>2. QED
        BY <2>1, <3>1, ProceedFields
    <2>6. CASE Refuse(p) \/ ChmodFails(p) \/ FailToWrite(p) \/ Kill(p)
      BY <2>1, <2>6, OwnProcess
    <2>7. QED
      BY <2>2, <2>3, <2>4, <2>5, <2>6 DEF Step
  <1>4. QED
    BY <1>1, <1>2, <1>3

BuildOK(p) ==
    /\ opens = 0
    /\ \A q \in Processes \ {p} : proc[q].job # "build"
    /\ \A name \in BuildNames \ NamesLeft(proc[p].left) : Held(name, proc[p].number)
    /\ proc[p].at = "write" => proc[p].linked /\ files[Current(p).name].state = "torn"

(* A build that is alone loses nothing to a step of another process.       *)
LEMMA BuildGoesOn ==
    ASSUME ProcessesOK, FilesOK, JobsOK, BuildsOK, NEW p \in Processes, Step(p),
           NEW r \in Processes \ {p}, Alone(r)'
    PROVE  BuildOK(r)'
  <1>1. /\ proc'[r].job = proc[r].job /\ proc'[r].number = proc[r].number
        /\ proc'[r].at = proc[r].at /\ proc'[r].left = proc[r].left
        /\ ~Build(p)
    BY OthersGoOn DEF Alone
  <1>2. Alone(r)
    BY <1>1, OthersGoOn DEF Alone
  <1>3. BuildOK(r)
    BY <1>2 DEF BuildsOK, BuildOK
  <1>4. proc[p].job # "build"
    BY <1>3 DEF BuildOK
  <1>5. /\ \A name \in BuildNames : files'[name] = files[name]
        /\ opens' = opens /\ proc'[p].job # "build"
    BY <1>1, <1>4, OtherCommandsLeaveBuilds
  <1>6. ASSUME NEW q \in Processes \ {r} PROVE proc'[q].job # "build"
    <2>1. CASE q = p
      BY <1>5, <2>1
    <2>2. CASE q # p
      BY <1>3, <2>2, OthersGoOn DEF BuildOK
    <2>3. QED
      BY <2>1, <2>2
  <1>7. \A name \in BuildNames \ NamesLeft(proc'[r].left) : Held(name, proc[r].number)'
    BY <1>1, <1>3, <1>5 DEF BuildOK, Held
  <1>8. ASSUME proc'[r].at = "write"
        PROVE  proc'[r].linked /\ files'[Current(r)'.name].state = "torn"
    <2>1. /\ proc[r].at = "write" /\ proc[r].linked
          /\ files[Current(r).name].state = "torn" /\ Current(r)' = Current(r)
      BY <1>1, <1>3, <1>8 DEF BuildOK, Current
    <2>2. Current(r).name \in BuildNames
      BY <1>2, <2>1, JobOfName DEF Alone
    <2>3. proc[p].at = "write" => Current(p).name # Current(r).name
      BY <1>4, <2>2, JobOfName
    <2>4. proc'[r].linked
      BY <2>1, <2>3, OthersGoOn
    <2>5. QED
      BY <1>5, <2>1, <2>2, <2>4
  <1>9. QED
    BY <1>1, <1>3, <1>5, <1>6, <1>7, <1>8 DEF BuildOK, Held

(* A keygen or an extract that begins is no build.                         *)
LEMMA ReadersAreNoBuilds ==
    ASSUME ProcessesOK, NEW p \in Processes,
           Keygen(p) \/ \E name \in Documents : ReadDocument(p, name)
    PROVE  proc'[p].job # "build"
  <1>1. CASE Keygen(p)
    <2>1. proc'[p] = Started("keygen", begun + 1, "open", KeygenPlan, FALSE)
      BY <1>1 DEF Keygen, ProcessesOK
    <2>2. proc'[p].job = "keygen"
      BY <2>1 DEF Started
    <2>3. QED
      BY <2>2
  <1>2. ASSUME NEW name \in Documents, ReadDocument(p, name) PROVE proc'[p].job # "build"
    <2>1. proc'[p] = Started("extract", files[name].of, "shares", ExtractPlan, FALSE)
      BY <1>2 DEF ReadDocument, ProcessesOK
    <2>2. proc'[p].job = "extract"
      BY <2>1 DEF Started
    <2>3. QED
      BY <2>2
  <1>3. QED
    BY <1>1, <1>2

(* The file of a build that is alone is whole when it is written: no other *)
(* has it open.                                                            *)
LEMMA OwnFileIsWritten ==
    ASSUME ProcessesOK, FilesOK, JobsOK, NEW p \in Processes, Write(p), Alone(p), BuildOK(p)
    PROVE  /\ files'[Current(p).name].state = "whole"
           /\ files'[Current(p).name].of = proc[p].number
  <1>1. /\ proc[p].at = "write" /\ Current(p).name \in Names
        /\ Current(p).name \in BuildNames
    BY CurrentIsPlanned, JobOfName DEF Write, Alone
  <1>2. proc[p].linked /\ files[Current(p).name].state = "torn"
    BY <1>1 DEF BuildOK
  <1>3. ASSUME NEW q \in Processes \ {p}, proc[q].at = "write",
               Current(q).name = Current(p).name
        PROVE  FALSE
    <2>1. proc[q].job = "build"
      BY <1>1, <1>3, JobOfName
    <2>2. QED
      BY <2>1 DEF BuildOK
  <1>4. ~Contested(p)
    BY <1>2, <1>3 DEF Contested
  <1>5. QED
    BY <1>1, <1>2, <1>4, WriteMakes

(* A build that is alone, and keeps being the one: what it has behind it   *)
(* is whole and its own.                                                   *)
LEMMA OwnBuildGoesOn ==
    ASSUME ProcessesOK, FilesOK, SecretsOK, JobsOK, BuildsOK, NEW p \in Processes, Step(p),
           Alone(p)'
    PROVE  BuildOK(p)'
  <1>1. DOMAIN proc[p] = DOMAIN Idle /\ Idle.job = "none"
    BY DEF ProcessesOK, ProcessOK, Idle
  <1>2. proc'[p].job = "build" /\ proc'[p] # Idle
    BY <1>1 DEF Alone
  <1>3. CASE Build(p)
    <2>1. proc'[p] = Started("build", begun + 1, "open", BuildPlan, Busy("build") = {})
      BY <1>3, OwnProcess
    <2>2. proc'[p].at = "open" /\ proc'[p].left = BuildPlan
      BY <2>1, StartedFields
    <2>3. Busy("build") = {}
      <3>1. proc'[p].alone = (Busy("build") = {})
        BY <2>1, StartedFields
      <3>2. QED
        BY <3>1 DEF Alone
    <2>4. \A q \in Processes \ {p} : proc'[q].job # "build"
      BY <2>3, OthersGoOn DEF Busy
    <2>5. opens' = 0
      BY <1>3 DEF Build
    <2>6. \A name \in BuildNames \ NamesLeft(proc'[p].left) : FALSE
      BY <2>2, BuildWritesItsNames
    <2>7. QED
      BY <2>2, <2>4, <2>5, <2>6 DEF BuildOK
  <1>4. ASSUME ~Build(p), proc'[p].job = proc[p].job, proc'[p].alone = proc[p].alone
        PROVE  /\ Alone(p) /\ BuildOK(p)
               /\ \A q \in Processes \ {p} : proc'[q].job # "build"
    <2>1. Alone(p)
      BY <1>4 DEF Alone
    <2>2. BuildOK(p)
      BY <2>1 DEF BuildsOK, BuildOK
    <2>3. \A q \in Processes \ {p} : proc'[q].job # "build"
      BY <2>2, OthersGoOn DEF BuildOK
    <2>4. QED
      BY <2>1, <2>2, <2>3
  <1>5. CASE ReadShares(p)
    <2>1. /\ proc'[p].job = proc[p].job /\ proc'[p].left = proc[p].left
          /\ proc'[p].number = proc[p].number /\ proc'[p].at = "open"
      BY <1>1, <1>2, <1>5, OwnProcess DEF Idle
    <2>2. proc'[p].alone = proc[p].alone
      BY <1>1, <1>2, <1>5, OwnProcess DEF Idle
    <2>3. ~Build(p) /\ files' = files /\ opens' = opens
      BY <1>5 DEF ReadShares, Build, Idle, historyVars
    <2>4. BuildOK(p) /\ \A q \in Processes \ {p} : proc'[q].job # "build"
      BY <1>4, <2>1, <2>2, <2>3
    <2>5. QED
      BY <2>1, <2>3, <2>4 DEF BuildOK, Held
  <1>6. CASE Open(p)
    <2>1. /\ proc'[p].job = proc[p].job /\ proc'[p].left = proc[p].left
          /\ proc'[p].number = proc[p].number /\ proc'[p].at = "write"
      BY <1>1, <1>6, OwnProcess DEF Idle
    <2>2. proc'[p].alone = proc[p].alone
      BY <1>1, <1>6, OwnProcess DEF Idle
    <2>3. proc'[p].linked
      BY <1>1, <1>6, OwnProcess DEF Idle
    <2>4. ~Build(p) /\ opens' = opens /\ proc[p].at = "open"
      BY <1>6 DEF Open, Build, Idle, historyVars
    <2>5. Alone(p) /\ BuildOK(p) /\ \A q \in Processes \ {p} : proc'[q].job # "build"
      BY <1>4, <2>1, <2>2, <2>4
    <2>6. Current(p).name \in Names /\ Current(p).name \in NamesLeft(proc[p].left)
      BY <2>4, CurrentIsPlanned, CurrentIsLeft
    <2>7. files'[Current(p).name].state = "torn" /\ Current(p)' = Current(p)
      BY <1>6, <2>1, <2>6, OpenMakes DEF Current
    <2>8. \A name \in BuildNames \ NamesLeft(proc[p].left) : files'[name] = files[name]
      BY <1>6, <2>6, NamesAreDistinct, OtherFilesStay
    <2>9. \A name \in BuildNames \ NamesLeft(proc'[p].left) : Held(name, proc[p].number)'
      BY <2>1, <2>5, <2>8 DEF BuildOK, Held
    <2>10. QED
      BY <2>1, <2>3, <2>4, <2>5, <2>7, <2>9 DEF BuildOK, Held
  <1>7. CASE Write(p) /\ Current(p).how # "overwrite"
    <2>1. /\ proc[p].at = "write" /\ ProcessOK(proc[p]) /\ proc[p].left \in Seq(Writes)
          /\ Len(proc[p].left) > 0 /\ proc'[p] = Proceed(proc[p])
          /\ Current(p) = Head(proc[p].left) /\ Current(p).name \in Names
      BY <1>7, OwnProcess, CurrentIsLeft, CurrentIsPlanned DEF Write
    <2>2. Len(proc[p].left) # 1
      BY <1>2, <2>1, ProceedFields
    <2>3. /\ proc'[p].job = proc[p].job /\ proc'[p].number = proc[p].number
          /\ proc'[p].at = "open" /\ proc'[p].left = Tail(proc[p].left)
      <3>1. /\ Proceed(proc[p]).job = proc[p].job /\ Proceed(proc[p]).number = proc[p].number
            /\ Proceed(proc[p]).at = "open" /\ Proceed(proc[p]).left = Tail(proc[p].left)
        BY <2>1, <2>2, ProceedFields
      <3>2. QED
        BY <2>1, <3>1
    <2>4. proc'[p].alone = proc[p].alone
      <3>1. Proceed(proc[p]).alone = proc[p].alone
        BY <2>1, <2>2, ProceedFields
      <3>2. QED
        BY <2>1, <3>1
    <2>5. ~Build(p) /\ opens' = opens
      BY <1>7, <2>2 DEF Write, Report, Build, Idle
    <2>6. Alone(p) /\ BuildOK(p) /\ \A q \in Processes \ {p} : proc'[q].job # "build"
      BY <1>4, <2>3, <2>4, <2>5
    <2>7. /\ files'[Current(p).name].state = "whole"
          /\ files'[Current(p).name].of = proc[p].number
      BY <1>7, <2>6, OwnFileIsWritten
    <2>8. \A name \in BuildNames \ {Current(p).name} : files'[name] = files[name]
      BY <1>7, <2>1, NamesAreDistinct, OtherFilesStay
    <2>9. \A name \in BuildNames \ NamesLeft(proc'[p].left) : Held(name, proc[p].number)'
      <3>1. NamesLeft(proc[p].left) \subseteq {Current(p).name} \cup NamesLeft(proc'[p].left)
        BY <2>1, <2>3, TailLeavesNames
      <3>2. QED
        BY <2>3, <2>6, <2>7, <2>8, <3>1 DEF BuildOK, Held
    <2>10. QED
      BY <2>3, <2>5, <2>6, <2>9 DEF BuildOK, Held
  <1>8. CASE Keygen(p) \/ \E name \in Documents : ReadDocument(p, name)
    BY <1>2, <1>8, ReadersAreNoBuilds
  <1>9. CASE Chmod(p) \/ (Write(p) /\ Current(p).how = "overwrite")
    <2>1. proc[p].at \in {"open", "write", "chmod"} /\ Current(p).how = "overwrite"
      BY <1>9, CurrentIsPlanned DEF Chmod, Write
    <2>2. proc[p].job # "build" /\ ~Build(p)
      BY <2>1, JobOfName DEF Build, Idle
    <2>3. QED
      BY <1>2, <2>2, OtherCommandsLeaveBuilds
  <1>10. CASE Refuse(p) \/ ChmodFails(p) \/ FailToWrite(p) \/ Kill(p)
    BY <1>2, <1>10, OwnProcess
  <1>11. QED
    BY <1>3, <1>5, <1>6, <1>7, <1>8, <1>9, <1>10 DEF Step

(* What a build that reports leaves, and what the other commands leave of  *)
(* it.                                                                     *)
LEMMA ReportedBuildsStay ==
    ASSUME ProcessesOK, FilesOK, JobsOK, BuildsOK, NEW p \in Processes, Step(p), opens' # 0
    PROVE  /\ \A q \in Processes : proc'[q].job # "build"
           /\ \A name \in BuildNames : Held(name, opens)'
  <1>1. ~Build(p)
    BY DEF Build
  <1>2. \A q \in Processes \ {p} : proc'[q].job = proc[q].job
    BY OthersGoOn
  <1>3. CASE opens # 0
    <2>1. /\ \A q \in Processes : proc[q].job # "build"
          /\ \A name \in BuildNames : Held(name, opens)
      BY <1>3 DEF BuildsOK
    <2>2. /\ \A name \in BuildNames : files'[name] = files[name]
          /\ opens' = opens /\ proc'[p].job # "build"
      BY <1>1, <2>1, OtherCommandsLeaveBuilds
    <2>3. QED
      BY <1>2, <2>1, <2>2 DEF Held
  <1>4. CASE opens = 0
    <2>1. /\ Chmod(p) \/ (Write(p) /\ Current(p).how # "overwrite")
          /\ Report(p, Len(proc[p].left))
      BY <1>1, <1>4, HistoryMoves DEF historyVars
    <2>2. Len(proc[p].left) = 1 /\ Alone(p) /\ opens' = proc[p].number
      BY <1>4, <2>1 DEF Report, Alone
    <2>3. BuildOK(p)
      BY <2>2 DEF BuildsOK, BuildOK
    <2>4. /\ proc[p].at \in {"open", "write", "chmod"} /\ proc[p].left \in Seq(Writes)
          /\ ProcessOK(proc[p]) /\ Len(proc[p].left) > 0
          /\ Current(p) = Head(proc[p].left) /\ Current(p).name \in Names
      BY <2>1, CurrentIsLeft, CurrentIsPlanned DEF Chmod, Write
    <2>5. Write(p)
      <3>1. proc[p].at # "chmod"
        BY <2>2, <2>4, JobOfName, CurrentIsPlanned DEF Alone
      <3>2. QED
        BY <2>1, <3>1 DEF Chmod
    <2>6. proc'[p].job # "build"
      <3>1. proc'[p] = Proceed(proc[p]) /\ Proceed(proc[p]) = Idle
        BY <2>1, <2>2, <2>4, OwnProcess, ProceedFields
      <3>2. Idle.job = "none"
        BY DEF Idle
      <3>3. QED
        BY <3>1, <3>2
    <2>7. \A q \in Processes : proc'[q].job # "build"
      BY <1>2, <2>3, <2>6 DEF BuildOK
    <2>8. /\ files'[Current(p).name].state = "whole"
          /\ files'[Current(p).name].of = proc[p].number
      BY <2>2, <2>3, <2>5, OwnFileIsWritten
    <2>9. \A name \in BuildNames \ {Current(p).name} :
             files'[name] = files[name] /\ Held(name, proc[p].number)
      <3>1. NamesLeft(proc[p].left) = {Current(p).name}
        BY <2>2, <2>4, LastName
      <3>2. \A name \in BuildNames \ {Current(p).name} : files'[name] = files[name]
        BY NamesAreDistinct, OtherFilesStay
      <3>3. QED
        BY <2>3, <3>1, <3>2 DEF BuildOK
    <2>10. \A name \in BuildNames : Held(name, opens)'
      BY <2>2, <2>8, <2>9 DEF Held
    <2>11. QED
      BY <2>7, <2>10
  <1>5. QED
    BY <1>3, <1>4

(* Of builds that are alone, and of those that have reported.              *)
LEMMA BuildsStay ==
    ASSUME ProcessesOK, FilesOK, SecretsOK, JobsOK, BuildsOK, [Next]_vars
    PROVE  BuildsOK'
  <1>1. ASSUME NEW p \in Processes, Step(p) PROVE BuildsOK'
    <2>1. \A q \in Processes : Alone(q)' => BuildOK(q)'
      BY <1>1, BuildGoesOn, OwnBuildGoesOn
    <2>2. opens' # 0 => /\ \A q \in Processes : proc'[q].job # "build"
                        /\ \A name \in BuildNames : Held(name, opens)'
      BY <1>1, ReportedBuildsStay
    <2>3. QED
      BY <2>1, <2>2 DEF BuildsOK, BuildOK, Held
  <1>2. ASSUME NEW taken \in Kept, TakeAway(taken) PROVE BuildsOK'
    <2>1. \A q \in Processes : proc'[q] = Idle
      BY <1>2 DEF TakeAway
    <2>2. Idle.job = "none"
      BY DEF Idle
    <2>3. \A q \in Processes : proc'[q].job # "build"
      BY <2>1, <2>2
    <2>4. ASSUME opens' # 0 PROVE \A name \in BuildNames : Held(name, opens)'
      <3>1. taken = Key /\ opens' = opens /\ opens # 0
        BY <1>2, <2>4, NamesAreDistinct DEF TakeAway
      <3>2. Key \notin BuildNames
        BY NamesAreDistinct DEF PairNames
      <3>3. \A name \in BuildNames : files'[name] = files[name]
        BY <1>2, <3>1, <3>2, NamesAreDistinct DEF TakeAway, FilesOK
      <3>4. QED
        BY <3>1, <3>3 DEF BuildsOK, Held
    <2>5. QED
      BY <2>3, <2>4 DEF BuildsOK, Alone, Held
  <1>3. CASE UNCHANGED vars
    <2>1. UNCHANGED files /\ UNCHANGED proc /\ UNCHANGED opens
      BY <1>3 DEF vars, historyVars
    <2>2. QED
      BY <2>1 DEF BuildsOK, Alone, Held, Current
  <1>4. QED
    BY <1>1, <1>2, <1>3 DEF Next

-----------------------------------------------------------------------------
(* Key pairs.                                                              *)

(* A keygen that has made its key has the key or the public key at hand.   *)
LEMMA KeyMadeIsAt ==
    ASSUME ProcessesOK, JobsOK, NEW p \in Processes, KeyMade(p)
    PROVE  /\ proc[p].at \in {"open", "write"}
           /\ Current(p).name \in PairNames
           /\ Current(p).name = Pub => proc[p].left = PubPlan
           /\ Current(p).name = Key => proc[p].left = KeygenPlan /\ proc[p].at = "write"
  <1>1. proc[p].at \in {"open", "write"} /\ proc[p].left \in {KeygenPlan, PubPlan}
    BY DEF JobsOK, JobOK, KeyMade
  <1>2. proc[p].left = KeygenPlan => Current(p).name = Key
    BY ShortPlans DEF Current
  <1>3. proc[p].left = PubPlan => Current(p).name = Pub
    BY ShortPlans DEF Current
  <1>4. QED
    BY <1>1, <1>2, <1>3, NamesAreDistinct DEF PairNames, KeyMade

(* Only a keygen that begins becomes one.                                  *)
LEMMA KeygensBegin ==
    ASSUME ProcessesOK, NEW p \in Processes, Step(p), ~Keygen(p), proc[p].job # "keygen"
    PROVE  proc'[p].job # "keygen"
  <1>1. DOMAIN proc[p] = DOMAIN Idle /\ Idle.job = "none"
    BY DEF ProcessesOK, ProcessOK, Idle
  <1>2. CASE Build(p)
    <2>1. proc'[p] = Started("build", begun + 1, "open", BuildPlan, Busy("build") = {})
      BY <1>2, OwnProcess
    <2>2. proc'[p].job = "build"
      BY <2>1, StartedFields
    <2>3. QED
      BY <2>2
  <1>3. ASSUME NEW name \in Documents, ReadDocument(p, name) PROVE proc'[p].job # "keygen"
    <2>1. proc'[p] = Started("extract", files[name].of, "shares", ExtractPlan, FALSE)
      BY <1>3, OwnProcess
    <2>2. proc'[p].job = "extract"
      BY <2>1 DEF Started
    <2>3. QED
      BY <2>2
  <1>4. CASE ReadShares(p) \/ Open(p) \/ (Write(p) /\ Current(p).how = "overwrite")
    <2>1. proc'[p] = Idle \/ proc'[p].job = proc[p].job
      BY <1>1, <1>4, OwnProcess DEF Idle
    <2>2. QED
      BY <1>1, <2>1
  <1>5. CASE Chmod(p) \/ (Write(p) /\ Current(p).how # "overwrite")
    <2>1. ProcessOK(proc[p]) /\ Len(proc[p].left) > 0 /\ proc'[p] = Proceed(proc[p])
      BY <1>5, OwnProcess, CurrentIsLeft DEF Write, Chmod
    <2>2. QED
      BY <1>1, <2>1, ProceedFields
  <1>6. CASE Refuse(p) \/ ChmodFails(p) \/ FailToWrite(p) \/ Kill(p)
    BY <1>1, <1>6, OwnProcess
  <1>7. QED
    BY <1>2, <1>3, <1>4, <1>5, <1>6 DEF Step

PairOK(p) ==
    /\ paired = 0
    /\ \A q \in Processes \ {p} : ~KeyMade(q)
    /\ Current(p).name = Pub => Held(Key, proc[p].number)
    /\ proc[p].at = "write" => proc[p].linked /\ files[Current(p).name].state = "torn"

(* Where a key is on disk, no keygen makes one.                            *)
LEMMA KeyIsMadeOnce ==
    ASSUME ProcessesOK, FilesOK, JobsOK, NEW p \in Processes, Step(p), ~KeyMade(p),
           Exists(Key)
    PROVE  /\ ~KeyMade(p)' /\ paired' = paired
           /\ \A name \in PairNames : files'[name] = files[name]
  <1>1. DOMAIN proc[p] = DOMAIN Idle /\ Idle.job = "none"
    BY DEF ProcessesOK, ProcessOK, Idle
  <1>2. ASSUME proc[p].at \in {"open", "write", "chmod"}, Current(p).name \in PairNames
        PROVE  /\ proc[p].job = "keygen" /\ proc[p].at = "open" /\ Current(p).name = Key
               /\ Current(p).how = "exclusive"
    <2>1. proc[p].job = "keygen"
      BY <1>2, JobOfName
    <2>2. proc[p].at = "open" /\ Current(p).name = Key
      BY <1>2, <2>1 DEF KeyMade, JobsOK, JobOK, PairNames
    <2>3. QED
      BY <1>2, <2>1, <2>2, CurrentIsPlanned, NamesAreDistinct DEF AsPlanned
  <1>3. ASSUME proc[p].at \in {"open", "write", "chmod"}, Current(p).name \in PairNames
        PROVE  files' = files /\ proc'[p] = Idle /\ UNCHANGED paired
    <2>1. ~Open(p)
      BY <1>2, <1>3 DEF Open
    <2>2. proc[p].at = "open"
      BY <1>2, <1>3
    <2>3. proc[p] # Idle
      BY <2>2 DEF Idle
    <2>4. Refuse(p) \/ Kill(p)
      BY <2>1, <2>2, <2>3 DEF Step, Build, Keygen, ReadDocument, ReadShares, Write, Chmod,
                              ChmodFails, FailToWrite
    <2>5. QED
      BY <2>4, OwnProcess DEF Refuse, Kill, historyVars
  <1>4. \A name \in PairNames : files'[name] = files[name]
    <2>1. PairNames \subseteq Names
      BY NamesAreDistinct
    <2>2. QED
      BY <1>3, <2>1, OtherFilesStay
  <1>5. paired' = paired
    <2>1. CASE Report(p, Len(proc[p].left)) /\ (Write(p) \/ Chmod(p))
      <3>1. proc[p].at \in {"open", "write", "chmod"}
        BY <2>1 DEF Write, Chmod
      <3>2. proc[p].job = "keygen" => Current(p).name \in PairNames
        BY <3>1, JobOfName
      <3>3. QED
        BY <1>3, <2>1, <3>1, <3>2 DEF Report
    <2>2. CASE ~(Report(p, Len(proc[p].left)) /\ (Write(p) \/ Chmod(p)))
      BY <2>2, HistoryMoves DEF historyVars
    <2>3. QED
      BY <2>1, <2>2
  <1>6. ~KeyMade(p)'
    <2>1. CASE proc'[p].job # "keygen"
      BY <2>1 DEF KeyMade
    <2>2. CASE Keygen(p)
      <3>1. proc'[p] = Started("keygen", begun + 1, "open", KeygenPlan, FALSE)
        BY <2>2, OwnProcess
      <3>2. proc'[p].at = "open" /\ proc'[p].left = KeygenPlan
        BY <3>1 DEF Started
      <3>3. QED
        BY <3>2, ShortPlans, NamesAreDistinct DEF KeyMade, Current
    <2>3. CASE proc[p].job = "keygen" /\ ~Keygen(p)
      <3>1. proc[p].at \in {"open", "write", "chmod"} /\ Current(p).name \in PairNames
        BY <2>3, JobOfName DEF JobsOK, JobOK
      <3>2. QED
        BY <1>1, <1>3, <3>1 DEF KeyMade
    <2>4. CASE proc[p].job # "keygen" /\ ~Keygen(p)
      BY <2>1, <2>4, KeygensBegin
    <2>5. QED
      BY <2>2, <2>3, <2>4
  <1>7. QED
    BY <1>4, <1>5, <1>6

(* The others are where they were.                                         *)
LEMMA OthersKeepKeys ==
    ASSUME ProcessesOK, NEW p \in Processes, Step(p), NEW q \in Processes \ {p}
    PROVE  KeyMade(q)' <=> KeyMade(q)
  BY OthersGoOn DEF KeyMade, Current

(* Who has made a key has it on disk.                                      *)
LEMMA MadeKeyExists ==
    ASSUME ProcessesOK, JobsOK, PairsOK, NEW p \in Processes, KeyMade(p)
    PROVE  Exists(Key) /\ PairOK(p)
  <1>1. PairOK(p)
    BY DEF PairsOK, PairOK
  <1>2. Current(p).name = Pub \/ (Current(p).name = Key /\ proc[p].at = "write")
    BY KeyMadeIsAt DEF PairNames
  <1>3. QED
    BY <1>1, <1>2 DEF PairOK, Held, Exists

(* The file of a keygen that has made its key is whole when it is written. *)
LEMMA OwnKeyIsWritten ==
    ASSUME ProcessesOK, FilesOK, JobsOK, PairsOK, NEW p \in Processes, Write(p), KeyMade(p)
    PROVE  /\ files'[Current(p).name].state = "whole"
           /\ files'[Current(p).name].of = proc[p].number
  <1>1. /\ proc[p].at = "write" /\ Current(p).name \in Names
        /\ Current(p).name \in PairNames /\ PairOK(p)
    BY CurrentIsPlanned, KeyMadeIsAt, MadeKeyExists DEF Write
  <1>2. proc[p].linked /\ files[Current(p).name].state = "torn"
    BY <1>1 DEF PairOK
  <1>3. ASSUME NEW q \in Processes \ {p}, proc[q].at = "write",
               Current(q).name = Current(p).name
        PROVE  FALSE
    <2>1. KeyMade(q)
      BY <1>1, <1>3, JobOfName DEF KeyMade
    <2>2. QED
      BY <1>1, <2>1 DEF PairOK
  <1>4. ~Contested(p)
    BY <1>2, <1>3 DEF Contested
  <1>5. QED
    BY <1>1, <1>2, <1>4, WriteMakes

(* A keygen that has made its key loses nothing to a step of another.      *)
LEMMA PairGoesOn ==
    ASSUME ProcessesOK, FilesOK, JobsOK, PairsOK, NEW p \in Processes, Step(p),
           NEW r \in Processes \ {p}, KeyMade(r)'
    PROVE  PairOK(r)'
  <1>1. /\ proc'[r].job = proc[r].job /\ proc'[r].number = proc[r].number
        /\ proc'[r].at = proc[r].at /\ proc'[r].left = proc[r].left
        /\ Current(r)' = Current(r)
    BY OthersGoOn DEF Current
  <1>2. KeyMade(r) /\ PairOK(r) /\ Exists(Key)
    BY OthersKeepKeys, MadeKeyExists
  <1>3. ~KeyMade(p)
    BY <1>2 DEF PairOK
  <1>4. /\ ~KeyMade(p)' /\ paired' = paired
        /\ \A name \in PairNames : files'[name] = files[name]
    BY <1>2, <1>3, KeyIsMadeOnce
  <1>5. \A q \in Processes \ {r} : ~KeyMade(q)'
    BY <1>2, <1>4, OthersKeepKeys DEF PairOK
  <1>6. Current(r).name = Pub => Held(Key, proc[r].number)'
    BY <1>1, <1>2, <1>4 DEF PairOK, Held, PairNames
  <1>7. ASSUME proc[r].at = "write"
        PROVE  proc'[r].linked /\ files'[Current(r).name].state = "torn"
    <2>1. proc[r].linked /\ files[Current(r).name].state = "torn"
      BY <1>2, <1>7 DEF PairOK
    <2>2. Current(r).name \in PairNames
      BY <1>2, KeyMadeIsAt
    <2>3. ~(proc[p].at = "write" /\ Current(p).name = Current(r).name)
      BY <1>3, <2>2, JobOfName DEF KeyMade
    <2>4. proc'[r].linked
      BY <2>1, <2>3, OthersGoOn
    <2>5. QED
      BY <1>4, <2>1, <2>2, <2>4
  <1>8. QED
    BY <1>1, <1>2, <1>4, <1>5, <1>6, <1>7 DEF PairOK

(* A keygen makes its key where there is none, and then its public key.    *)
LEMMA OwnPairGoesOn ==
    ASSUME ProcessesOK, FilesOK, JobsOK, PairsOK, NEW p \in Processes, Step(p), KeyMade(p)'
    PROVE  PairOK(p)'
  <1>1. DOMAIN proc[p] = DOMAIN Idle /\ Idle.job = "none" /\ Idle.at = "idle"
    BY DEF ProcessesOK, ProcessOK, Idle
  <1>2. ~Keygen(p) /\ proc[p].job = "keygen"
    <2>1. CASE Keygen(p)
      <3>1. proc'[p] = Started("keygen", begun + 1, "open", KeygenPlan, FALSE)
        BY <2>1, OwnProcess
      <3>2. proc'[p].at = "open" /\ proc'[p].left = KeygenPlan
        BY <3>1 DEF Started
      <3>3. QED
        BY <3>2, ShortPlans, NamesAreDistinct DEF KeyMade, Current
    <2>2. CASE ~Keygen(p)
      BY <2>2, KeygensBegin DEF KeyMade
    <2>3. QED
      BY <2>1, <2>2
  <1>3. /\ proc[p].at \in {"open", "write"} /\ proc[p].left \in {KeygenPlan, PubPlan}
        /\ Current(p).how # "overwrite" /\ Current(p).name \in Names
        /\ Current(p).name \in PairNames
    BY <1>2, JobOfName, CurrentIsPlanned DEF JobsOK, JobOK
  <1>4. Open(p) \/ Write(p)
    <2>1. proc'[p] # Idle
      BY <1>1 DEF KeyMade
    <2>2. proc[p] # Idle
      BY <1>1, <1>2
    <2>3. QED
      BY <1>2, <1>3, <2>1, <2>2, OwnProcess DEF Step, Build, ReadDocument, ReadShares, Chmod
  <1>5. \A q \in Processes \ {p} : KeyMade(q) => Exists(Key)
    BY MadeKeyExists
  <1>6. CASE Open(p)
    <2>1. /\ proc'[p].number = proc[p].number /\ proc'[p].at = "write"
          /\ proc'[p].left = proc[p].left
      BY <1>1, <1>6, OwnProcess DEF Idle
    <2>2. proc'[p].linked
      BY <1>1, <1>6, OwnProcess DEF Idle
    <2>3. Current(p)' = Current(p) /\ paired' = paired /\ proc[p].at = "open"
      BY <1>6, <2>1 DEF Current, Open, historyVars
    <2>4. files'[Current(p).name].state = "torn"
      BY <1>3, <1>6, OpenMakes
    <2>5. paired = 0 /\ \A q \in Processes \ {p} : ~KeyMade(q)
      <3>1. CASE KeyMade(p)
        BY <3>1, MadeKeyExists DEF PairOK
      <3>2. CASE ~KeyMade(p)
        <4>1. Current(p).name = Key /\ Current(p).how = "exclusive"
          BY <1>2, <1>3, <3>2, NamesAreDistinct, CurrentIsPlanned
             DEF KeyMade, PairNames, AsPlanned
        <4>2. ~Exists(Key)
          BY <1>6, <4>1 DEF Open
        <4>3. paired = 0
          BY <4>2 DEF PairsOK, Held, Exists, PairNames
        <4>4. QED
          BY <1>5, <4>2, <4>3
      <3>3. QED
        BY <3>1, <3>2
    <2>6. \A q \in Processes \ {p} : ~KeyMade(q)'
      BY <2>5, OthersKeepKeys
    <2>7. ASSUME Current(p).name = Pub PROVE Held(Key, proc[p].number)'
      <3>1. KeyMade(p)
        BY <1>2, <2>7 DEF KeyMade
      <3>2. Held(Key, proc[p].number)
        BY <2>7, <3>1, MadeKeyExists DEF PairOK
      <3>3. files'[Key] = files[Key]
        BY <1>6, <2>7, NamesAreDistinct, OtherFilesStay DEF PairNames
      <3>4. QED
        BY <2>1, <3>2, <3>3 DEF Held
    <2>8. QED
      BY <2>1, <2>2, <2>3, <2>4, <2>5, <2>6, <2>7 DEF PairOK
  <1>7. CASE Write(p)
    <2>1. proc[p].at = "write" /\ KeyMade(p)
      BY <1>2, <1>7 DEF Write, KeyMade
    <2>2. PairOK(p) /\ ProcessOK(proc[p]) /\ Len(proc[p].left) > 0
      BY <2>1, MadeKeyExists, CurrentIsLeft
    <2>3. proc'[p] = Proceed(proc[p]) /\ proc'[p] # Idle
      BY <1>1, <1>3, <1>7, OwnProcess DEF KeyMade
    <2>4. proc[p].left = KeygenPlan
      BY <1>3, <2>2, <2>3, ProceedFields, ShortPlans
    <2>5. /\ Len(proc[p].left) = 2 /\ Len(proc[p].left) # 1
          /\ Current(p).name = Key
      BY <2>4, ShortPlans DEF Current
    <2>6. /\ proc'[p].number = proc[p].number /\ proc'[p].at = "open"
      <3>1. Proceed(proc[p]).number = proc[p].number /\ Proceed(proc[p]).at = "open"
        BY <2>2, <2>5, ProceedFields
      <3>2. QED
        BY <2>3, <3>1
    <2>7. paired' = paired
      BY <1>3, <1>7, <2>5 DEF Write, Report
    <2>8. Held(Key, proc[p].number)'
      BY <1>7, <2>1, <2>5, <2>6, OwnKeyIsWritten DEF Held
    <2>9. \A q \in Processes \ {p} : ~KeyMade(q)'
      BY <2>2, OthersKeepKeys DEF PairOK
    <2>10. QED
      BY <2>2, <2>6, <2>7, <2>8, <2>9 DEF PairOK
  <1>8. QED
    BY <1>4, <1>6, <1>7

(* What a keygen that reports leaves, and what the other commands leave of *)
(* it.                                                                     *)
LEMMA ReportedPairsStay ==
    ASSUME ProcessesOK, FilesOK, JobsOK, PairsOK, NEW p \in Processes, Step(p), paired' # 0
    PROVE  /\ \A q \in Processes : ~KeyMade(q)'
           /\ \A name \in PairNames : Held(name, paired)'
  <1>1. CASE paired # 0
    <2>1. /\ \A q \in Processes : ~KeyMade(q)
          /\ \A name \in PairNames : Held(name, paired)
      BY <1>1 DEF PairsOK
    <2>2. Exists(Key)
      BY <2>1 DEF Held, Exists, PairNames
    <2>3. /\ ~KeyMade(p)' /\ paired' = paired
          /\ \A name \in PairNames : files'[name] = files[name]
      BY <2>1, <2>2, KeyIsMadeOnce
    <2>4. \A q \in Processes : ~KeyMade(q)'
      BY <2>1, <2>3, OthersKeepKeys
    <2>5. QED
      BY <2>1, <2>3, <2>4 DEF Held
  <1>2. CASE paired = 0
    <2>1. /\ Chmod(p) \/ (Write(p) /\ Current(p).how # "overwrite")
          /\ Report(p, Len(proc[p].left))
      BY <1>2, HistoryMoves DEF historyVars
    <2>2. Len(proc[p].left) = 1 /\ proc[p].job = "keygen" /\ paired' = proc[p].number
      BY <1>2, <2>1 DEF Report
    <2>3. proc[p].at = "write" /\ Write(p) /\ KeyMade(p)
      BY <2>1, <2>2 DEF Chmod, Write, KeyMade, JobsOK, JobOK
    <2>4. PairOK(p) /\ ProcessOK(proc[p]) /\ Len(proc[p].left) > 0
      BY <2>3, MadeKeyExists, CurrentIsLeft
    <2>5. Current(p).name = Pub
      <3>1. proc[p].left \in {KeygenPlan, PubPlan}
        BY <2>2 DEF JobsOK, JobOK
      <3>2. proc[p].left = PubPlan
        BY <2>2, <3>1, ShortPlans
      <3>3. QED
        BY <3>2, ShortPlans DEF Current
    <2>6. Held(Key, proc[p].number)
      BY <2>4, <2>5 DEF PairOK
    <2>7. /\ files'[Pub].state = "whole" /\ files'[Pub].of = proc[p].number
      BY <2>3, <2>5, OwnKeyIsWritten
    <2>8. files'[Key] = files[Key]
      BY <2>5, NamesAreDistinct, OtherFilesStay DEF PairNames
    <2>9. \A name \in PairNames : Held(name, paired)'
      BY <2>2, <2>6, <2>7, <2>8 DEF Held, PairNames
    <2>10. ~KeyMade(p)'
      <3>1. proc'[p] = Proceed(proc[p]) /\ Proceed(proc[p]) = Idle
        BY <2>1, <2>2, <2>4, OwnProcess, ProceedFields
      <3>2. Idle.job = "none"
        BY DEF Idle
      <3>3. QED
        BY <3>1, <3>2 DEF KeyMade
    <2>11. QED
      BY <2>4, <2>9, <2>10, OthersKeepKeys DEF PairOK
  <1>3. QED
    BY <1>1, <1>2

(* Of keygens that have made a key, and of those that have reported.       *)
LEMMA PairsStay ==
    ASSUME ProcessesOK, FilesOK, JobsOK, PairsOK, [Next]_vars
    PROVE  PairsOK'
  <1>1. ASSUME NEW p \in Processes, Step(p) PROVE PairsOK'
    <2>1. \A q \in Processes : KeyMade(q)' => PairOK(q)'
      BY <1>1, PairGoesOn, OwnPairGoesOn
    <2>2. paired' # 0 => /\ \A q \in Processes : ~KeyMade(q)'
                         /\ \A name \in PairNames : Held(name, paired)'
      BY <1>1, ReportedPairsStay
    <2>3. QED
      BY <2>1, <2>2 DEF PairsOK, PairOK
  <1>2. ASSUME NEW taken \in Kept, TakeAway(taken) PROVE PairsOK'
    <2>1. \A q \in Processes : proc'[q] = Idle
      BY <1>2 DEF TakeAway
    <2>2. Idle.job = "none"
      BY DEF Idle
    <2>3. \A q \in Processes : ~KeyMade(q)'
      BY <2>1, <2>2 DEF KeyMade
    <2>4. ASSUME paired' # 0 PROVE \A name \in PairNames : Held(name, paired)'
      <3>1. taken # Key /\ paired' = paired /\ paired # 0
        BY <1>2, <2>4 DEF TakeAway
      <3>2. \A name \in PairNames : files'[name] = files[name]
        BY <1>2, <3>1, NamesAreDistinct DEF TakeAway, FilesOK, PairNames
      <3>3. QED
        BY <3>1, <3>2 DEF PairsOK, Held
    <2>5. QED
      BY <2>3, <2>4 DEF PairsOK
  <1>3. CASE UNCHANGED vars
    <2>1. UNCHANGED files /\ UNCHANGED proc /\ UNCHANGED paired
      BY <1>3 DEF vars, historyVars
    <2>2. QED
      BY <2>1 DEF PairsOK, KeyMade, Held, Current
  <1>4. QED
    BY <1>1, <1>2, <1>3 DEF Next

-----------------------------------------------------------------------------
(* The theorems about what has reported.                                   *)

(* Nothing has begun.                                                      *)
LEMMA ReportsBeginWell == Init => ReportsOK
  <1> SUFFICES ASSUME Init PROVE ReportsOK
    OBVIOUS
  <1>1. /\ Idle.job = "none" /\ Idle.number = 0 /\ Idle.at = "idle" /\ Idle.left = <<>>
        /\ Len(Idle.left) = 0
    BY DEF Idle
  <1>2. /\ \A p \in Processes : proc[p] = Idle
        /\ begun = 0 /\ opens = 0 /\ paired = 0 /\ tightened = FALSE /\ killedAt = {}
    BY DEF Init
  <1>3. Shares \in Nat /\ MaxCommands \in Nat
    BY OutputsAssumption
  <1>4. CountersTyped
    <2>1. begun \in 0..MaxCommands /\ opens \in 0..begun /\ paired \in 0..begun
      BY <1>2, <1>3
    <2>2. tightened \in BOOLEAN
      BY <1>2
    <2>3. killedAt \subseteq Names
      BY <1>2
    <2>4. QED
      BY <2>1, <2>2, <2>3 DEF CountersTyped
  <1>5. FilesTyped
    <2>1. PICK former \in {Absent, [state |-> "whole", wide |-> TRUE, of |-> 0]} :
            files = [name \in Names |-> IF name = Out THEN former ELSE Absent]
      BY DEF Init, OfTheUser
    <2>2. former.state \in {"absent", "whole"} /\ former.of = 0
      BY DEF Absent
    <2>3. former.wide \in BOOLEAN
      <3>1. CASE former = Absent
        <4>1. former.wide = FALSE
          BY <3>1 DEF Absent
        <4>2. QED
          BY <4>1
      <3>2. CASE former = [state |-> "whole", wide |-> TRUE, of |-> 0]
        <4>1. former.wide = TRUE
          BY <3>2
        <4>2. QED
          BY <4>1
      <3>3. QED
        BY <2>1, <3>1, <3>2
    <2>4. Absent.state = "absent" /\ Absent.of = 0
      BY DEF Absent
    <2>5. Absent.wide \in BOOLEAN
      BY DEF Absent
    <2>6. ASSUME NEW name \in Names PROVE files[name] = former \/ files[name] = Absent
      BY <2>1
    <2>7. 0 \in 0..begun
      BY <1>2
    <2>8. QED
      BY <2>2, <2>3, <2>4, <2>5, <2>6, <2>7 DEF FilesTyped
  <1>6. \A p \in Processes : ProcessTyped(proc[p])
    <2>1. 0 \in 0..begun /\ 0 <= Shares + 2
      BY <1>2, <1>3
    <2>2. QED
      BY <1>1, <1>2, <2>1 DEF ProcessTyped
  <1>7. JobsOK
    BY <1>1, <1>2, ShortPlans DEF JobsOK, JobOK
  <1>8. BuildsOK /\ PairsOK
    BY <1>1, <1>2 DEF BuildsOK, PairsOK, Alone, KeyMade
  <1>9. FilesAreRecords
    <2>1. PICK former \in {Absent, [state |-> "whole", wide |-> TRUE, of |-> 0]} :
            files = [name \in Names |-> IF name = Out THEN former ELSE Absent]
      BY DEF Init, OfTheUser
    <2>2. IsRecord(Absent) /\ IsRecord([state |-> "whole", wide |-> TRUE, of |-> 0])
      BY DEF Absent, IsRecord
    <2>3. IsRecord(former)
      BY <2>1, <2>2
    <2>4. \A name \in Names : files[name] = former \/ files[name] = Absent
      BY <2>1
    <2>5. \A name \in Names : IsRecord(files[name])
      BY <2>2, <2>3, <2>4
    <2>6. files = [name \in Names |-> files[name]]
      BY <2>1
    <2>7. QED
      BY <2>5, <2>6 DEF FilesAreRecords
  <1>10. QED
    BY <1>4, <1>5, <1>6, <1>7, <1>8, <1>9 DEF ReportsOK, TypesOK

(* What is about commands under way rests on what is about secrets.        *)
LEMMA StepsKeepReports == IInv /\ ReportsOK /\ [Next]_vars => ReportsOK'
  <1> SUFFICES ASSUME IInv, ReportsOK, [Next]_vars PROVE ReportsOK'
    OBVIOUS
  <1>1. TypesOK' /\ JobsOK' /\ FilesAreRecords'
    BY TypesStay, JobsStay, RecordsStay DEF IInv, ReportsOK
  <1>2. BuildsOK' /\ PairsOK'
    BY BuildsStay, PairsStay DEF IInv, ReportsOK
  <1>3. QED
    BY <1>1, <1>2 DEF ReportsOK

(* It holds in every reachable state.                                      *)
LEMMA ReportsInvariant == Spec => []ReportsOK
  <1>1. Spec => []IInv
    BY CommandsInvariant
  <1>2. QED
    BY <1>1, ReportsBeginWell, StepsKeepReports, PTL DEF Spec

(* Every name holds a file of one of its states, and every process has a   *)
(* file left to write until it ends.                                       *)
THEOREM CommandsAreTyped == Spec => []TypeOK
  <1>1. ASSUME IInv, ReportsOK PROVE TypeOK
    <2>1. Shares \in Nat /\ MaxCommands \in Nat
      BY OutputsAssumption
    <2>2. begun \in 0..MaxCommands
      BY <1>1 DEF ReportsOK, TypesOK, CountersTyped
    <2>3. ASSUME NEW name \in Names
          PROVE  /\ files[name] \in FileStates
                 /\ files[name].state # "whole" => files[name].of = 0
      <3>1. /\ files[name].state \in {"absent", "torn", "whole"}
            /\ files[name].of \in 0..MaxCommands
            /\ files[name].state # "whole" => files[name].of = 0
        BY <1>1, <2>1, <2>2 DEF ReportsOK, TypesOK, FilesTyped
      <3>2. files[name].wide \in BOOLEAN
        BY <1>1 DEF ReportsOK, TypesOK, FilesTyped
      <3>3. IsRecord(files[name])
        BY <1>1 DEF ReportsOK, FilesAreRecords
      <3>4. files[name] \in FileStates
        BY <3>1, <3>2, <3>3 DEF FileStates, IsRecord
      <3>5. QED
        BY <3>1, <3>4
    <2>4. ASSUME NEW p \in Processes
          PROVE  /\ proc[p] # Idle => Len(proc[p].left) \in 1..(Shares + 2)
                 /\ proc[p].at \in {"idle", "shares", "open", "write", "chmod"}
                 /\ proc[p].number \in 0..begun
      <3>1. ProcessTyped(proc[p]) /\ ProcessOK(proc[p])
        BY <1>1 DEF ReportsOK, TypesOK, IInv, ProcessesOK
      <3>2. proc[p].left \in Seq(Writes) /\ Len(proc[p].left) \in Nat
        BY <3>1 DEF ProcessOK
      <3>3. proc[p] # Idle => Len(proc[p].left) > 0 /\ Len(proc[p].left) <= Shares + 2
        BY <3>1 DEF ProcessTyped, ProcessOK
      <3>4. QED
        BY <2>1, <3>1, <3>2, <3>3 DEF ProcessTyped
    <2>5. files \in [Names -> FileStates]
      BY <1>1, <2>3 DEF ReportsOK, FilesAreRecords
    <2>6. CountersTyped
      BY <1>1 DEF ReportsOK, TypesOK
    <2>7. QED
      BY <2>3, <2>4, <2>5, <2>6 DEF TypeOK, CountersTyped
  <1>2. QED
    BY <1>1, CommandsInvariant, ReportsInvariant, PTL

(* A build that reports, with no other at work in the meantime, leaves a   *)
(* document that opens with the shares beside it.                          *)
THEOREM ReportedBuildsOpen == Spec => []ReportedBuildOpens
  <1>1. ASSUME ReportsOK PROVE ReportedBuildOpens
    <2>1. ASSUME opens # 0
          PROVE  /\ \A name \in Documents : files[name].state = "whole" /\ files[name].of = opens
                 /\ SharesOf(opens) = ShareNames
      <3>1. \A name \in Documents \cup ShareNames : Held(name, opens)
        BY <1>1, <2>1 DEF ReportsOK, BuildsOK, BuildNames
      <3>2. QED
        BY <3>1 DEF Held, SharesOf
    <2>2. QED
      BY <2>1 DEF ReportedBuildOpens
  <1>2. QED
    BY <1>1, ReportsInvariant, PTL

(* A keygen that reports leaves the public key that belongs to the private *)
(* one.                                                                    *)
THEOREM ReportedKeysBelong == Spec => []ReportedKeysPair
  <1>1. ReportsOK => ReportedKeysPair
    BY DEF ReportsOK, PairsOK, PairNames, Held, ReportedKeysPair
  <1>2. QED
    BY <1>1, ReportsInvariant, PTL
=============================================================================

----------------------- MODULE ReproductionRunnerProofs -----------------------
(***************************************************************************)
(* What a reproduction is worth, for any files, contents and recipes, any  *)
(* number of runs, and whatever the processes of a recipe do between any   *)
(* two looks at a file: the digest is of what the command computed, unless *)
(* a former attempt was still writing beside it; with nothing alive any    *)
(* more it is of what the directory holds; and a timeout leaves nothing of *)
(* the process group.                                                      *)
(***************************************************************************)
EXTENDS ReproductionRunner, TLAPS

\* run_and_digest holds the handle of a leader that was not waited for.
Holding == {"started", "wait", "timed out"}

\* _digest_outputs has the outputs, or is looking for them.
Digesting == {"list", "look", "digest", "compare"}

\* From the snapshot to the check that something changed.
Comparing == {"snapshot", "finally", "returncode", "list", "look"} \cup Holding

\* What the verifier's process knows of its leader, and why it stopped waiting.
ControlOK ==
    /\ at = "snapshot" => leader = "none" /\ helpers = {}
    /\ at \in {"snapshot", "started", "wait"} => cut = "no"
    /\ at \in Holding => leader \in {"running", "exited"}
    /\ at = "timed out" => cut = "timeout"
    /\ at = "finally" /\ cut = "no" => leader = "reaped"
    /\ at \in Digesting \cup {"returncode"} => cut = "no" /\ leader = "reaped"
    /\ at \in Digesting => status = "ok"

\* From the kill that follows a timeout on nobody is left to fork.
GroupOK ==
    cut = "timeout" /\ at # "timed out" => leader # "running" /\ "group" \notin helpers

\* Alone, a file this run did not write is as the snapshot has it.
SnapshotOK ==
    /\ alone => earlier = FALSE
    /\ at \in Comparing /\ alone =>
        \A f \in Declared \ written :
            (at = "snapshot" /\ f \in todo) \/ before[f] = dir[f]

\* The loops, and what each hands to the next.
ListedOK ==
    /\ at \notin Digesting \cup {"raised"} => listed = {} /\ read = Unread
    /\ at \in {"list", "look"} => read = Unread
    /\ at \in Digesting => todo \subseteq Declared /\ listed \subseteq Declared
    /\ at \in {"look", "digest"} => todo \subseteq listed
    /\ at \in {"list", "look"} /\ alone =>
        \A f \in listed : before[f] = Absent => f \in written
    /\ at \in {"digest", "compare"} /\ alone => listed \cap written # {}
    /\ result # NoDigest => at = "compare"

\* With nobody alive the directory stays as it was listed.
QuietOK ==
    at \in Digesting /\ quiet =>
        /\ ~Survivors /\ ~earlier
        /\ listed = IF at = "list" THEN Matching \ todo ELSE Matching
        /\ at \in {"digest", "compare"} =>
            /\ read = [f \in listed \ todo |-> dir[f]]
            /\ \E f \in listed : dir[f] # before[f]
        /\ at = "compare" => todo = {} /\ result = Stream(read)

\* Inductive: the three properties follow from it.
IInv == TypeOK /\ ControlOK /\ GroupOK /\ SnapshotOK /\ ListedOK /\ QuietOK

-----------------------------------------------------------------------------
(* The beginning.                                                          *)

LEMMA RunsBeginTyped == Init => TypeOK
  BY RunnerAssumption DEF Init, TypeOK, Directories, Nothing, Declared, Unread

LEMMA RunsBeginWell == Init => IInv
  BY RunsBeginTyped
     DEF Init, IInv, ControlOK, GroupOK, SnapshotOK, ListedOK, QuietOK,
         Holding, Digesting, Comparing, Declared

-----------------------------------------------------------------------------
(* Types: what is unpacked, written and removed is a directory.            *)

LEMMA UnpackedIsDirectory ==
    ASSUME packed \in Directories, NEW tree \in Directories
    PROVE  Unpack(tree) \in Directories
  BY DEF Unpack, Directories

\* TypeOK in three parts: the directories, where everybody is, and who is alive.
DataTyped ==
    /\ spec \in Recipes
    /\ packed \in Directories /\ dir \in Directories /\ before \in Directories
    /\ todo \subseteq Files /\ listed \subseteq Files /\ written \subseteq Files
    /\ DOMAIN read \subseteq Files

Runs     == {"author", "reader"}
Places   == {"temp", "dest"}
Points   == {"idle", "snapshot", "started", "wait", "timed out", "finally", "returncode",
             "list", "look", "digest", "compare", "raised", "clean up"}
Cuts     == {"no", "timeout", "interrupt"}
Lives    == {"none", "running", "exited", "reaped"}
Statuses == {"none", "ok", "failed"}
Verdicts == {"none", "attested", "match", "mismatch", "raised"}

ModesTyped ==
    /\ run \in Runs /\ place \in Places
    /\ at \in Points /\ cut \in Cuts
    /\ leader \in Lives /\ status \in Statuses
    /\ outcome \in Verdicts

AliveTyped ==
    /\ helpers \subseteq {"group", "escaped"}
    /\ earlier \in BOOLEAN /\ alone \in BOOLEAN /\ quiet \in BOOLEAN

LEMMA TypesInParts == TypeOK <=> DataTyped /\ ModesTyped /\ AliveTyped
  BY DEF TypeOK, DataTyped, ModesTyped, AliveTyped,
         Runs, Places, Points, Cuts, Lives, Statuses, Verdicts

LEMMA StepsKeepData == DataTyped /\ [Next]_vars => DataTyped'
  <1> SUFFICES ASSUME DataTyped, [Next]_vars PROVE DataTyped'
    OBVIOUS
  <1> USE DEF DataTyped, recipeVars, localVars, loopVars, processVars, historyVars
  <1>1. /\ Nothing \in Directories
        /\ Declared \subseteq Files
        /\ DOMAIN Unread = {}
    BY DEF Nothing, Directories, Declared, Unread
  <1>2. ASSUME NEW where \in {"temp", "dest"}, Reproduce(where) PROVE DataTyped'
    BY <1>1, <1>2, UnpackedIsDirectory DEF Reproduce
  <1>3. CASE Snapshot
    BY <1>3 DEF Snapshot, Directories
  <1>4. CASE Write
    <2>1. PICK f \in Files, c \in (Contents \ Oversized) \cup {Absent} :
              dir' = [dir EXCEPT ![f] = c] /\ written' \in {written \cup {f}, written}
      BY <1>4 DEF Write
    <2>2. dir' \in Directories
      BY <2>1 DEF Directories
    <2>3. UNCHANGED <<spec, packed, before, todo, listed, read>>
      BY <1>4 DEF Write
    <2>4. QED
      BY <2>1, <2>2, <2>3
  <1>5. CASE ListOutputs \/ Listed \/ LookForChange
    BY <1>5 DEF ListOutputs, Listed, LookForChange
  <1>6. CASE DigestOutputs
    <2>1. PICK f \in todo :
              /\ todo' = todo \ {f}
              /\ read' = [g \in DOMAIN read \cup {f} |-> IF g = f THEN dir[f] ELSE read[g]]
      BY <1>6 DEF DigestOutputs
    <2>2. UNCHANGED <<spec, packed, dir, before, listed, written>>
      BY <1>6 DEF DigestOutputs
    <2>3. DOMAIN read' = DOMAIN read \cup {f}
      BY <2>1
    <2>4. QED
      BY <2>1, <2>2, <2>3
  <1>7. CASE Attest \/ Compare \/ Raise \/ CleanUp
    BY <1>1, <1>7 DEF Attest, Compare, Raise, CleanUp, Return
  <1>8. CASE Start \/ EnterWait \/ Reap \/ Timeout \/ KillOnTimeout \/ Finally
             \/ CheckReturnCode
    BY <1>1, <1>8 DEF Start, EnterWait, Reap, Timeout, KillOnTimeout, Finally, CheckReturnCode
  <1>9. CASE Interrupt \/ Spawn \/ LeaderExits \/ HelperExits
    BY <1>9 DEF Interrupt, Spawn, LeaderExits, HelperExits
  <1>10. CASE UNCHANGED vars
    BY <1>10 DEF vars
  <1>11. QED
    BY <1>2, <1>3, <1>4, <1>5, <1>6, <1>7, <1>8, <1>9, <1>10
       DEF Next, VerifierStep, RecipeStep

LEMMA StepsKeepModes == ModesTyped /\ [Next]_vars => ModesTyped'
  <1> SUFFICES ASSUME ModesTyped, [Next]_vars PROVE ModesTyped'
    OBVIOUS
  <1> USE DEF ModesTyped, recipeVars, localVars, loopVars, processVars, historyVars
  <1>1. ASSUME NEW where \in {"temp", "dest"}, Reproduce(where) PROVE ModesTyped'
    BY <1>1 DEF Reproduce, Runs, Places, Points, Cuts, Lives, Statuses, Verdicts
  <1>2. CASE Snapshot \/ Start \/ EnterWait \/ Reap \/ Timeout
    BY <1>2 DEF Snapshot, Start, EnterWait, Reap, Timeout, Points, Lives, Cuts
  <1>3. CASE KillOnTimeout \/ Finally
    BY <1>3 DEF KillOnTimeout, Finally, KillGroup, Points, Lives, Statuses
  <1>4. CASE CheckReturnCode \/ ListOutputs \/ Listed \/ LookForChange \/ DigestOutputs
    BY <1>4 DEF CheckReturnCode, ListOutputs, Listed, LookForChange, DigestOutputs, Points
  <1>5. CASE Attest \/ Compare \/ Raise
    BY <1>5 DEF Attest, Compare, Raise, Return, Points, Verdicts
  <1>6. CASE CleanUp
    <2>1. outcome' \in {outcome, "raised"}
      BY <1>6 DEF CleanUp
    <2>2. QED
      BY <1>6, <2>1 DEF CleanUp, Points, Verdicts
  <1>7. CASE Interrupt
    BY <1>7 DEF Interrupt, Points, Cuts, Lives
  <1>8. CASE LeaderExits \/ HelperExits
    BY <1>8 DEF LeaderExits, HelperExits, Lives, Statuses
  <1>9. CASE Spawn \/ Write
    BY <1>9 DEF Spawn, Write
  <1>10. CASE UNCHANGED vars
    BY <1>10 DEF vars
  <1>11. QED
    BY <1>1, <1>2, <1>3, <1>4, <1>5, <1>6, <1>7, <1>8, <1>9, <1>10
       DEF Next, VerifierStep, RecipeStep

LEMMA StepsKeepAlive == AliveTyped /\ [Next]_vars => AliveTyped'
  <1> SUFFICES ASSUME AliveTyped, [Next]_vars PROVE AliveTyped'
    OBVIOUS
  <1> USE DEF AliveTyped, recipeVars, localVars, loopVars, processVars, historyVars
  <1>1. ASSUME NEW where \in {"temp", "dest"}, Reproduce(where) PROVE AliveTyped'
    BY <1>1 DEF Reproduce
  <1>2. CASE CheckReturnCode
    BY <1>2 DEF CheckReturnCode, Survivors
  <1>3. CASE Snapshot \/ Start \/ EnterWait \/ Reap \/ Timeout
             \/ ListOutputs \/ Listed \/ LookForChange \/ DigestOutputs
    BY <1>3 DEF Snapshot, Start, EnterWait, Reap, Timeout,
                ListOutputs, Listed, LookForChange, DigestOutputs
  <1>4. CASE Attest \/ Compare \/ Raise \/ CleanUp
    BY <1>4 DEF Attest, Compare, Raise, CleanUp, Return
  <1>5. CASE Interrupt \/ Write \/ LeaderExits
    BY <1>5 DEF Interrupt, Write, LeaderExits
  <1>6. CASE KillOnTimeout \/ Finally \/ Spawn \/ HelperExits
    BY <1>6 DEF KillOnTimeout, Finally, KillGroup, Spawn, HelperExits
  <1>7. CASE UNCHANGED vars
    BY <1>7 DEF vars
  <1>8. QED
    BY <1>1, <1>2, <1>3, <1>4, <1>5, <1>6, <1>7 DEF Next, VerifierStep, RecipeStep

LEMMA StepsKeepTypes == TypeOK /\ [Next]_vars => TypeOK'
  <1>1. (DataTyped /\ ModesTyped /\ AliveTyped)' => TypeOK'
    BY DEF TypeOK, DataTyped, ModesTyped, AliveTyped,
           Runs, Places, Points, Cuts, Lives, Statuses, Verdicts
  <1>2. QED
    BY <1>1, TypesInParts, StepsKeepData, StepsKeepModes, StepsKeepAlive

-----------------------------------------------------------------------------
(* Leader and group.                                                       *)

LEMMA StepsKeepControl == ControlOK /\ GroupOK /\ [Next]_vars => ControlOK' /\ GroupOK'
  <1> SUFFICES ASSUME ControlOK, GroupOK, [Next]_vars PROVE ControlOK' /\ GroupOK'
    OBVIOUS
  <1> USE DEF ControlOK, GroupOK, Holding, Digesting,
              recipeVars, localVars, loopVars, processVars, historyVars
  <1>1. ASSUME NEW where \in {"temp", "dest"}, Reproduce(where)
        PROVE  ControlOK' /\ GroupOK'
    BY <1>1 DEF Reproduce
  <1>2. CASE Snapshot \/ Start \/ EnterWait \/ Reap
    BY <1>2 DEF Snapshot, Start, EnterWait, Reap
  <1>3. CASE Timeout \/ KillOnTimeout \/ Finally
    BY <1>3 DEF Timeout, KillOnTimeout, Finally, KillGroup
  <1>4. CASE CheckReturnCode \/ ListOutputs \/ Listed \/ LookForChange \/ DigestOutputs
    BY <1>4 DEF CheckReturnCode, ListOutputs, Listed, LookForChange, DigestOutputs
  <1>5. CASE Attest \/ Compare \/ Raise \/ CleanUp
    BY <1>5 DEF Attest, Compare, Raise, CleanUp, Return
  <1>6. CASE Interrupt
    BY <1>6 DEF Interrupt
  <1>7. CASE Spawn \/ Write
    BY <1>7 DEF Spawn, Write
  <1>8. CASE LeaderExits \/ HelperExits
    BY <1>8 DEF LeaderExits, HelperExits
  <1>9. CASE UNCHANGED vars
    BY <1>9 DEF vars
  <1>10. QED
    BY <1>1, <1>2, <1>3, <1>4, <1>5, <1>6, <1>7, <1>8, <1>9 DEF Next, VerifierStep, RecipeStep

-----------------------------------------------------------------------------
(* Snapshot and outputs.                                                   *)

LEMMA StepsKeepSnapshot ==
    TypeOK /\ ControlOK /\ SnapshotOK /\ [Next]_vars => SnapshotOK'
  <1> SUFFICES ASSUME TypeOK, ControlOK, SnapshotOK, [Next]_vars PROVE SnapshotOK'
    OBVIOUS
  <1> USE DEF SnapshotOK, Comparing, Holding,
              recipeVars, localVars, loopVars, processVars, historyVars
  <1>0. Declared \subseteq Files /\ (UNCHANGED spec => Declared' = Declared)
    BY DEF Declared
  <1>1. CASE Snapshot
    <2>1. PICK f \in todo : todo' = todo \ {f} /\ before' = [before EXCEPT ![f] = dir[f]]
      BY <1>1 DEF Snapshot
    <2>2. \A g \in Files : before'[g] = IF g = f THEN dir[g] ELSE before[g]
      BY <2>1 DEF TypeOK, Directories
    <2>3. at = "snapshot" /\ at' \in {"snapshot", "raised"}
      BY <1>1 DEF Snapshot
    <2>4. UNCHANGED <<dir, spec, written, alone, earlier>>
      BY <1>1 DEF Snapshot
    <2>5. QED
      BY <1>0, <2>1, <2>2, <2>3, <2>4
  <1>2. CASE Write
    <2>1. PICK f \in Files, c \in (Contents \ Oversized) \cup {Absent} :
              dir' = [dir EXCEPT ![f] = c]
      BY <1>2 DEF Write
    <2>2. UNCHANGED <<at, before, spec, todo, alone, earlier>>
      BY <1>2 DEF Write
    <2>3. \A g \in Files \ {f} : dir'[g] = dir[g]
      BY <2>1 DEF TypeOK, Directories
    <2>4. written \subseteq written'
      BY <1>2 DEF Write
    <2>5. CASE alone
      <3>1. PICK g \in Files, d \in (Contents \ Oversized) \cup {Absent} :
                dir' = [dir EXCEPT ![g] = d] /\ written' = written \cup {g}
        BY <1>2, <2>5 DEF Write
      <3>2. \A h \in Files \ written' : h \notin written /\ dir'[h] = dir[h]
        BY <3>1 DEF TypeOK, Directories
      <3>3. QED
        BY <1>0, <2>2, <3>2
    <2>6. CASE ~alone
      BY <1>0, <2>2, <2>6
    <2>7. QED
      BY <2>5, <2>6
  <1> DEFINE Same == UNCHANGED <<dir, spec, before, todo, written, alone>> /\ earlier' \in {earlier, FALSE}
  <1>3. ASSUME Same, at' \in Comparing => at' = at \/ at \in Comparing \ {"snapshot"}
        PROVE  SnapshotOK'
    BY <1>0, <1>3
  <1>4. ASSUME UNCHANGED <<alone, earlier>>, at' \notin Comparing PROVE SnapshotOK'
    BY <1>4
  <1>5. CASE Start
    BY <1>0, <1>5 DEF Start
  <1>6. CASE EnterWait \/ Reap \/ Timeout \/ KillOnTimeout \/ Finally
    <2>1. Same
      BY <1>6 DEF EnterWait, Reap, Timeout, KillOnTimeout, Finally
    <2>2. at \in Comparing \ {"snapshot"}
      BY <1>6 DEF EnterWait, Reap, Timeout, KillOnTimeout, Finally
    <2>3. QED
      BY <1>3, <2>1, <2>2
  <1>7. CASE CheckReturnCode \/ ListOutputs \/ Listed \/ LookForChange
    <2>1. at \in Comparing \ {"snapshot"} /\ at' # "snapshot"
      BY <1>7 DEF CheckReturnCode, ListOutputs, Listed, LookForChange
    <2>2. UNCHANGED <<dir, spec, before, written, alone, earlier>>
      BY <1>7 DEF CheckReturnCode, ListOutputs, Listed, LookForChange
    <2>3. QED
      BY <1>0, <2>1, <2>2
  <1>8. CASE DigestOutputs
    <2>1. at' \notin Comparing /\ UNCHANGED <<alone, earlier>>
      BY <1>8 DEF DigestOutputs
    <2>2. QED
      BY <1>4, <2>1
  <1>9. CASE Attest \/ Compare \/ Raise \/ CleanUp
    <2>1. at' \notin Comparing /\ UNCHANGED earlier
      BY <1>9 DEF Attest, Compare, Raise, CleanUp, Return
    <2>2. alone' = alone \/ alone' = FALSE
      BY <1>9 DEF Attest, Compare, Raise, CleanUp, Return
    <2>3. CASE alone' = alone
      BY <1>4, <2>1, <2>3
    <2>4. CASE alone' = FALSE
      BY <2>1, <2>4
    <2>5. QED
      BY <2>2, <2>3, <2>4
  <1>10. ASSUME NEW where \in {"temp", "dest"}, Reproduce(where) PROVE SnapshotOK'
    <2>1. earlier' \in BOOLEAN /\ alone' = ~earlier'
      BY <1>10 DEF Reproduce
    <2>2. at' = "snapshot" /\ todo' = Declared'
      BY <1>10 DEF Reproduce, Declared
    <2>3. alone' => earlier' = FALSE
      BY <2>1
    <2>4. QED
      BY <2>2, <2>3
  <1>11. CASE Interrupt
    <2>1. Same /\ at \in Comparing \ {"snapshot"}
      BY <1>11 DEF Interrupt
    <2>2. QED
      BY <1>3, <2>1
  <1>12. CASE Spawn \/ LeaderExits \/ HelperExits
    <2>1. Same /\ at' = at
      BY <1>12 DEF Spawn, LeaderExits, HelperExits
    <2>2. QED
      BY <1>3, <2>1
  <1>13. CASE UNCHANGED vars
    BY <1>3, <1>13 DEF vars
  <1>14. QED
    BY <1>1, <1>2, <1>5, <1>6, <1>7, <1>8, <1>9, <1>10, <1>11, <1>12, <1>13
       DEF Next, VerifierStep, RecipeStep

\* The two steps of the argument: what was not there is listed only if it was
\* written, and what is found changed was.
LEMMA StepsKeepListed == TypeOK /\ SnapshotOK /\ ListedOK /\ [Next]_vars => ListedOK'
  <1> SUFFICES ASSUME TypeOK, SnapshotOK, ListedOK, [Next]_vars PROVE ListedOK'
    OBVIOUS
  <1> USE DEF ListedOK, Digesting, Declared,
              recipeVars, localVars, loopVars, processVars, historyVars
  <1>1. CASE ListOutputs
    <2>1. PICK f \in todo : /\ todo' = todo \ {f}
                            /\ listed' = IF dir[f] # Absent THEN listed \cup {f} ELSE listed
      BY <1>1 DEF ListOutputs
    <2>2. at = "list" /\ at' \in {"list", "raised"}
      BY <1>1 DEF ListOutputs
    <2>3. UNCHANGED <<spec, before, read, result, written, alone, dir>>
      BY <1>1 DEF ListOutputs
    <2>4. alone /\ dir[f] # Absent /\ before[f] = Absent => f \in written
      BY <2>1, <2>2 DEF SnapshotOK, Comparing
    <2>5. QED
      BY <2>1, <2>2, <2>3, <2>4
  <1>2. CASE LookForChange
    <2>1. PICK f \in todo :
              /\ IF before[f] = Absent \/ dir[f] \notin {before[f], Absent}
                 THEN at' = "digest" /\ todo' = listed
                 ELSE /\ todo' = todo \ {f}
                      /\ at' = IF todo' = {} \/ dir[f] = Absent THEN "raised" ELSE at
      BY <1>2 DEF LookForChange
    <2>2. at = "look" /\ UNCHANGED <<spec, before, listed, read, result, written, alone, dir>>
      BY <1>2 DEF LookForChange
    <2>3. f \in listed /\ f \in Declared
      BY <2>1, <2>2
    <2>4. alone /\ at' = "digest" => f \in written
      BY <2>1, <2>2, <2>3 DEF SnapshotOK, Comparing
    <2>5. QED
      BY <2>1, <2>2, <2>3, <2>4
  <1>3. CASE DigestOutputs
    <2>1. PICK f \in todo :
              /\ todo' = todo \ {f}
              /\ at' = IF dir[f] \in Oversized \cup {Absent} THEN "raised"
                       ELSE IF todo' = {} THEN "compare" ELSE at
              /\ result' = IF at' = "compare" THEN Stream(read') ELSE NoDigest
      BY <1>3 DEF DigestOutputs
    <2>2. at = "digest" /\ UNCHANGED <<spec, before, listed, written, alone>>
      BY <1>3 DEF DigestOutputs
    <2>3. at' \in {"digest", "compare", "raised"} /\ (result' # NoDigest => at' = "compare")
      BY <2>1, <2>2
    <2>4. QED
      BY <2>1, <2>2, <2>3
  <1>4. CASE Snapshot \/ Start \/ EnterWait \/ Reap \/ Timeout \/ KillOnTimeout \/ Finally
    BY <1>4 DEF Snapshot, Start, EnterWait, Reap, Timeout, KillOnTimeout, Finally
  <1>5. CASE CheckReturnCode \/ Listed
    BY <1>5 DEF CheckReturnCode, Listed
  <1>6. CASE Attest \/ Compare \/ Raise \/ CleanUp
    BY <1>6 DEF Attest, Compare, Raise, CleanUp, Return
  <1>7. ASSUME NEW where \in {"temp", "dest"}, Reproduce(where) PROVE ListedOK'
    BY <1>7 DEF Reproduce
  <1>8. CASE Write
    <2>1. written \subseteq written' /\ UNCHANGED <<spec, at, loopVars, alone>>
      BY <1>8 DEF Write
    <2>2. QED
      BY <2>1
  <1>9. CASE Interrupt \/ Spawn \/ LeaderExits \/ HelperExits
    BY <1>9 DEF Interrupt, Spawn, LeaderExits, HelperExits
  <1>10. CASE UNCHANGED vars
    BY <1>10 DEF vars
  <1>11. QED
    BY <1>1, <1>2, <1>3, <1>4, <1>5, <1>6, <1>7, <1>8, <1>9, <1>10
       DEF Next, VerifierStep, RecipeStep

LEMMA StepsKeepQuiet == TypeOK /\ ListedOK /\ QuietOK /\ [Next]_vars => QuietOK'
  <1> SUFFICES ASSUME TypeOK, ListedOK, QuietOK, [Next]_vars PROVE QuietOK'
    OBVIOUS
  <1> USE DEF QuietOK, Digesting, Survivors, recipeVars, localVars, loopVars,
              processVars, historyVars
  <1>1. CASE CheckReturnCode
    <2>1. at = "returncode" /\ at' \in {"list", "raised"} /\ todo' = Declared
      BY <1>1 DEF CheckReturnCode
    <2>2. listed = {} /\ listed' = listed
      BY <1>1, <2>1 DEF CheckReturnCode, ListedOK
    <2>3. Matching' \subseteq todo'
      BY <1>1, <2>1 DEF CheckReturnCode, Matching, Declared
    <2>4. quiet' => (~Survivors /\ ~earlier)'
      BY <1>1 DEF CheckReturnCode
    <2>5. QED
      BY <2>1, <2>2, <2>3, <2>4
  <1>2. CASE ListOutputs
    <2>1. PICK f \in todo : /\ todo' = todo \ {f}
                            /\ listed' = IF dir[f] # Absent THEN listed \cup {f} ELSE listed
      BY <1>2 DEF ListOutputs
    <2>2. at = "list" /\ at' \in {"list", "raised"}
      BY <1>2 DEF ListOutputs
    <2>3. UNCHANGED <<spec, dir, quiet, leader, helpers, earlier>>
      BY <1>2 DEF ListOutputs
    <2>4. f \in Declared /\ Matching' = Matching
      BY <2>1, <2>2, <2>3 DEF ListedOK, Declared, Matching
    <2>5. quiet => listed' = Matching \ todo'
      BY <2>1, <2>2, <2>4 DEF Matching
    <2>6. QED
      BY <2>2, <2>3, <2>4, <2>5
  <1>3. CASE Listed
    BY <1>3 DEF Listed, Matching, Declared
  <1>4. CASE LookForChange
    <2>1. PICK f \in todo :
              /\ IF before[f] = Absent \/ dir[f] \notin {before[f], Absent}
                 THEN at' = "digest" /\ todo' = listed
                 ELSE /\ todo' = todo \ {f}
                      /\ at' = IF todo' = {} \/ dir[f] = Absent THEN "raised" ELSE at
      BY <1>4 DEF LookForChange
    <2>2. /\ at = "look"
          /\ UNCHANGED <<spec, before, listed, read, dir, quiet, leader, helpers, earlier>>
      BY <1>4 DEF LookForChange
    <2>3. Matching' = Matching
      BY <2>2 DEF Matching, Declared
    <2>4. CASE at' = "digest" /\ quiet
      <3>1. f \in listed /\ listed = Matching /\ todo' = listed
        BY <2>1, <2>2, <2>4 DEF ListedOK
      <3>2. dir[f] # before[f]
        BY <2>1, <2>2, <2>4, <3>1 DEF Matching
      <3>3. read' = [g \in listed' \ todo' |-> dir'[g]]
        BY <2>2, <3>1 DEF ListedOK, Unread
      <3>4. QED
        BY <2>2, <2>3, <2>4, <3>1, <3>2, <3>3
    <2>5. CASE ~(at' = "digest" /\ quiet)
      BY <2>1, <2>2, <2>3, <2>5
    <2>6. QED
      BY <2>4, <2>5
  <1>5. CASE DigestOutputs
    <2>1. PICK f \in todo :
              /\ todo' = todo \ {f}
              /\ read' = [g \in DOMAIN read \cup {f} |-> IF g = f THEN dir[f] ELSE read[g]]
              /\ at' = IF dir[f] \in Oversized \cup {Absent} THEN "raised"
                       ELSE IF todo' = {} THEN "compare" ELSE at
              /\ result' = IF at' = "compare" THEN Stream(read') ELSE NoDigest
      BY <1>5 DEF DigestOutputs
    <2>2. /\ at = "digest"
          /\ UNCHANGED <<spec, before, listed, dir, quiet, leader, helpers, earlier>>
      BY <1>5 DEF DigestOutputs
    <2>3. Matching' = Matching
      BY <2>2 DEF Matching, Declared
    <2>4. CASE quiet
      <3>1. f \in listed /\ read = [g \in listed \ todo |-> dir[g]]
        BY <2>1, <2>2, <2>4 DEF ListedOK
      <3>2. DOMAIN read \cup {f} = listed \ todo'
        BY <2>1, <2>2, <3>1
      <3>3. \A g \in listed \ todo' : g # f => read[g] = dir[g]
        BY <2>1, <3>1
      <3>4. read' = [g \in listed \ todo' |-> dir[g]]
        BY <2>1, <3>2, <3>3
      <3>5. QED
        BY <2>1, <2>2, <2>3, <2>4, <3>4
    <2>5. CASE ~quiet
      BY <2>2, <2>5
    <2>6. QED
      BY <2>4, <2>5
  <1>6. CASE Snapshot \/ Start \/ EnterWait \/ Reap \/ Timeout \/ KillOnTimeout \/ Finally
    BY <1>6 DEF Snapshot, Start, EnterWait, Reap, Timeout, KillOnTimeout, Finally
  <1>7. CASE Attest \/ Compare \/ Raise \/ CleanUp
    BY <1>7 DEF Attest, Compare, Raise, CleanUp, Return
  <1>8. ASSUME NEW where \in {"temp", "dest"}, Reproduce(where) PROVE QuietOK'
    BY <1>8 DEF Reproduce
  <1>9. CASE Interrupt
    BY <1>9 DEF Interrupt
  <1>10. CASE Spawn \/ Write
    BY <1>10 DEF Spawn, Write
  <1>11. CASE LeaderExits \/ HelperExits
    BY <1>11 DEF LeaderExits, HelperExits, Matching, Declared
  <1>12. CASE UNCHANGED vars
    BY <1>12 DEF vars, Matching, Declared
  <1>13. QED
    BY <1>1, <1>2, <1>3, <1>4, <1>5, <1>6, <1>7, <1>8, <1>9, <1>10, <1>11, <1>12
       DEF Next, VerifierStep, RecipeStep

-----------------------------------------------------------------------------
(* The theorems.                                                           *)

LEMMA StepsKeepInvariant == IInv /\ [Next]_vars => IInv'
  BY StepsKeepTypes, StepsKeepControl, StepsKeepSnapshot, StepsKeepListed, StepsKeepQuiet
     DEF IInv

LEMMA RunnerInvariant == Spec => []IInv
  BY RunsBeginWell, StepsKeepInvariant, PTL DEF Spec

(* The variables keep the shape run_and_digest gives them, whatever the    *)
(* recipe does.                                                            *)
THEOREM RunnerIsTyped == Spec => []TypeOK
  <1>1. IInv => TypeOK
    BY DEF IInv
  <1>2. QED
    BY <1>1, RunnerInvariant, PTL

(* run_and_digest never returns the digest of a command that failed or was *)
(* cut short.  With no process of a former attempt beside it, the run has  *)
(* itself written one of the files digested; and with nothing alive at the *)
(* listing, one was digested with another content than it had before.      *)
THEOREM DigestsAreComputed == Spec => []ResultIsComputed
  <1>1. IInv => ResultIsComputed
    <2> SUFFICES ASSUME IInv, result # NoDigest
                 PROVE  /\ status = "ok" /\ cut = "no" /\ leader = "reaped"
                        /\ alone => listed \cap written # {}
                        /\ quiet => \E f \in listed : read[f] # before[f]
      BY DEF ResultIsComputed
    <2>1. at = "compare"
      BY DEF IInv, ListedOK
    <2>2. /\ status = "ok" /\ cut = "no" /\ leader = "reaped"
          /\ alone => listed \cap written # {}
      BY <2>1 DEF IInv, ControlOK, ListedOK, Digesting
    <2>3. ASSUME quiet PROVE \E f \in listed : read[f] # before[f]
      <3>1. /\ todo = {} /\ read = [f \in listed \ todo |-> dir[f]]
            /\ \E f \in listed : dir[f] # before[f]
        BY <2>1, <2>3 DEF IInv, QuietOK, Digesting
      <3>2. QED
        BY <3>1
    <2>4. QED
      BY <2>2, <2>3
  <1>2. QED
    BY <1>1, RunnerInvariant, PTL

(* A digest taken with nothing of any run alive is of the directory as it  *)
(* is, with every declared output in it.                                   *)
THEOREM QuietDigestsAreExact == Spec => []QuietDigestIsOfDirectory
  <1>1. IInv => QuietDigestIsOfDirectory
    <2> SUFFICES ASSUME IInv, quiet, result # NoDigest
                 PROVE  result = Stream([f \in Matching |-> dir[f]])
      BY DEF QuietDigestIsOfDirectory
    <2>1. at = "compare"
      BY DEF IInv, ListedOK
    <2>2. /\ todo = {} /\ listed = Matching
          /\ read = [f \in listed \ todo |-> dir[f]] /\ result = Stream(read)
      BY <2>1 DEF IInv, QuietOK, Digesting
    <2>3. read = [f \in Matching |-> dir[f]]
      BY <2>2
    <2>4. QED
      BY <2>2, <2>3
  <1>2. QED
    BY <1>1, RunnerInvariant, PTL

(* The kill on a timeout leaves nothing of the process group alive,        *)
(* however leader, helpers, timeout and interrupt interleave.              *)
THEOREM TimeoutsReapTheGroup == Spec => []TimeoutReapsGroup
  <1>1. IInv => TimeoutReapsGroup
    BY DEF IInv, TimeoutReapsGroup, GroupOK
  <1>2. QED
    BY <1>1, RunnerInvariant, PTL
=============================================================================

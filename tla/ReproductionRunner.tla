-------------------------- MODULE ReproductionRunner --------------------------
(***************************************************************************)
(* Reproduction attestations (reproduce.py): the author runs the recipe of *)
(* a carried project once, in a clean extraction of what is carried, and   *)
(* attests the digest of its outputs; a reader who opts in runs it again,  *)
(* in a directory of theirs that may hold a former attempt, or in one made *)
(* and removed for the run, and compares.                                  *)
(*                                                                         *)
(* A run is the verifier's process and those of the recipe, which do what  *)
(* they like: the leader, waited for with a timeout; helpers of its group; *)
(* and helpers that left it for a session of their own.  Time is abstract: *)
(* the timeout may pass in any step that waits.  The verifier looks at one *)
(* file in one step; whatever is alive may write between two of them.      *)
(***************************************************************************)
EXTENDS Integers, Sequences, FiniteSets

CONSTANTS Files,      \* names of output files, 1..n in sorted order
          Contents,   \* what a file may hold, sequences of bytes
          Oversized,  \* those over MAX_OUTPUT_BYTES, which no child can write
          Absent,     \* no such file
          NoDigest,   \* no digest was taken
          Carried,    \* the outputs a project may carry already
          RecipesUsed \* recipes asked for, a subset of Recipes

NUL == 0

\* A recipe by what its globs match: literal names, and perhaps everything.
Recipes == [literal : SUBSET Files, wildcard : BOOLEAN]

Directories == [Files -> Contents \cup {Absent}]
Nothing     == [f \in Files |-> Absent]

ASSUME RunnerAssumption ==
    /\ IsFiniteSet(Files) /\ Files = 1..Cardinality(Files)
    /\ RecipesUsed \subseteq Recipes /\ Carried \subseteq Directories
    /\ Oversized \subseteq Contents /\ Absent \notin Contents

VARIABLES
    spec,      \* the recipe: its literal outputs, and whether it has a wildcard
    packed,    \* the outputs the project already carries
    attested,  \* the attestation's output_digest
    run,       \* whose run this is: "author" or "reader"
    place,     \* its directory: one of its own, "temp", or the caller's, "dest"
    dir,       \* what that directory holds
    at,        \* what the verifier's process does next
    cut,       \* whether wait() raised, and why
    todo,      \* the files the loop it is in has not come to
    before,    \* the snapshot
    listed,    \* the files to digest
    read,      \* what was read of those digested so far
    result,    \* the digest of this run
    outcome,   \* what the caller of this run gets
    leader,    \* the process waited for
    status,    \* its exit status
    helpers,   \* what else of this run is alive: "group", "escaped"
    earlier,   \* whether a process of a former run in that directory is alive
    written,   \* history: the files the processes of this run wrote
    alone,     \* history: none of a former run was alive when this one began
    quiet      \* history: nothing of any run was alive when it came to list the outputs

recipeVars  == <<spec, packed, attested, run, place>>
loopVars    == <<todo, before, listed, read, result>>
localVars   == <<cut, loopVars, outcome>>
processVars == <<leader, status, helpers, earlier>>
historyVars == <<written, alone, quiet>>
vars == <<recipeVars, dir, at, localVars, processVars, historyVars>>

\* Mutant: the directory is what is carried, and nothing else of it is known.
UnpackOnly(tree) == [f \in {g \in Files : packed[g] # Absent} |-> packed[f]]

\* unpack_project writes what is carried and removes nothing.
Unpack(tree) == [f \in Files |-> IF packed[f] # Absent THEN packed[f] ELSE tree[f]]

-----------------------------------------------------------------------------
(* The digest: name, a zero byte and the content of one file after another *)
(* in sorted order, with nothing between the frames.                       *)

Stream(content) ==
    LET frame(f) == <<f, NUL>> \o content[f]
        upTo[n \in Files \cup {0}] ==
            IF n = 0 THEN <<>>
            ELSE upTo[n - 1] \o (IF n \in DOMAIN content THEN frame(n) ELSE <<>>)
    IN  upTo[Cardinality(Files)]

\* The files a glob may give, and those it would give now.
Declared == {f \in Files : f \in spec.literal \/ spec.wildcard}
Matching == {f \in Declared : dir[f] # Absent}

Unread == [f \in {} |-> Absent]

-----------------------------------------------------------------------------
(* The beginning of a reader's run.                                        *)

\* Whether a process of the run can write.
Survivors == leader = "running" \/ helpers # {}

\* DocxPlusReader.reproduce into a directory the caller names, which may hold
\* anything, a former attempt and its processes too; or
\* hermetic_extract_and_reproduce into one of its own.
Reproduce(where) ==
    /\ at = "idle" /\ attested # NoDigest
    /\ run' = "reader"
    /\ place' = where
    /\ \E former \in IF where = "temp" THEN {Nothing} ELSE Directories :
        dir' = Unpack(former)
    /\ earlier' \in IF where = "temp" THEN {FALSE} ELSE BOOLEAN
    /\ alone' = ~earlier'
    /\ at' = "snapshot" /\ todo' = Declared
    /\ leader' = "none" /\ status' = "none" /\ helpers' = {}
    /\ cut' = "no" /\ outcome' = "none"
    /\ UNCHANGED <<spec, packed, attested, before, listed, read, result, written, quiet>>

-----------------------------------------------------------------------------
(* run_and_digest.                                                         *)

\* Mutant: the snapshot is of the literal outputs only.
SnapshotLiterals ==
    /\ at = "snapshot"
    /\ \E f \in todo :
        /\ todo' = todo \ {f}
        /\ before' = [before EXCEPT ![f] = IF f \in spec.literal THEN dir[f] ELSE Absent]
        /\ UNCHANGED at
    /\ UNCHANGED <<recipeVars, dir, cut, listed, read, result, outcome,
                   processVars, historyVars>>

\* One file of the snapshot, in whatever order globs give them.  A file is
\* in it if it is there when its turn comes; hashing it raises if it goes
\* away between is_file and open.
Snapshot ==
    /\ at = "snapshot"
    /\ \E f \in todo :
        /\ todo' = todo \ {f}
        /\ before' = [before EXCEPT ![f] = dir[f]]
        /\ at' \in {at} \cup (IF earlier /\ dir[f] = Absent THEN {"raised"} ELSE {})
    /\ UNCHANGED <<recipeVars, dir, cut, listed, read, result, outcome,
                   processVars, historyVars>>

\* The command may not start at all: a sandbox refused, nothing to execute.
Start ==
    /\ at = "snapshot" /\ todo = {}
    /\ \/ leader' = "running" /\ at' = "started"
       \/ leader' = "none" /\ at' = "raised"
    /\ UNCHANGED <<recipeVars, dir, localVars, status, helpers, earlier, historyVars>>

EnterWait ==
    /\ at = "started"
    /\ at' = "wait"
    /\ UNCHANGED <<recipeVars, dir, localVars, processVars, historyVars>>

\* wait() returns: the leader has exited and is reaped.
Reap ==
    /\ at = "wait" /\ leader = "exited"
    /\ leader' = "reaped"
    /\ at' = "finally"
    /\ UNCHANGED <<recipeVars, dir, localVars, status, helpers, earlier, historyVars>>

\* Mutant: wait() is given no timeout.
NoTimeout == FALSE /\ UNCHANGED vars

\* wait() raises after its last look; the leader may exit right afterwards.
Timeout ==
    /\ at = "wait"
    /\ cut' = "timeout"
    /\ at' = "timed out"
    /\ UNCHANGED <<recipeVars, dir, loopVars, outcome,
                   processVars, historyVars>>

\* KeyboardInterrupt.  Before the try nothing kills the group; in wait() the
\* leader is given another moment, and reaped if it exits in it.
Interrupt ==
    /\ at \in {"started", "wait"}
    /\ cut' = "interrupt"
    /\ at' = IF at = "wait" THEN "finally" ELSE "raised"
    /\ leader' \in {leader} \cup
                   (IF at = "wait" /\ leader = "exited" THEN {"reaped"} ELSE {})
    /\ UNCHANGED <<recipeVars, dir, loopVars, outcome,
                   status, helpers, earlier, historyVars>>

\* Mutant: only the process waited for is killed.
KillLeader ==
    /\ leader' = IF leader = "running" THEN "exited" ELSE leader
    /\ status' = IF leader = "running" THEN "failed" ELSE status
    /\ UNCHANGED helpers

\* _kill_group finds the group through its leader, which exists until it is
\* reaped: afterwards getpgid raises ProcessLookupError, which is passed over.
KillGroup ==
    IF leader \in {"running", "exited"}
    THEN /\ leader' = "exited"
         /\ status' = IF leader = "running" THEN "failed" ELSE status
         /\ helpers' = helpers \ {"group"}
    ELSE UNCHANGED <<leader, status, helpers>>

KillOnTimeout ==
    /\ at = "timed out"
    /\ KillGroup
    /\ at' = "finally"
    /\ UNCHANGED <<recipeVars, dir, localVars, earlier, historyVars>>

Finally ==
    /\ at = "finally"
    /\ KillGroup
    /\ at' = IF cut = "no" THEN "returncode" ELSE "raised"
    /\ UNCHANGED <<recipeVars, dir, localVars, earlier, historyVars>>

CheckReturnCode ==
    /\ at = "returncode"
    /\ at' = IF status = "ok" THEN "list" ELSE "raised"
    /\ todo' = Declared
    /\ quiet' = ~(Survivors \/ earlier)
    /\ UNCHANGED <<recipeVars, dir, cut, before, listed, read, result, outcome,
                   processVars, written, alone>>

-----------------------------------------------------------------------------
(* _digest_outputs: three loops, over the globs and over what they gave.   *)

\* The next file in sorted order.
First(f) == f \in todo /\ \A g \in todo : f <= g

\* Mutant: only the outputs that changed are digested.
ListChanged ==
    /\ at = "list"
    /\ \E f \in todo :
        /\ todo' = todo \ {f}
        /\ listed' = listed \cup (IF dir[f] # Absent /\ dir[f] # before[f] THEN {f} ELSE {})
        /\ at' = at
    /\ UNCHANGED <<recipeVars, dir, cut, before, read, result, outcome,
                   processVars, historyVars>>

\* A wildcard may match nothing; a literal must be there.
ListOutputs ==
    /\ at = "list"
    /\ \E f \in todo :
        /\ todo' = todo \ {f}
        /\ listed' = IF dir[f] # Absent THEN listed \cup {f} ELSE listed
        /\ at' = IF dir[f] = Absent /\ f \in spec.literal THEN "raised" ELSE at
    /\ UNCHANGED <<recipeVars, dir, cut, before, read, result, outcome,
                   processVars, historyVars>>

\* No pattern, or none that matched, would make the digest vacuous.
Listed ==
    /\ at = "list" /\ todo = {}
    /\ todo' = listed
    /\ at' = IF listed = {} THEN "raised" ELSE "look"
    /\ UNCHANGED <<recipeVars, dir, cut, before, listed, read, result, outcome,
                   processVars, historyVars>>

\* any(): one file must be new, which is told without reading it, or read and
\* found changed.  The first is enough.
LookForChange ==
    /\ at = "look"
    /\ \E f \in todo :
        /\ First(f)
        /\ IF before[f] = Absent \/ dir[f] \notin {before[f], Absent}
           THEN at' = "digest" /\ todo' = listed
           ELSE /\ todo' = todo \ {f}
                /\ at' = IF todo' = {} \/ dir[f] = Absent THEN "raised" ELSE at
    /\ UNCHANGED <<recipeVars, dir, cut, before, listed, read, result, outcome,
                   processVars, historyVars>>

\* One file of the digest.  One that went away, or is over the cap, raises.
DigestOutputs ==
    /\ at = "digest"
    /\ \E f \in todo :
        /\ First(f)
        /\ todo' = todo \ {f}
        /\ read' = [g \in DOMAIN read \cup {f} |-> IF g = f THEN dir[f] ELSE read[g]]
        /\ at' = IF dir[f] \in Oversized \cup {Absent} THEN "raised"
                 ELSE IF todo' = {} THEN "compare" ELSE at
        /\ result' = IF at' = "compare" THEN Stream(read') ELSE NoDigest
    /\ UNCHANGED <<recipeVars, dir, cut, before, listed, outcome,
                   processVars, historyVars>>

-----------------------------------------------------------------------------
(* attest() and reproduce_and_compare(), and the end of a run.             *)

\* The locals of run_and_digest go.
Return ==
    /\ at' = IF place = "temp" THEN "clean up" ELSE "idle"
    /\ todo' = {} /\ before' = Nothing /\ listed' = {} /\ read' = Unread
    /\ result' = NoDigest
    /\ written' = {} /\ alone' = FALSE /\ quiet' = FALSE

\* The author's attestation is in the queued module before the directory goes.
Attest ==
    /\ at = "compare" /\ run = "author"
    /\ attested' = result
    /\ outcome' = "attested"
    /\ Return
    /\ UNCHANGED <<spec, packed, run, place, dir, cut, processVars>>

Compare ==
    /\ at = "compare" /\ run = "reader"
    /\ outcome' = IF result = attested THEN "match" ELSE "mismatch"
    /\ Return
    /\ UNCHANGED <<recipeVars, dir, cut, processVars>>

Raise ==
    /\ at = "raised"
    /\ outcome' = "raised"
    /\ Return
    /\ UNCHANGED <<recipeVars, dir, cut, processVars>>

\* TemporaryDirectory removes the tree; a process that adds to it meanwhile
\* makes that raise, and the caller loses the verdict.
CleanUp ==
    /\ at = "clean up"
    /\ at' = "idle"
    /\ outcome' \in {outcome} \cup (IF Survivors THEN {"raised"} ELSE {})
    /\ dir' = Nothing
    /\ UNCHANGED <<recipeVars, cut, loopVars, processVars, historyVars>>

-----------------------------------------------------------------------------
(* What the recipe's processes do.                                         *)

\* A helper leaves the group with setsid, and none comes back to it.
Spawn ==
    /\ \/ leader = "running" /\ helpers' \in {helpers \cup {k} : k \in {"group", "escaped"}}
       \/ "group" \in helpers /\ helpers' = helpers \cup {"escaped"}
    /\ UNCHANGED <<recipeVars, dir, at, localVars, leader, status, earlier, historyVars>>

\* Also the removal of a file.
Write ==
    /\ Survivors \/ earlier
    /\ \E f \in Files, c \in (Contents \ Oversized) \cup {Absent} :
        /\ c # dir[f]
        /\ dir' = [dir EXCEPT ![f] = c]
        /\ written' \in (IF Survivors THEN {written \cup {f}} ELSE {})
                        \cup (IF earlier THEN {written} ELSE {})
    /\ UNCHANGED <<recipeVars, at, localVars, processVars, alone, quiet>>

LeaderExits ==
    /\ leader = "running"
    /\ leader' = "exited"
    /\ status' \in {"ok", "failed"}
    /\ UNCHANGED <<recipeVars, dir, at, localVars, helpers, earlier, historyVars>>

HelperExits ==
    /\ \/ \E h \in helpers : helpers' = helpers \ {h} /\ UNCHANGED earlier
       \/ earlier /\ earlier' = FALSE /\ UNCHANGED helpers
    /\ UNCHANGED <<recipeVars, dir, at, localVars, leader, status, historyVars>>

-----------------------------------------------------------------------------
\* The author's run of whatever recipe on whatever project has begun.
Init ==
    /\ spec \in RecipesUsed
    /\ packed \in Carried
    /\ attested = NoDigest
    /\ run = "author" /\ place = "temp" /\ dir = packed
    /\ at = "snapshot" /\ todo = Declared /\ cut = "no"
    /\ before = Nothing /\ listed = {} /\ read = Unread
    /\ result = NoDigest /\ outcome = "none"
    /\ leader = "none" /\ status = "none" /\ helpers = {} /\ earlier = FALSE
    /\ written = {} /\ alone = TRUE /\ quiet = FALSE

VerifierStep ==
    \/ Snapshot \/ Start \/ EnterWait \/ Reap \/ Timeout \/ KillOnTimeout \/ Finally
    \/ CheckReturnCode \/ ListOutputs \/ Listed \/ LookForChange \/ DigestOutputs
    \/ Attest \/ Compare \/ Raise \/ CleanUp

\* Between runs nobody looks: what went on is in what the next run starts from.
RecipeStep == at # "idle" /\ (Spawn \/ Write \/ LeaderExits \/ HelperExits)

Next ==
    \/ VerifierStep
    \/ \E where \in {"temp", "dest"} : Reproduce(where)
    \/ Interrupt
    \/ RecipeStep

\* The verifier's process is scheduled, and time passes while it waits.
\* Nothing is assumed of the recipe.
Spec == Init /\ [][Next]_vars /\ WF_vars(VerifierStep)

-----------------------------------------------------------------------------
(* Correctness.                                                            *)

(* The variables have the shape run_and_digest gives them.                 *)
TypeOK ==
    /\ spec \in Recipes /\ packed \in Directories
    /\ run \in {"author", "reader"}
    /\ place \in {"temp", "dest"}
    /\ {dir, before} \subseteq Directories
    /\ todo \subseteq Files /\ listed \subseteq Files /\ written \subseteq Files
    /\ DOMAIN read \subseteq Files
    /\ at \in {"idle", "snapshot", "started", "wait", "timed out", "finally", "returncode",
               "list", "look", "digest", "compare", "raised", "clean up"}
    /\ cut \in {"no", "timeout", "interrupt"}
    /\ leader \in {"none", "running", "exited", "reaped"}
    /\ status \in {"none", "ok", "failed"}
    /\ helpers \subseteq {"group", "escaped"}
    /\ {earlier, alone, quiet} \subseteq BOOLEAN
    /\ outcome \in {"none", "attested", "match", "mismatch", "raised"}

(* A digest is attested or compared only of a command that ended by itself *)
(* with status 0.  If nothing of a former attempt was alive as the run     *)
(* began, the run's own processes wrote one of the files digested: neither *)
(* the outputs a project carries nor those a former attempt left in the    *)
(* directory pass for computed ones.  And if nothing was alive as the      *)
(* outputs were listed, one of them was digested with another content than *)
(* it had before the command.  Of a run beside a former attempt's process  *)
(* the code can tell only that something changed; and a helper that lives  *)
(* on may put back what was carried after the check and before the digest. *)
ResultIsComputed ==
    result # NoDigest => /\ status = "ok" /\ cut = "no" /\ leader = "reaped"
                         /\ alone => listed \cap written # {}
                         /\ quiet => \E f \in listed : read[f] # before[f]

(* When a run has timed out, nothing of the command's process group is     *)
(* alive by the time the caller gets the exception, also when the leader   *)
(* exits between the timeout and the kill.                                 *)
TimeoutReapsGroup ==
    cut = "timeout" /\ at \in {"raised", "clean up", "idle"} =>
        leader # "running" /\ "group" \notin helpers

(* When neither the recipe nor a former attempt had a process alive as it  *)
(* came to list the outputs, what was attested or compared is what the     *)
(* directory holds: the files digested are all of those declared that are  *)
(* there, and none was read at another moment than the rest.               *)
QuietDigestIsOfDirectory ==
    quiet /\ result # NoDigest => result = Stream([f \in Matching |-> dir[f]])

(* Every run comes to an end, whatever the command and what it left behind *)
(* do, and the caller gets a verdict or an exception.                      *)
EveryRunEnds == at # "idle" ~> at = "idle" /\ outcome # "none"

(* The comment at the second _kill_group: "reap any surviving double-      *)
(* forked orphans".  Past it nothing of the process group would be alive.  *)
OrphansReaped ==
    at \in {"returncode", "list", "look", "digest", "compare"} => "group" \notin helpers
=============================================================================

--------------------------- MODULE ReleaseProvision ---------------------------
(***************************************************************************)
(* The two commands of validate_release.py, one after the other: provision *)
(* builds the image from a private copy of the sources, on base images     *)
(* pinned to the digests that were pulled; validate runs the release gates *)
(* in that image (ReleaseSupervisor).                                      *)
(*                                                                         *)
(* A base image is named by a tag, which its registry may move at any      *)
(* time; only whether it moved after it was pulled matters.                *)
(***************************************************************************)
EXTENDS ReleaseSupervisor

CONSTANT Bases    \* the base images the Dockerfile names by a tag

ASSUME BasesAssumption == Bases # {}

VARIABLES
    command,     \* "provision", then "validate"
    context,     \* the build context: a copy of the sources "as listed", one
                 \* "changed", or one "replaced" with all that vouches for it
    pulled,      \* the bases pulled and recorded with their digests
    moved,       \* those whose tag moved since
    dockerfile,  \* of the context: names bases by "tag" or "digest"
    image        \* the image built last

contextVars   == <<context, pulled, moved, dockerfile>>
provisionVars == <<command, contextVars, image>>
releaseVars   == <<vars, provisionVars>>

NoImage == [built |-> FALSE, strays |-> {}, sources |-> "none"]

-----------------------------------------------------------------------------
(* provision                                                               *)

\* A step that asks the daemon nothing it would have to undo.
provisionFrame ==
    <<sup, stream, files, daemonVars, guestVars, worldVars, exposed, drifted, command>>

\* File by file, and the copy is then compared with what the manifest lists.
CopyContext ==
    /\ at = "copy context"
    /\ context' = sources
    /\ \E o \in LocalOutcomes :
        /\ Noted(o)
        /\ at' = IF Returned(o) /\ context' = "as listed" THEN "pull" ELSE "fail"
    /\ UNCHANGED <<pulled, moved, dockerfile, image, provisionFrame>>

\* The next base is pulled by its tag and looked at for its digest.
PullBase ==
    /\ at = "pull"
    /\ \E o \in Outcomes, b \in Bases \ pulled, digest \in BOOLEAN :
        /\ o.effect # "late" /\ Noted(o)
        /\ IF Returned(o) /\ digest
           THEN /\ pulled' = pulled \cup {b}
                /\ at' = IF pulled' = Bases THEN "pin" ELSE "pull"
           ELSE at' = "fail" /\ UNCHANGED pulled
    /\ UNCHANGED <<context, moved, dockerfile, image, provisionFrame>>

\* Mutant: the digests go on the record only.
PinBasesOnRecord ==
    /\ at = "pin"
    /\ \E o \in LocalOutcomes :
        /\ Noted(o)
        /\ at' = IF Returned(o) THEN "build" ELSE "fail"
    /\ UNCHANGED <<contextVars, image, provisionFrame>>

\* The Dockerfile of the context is rewritten to the digests.
PinBases ==
    /\ at = "pin"
    /\ \E o \in LocalOutcomes :
        /\ Noted(o)
        /\ dockerfile' = IF o.effect = "now" THEN "digest" ELSE dockerfile
        /\ at' = IF Returned(o) THEN "build" ELSE "fail"
    /\ UNCHANGED <<context, pulled, moved, image, provisionFrame>>

\* buildx build --pull: what a tag names is looked up again.  The last step of
\* the Dockerfile, release_guest.py --record-runtime, fails on sources that are
\* not those listed in inputs.json: both files are the context's own.
BuildImage ==
    /\ at = "build"
    /\ \E o \in Outcomes :
        /\ Returned(o) => context # "changed"
        /\ Noted(o)
        /\ image' = IF o.effect # "never" /\ context # "changed"
                    THEN [built   |-> TRUE,
                          strays  |-> IF context = "replaced" THEN Bases
                                      ELSE IF dockerfile = "digest" THEN {} ELSE moved,
                          sources |-> context]
                    ELSE image
        /\ at' = IF Returned(o) THEN "inspect image" ELSE "fail"
    /\ UNCHANGED <<contextVars, provisionFrame>>

\* inspect_image: by its id, with the label that binds it to the manifest.
InspectImage ==
    /\ at = "inspect image"
    /\ \E o \in Outcomes, agrees \in BOOLEAN :
        /\ o.effect # "late" /\ Noted(o)
        /\ at' = IF Returned(o) /\ agrees THEN "create metadata" ELSE "fail"
    /\ UNCHANGED <<contextVars, image, provisionFrame>>

\* What provision shares with validate: main's two looks at manifest and
\* sources, and the receipt of the image's runtime in between.
SharedStep ==
    /\ \/ VerifyInputs \/ ConfigureThen("copy context")
       \/ CreateMetadata \/ RecoverMetadata \/ CopyReceipt
       \/ RemoveMetadataThen("recheck")
       \/ Recheck \/ WriteResult("provision") \/ Report \/ Fail
    /\ UNCHANGED provisionVars

ProvisionStep ==
    /\ command = "provision"
    /\ \/ SharedStep
       \/ CopyContext \/ PullBase \/ PinBases \/ BuildImage \/ InspectImage

-----------------------------------------------------------------------------
(* validate, and everything around the two.                                *)

ValidateStep ==
    /\ command = "validate"
    /\ SupervisorStep
    /\ UNCHANGED provisionVars

\* Somebody runs validate on a provision.json, of a run that failed after it
\* was saved as well; validate never looks at the build context.
StartValidate ==
    /\ command = "provision" /\ at \in Over /\ "provision" \in files
    /\ command' = "validate"
    /\ at' = "verify"
    /\ sup' = NewSupervisor
    /\ box' = NoContainers
    /\ files' = {}
    /\ context' = "none" /\ pulled' = {} /\ moved' = {} /\ dockerfile' = "tag"
    /\ UNCHANGED <<stream, late, guestVars, worldVars, signals, trouble, exposed, drifted, image>>

\* A registry moves a tag.
TagMoves ==
    /\ at \notin Over
    /\ \E b \in pulled \ moved : moved' = moved \cup {b}
    /\ UNCHANGED <<vars, command, context, pulled, dockerfile, image>>

\* The copy is changed after it was compared, or changed back.
ContextDrifts ==
    /\ at \in {"pull", "pin", "build"} /\ context # "replaced"
    /\ context' \in {"as listed", "changed"} \ {context}
    /\ UNCHANGED <<vars, command, pulled, moved, dockerfile, image>>

\* Or with it the list or the script that it is checked by, or the Dockerfile,
\* which nothing compares again: its image may be on any bases.
ContextReplaced ==
    /\ at \in {"pull", "pin", "build"}
    /\ context' = "replaced"
    /\ UNCHANGED <<vars, command, pulled, moved, dockerfile, image>>

ReleaseInit ==
    /\ Init
    /\ command = "provision"
    /\ context = "none" /\ pulled = {} /\ moved = {} /\ dockerfile = "tag"
    /\ image = NoImage

ReleaseNext ==
    \/ ProvisionStep \/ ValidateStep \/ StartValidate
    \/ (GuestStep \/ World) /\ UNCHANGED provisionVars
    \/ TagMoves \/ ContextDrifts \/ ContextReplaced

\* Every command of the supervisor has a deadline, and the entry point of the
\* container has a time to live; the guest owes nobody a step.
Spec ==
    /\ ReleaseInit /\ [][ReleaseNext]_releaseVars
    /\ WF_releaseVars(ProvisionStep \/ ValidateStep)
    /\ WF_releaseVars(TtlExpires /\ UNCHANGED provisionVars)

-----------------------------------------------------------------------------
(* Correctness, with the properties of ReleaseSupervisor.                  *)

(* The variables have the shape the code gives them.                       *)
TypeOK ==
    /\ at \in BeforeCleanup \cup Cleanup \cup Over \cup
              {"copy context", "pull", "pin", "build", "inspect image", "cleanup failed",
               "verify after", "record", "judge", "recheck", "write", "report", "fail"}
    /\ sup.cid \subseteq {"metadata", "validation"}
    /\ box.metadata \in {"none", "created", "removed"}
    /\ box.validation \in {"none", "created", "running", "exited", "dead"}
    /\ late \subseteq {"metadata", "validation", "start"}
    /\ guest.passed \in 0..Gates /\ guest.sent \in 0..(Chunks + 2)
    /\ stream.received \in 0..Chunks
    /\ signals \in 0..MaxSignals
    /\ files \subseteq {"provision", "validation", "failure", "exit 0"}
    /\ moved \subseteq pulled /\ pulled \subseteq Bases

(* A provision record, and so a verdict based on it, is of an image that   *)
(* was not built from changed sources, and of one built from the sources   *)
(* listed on the very base images recorded, whatever tags moved in         *)
(* between.  The one exception is an image built after the context was     *)
(* replaced with its own list, its check or its Dockerfile: the label only *)
(* repeats the digest of the manifest, and does not tell.  And when the    *)
(* record was saved, no source was changed and not changed back.           *)
ProvisionIsBound ==
    files \cap {"provision", "validation"} # {} =>
        /\ image.built /\ image.sources # "changed"
        /\ image.sources = "as listed" => image.strays = {}
        /\ ~drifted
=============================================================================

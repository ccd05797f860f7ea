----------------------------- MODULE OdtContainer -----------------------------
(***************************************************************************)
(* The OpenDocument profile (odt_container.py, odt.py): a builder that     *)
(* shares sealing, manifest and provenance with the OOXML one and differs  *)
(* in the package.  An ODF package has parts and the media types they are  *)
(* listed with, and no graph of edges; payloads are numbered from 1 in     *)
(* every build, whatever the base package holds; and the listing is        *)
(* written anew when the package is serialised, and is what a reader       *)
(* learns the media types from.                                            *)
(***************************************************************************)
EXTENDS Sealing, EditedManifests

CONSTANTS Slots,         \* manifest slots
          Objects,       \* payload objects
          SealsUsed,     \* sealing lineages asked for, a subset of Lineages
          ChannelsUsed,  \* channels asked for, a subset of OdtChannelIds
          MaxModules, MaxBuilds, MaxCosigners, MaxEdits   \* bounds on a behaviour

OdtChannelIds == {"odt_package_part", "stego_media"}

ASSUME OdtAssumption ==
    /\ SealsUsed \subseteq Lineages /\ ChannelsUsed \subseteq OdtChannelIds
    /\ {MaxModules, MaxBuilds, MaxCosigners, MaxEdits} \subseteq Nat

VARIABLES
    pending,    \* the queued modules, _pending
    signer,     \* the signing key or NoSignature
    cosigners,  \* the co-signing keys
    shared,     \* whether base_package was supplied
    pkg,        \* that base package, or the package of the build under way
    step,       \* 0 when idle, else the queued module a build is to place next
    records,    \* the records of the manifest under construction
    carriers,   \* the pictures placed so far for the module under way
    shares,     \* threshold_shares: slot -> content key
    file,       \* the document as written, or NoKey: part -> content
    builds,     \* builds begun, the source of fresh nonces
    edits,      \* edits made to documents
    built       \* history: what each finished build was asked for and emitted

builderVars == <<pending, signer, cosigners, shared>>
buildVars   == <<pkg, step, records, carriers, shares, builds, built>>
vars        == <<builderVars, buildVars, file, edits>>

CONTENT  == <<"content", 0>>    \* content.xml: its text, and the pictures it shows
META     == <<"meta", 0>>       \* meta.xml
MIMETYPE == <<"mimetype", 0>>
LISTING  == <<"listing", 0>>    \* META-INF/manifest.xml: path -> media type

OdtText == "opendocument.text"

Idle == step = 0

\* Nothing is asked of a builder that builds no more: part of the bound.
Authoring == Idle /\ builds < MaxBuilds

-----------------------------------------------------------------------------
(* The package (odt.py).                                                   *)

Except(f, keys) == [x \in DOMAIN f \ keys |-> f[x]]

\* OdtPackage.add_part: a part of that name is replaced without a word.
AddFile(p, name, data, media) ==
    [p EXCEPT !.parts = Put(@, name, data), !.types = Put(@, name, media)]

NewBaseOdt ==
    AddFile(AddFile([parts |-> <<>>, types |-> <<>>],
                    CONTENT, [text |-> "original", figs |-> <<>>], "xml"),
            META, [title |-> "title"], "xml")

\* build_manifest_xml: every part but the reserved ones, those without a media
\* type as bytes; and the package itself.  A media type without a part is gone.
Reserved == {ROOT, MIMETYPE, LISTING}

Listing(p) ==
    Put([n \in DOMAIN p.parts \ Reserved |->
            IF n \in DOMAIN p.types THEN p.types[n] ELSE "octet-stream"],
        ROOT, OdtText)

ToBytes(p) == Put(Put(p.parts, MIMETYPE, OdtText), LISTING, Listing(p))

\* Only the file-entries of the listing give media types.
FromBytes(f) ==
    [parts |-> f, types |-> IF LISTING \in DOMAIN f THEN f[LISTING] ELSE <<>>]

\* OdtPlusReader.from_bytes: a mimetype there is has to be the right one.
Readable(f) == MIMETYPE \in DOMAIN f => f[MIMETYPE] = OdtText

-----------------------------------------------------------------------------
(* What is bound.                                                          *)

\* Mutant: the entry of the package itself is digested with the others.
ExcludedParts == {MANIFEST, MIMETYPE, LISTING}

\* _DIGEST_EXCLUDED
DigestExcluded == {MANIFEST} \cup Reserved

\* Mutant: the parts only, not what they are declared to be.
DigestOfParts(p) == Entries(Except(p.parts, DigestExcluded), <<>>, <<>>)

\* compute_odt_surface_digest: a stream of entries joined as that of the
\* OOXML profile is, and without edges.
OdtSurfaceDigest(p) ==
    Entries(Except(p.parts, DigestExcluded), Except(p.types, DigestExcluded), <<>>)

-----------------------------------------------------------------------------
(* Authoring.                                                              *)

Modules ==
    [slot : Slots, channel : ChannelsUsed, obj : Objects, seal : SealsUsed]

\* What raises returns no bytes; a content key is a key; seal_multi wants a recipient.
ASSUME OdtValuesAssumption ==
    /\ \A m \in Modules, n \in 0..MaxBuilds :
         SealModule(m, n) # Refused /\ ContentKey(m.slot, n) # NoKey
    /\ "recipients" \in SealsUsed => Recipients # {}

AddModule(m) ==
    /\ Authoring /\ Len(pending) < MaxModules
    /\ m.seal = "decoy" => m.channel = "odt_package_part"
    /\ \A i \in DOMAIN pending : pending[i].slot # m.slot
    /\ pending' = Append(pending, m)
    /\ UNCHANGED <<signer, cosigners, shared, buildVars, file, edits>>

Sign(key) ==
    /\ Authoring /\ signer # key
    /\ signer' = key
    /\ UNCHANGED <<pending, cosigners, shared, buildVars, file, edits>>

AddCosigner(key) ==
    /\ Authoring /\ Len(cosigners) < MaxCosigners
    /\ cosigners' = Append(cosigners, key)
    /\ UNCHANGED <<pending, signer, shared, buildVars, file, edits>>

\* base_package: a new package, or a document read back, whoever edited it.
UseBase(base) ==
    /\ Authoring
    /\ shared' = TRUE
    /\ pkg' = base
    /\ UNCHANGED <<pending, signer, cosigners, step, records, carriers, shares, builds,
                   built, file, edits>>

-----------------------------------------------------------------------------
(* build()                                                                 *)

AfterBuild(p) == IF shared THEN p ELSE NewBaseOdt

BeginBuild ==
    /\ Idle /\ builds < MaxBuilds
    /\ step' = 1
    /\ builds' = builds + 1
    /\ records' = <<>>
    /\ shares' = <<>>
    /\ UNCHANGED <<builderVars, pkg, carriers, built, file, edits>>

Module == pending[step]
Sealed == SealModule(Module, builds)
Placing(channel) == step \in 1..Len(pending) /\ Module.channel = channel

IssueShares ==
    shares' = IF Module.seal = "threshold"
              THEN Put(shares, Module.slot, ContentKey(Module.slot, builds))
              ELSE shares

Record(parts) ==
    [slot |-> Module.slot, channel |-> Module.channel,
     loc |-> [parts |-> parts, key |-> Module.slot], digest |-> Sealed,
     mode |-> Mode(Module)]

Place(placed, parts) ==
    /\ pkg' = placed
    /\ records' = Put(records, Module.slot, Record(parts))
    /\ carriers' = <<>>
    /\ step' = step + 1
    /\ IssueShares
    /\ UNCHANGED <<builderVars, builds, built, file, edits>>

\* Mutant: the number of the part is not moved on.
FirstPayload == <<"payload", 1>>

\* payload_index counts the payload parts of this build, and of no other.
NextPayload ==
    <<"payload", Cardinality({j \in 1..step : pending[j].channel = "odt_package_part"})>>

PlacePackagePart ==
    /\ Placing("odt_package_part")
    /\ Place(AddFile(pkg, NextPayload, Sealed, "payload"), <<NextPayload>>)

\* Mutant: pictures are numbered per build, as payloads are.
FigureOfBuild == <<"figure", Len(carriers) + 1>>

\* _next_odt_media_index: the first number free in the package.
NextFigure == NextPart(pkg, "figure")

\* _embed_one: the picture, and the frame that shows it.
WithFigure ==
    [AddFile(pkg, NextFigure, Sealed, "png") EXCEPT
        !.parts[CONTENT].figs = Append(@, NextFigure)]

\* Mutant: one carrier too many.
PlaceOneMore ==
    /\ Placing("stego_media") /\ Len(carriers) < Redundancy
    /\ pkg' = WithFigure
    /\ carriers' = Append(carriers, NextFigure)
    /\ IssueShares
    /\ UNCHANGED <<builderVars, step, records, builds, built, file, edits>>

PlaceCarrier ==
    /\ Placing("stego_media") /\ Len(carriers) + 1 < Redundancy
    /\ pkg' = WithFigure
    /\ carriers' = Append(carriers, NextFigure)
    /\ IssueShares
    /\ UNCHANGED <<builderVars, step, records, builds, built, file, edits>>

PlaceStegoMedia ==
    /\ Placing("stego_media") /\ Len(carriers) + 1 = Redundancy
    /\ Place(WithFigure, Append(carriers, NextFigure))

\* build() raises before anything more is placed: a payload that does not pack, a
\* picture without the capacity, a co-signer's key that is none.  What was placed
\* stays in a base package, with the manifest it had.
Raise ==
    /\ step > 0
    /\ step <= Len(pending) \/ cosigners # <<>>
    /\ pkg' = AfterBuild(pkg)
    /\ step' = 0
    /\ records' = <<>>
    /\ carriers' = <<>>
    /\ UNCHANGED <<builderVars, shares, builds, built, file, edits>>

SignedManifest ==
    LET bound == [NewManifest EXCEPT !.records = records, !.surface = OdtSurfaceDigest(pkg)]
        body  == CanonicalBody(bound)
    IN  [bound EXCEPT
            !.publicKey    = signer,
            !.signature    = IF signer = NoSignature THEN NoSignature
                             ELSE Signature(signer, body),
            !.cosignatures = [i \in DOMAIN cosigners |->
                                 [publicKey |-> cosigners[i],
                                  value |-> Signature(cosigners[i], body)]]]

FinishBuild ==
    /\ step = Len(pending) + 1
    /\ LET emitted == AddFile(pkg, MANIFEST, SignedManifest, "manifest")
       IN  /\ pkg' = AfterBuild(emitted)
           /\ file' = ToBytes(emitted)
           /\ built' = Append(built,
                          [modules |-> pending, signer |-> signer, cosigners |-> cosigners,
                           shares |-> shares, pkg |-> emitted])
    /\ step' = 0
    /\ records' = <<>>
    /\ UNCHANGED <<builderVars, carriers, shares, builds, edits>>

\* The caller serialises the base package itself, whatever state it is in.
SerialiseBase ==
    /\ Idle /\ shared
    /\ file' = ToBytes(pkg)
    /\ UNCHANGED <<builderVars, buildVars, edits>>

-----------------------------------------------------------------------------
(* Edits of a written document, by anyone and by any other software.       *)

Unsealed(obj) == [frames |-> <<Frame(NoKey, obj)>>, aad |-> NoKey, n |-> 0]

Numbered(f) == {n \in DOMAIN f : n[1] \in {"payload", "figure"}}

EditText(f) == {[f EXCEPT ![CONTENT].text = "edited"]}

\* A part is dropped, listed or not; its file-entry stays where it is.
DropPart(f) == {Without(f, n) : n \in DOMAIN f \ {CONTENT, MANIFEST}}

SwapParts(f) ==
    {[f EXCEPT ![q[1]] = f[q[2]], ![q[2]] = f[q[1]]] :
        q \in {s \in Numbered(f) \X Numbered(f) : s[1][1] = s[2][1] /\ s[1] # s[2]}}

\* A payload goes on with the entry of the next one, which is dropped.
FoldPart(f) ==
    LET next(n) == <<"payload", n[2] + 1>>
        folded  == {n \in Numbered(f) : n[1] = "payload" /\ next(n) \in DOMAIN f}
    IN  {Without(Put(f, n, Swallow(f[n], next(n), f[next(n)])), next(n)) : n \in folded}

OverwritePart(f) ==
    {Put(f, n, Unsealed(obj)) : n \in Numbered(f) \cup {<<"figure", 9>>}, obj \in Objects}

\* Another media type in a file-entry, a file-entry less, and another mimetype.
Relist(f) ==
    IF LISTING \notin DOMAIN f THEN {}
    ELSE {[f EXCEPT ![LISTING][n] = "other"] : n \in DOMAIN f[LISTING]}
         \cup {[f EXCEPT ![LISTING] = Without(@, n)] : n \in DOMAIN f[LISTING]}

Remark(f) == {Put(f, MIMETYPE, "other")}

PackageEdits(f) ==
    UNION {EditText(f), DropPart(f), SwapParts(f), FoldPart(f), OverwritePart(f),
           Relist(f), Remark(f)}

\* A manifest is edited, or taken from another document.
ManifestEdits(f) ==
    LET m == f[MANIFEST]
    IN  {Put(f, MANIFEST, e) :
            e \in UNION {DropRecord(m), SwapRecords(m), StripSignature(m),
                         DeclareAlgorithm(m), SignAsStranger(m), AddCosignature(m),
                         PromoteCosignature(m),
                         {ManifestOf(built[i].pkg) : i \in DOMAIN built}}}

Rebound(f) ==
    Put(f, MANIFEST, [f[MANIFEST] EXCEPT !.surface = OdtSurfaceDigest(FromBytes(f))])

Edit ==
    /\ file # NoKey /\ edits < MaxEdits
    /\ edits' = edits + 1
    /\ \/ file' \in PackageEdits(file)
       \/ MANIFEST \in DOMAIN file /\ file' \in ManifestEdits(file)
       \/ MANIFEST \in DOMAIN file /\ file' \in {Rebound(f) : f \in PackageEdits(file)}
    /\ UNCHANGED <<builderVars, buildVars>>

-----------------------------------------------------------------------------
Init ==
    /\ pending = <<>>
    /\ signer = NoSignature
    /\ cosigners = <<>>
    /\ shared \in BOOLEAN
    /\ pkg = NewBaseOdt
    /\ step = 0
    /\ records = <<>>
    /\ carriers = <<>>
    /\ shares = <<>>
    /\ file = NoKey
    /\ builds = 0
    /\ edits = 0
    /\ built = <<>>

Next ==
    \/ \E m \in Modules : AddModule(m)
    \/ \E key \in Authors : Sign(key) \/ AddCosigner(key)
    \/ file # NoKey /\ Readable(file) /\ UseBase(FromBytes(file))
    \/ BeginBuild
    \/ PlacePackagePart \/ PlaceCarrier \/ PlaceStegoMedia
    \/ Raise
    \/ FinishBuild
    \/ SerialiseBase
    \/ Edit

Spec == Init /\ [][Next]_vars

-----------------------------------------------------------------------------
(* The reader.                                                             *)

\* _stored_bytes: the picture channel reads with the OOXML profile's code.
StoredBytes(p, r) ==
    IF r.channel = "stego_media" THEN ExtractStegoMedia(p, r)
    ELSE PartBytes(p, r.loc.parts[1])

Extract(p, slot, cred) ==
    LET recs == ManifestOf(p).records
        r    == recs[slot]
    IN  IF slot \notin DOMAIN recs THEN Refused
        ELSE IF StoredBytes(p, r) = Refused \/ StoredBytes(p, r) # r.digest
             THEN Refused
             ELSE Unseal(slot, r.mode, r.digest, cred)

\* verify_provenance(expected_public_key = key), with this profile's digest.
VerifyProvenance(p, key) ==
    /\ VerifySignature(ManifestOf(p))
    /\ ManifestOf(p).publicKey = key
    /\ OdtSurfaceDigest(p) = ManifestOf(p).surface

Cosigners(p) ==
    IF OdtSurfaceDigest(p) = ManifestOf(p).surface
    THEN ValidCosigners(ManifestOf(p)) ELSE {}

-----------------------------------------------------------------------------
(* Correctness.                                                            *)

(* The variables have the shape the code gives them.                       *)
TypeOK ==
    /\ pending \in Seq(Modules) /\ Len(pending) <= MaxModules
    /\ signer \in Authors \cup {NoSignature}
    /\ cosigners \in Seq(Authors) /\ Len(cosigners) <= MaxCosigners
    /\ shared \in BOOLEAN
    /\ step \in 0..(Len(pending) + 1)
    /\ DOMAIN records \subseteq Slots
    /\ carriers \in Seq({"figure"} \X Nat) /\ Len(carriers) < Redundancy
    /\ DOMAIN shares \subseteq Slots
    /\ builds \in 0..MaxBuilds /\ edits \in 0..MaxEdits
    /\ Len(built) <= builds

\* What a consumer of the package goes by: parts, and what each is declared to be.
Shown(p) == [parts |-> Except(p.parts, {MANIFEST} \cup Reserved),
             types |-> Except(p.types, {MANIFEST} \cup Reserved)]

\* No part of a package reads like more than the part it is.
FramedShown(p) == Framed(Shown(p).parts)

\* The document of a reader says what a build said: the same modules, the same
\* entries in what is hashed; and it shows the same, unless a part of either
\* reads like more than one entry.
SaysWhatWasBuilt(p, b) ==
    /\ ManifestOf(p).records = ManifestOf(b.pkg).records
    /\ OdtSurfaceDigest(p) = OdtSurfaceDigest(b.pkg)
    /\ FramedShown(p) /\ FramedShown(b.pkg) => Shown(p) = Shown(b.pkg)

(* Under a pinned key a reader accepts only what the holder of that key    *)
(* signed or co-signed, and credits a co-signer with nothing else:         *)
(* whatever was edited, relisted, spliced or left behind by a failed       *)
(* build, the modules are those of that build and the package hashes like  *)
(* it; parts and media types are the very same where no part holds the     *)
(* bytes of a further entry.                                               *)
Authentic ==
    file # NoKey /\ Readable(file) /\ MANIFEST \in DOMAIN file =>
        LET p == FromBytes(file)
        IN  \A key \in Authors :
                VerifyProvenance(p, key) \/ key \in Cosigners(p) =>
                    \E i \in DOMAIN built :
                        Vouches(key, built[i]) /\ SaysWhatWasBuilt(p, built[i])

\* The document of a build as its reader has it.
ReadBack(b) == FromBytes(ToBytes(b.pkg))

(* Every module of every finished build opens once the document is read    *)
(* back, on a base package that holds the payloads, the pictures and the   *)
(* manifest of earlier builds, finished or failed.                         *)
RoundTrip ==
    \A i \in DOMAIN built : \A j \in DOMAIN built[i].modules :
        LET b == built[i]
            m == b.modules[j]
        IN  /\ Extract(ReadBack(b), m.slot, RightCredential(m, b)) = m.obj
            /\ m.seal = "decoy" =>
                 Extract(ReadBack(b), m.slot, Credential(DecoyPassword, NoKey, {}))
                     = DecoyObject

\* Every part has a media type and every media type a part.
Complete(p) == DOMAIN p.parts \ Reserved = DOMAIN p.types \ Reserved

(* A signed build verifies for its own reader if its base package lists    *)
(* every part it has and no other; and only then, unless a part holds the  *)
(* bytes of further entries, since the listing written is not the one that *)
(* was digested.                                                           *)
SignedBuildVerifies ==
    \A i \in DOMAIN built :
        LET verifies == VerifyProvenance(ReadBack(built[i]), built[i].signer)
        IN  built[i].signer # NoSignature =>
                /\ Complete(built[i].pkg) => verifies
                /\ verifies /\ FramedShown(built[i].pkg) => Complete(built[i].pkg)

(* A build never disturbs what it has placed itself, nor what is concealed *)
(* in the pictures of a base package, as far as an editor has not taken    *)
(* it away already: those are numbered on.  The payload parts of an        *)
(* earlier build it does replace.                                          *)
PlacedUndisturbed ==
    [][ step > 0 =>
          /\ \A s \in DOMAIN records :
                StoredBytes(pkg', records[s]) = StoredBytes(pkg, records[s])
                    \/ (step' = 0 /\ ~shared)
          /\ HasPart(pkg, MANIFEST) /\ shared =>
                \A s \in DOMAIN ManifestOf(pkg).records :
                    LET r == ManifestOf(pkg).records[s]
                    IN  r.channel = "stego_media" /\ StoredBytes(pkg, r) # Refused =>
                            StoredBytes(pkg', r) = StoredBytes(pkg, r) ]_vars
=============================================================================

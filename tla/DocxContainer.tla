---------------------------- MODULE DocxContainer ----------------------------
(***************************************************************************)
(* The document container (container.py): a builder that queues modules,   *)
(* seals and places them one after another on a base package, binds and    *)
(* signs the result; and the reader's checks on a document that may have   *)
(* been edited since.                                                      *)
(*                                                                         *)
(* A builder given a base_package mutates it in place, so what one build   *)
(* leaves there, finished or failed, is what the next one starts from.     *)
(* A step of a build is one iteration of its loop (of stego_media: one of  *)
(* its carriers); an embed that raises ends the build where it stands.     *)
(***************************************************************************)
EXTENDS Sealing, EditedManifests

CONSTANTS Slots,         \* manifest slots
          Objects,       \* payload objects
          LargeObjects,  \* those over the metadata channel's MAX_PAYLOAD
          Projects,      \* those that are directory trees with a recipe
          SealsUsed,     \* sealing lineages asked for, a subset of Lineages
          ChannelsUsed,  \* channels asked for, a subset of ChannelIds
          MaxModules, MaxBuilds, MaxCosigners, MaxEdits   \* bounds on a behaviour

ASSUME InputsAssumption ==
    /\ LargeObjects \subseteq Objects /\ Projects \subseteq Objects
    /\ SealsUsed \subseteq Lineages /\ ChannelsUsed \subseteq ChannelIds
    /\ NoKey \notin Slots

ASSUME BoundsAssumption ==
    {MaxModules, MaxBuilds, MaxCosigners, MaxEdits} \subseteq Nat

VARIABLES
    pending,    \* the queued modules, _pending
    signer,     \* the signing key or NoSignature
    cosigners,  \* the co-signing keys, _cosigners
    shared,     \* whether base_package was supplied
    pkg,        \* that base package, or the package of the build under way
    step,       \* 0 when idle, else the queued module a build is to place next
    records,    \* the records of the manifest under construction
    carriers,   \* the media parts placed so far for the module under way
    shares,     \* threshold_shares: slot -> content key
    doc,        \* the document a reader holds, or NoKey
    builds,     \* builds begun, the source of fresh nonces
    edits,      \* edits made to documents
    built       \* history: what each finished build was asked for and emitted

builderVars == <<pending, signer, cosigners, shared>>
buildVars   == <<pkg, step, records, carriers, shares, builds, built>>
vars        == <<builderVars, buildVars, doc, edits>>

Idle == step = 0

\* new_base_document: a story part behind the officeDocument relationship,
\* and the core properties.
NewBaseDocument ==
    LET story == [text |-> "original", mce |-> <<>>, figs |-> <<>>]
    IN  [parts |-> Put(Put(<<>>, DOCUMENT, story), CORE, [title |-> "title"]),
         types |-> Put(Put(<<>>, DOCUMENT, "document"), CORE, "core"),
         rels  |-> {[source |-> ROOT, id |-> 1, type |-> "officeDocument",
                     target |-> DOCUMENT],
                    [source |-> ROOT, id |-> 2, type |-> "coreProps",
                     target |-> CORE]}]

\* A base package is the caller's and outlives a build; without one each
\* build has its own.
AfterBuild(p) == IF shared THEN p ELSE NewBaseDocument

-----------------------------------------------------------------------------
(* Authoring.                                                              *)

\* An attestation is bound to the object it was made of.
Attestation(obj) == [output |-> obj]

\* add_module and the calls that end in it; attested only by add_project,
\* and not even then when running the recipe raised after the module was
\* queued.
AddModule(m) ==
    /\ Idle /\ Len(pending) < MaxModules
    /\ \A i \in DOMAIN pending : pending[i].slot # m.slot
    /\ m.attested => m.obj \in Projects
    /\ pending' = Append(pending, m)
    /\ UNCHANGED <<signer, cosigners, shared, buildVars, doc, edits>>

Sign(key) ==
    /\ Idle /\ signer # key
    /\ signer' = key
    /\ UNCHANGED <<pending, cosigners, shared, buildVars, doc, edits>>

AddCosigner(key) ==
    /\ Idle /\ Len(cosigners) < MaxCosigners
    /\ cosigners' = Append(cosigners, key)
    /\ UNCHANGED <<pending, signer, shared, buildVars, doc, edits>>

\* The caller hands over a base package: a document read back, or a new one.
UseBase(base) ==
    /\ Idle
    /\ shared' = TRUE
    /\ pkg' = base
    /\ UNCHANGED <<pending, signer, cosigners, step, records, carriers, shares, builds,
                   built, doc, edits>>

-----------------------------------------------------------------------------
(* build()                                                                 *)

\* Mutant: a build draws the nonces of the build before it.
BeginBuildReusingNonces ==
    /\ Idle /\ Len(built) <= MaxBuilds
    /\ step' = 1
    /\ builds' = IF builds = 0 THEN 1 ELSE builds
    /\ records' = <<>>
    /\ shares' = <<>>
    /\ UNCHANGED <<builderVars, pkg, carriers, built, doc, edits>>

BeginBuild ==
    /\ Idle /\ builds < MaxBuilds
    /\ step' = 1
    /\ builds' = builds + 1
    /\ records' = <<>>
    /\ shares' = <<>>
    /\ UNCHANGED <<builderVars, pkg, carriers, built, doc, edits>>

Module == pending[step]
Sealed == SealModule(Module, builds)
Placing(channel) == step \in 1..Len(pending) /\ Module.channel = channel

\* seal_module hands out the shares before the channel places anything.
IssueShares ==
    shares' = IF Module.seal = "threshold"
              THEN Put(shares, Module.slot, ContentKey(Module.slot, builds))
              ELSE shares

\* Mutant: the attestation of the first module goes with every module.
RecordFirstAttestation(loc) ==
    [slot |-> Module.slot, channel |-> Module.channel, loc |-> loc, digest |-> Sealed,
     mode |-> Mode(Module),
     reproduction |-> IF pending[1].attested THEN Attestation(pending[1].obj) ELSE NoKey]

Record(loc) ==
    [slot |-> Module.slot, channel |-> Module.channel, loc |-> loc, digest |-> Sealed,
     mode |-> Mode(Module),
     reproduction |-> IF Module.attested THEN Attestation(Module.obj) ELSE NoKey]

\* The module is placed, and the loop goes on to the next.
Place(placed) ==
    /\ pkg' = placed.pkg
    /\ records' = Put(records, Module.slot, Record(placed.loc))
    /\ carriers' = <<>>
    /\ step' = step + 1
    /\ IssueShares
    /\ UNCHANGED <<builderVars, builds, built, doc, edits>>

\* build() raises: what was placed stays in a base package, and neither a
\* manifest nor a document is written.
Raise ==
    /\ pkg' = AfterBuild(pkg)
    /\ step' = 0
    /\ records' = <<>>
    /\ carriers' = <<>>
    /\ IssueShares
    /\ UNCHANGED <<builderVars, builds, built, doc, edits>>

\* A payload that does not pack, a key that is none: seal_module raises, or
\* build() does over the co-signers, before anything is placed.
SealingFails ==
    /\ step > 0 /\ carriers = <<>>
    /\ step <= Len(pending) \/ cosigners # <<>>
    /\ pkg' = AfterBuild(pkg)
    /\ step' = 0
    /\ records' = <<>>
    /\ UNCHANGED <<builderVars, carriers, shares, builds, built, doc, edits>>

PlacePackagePart ==
    Placing("package_part") /\ Place(EmbedPackagePart(pkg, Sealed, Module.slot))

PlaceCustomXml ==
    Placing("custom_xml") /\ Place(EmbedCustomXml(pkg, Sealed, Module.slot))

PlaceMce ==
    Placing("mce") /\ Place(EmbedMce(pkg, Sealed, Module.slot))

MetadataRefuses == Module.obj \in LargeObjects \/ MetadataCollides(pkg, Module.slot)

PlaceMetadata ==
    /\ Placing("metadata")
    /\ \/ ~MetadataRefuses /\ Place(EmbedMetadata(pkg, Sealed, Module.slot))
       \/ MetadataRefuses /\ Raise

\* stego_media places its carriers one after another, and records them all.
PlaceCarrier ==
    /\ Placing("stego_media") /\ Len(carriers) + 1 < Redundancy
    /\ pkg' = EmbedReplica(pkg, Sealed)
    /\ carriers' = Append(carriers, NextPart(pkg, "media"))
    /\ IssueShares
    /\ UNCHANGED <<builderVars, step, records, builds, built, doc, edits>>

PlaceStegoMedia ==
    /\ Placing("stego_media") /\ Len(carriers) + 1 = Redundancy
    /\ Place(EmbedStegoMedia(pkg, Sealed, Module.slot, carriers))

\* The codec fails on a carrier (capacity, the external tool): those before
\* it are in the package.
StegoMediaFails == Placing("stego_media") /\ Raise

\* The manifest over the package as it stands, signed and co-signed.
SignedManifest ==
    LET bound == [NewManifest EXCEPT !.records = records, !.surface = SurfaceDigest(pkg)]
        body  == CanonicalBody(bound)
    IN  [bound EXCEPT
            !.publicKey    = signer,
            !.signature    = IF signer = NoSignature THEN NoSignature
                             ELSE Signature(signer, body),
            !.cosignatures = [i \in DOMAIN cosigners |->
                                 [publicKey |-> cosigners[i],
                                  value |-> Signature(cosigners[i], body)]]]

FinishBuild ==
    /\ step = Len(pending) + 1
    /\ LET emitted == WriteManifest(pkg, SignedManifest)
       IN  /\ pkg' = AfterBuild(emitted)
           /\ doc' = emitted
           /\ built' = Append(built,
                          [modules |-> pending, signer |-> signer, cosigners |-> cosigners,
                           fresh |-> ~shared, shares |-> shares, n |-> builds,
                           pkg |-> emitted])
    /\ step' = 0
    /\ records' = <<>>
    /\ UNCHANGED <<builderVars, carriers, shares, builds, edits>>

\* The caller serialises the base package itself, whatever state it is in.
SerialiseBase ==
    /\ Idle /\ shared
    /\ doc' = pkg
    /\ UNCHANGED <<builderVars, buildVars, edits>>

-----------------------------------------------------------------------------
(* Edits made to a document after it was written, by anyone.               *)

Unsealed(obj) == [frames |-> <<Frame(NoKey, obj)>>, aad |-> NoKey, n |-> 0]

\* The parts with an index of their own.
Numbered(d) == {n \in DOMAIN d.parts : n[1] \in {"payload", "item", "media"}}

EditText(d) == {[d EXCEPT !.parts[DOCUMENT].text = "edited"]}

DropPart(d) ==
    {[d EXCEPT !.parts = Without(@, n), !.types = Without(@, n)] :
        n \in DOMAIN d.parts \ {DOCUMENT, MANIFEST}}

Swapped(f, a, b) == [f EXCEPT ![a] = f[b], ![b] = f[a]]

\* Two parts of one directory trade places.
SwapParts(d) ==
    LET siblings == {q \in Numbered(d) \X Numbered(d) : q[1][1] = q[2][1] /\ q[1] # q[2]}
    IN  {[d EXCEPT !.parts = Swapped(@, q[1], q[2])] : q \in siblings}

\* A part goes on with the entry of its neighbour, which is dropped: what is
\* hashed stays the same.  (Neighbours in the stream up to number 9.)
FoldPart(d) ==
    LET next(n) == <<n[1], n[2] + 1>>
        folded  == {n \in Numbered(d) : n[1] # "media" /\ HasPart(d, next(n))}
    IN  {[d EXCEPT !.parts = Without(Put(@, n, Swallow(@[n], next(n), @[next(n)])), next(n))] :
            n \in folded}

OverwritePart(d) ==
    {[d EXCEPT !.parts[n] = Unsealed(obj)] : n \in Numbered(d), obj \in Objects}

AddUnlistedPart(d) ==
    {AddPart(d, NextPart(d, "item"), Unsealed(obj), "xml") : obj \in Objects}

Retype(d) == {[d EXCEPT !.types[n] = "other"] : n \in DOMAIN d.parts \ {MANIFEST}}

\* An edge is made to lead to the story, or to a part with an index.
Repoint(d) ==
    {[d EXCEPT !.rels = (@ \ {r}) \cup {[r EXCEPT !.target = n]}] :
        r \in d.rels, n \in Numbered(d) \cup {DOCUMENT}}

PackageEdits(d) ==
    UNION {EditText(d), DropPart(d), SwapParts(d), FoldPart(d), OverwritePart(d),
           AddUnlistedPart(d), Retype(d), Repoint(d)}

ManifestEdits(d) ==
    LET m == ManifestOf(d)
    IN  {SetPart(d, MANIFEST, e) :
            e \in UNION {DropRecord(m), SwapRecords(m), StripSignature(m),
                         DeclareAlgorithm(m), SignAsStranger(m), AddCosignature(m),
                         PromoteCosignature(m),
                         {ManifestOf(built[i].pkg) : i \in DOMAIN built}}}

\* The digest of the edited surface is put into the manifest, which is left
\* with the signature it had.
Rebound(d) == SetPart(d, MANIFEST, [ManifestOf(d) EXCEPT !.surface = SurfaceDigest(d)])

Edit ==
    /\ doc # NoKey /\ edits < MaxEdits
    /\ edits' = edits + 1
    /\ \/ doc' \in PackageEdits(doc)
       \/ HasPart(doc, MANIFEST) /\ doc' \in ManifestEdits(doc)
       \/ HasPart(doc, MANIFEST) /\ doc' \in {Rebound(d) : d \in PackageEdits(doc)}
    /\ UNCHANGED <<builderVars, buildVars>>

-----------------------------------------------------------------------------
\* The modules an author may ask for.
Modules ==
    [slot : Slots, channel : ChannelsUsed, obj : Objects, seal : SealsUsed,
     attested : BOOLEAN]

\* What raises returns no bytes and no object; a key is a key; seal_multi wants a
\* recipient.
ASSUME ValuesAssumption ==
    /\ Refused \notin Objects
    /\ \A m \in Modules, n \in 0..MaxBuilds :
         SealModule(m, n) # Refused /\ ContentKey(m.slot, n) # NoKey
    /\ "recipients" \in SealsUsed => Recipients # {}

Init ==
    /\ pending = <<>>
    /\ signer = NoSignature
    /\ cosigners = <<>>
    /\ shared \in BOOLEAN
    /\ pkg = NewBaseDocument
    /\ step = 0
    /\ records = <<>>
    /\ carriers = <<>>
    /\ shares = <<>>
    /\ doc = NoKey
    /\ builds = 0
    /\ edits = 0
    /\ built = <<>>

Next ==
    \/ \E m \in Modules : AddModule(m)
    \/ \E key \in Authors : Sign(key) \/ AddCosigner(key)
    \/ UseBase(NewBaseDocument)
    \/ doc # NoKey /\ UseBase(doc)
    \/ BeginBuild
    \/ PlacePackagePart \/ PlaceCustomXml \/ PlaceMetadata \/ PlaceMce
    \/ PlaceCarrier \/ PlaceStegoMedia \/ StegoMediaFails
    \/ SealingFails
    \/ FinishBuild
    \/ SerialiseBase
    \/ Edit

Spec == Init /\ [][Next]_vars

-----------------------------------------------------------------------------
(* The reader.                                                             *)

\* extract(): the object, or Refused when the slot is unknown, the bytes do
\* not have the digest on record, or the credential does not open them.
Extract(d, slot, cred) ==
    LET recs == ManifestOf(d).records
        r    == recs[slot]
    IN  IF slot \notin DOMAIN recs THEN Refused
        ELSE IF ExtractStored(d, r) = Refused \/ ExtractStored(d, r) # r.digest
             THEN Refused
             ELSE Unseal(slot, r.mode, r.digest, cred)

SurfaceMatches(d) == SurfaceDigest(d) = ManifestOf(d).surface

\* verify_provenance(expected_public_key = key)
VerifyProvenance(d, key) ==
    /\ VerifySignature(ManifestOf(d))
    /\ ManifestOf(d).publicKey = key
    /\ SurfaceMatches(d)

\* Mutant: co-signers are reported without regard to the surface.
CosignersOfManifest(d) == ValidCosigners(ManifestOf(d))

\* cosigners(): nobody once the surface no longer matches.
Cosigners(d) == IF SurfaceMatches(d) THEN ValidCosigners(ManifestOf(d)) ELSE {}

\* verify_cosigners([key])
VerifyCosigner(d, key) == key \in Cosigners(d) \/ VerifyProvenance(d, key)

\* verify_reproduction(): the attestation presented as verified, if any.
VerifiedAttestation(d, slot, key) ==
    LET r == ManifestOf(d).records[slot]
    IN  IF VerifyProvenance(d, key) /\ ExtractStored(d, r) = r.digest
        THEN r.reproduction
        ELSE NoKey

-----------------------------------------------------------------------------
(* Correctness.                                                            *)

(* The variables have the shape the code gives them.                       *)
TypeOK ==
    /\ pending \in Seq(Modules) /\ Len(pending) <= MaxModules
    /\ signer \in Authors \cup {NoSignature}
    /\ cosigners \in Seq(Authors) /\ Len(cosigners) <= MaxCosigners
    /\ shared \in BOOLEAN
    /\ step \in 0..(Len(pending) + 1)
    /\ DOMAIN records \subseteq Slots
    /\ carriers \in Seq({"media"} \X Nat) /\ Len(carriers) < Redundancy
    /\ DOMAIN shares \subseteq Slots
    /\ builds \in 0..MaxBuilds
    /\ edits \in 0..MaxEdits
    /\ Len(built) <= builds

HoldsDocument == doc # NoKey /\ HasPart(doc, MANIFEST)

\* The document a reader holds says what the i-th build said: the same
\* modules, the same entries in what is hashed; and the same parts, types and
\* edges, unless a part of either reads like more than one entry.
SaysWhatWasBuilt(i) ==
    /\ ManifestOf(doc).records = ManifestOf(built[i].pkg).records
    /\ SurfaceDigest(doc) = SurfaceDigest(built[i].pkg)
    /\ Framed(Without(doc.parts, MANIFEST)) /\ Framed(Without(built[i].pkg.parts, MANIFEST))
            => Surface(doc) = Surface(built[i].pkg)

(* verify_provenance under a pinned key accepts only what the holder of    *)
(* that key signed: whatever was edited, spliced, re-signed or left behind *)
(* by a failed build, an accepted document has the modules of some build   *)
(* and hashes like it; it is that build's own part for part where no part  *)
(* holds the bytes of a further entry, which the digest cannot tell from   *)
(* that entry.                                                             *)
Authentic ==
    \A key \in Authors :
        HoldsDocument /\ VerifyProvenance(doc, key) =>
            \E i \in DOMAIN built : Vouches(key, built[i]) /\ SaysWhatWasBuilt(i)

(* verify_cosigners accepts for a key only a document that says what one   *)
(* its holder signed or co-signed does: the surface is included in the     *)
(* sense of Authentic.                                                     *)
CosignersVouched ==
    \A key \in Authors :
        HoldsDocument /\ VerifyCosigner(doc, key) =>
            \E i \in DOMAIN built : Vouches(key, built[i]) /\ SaysWhatWasBuilt(i)

\* A module opens to its object, and under the decoy password to the decoy.
Opens(m, b) ==
    /\ Extract(b.pkg, m.slot, RightCredential(m, b)) = m.obj
    /\ m.seal = "decoy" =>
        Extract(b.pkg, m.slot, Credential(DecoyPassword, NoKey, {})) = DecoyObject

(* Every module of every finished build opens, on a base package that      *)
(* earlier builds, finished or failed, have left their parts in; of the    *)
(* mce channel this is said only of documents built from scratch.          *)
RoundTrip ==
    \A i \in DOMAIN built : \A j \in DOMAIN built[i].modules :
        LET m == built[i].modules[j]
        IN  built[i].fresh \/ m.channel # "mce" => Opens(m, built[i])

(* The same of every channel, as the format has it: a reader resolves a    *)
(* module from its recorded location.                                      *)
RoundTripAnyBase ==
    \A i \in DOMAIN built : \A j \in DOMAIN built[i].modules :
        Opens(built[i].modules[j], built[i])

\* The shares that any build so far may have issued for these slots, a build
\* that raised and left no document included.
SharesDrawn(slots) ==
    UNION {SharesOf(ContentKey(slot, n)) : slot \in slots, n \in 1..builds}

(* Whatever shares for the slots of a document are put together, of one    *)
(* slot or of several, of one build or of several, finished or raised:     *)
(* they open a threshold module only if all are of its own build and slot, *)
(* and there are K of them.  Any K such shares do open it; of the mce      *)
(* channel this second half is said only of documents built from scratch.  *)
SharesOpenTheirBuild ==
    \A i \in DOMAIN built : \A slot \in DOMAIN built[i].shares :
        \A held \in SUBSET SharesDrawn(DOMAIN built[i].shares) :
            LET b      == built[i]
                opens  == Extract(b.pkg, slot, Credential(NoKey, NoKey, held)) # Refused
                enough == held \subseteq SharesOf(b.shares[slot]) /\ Cardinality(held) >= K
            IN  /\ opens => enough
                /\ enough /\ (b.fresh \/ ManifestOf(b.pkg).records[slot].channel # "mce")
                        => opens

(* Placing a module never disturbs another one: not those this build has   *)
(* placed already, nor those the manifest left in the base package lists,  *)
(* as far as an editor has not taken their bytes away already.             *)
ModulesUndisturbed ==
    [][ step > 0 =>
          /\ \A s \in DOMAIN records :
                ExtractStored(pkg', records[s]) = ExtractStored(pkg, records[s])
                    \/ (step' = 0 /\ ~shared)
          /\ HasPart(pkg, MANIFEST) /\ shared =>
                \A s \in DOMAIN ManifestOf(pkg).records :
                    LET r == ManifestOf(pkg).records[s]
                    IN  ExtractStored(pkg, r) # Refused =>
                            ExtractStored(pkg', r) = ExtractStored(pkg, r) ]_vars

RelIdsUnique(p) ==
    \A r, q \in p.rels : r.source = q.source /\ r.id = q.id => r = q

\* Every drawing of the story embeds a media part that is there.
FiguresResolve(p) ==
    \A i \in DOMAIN p.parts[DOCUMENT].figs :
        \E r \in p.rels :
            /\ r.source = DOCUMENT /\ r.id = p.parts[DOCUMENT].figs[i]
            /\ r.type = "image" /\ HasPart(p, r.target)

(* As long as nobody edited a document, relationship ids are unique within *)
(* a source part, and every drawing embeds, through its id, a media part   *)
(* that is there, whatever builds failed half-way on the same package.     *)
DrawingsResolve ==
    edits = 0 => RelIdsUnique(pkg) /\ FiguresResolve(pkg)

(* The ciphertext of a module opens under its own slot only: whatever      *)
(* records and parts are moved about in an unsigned document, what a       *)
(* password opens in a slot is what some build sealed for that slot.       *)
SlotBinding ==
    HoldsDocument =>
        \A slot \in DOMAIN ManifestOf(doc).records, pw \in {Password, DecoyPassword} :
            LET r == ManifestOf(doc).records[slot]
            IN  r.mode = "password"
                    /\ Extract(doc, slot, Credential(pw, NoKey, {})) # Refused =>
                \E i \in DOMAIN built : \E j \in DOMAIN built[i].modules :
                    LET m == built[i].modules[j]
                    IN  m.slot = slot /\ r.digest = SealModule(m, built[i].n)

(* An attestation presented as verified under a pinned key is vouched for  *)
(* by the holder of that key, and was made of the object the slot holds.   *)
AttestationBound ==
    \A key \in Authors : HoldsDocument =>
        \A slot \in DOMAIN ManifestOf(doc).records :
            LET att == VerifiedAttestation(doc, slot, key)
            IN  att # NoKey =>
                    \E i \in DOMAIN built : \E j \in DOMAIN built[i].modules :
                        LET m == built[i].modules[j]
                        IN  /\ Vouches(key, built[i]) /\ m.slot = slot /\ m.attested
                            /\ att = Attestation(m.obj)
                            /\ ManifestOf(doc).records[slot].digest
                                  = SealModule(m, built[i].n)
=============================================================================

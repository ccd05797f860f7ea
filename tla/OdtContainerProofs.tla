-------------------------- MODULE OdtContainerProofs --------------------------
(***************************************************************************)
(* The OpenDocument profile for any modules, keys, failed builds, base     *)
(* packages and edits: the shape of the variables, what a signature is     *)
(* worth, when a signed build verifies, and that what was placed is found  *)
(* and opens.                                                              *)
(***************************************************************************)
EXTENDS OdtContainer, ContainerLemmas

-----------------------------------------------------------------------------
(* What a step does to a package.                                          *)

PkgShape(p) == DOMAIN p = {"parts", "types"}

\* One part is added or replaced, and the story perhaps changed.
Adds(p, q, name, data) ==
    /\ PkgShape(q)
    /\ DOMAIN q.parts = DOMAIN p.parts \cup {name}
    /\ q.parts[name] = data
    /\ \A n \in DOMAIN p.parts \ {CONTENT, name} : q.parts[n] = p.parts[n]

(* The names of parts are told apart by their directories.                 *)
LEMMA Directories ==
    /\ CONTENT[1] = "content" /\ META[1] = "meta" /\ MIMETYPE[1] = "mimetype"
    /\ LISTING[1] = "listing" /\ ROOT[1] = "root" /\ MANIFEST[1] = "manifest"
    /\ NextPayload[1] = "payload" /\ NextFigure[1] = "figure"
  BY DEF CONTENT, META, MIMETYPE, LISTING, ROOT, MANIFEST, NextPayload, NextFigure,
         NextPart

(* A part added.                                                           *)
LEMMA AddFileAdds ==
    ASSUME NEW p, PkgShape(p), NEW name, NEW data, NEW media
    PROVE  LET q == AddFile(p, name, data, media)
           IN  Adds(p, q, name, data) /\ q.types = Put(p.types, name, media)
  <1> DEFINE q == AddFile(p, name, data, media)
  <1>1. PkgShape(q) /\ q.parts = Put(p.parts, name, data) /\ q.types = Put(p.types, name, media)
    BY DEF AddFile, PkgShape
  <1> HIDE DEF q
  <1>2. Adds(p, q, name, data)
    BY <1>1 DEF Adds, Put
  <1> QED
    BY <1>1, <1>2 DEF q

(* A picture added, and the frame that shows it.                           *)
LEMMA WithFigureAdds ==
    ASSUME PkgShape(pkg)
    PROVE  Adds(pkg, WithFigure, NextFigure, Sealed)
  <1> DEFINE p == AddFile(pkg, NextFigure, Sealed, "png")
             q == WithFigure
  <1>1. Adds(pkg, p, NextFigure, Sealed)
    BY AddFileAdds
  <1>2. /\ PkgShape(q) /\ DOMAIN q.parts = DOMAIN p.parts
        /\ \A n \in DOMAIN p.parts \ {CONTENT} : q.parts[n] = p.parts[n]
    BY <1>1 DEF WithFigure, Adds, PkgShape
  <1>3. NextFigure # CONTENT
    BY Directories
  <1> HIDE DEF p, q
  <1>4. q.parts[NextFigure] = Sealed
    BY <1>1, <1>2, <1>3 DEF Adds
  <1> QED
    BY <1>1, <1>2, <1>4 DEF Adds, q

(* A new package is one without a manifest.                                *)
LEMMA NewOdt ==
    /\ PkgShape(NewBaseOdt) /\ DOMAIN NewBaseOdt.parts = {CONTENT, META}
    /\ MANIFEST \notin DOMAIN NewBaseOdt.parts
  <1> DEFINE e == [parts |-> <<>>, types |-> <<>>]
             s == [text |-> "original", figs |-> <<>>]
             p == AddFile(e, CONTENT, s, "xml")
             t == [title |-> "title"]
             q == AddFile(p, META, t, "xml")
  <1>1. PkgShape(e) /\ DOMAIN e.parts = {}
    BY DEF PkgShape
  <1> HIDE DEF e, s, t
  <1>2. Adds(e, p, CONTENT, s)
    BY <1>1, AddFileAdds
  <1>3. PkgShape(p)
    BY <1>2 DEF Adds
  <1> HIDE DEF p
  <1>4. Adds(p, q, META, t)
    BY <1>3, AddFileAdds
  <1>5. NewBaseOdt = q
    BY DEF NewBaseOdt, q, p, e, s, t
  <1> HIDE DEF q
  <1>6. PkgShape(q) /\ DOMAIN q.parts = {CONTENT, META}
    BY <1>1, <1>2, <1>4 DEF Adds
  <1> QED
    BY <1>5, <1>6, Directories

(* A package read is the parts that were written.                          *)
LEMMA FromBytesIs ==
    ASSUME NEW f
    PROVE  PkgShape(FromBytes(f)) /\ FromBytes(f).parts = f
  BY DEF FromBytes, PkgShape

(* A package written has two parts more.                                   *)
LEMMA ToBytesIs ==
    ASSUME NEW p
    PROVE  LET f == ToBytes(p)
           IN  /\ DOMAIN f = DOMAIN p.parts \cup {MIMETYPE, LISTING}
               /\ f[LISTING] = Listing(p)
               /\ \A n \in DOMAIN p.parts \ {MIMETYPE, LISTING} : f[n] = p.parts[n]
  <1> DEFINE l == Listing(p)
             g == Put(p.parts, MIMETYPE, OdtText)
             f == Put(g, LISTING, l)
  <1>1. ToBytes(p) = f
    BY DEF ToBytes
  <1>2. DOMAIN g = DOMAIN p.parts \cup {MIMETYPE}
          /\ \A n \in DOMAIN p.parts : n # MIMETYPE => g[n] = p.parts[n]
    BY DEF Put
  <1> HIDE DEF l, g
  <1>3. /\ DOMAIN f = DOMAIN g \cup {LISTING} /\ f[LISTING] = l
        /\ \A n \in DOMAIN g : n # LISTING => f[n] = g[n]
    BY DEF Put
  <1> HIDE DEF f
  <1> QED
    BY <1>1, <1>2, <1>3 DEF l

-----------------------------------------------------------------------------
(* Edits.                                                                  *)

\* The parts f become e, and the manifest among them stays as it is.
SameManifest(f, e) ==
    /\ MANIFEST \in DOMAIN e <=> MANIFEST \in DOMAIN f
    /\ MANIFEST \in DOMAIN f => e[MANIFEST] = f[MANIFEST]

(* A part other than the manifest added or replaced.                       *)
LEMMA PutSame ==
    ASSUME NEW f, NEW n, n # MANIFEST, NEW v
    PROVE  SameManifest(f, Put(f, n, v))
  BY PutElsewhere DEF SameManifest

(* An edit of anything but the manifest: still finitely many parts, and    *)
(* the same manifest.                                                      *)
LEMMA PackageEditsKeep ==
    ASSUME NEW f, IsFiniteSet(DOMAIN f), NEW e \in PackageEdits(f)
    PROVE  IsFiniteSet(DOMAIN e) /\ SameManifest(f, e)
  <1>1. CASE e \in EditText(f)
    <2>1. DOMAIN e = DOMAIN f /\ \A n \in DOMAIN f : n # CONTENT => e[n] = f[n]
      BY <1>1 DEF EditText
    <2> QED
      BY <2>1, Directories DEF SameManifest
  <1>2. CASE e \in DropPart(f)
    <2>1. PICK n \in DOMAIN f \ {CONTENT, MANIFEST} : e = Without(f, n)
      BY <1>2 DEF DropPart
    <2>2. DOMAIN e = DOMAIN f \ {n} /\ \A k \in DOMAIN e : e[k] = f[k]
      BY <2>1 DEF Without
    <2>3. IsFiniteSet(DOMAIN e)
      BY <2>2, FS_Subset
    <2> QED
      BY <2>1, <2>2, <2>3 DEF SameManifest
  <1>3. CASE e \in SwapParts(f)
    <2>1. PICK a \in Numbered(f), c \in Numbered(f) : e = [f EXCEPT ![a] = f[c], ![c] = f[a]]
      BY <1>3 DEF SwapParts
    <2>2. a # MANIFEST /\ c # MANIFEST
      BY Directories DEF Numbered
    <2>3. DOMAIN e = DOMAIN f
      BY <2>1
    <2>4. MANIFEST \in DOMAIN f => e[MANIFEST] = f[MANIFEST]
      BY <2>1, <2>2
    <2> QED
      BY <2>3, <2>4 DEF SameManifest
  <1>4. CASE e \in OverwritePart(f)
    <2>1. PICK n \in Numbered(f) \cup {<<"figure", 9>>}, obj \in Objects :
              e = Put(f, n, Unsealed(obj))
      BY <1>4 DEF OverwritePart
    <2>2. n # MANIFEST
      BY Directories DEF Numbered
    <2>3. DOMAIN e = DOMAIN f \cup {n}
      BY <2>1, PutDomain
    <2>4. IsFiniteSet(DOMAIN e)
      BY <2>3, FS_AddElement
    <2> QED
      BY <2>1, <2>2, <2>4, PutSame
  <1>5. CASE e \in Relist(f)
    <2>1. DOMAIN e = DOMAIN f /\ \A n \in DOMAIN f : n # LISTING => e[n] = f[n]
      BY <1>5 DEF Relist
    <2> QED
      BY <2>1, Directories DEF SameManifest
  <1>6. CASE e \in Remark(f)
    <2>1. e = Put(f, MIMETYPE, "other")
      BY <1>6 DEF Remark
    <2>2. DOMAIN e = DOMAIN f \cup {MIMETYPE}
      BY <2>1, PutDomain
    <2>3. IsFiniteSet(DOMAIN e)
      BY <2>2, FS_AddElement
    <2> QED
      BY <2>1, <2>3, PutSame, Directories
  <1>7. CASE e \in FoldPart(f)
    <2>1. PICK n \in Numbered(f) :
              e = Without(Put(f, n, Swallow(f[n], <<"payload", n[2] + 1>>,
                                            f[<<"payload", n[2] + 1>>])),
                          <<"payload", n[2] + 1>>)
      BY <1>7 DEF FoldPart
    <2> DEFINE o == <<"payload", n[2] + 1>>
               v == Swallow(f[n], o, f[o])
    <2>2. n # MANIFEST /\ o # MANIFEST
      BY Directories DEF Numbered
    <2>3. e = Without(Put(f, n, v), o)
      BY <2>1
    <2> HIDE DEF o, v
    <2>4. DOMAIN e = (DOMAIN f \cup {n}) \ {o}
      BY <2>3 DEF Put, Without
    <2>5. IsFiniteSet((DOMAIN f \cup {n}) \ {o})
      BY FS_AddElement, FS_RemoveElement
    <2> QED
      BY <2>2, <2>3, <2>4, <2>5 DEF SameManifest, Put, Without
  <1> QED
    BY <1>1, <1>2, <1>3, <1>4, <1>5, <1>6, <1>7 DEF PackageEdits

(* An edited document is an edited package, one with another manifest, or  *)
(* an edited package whose surface is put into its manifest.               *)
LEMMA EditIs ==
    ASSUME Edit
    PROVE  /\ file # NoKey
           /\ \/ file' \in PackageEdits(file)
              \/ /\ MANIFEST \in DOMAIN file
                 /\ \E e : /\ file' = Put(file, MANIFEST, e)
                           /\ LET m == file[MANIFEST]
                              IN  \/ e \in UNION {DropRecord(m), SwapRecords(m),
                                                  StripSignature(m), DeclareAlgorithm(m),
                                                  SignAsStranger(m), AddCosignature(m),
                                                  PromoteCosignature(m)}
                                  \/ \E i \in DOMAIN built : e = ManifestOf(built[i].pkg)
              \/ /\ MANIFEST \in DOMAIN file
                 /\ \E f \in PackageEdits(file) : file' = Rebound(f)
  <1>1. ASSUME NEW x \in ManifestEdits(file)
        PROVE  \E e : /\ x = Put(file, MANIFEST, e)
                      /\ LET m == file[MANIFEST]
                         IN  \/ e \in UNION {DropRecord(m), SwapRecords(m),
                                             StripSignature(m), DeclareAlgorithm(m),
                                             SignAsStranger(m), AddCosignature(m),
                                             PromoteCosignature(m)}
                             \/ \E i \in DOMAIN built : e = ManifestOf(built[i].pkg)
    BY DEF ManifestEdits
  <1> QED
    BY <1>1 DEF Edit

-----------------------------------------------------------------------------
(* The shape of the variables.  Finiteness is what makes the first free    *)
(* number of a picture a number.                                           *)

PkgFinite(p) == PkgShape(p) /\ IsFiniteSet(DOMAIN p.parts)

TInv ==
    /\ TypeOK
    /\ IsSeq(built)
    /\ ~Idle => Len(built) < builds
    /\ PkgFinite(pkg)
    /\ file # NoKey => IsFiniteSet(DOMAIN file)

(* One part more leaves a package finite.                                  *)
LEMMA AddsFinite ==
    ASSUME NEW p, PkgFinite(p), NEW q, NEW name, NEW data, Adds(p, q, name, data)
    PROVE  PkgFinite(q)
  BY FS_AddElement DEF Adds, PkgFinite

(* So is a new one.                                                        *)
LEMMA NewOdtFinite == PkgFinite(NewBaseOdt)
  <1>1. IsFiniteSet({CONTENT} \cup {META})
    BY FS_Singleton, FS_AddElement
  <1>2. DOMAIN NewBaseOdt.parts = {CONTENT} \cup {META}
    BY NewOdt
  <1> QED
    BY <1>1, <1>2, NewOdt DEF PkgFinite

(* And what is written of one.                                             *)
LEMMA ToBytesFinite ==
    ASSUME NEW p, PkgFinite(p)
    PROVE  IsFiniteSet(DOMAIN ToBytes(p))
  <1>1. IsFiniteSet((DOMAIN p.parts \cup {MIMETYPE}) \cup {LISTING})
    BY FS_AddElement DEF PkgFinite
  <1>2. DOMAIN ToBytes(p) = (DOMAIN p.parts \cup {MIMETYPE}) \cup {LISTING}
    BY ToBytesIs
  <1> QED
    BY <1>1, <1>2

(* The module being placed is one that was queued.                         *)
LEMMA ModuleIsQueued ==
    ASSUME TypeOK, step \in 1..Len(pending)
    PROVE  Module \in Modules /\ Module.slot \in Slots /\ Module.channel \in ChannelsUsed
  <1>1. Module \in Modules
    BY ElementOfSeq DEF TypeOK, Module
  <1> QED
    BY <1>1 DEF Modules

(* Queueing modules, choosing keys, handing over a base package.           *)
LEMMA AuthoringTInv ==
    ASSUME TInv,
           \/ \E m \in Modules : AddModule(m)
           \/ \E key \in Authors : Sign(key) \/ AddCosigner(key)
           \/ file # NoKey /\ UseBase(FromBytes(file))
           \/ BeginBuild
    PROVE  TInv'
  <1>1. ASSUME NEW m \in Modules, AddModule(m)
        PROVE  TInv'
    <2>1. /\ pending' \in Seq(Modules) /\ Len(pending') = Len(pending) + 1
          /\ Len(pending) \in Nat
      BY <1>1, AppendProperties, LenProperties DEF AddModule, TInv, TypeOK
    <2>2. Len(pending') <= MaxModules /\ step = 0
      BY <1>1, <2>1, OdtAssumption DEF AddModule, Authoring, Idle
    <2>3. TypeOK'
      BY <1>1, <2>1, <2>2 DEF AddModule, TInv, TypeOK, buildVars
    <2> QED
      BY <1>1, <2>3 DEF AddModule, TInv, Idle, buildVars
  <1>2. ASSUME NEW key \in Authors, Sign(key)
        PROVE  TInv'
    BY <1>2 DEF Sign, TInv, TypeOK, Idle, buildVars
  <1>3. ASSUME NEW key \in Authors, AddCosigner(key)
        PROVE  TInv'
    <2>1. /\ cosigners' \in Seq(Authors) /\ Len(cosigners') = Len(cosigners) + 1
          /\ Len(cosigners) \in Nat
      BY <1>3, AppendProperties, LenProperties DEF AddCosigner, TInv, TypeOK
    <2>2. Len(cosigners') <= MaxCosigners
      BY <1>3, <2>1, OdtAssumption DEF AddCosigner
    <2>3. TypeOK'
      BY <1>3, <2>1, <2>2 DEF AddCosigner, TInv, TypeOK, buildVars
    <2> QED
      BY <1>3, <2>3 DEF AddCosigner, TInv, Idle, buildVars
  <1>4. CASE file # NoKey /\ UseBase(FromBytes(file))
    <2>1. PkgFinite(pkg')
      BY <1>4, FromBytesIs DEF UseBase, TInv, PkgFinite
    <2>2. TypeOK'
      BY <1>4 DEF UseBase, TInv, TypeOK
    <2> QED
      BY <1>4, <2>1, <2>2 DEF UseBase, TInv, Idle
  <1>5. CASE BeginBuild
    <2>1. /\ step' = 1 /\ builds' = builds + 1 /\ builds < MaxBuilds
          /\ records' = <<>> /\ shares' = <<>>
          /\ UNCHANGED <<builderVars, pkg, carriers, built, file, edits>>
      BY <1>5 DEF BeginBuild
    <2>2. builds' \in 0..MaxBuilds /\ Len(built') <= builds' /\ Len(built') < builds'
      BY <2>1, OdtAssumption, SeqShape DEF TInv, TypeOK
    <2>3. Len(pending) \in Nat
      BY LenProperties DEF TInv, TypeOK
    <2>4. TypeOK'
      BY <2>1, <2>2, <2>3 DEF TInv, TypeOK, builderVars
    <2> QED
      BY <2>1, <2>2, <2>4 DEF TInv, Idle
  <1> QED
    BY <1>1, <1>2, <1>3, <1>4, <1>5

(* Handing out shares hands them out for a slot.                           *)
LEMMA IssueSharesTyped ==
    ASSUME TypeOK, step \in 1..Len(pending), IssueShares
    PROVE  DOMAIN shares' \subseteq Slots
  <1>1. DOMAIN shares' \subseteq DOMAIN shares \cup {Module.slot}
    BY DEF IssueShares, Put
  <1> QED
    BY <1>1, ModuleIsQueued DEF TypeOK

(* A module placed.                                                        *)
LEMMA PlaceTInv ==
    ASSUME TInv, step \in 1..Len(pending), NEW p, PkgFinite(p), NEW parts, Place(p, parts)
    PROVE  TInv'
  <1>1. /\ pkg' = p /\ records' = Put(records, Module.slot, Record(parts))
        /\ carriers' = <<>> /\ step' = step + 1
        /\ UNCHANGED <<builderVars, builds, built, file, edits>>
    BY DEF Place
  <1>2. DOMAIN records' \subseteq Slots
    BY <1>1, ModuleIsQueued DEF TInv, TypeOK, Put
  <1>3. DOMAIN shares' \subseteq Slots
    BY IssueSharesTyped DEF Place, TInv
  <1>4. carriers' \in Seq({"figure"} \X Nat) /\ Len(carriers') < Redundancy
    BY <1>1, RedundancyAssumption
  <1>5. step' \in 0..(Len(pending) + 1) /\ step \in Nat
    BY <1>1, LenProperties DEF TInv, TypeOK
  <1>6. TypeOK'
    BY <1>1, <1>2, <1>3, <1>4, <1>5 DEF TInv, TypeOK, builderVars
  <1> QED
    BY <1>1, <1>5, <1>6 DEF TInv, Idle

(* One carrier placed.                                                     *)
LEMMA CarrierTInv ==
    ASSUME TInv, PlaceCarrier
    PROVE  TInv'
  <1>1. /\ step \in 1..Len(pending) /\ Len(carriers) + 1 < Redundancy
        /\ pkg' = WithFigure /\ carriers' = Append(carriers, NextFigure) /\ IssueShares
        /\ UNCHANGED <<builderVars, step, records, builds, built, file, edits>>
    BY DEF PlaceCarrier, Placing
  <1>2. PkgFinite(pkg')
    BY <1>1, WithFigureAdds, AddsFinite DEF TInv, PkgFinite
  <1>3. NextFigure \in {"figure"} \X Nat
    BY PartIsNew DEF TInv, PkgFinite, NextFigure, NextPart
  <1>4. carriers' \in Seq({"figure"} \X Nat) /\ Len(carriers') < Redundancy
    BY <1>1, <1>3, AppendProperties DEF TInv, TypeOK
  <1>5. DOMAIN shares' \subseteq Slots
    BY <1>1, IssueSharesTyped DEF TInv
  <1>6. TypeOK'
    BY <1>1, <1>4, <1>5 DEF TInv, TypeOK, builderVars
  <1> QED
    BY <1>1, <1>2, <1>6 DEF TInv, Idle

(* What is placed in a step of a build.                                    *)
LEMMA PlacingAdds ==
    ASSUME PkgFinite(pkg), PlacePackagePart \/ PlaceStegoMedia
    PROVE  /\ step \in 1..Len(pending)
           /\ \/ /\ Module.channel = "odt_package_part"
                 /\ \E p : Place(p, <<NextPayload>>) /\ Adds(pkg, p, NextPayload, Sealed)
              \/ /\ Module.channel = "stego_media"
                 /\ Place(WithFigure, Append(carriers, NextFigure))
                 /\ Adds(pkg, WithFigure, NextFigure, Sealed)
  BY AddFileAdds, WithFigureAdds
     DEF PkgFinite, PlacePackagePart, PlaceStegoMedia, Placing

(* A build that stops, finishes or is written out.                         *)
LEMMA OtherStepTInv ==
    ASSUME TInv, Raise \/ FinishBuild \/ SerialiseBase
    PROVE  TInv'
  <1>1. CASE Raise
    <2>1. /\ pkg' = AfterBuild(pkg) /\ step' = 0 /\ records' = <<>> /\ carriers' = <<>>
          /\ UNCHANGED <<builderVars, shares, builds, built, file, edits>>
      BY <1>1 DEF Raise
    <2>2. PkgFinite(pkg')
      BY <2>1, NewOdtFinite DEF AfterBuild, TInv
    <2>3. carriers' \in Seq({"figure"} \X Nat) /\ Len(carriers') < Redundancy
      BY <2>1, RedundancyAssumption
    <2>4. Len(pending) \in Nat
      BY LenProperties DEF TInv, TypeOK
    <2>5. TypeOK'
      BY <2>1, <2>3, <2>4 DEF TInv, TypeOK, builderVars
    <2> QED
      BY <2>1, <2>2, <2>5 DEF TInv, Idle
  <1>2. CASE FinishBuild
    <2> DEFINE emitted == AddFile(pkg, MANIFEST, SignedManifest, "manifest")
    <2>1. PICK b : /\ pkg' = AfterBuild(emitted) /\ file' = ToBytes(emitted)
                   /\ built' = Append(built, b) /\ step' = 0 /\ records' = <<>>
                   /\ step = Len(pending) + 1
                   /\ UNCHANGED <<builderVars, carriers, shares, builds, edits>>
      BY <1>2 DEF FinishBuild
    <2>2. PkgFinite(emitted)
      BY AddFileAdds, AddsFinite DEF TInv, PkgFinite
    <2> HIDE DEF emitted
    <2>3. PkgFinite(pkg') /\ IsFiniteSet(DOMAIN file')
      BY <2>1, <2>2, NewOdtFinite, ToBytesFinite DEF AfterBuild
    <2>4. Len(pending) \in Nat
      BY LenProperties DEF TInv, TypeOK
    <2>5. IsSeq(built') /\ Len(built') = Len(built) + 1 /\ Len(built) \in Nat
      BY <2>1, AppendIsSeq, SeqShape DEF TInv
    <2>6. Len(built) < builds /\ builds \in Nat
      BY <2>1, <2>4, OdtAssumption DEF TInv, TypeOK, Idle
    <2>7. TypeOK'
      BY <2>1, <2>4, <2>5, <2>6 DEF TInv, TypeOK, builderVars
    <2> QED
      BY <2>1, <2>3, <2>5, <2>7 DEF TInv, Idle
  <1>3. CASE SerialiseBase
    <2>1. IsFiniteSet(DOMAIN file')
      BY <1>3, ToBytesFinite DEF SerialiseBase, TInv
    <2>2. TypeOK'
      BY <1>3 DEF SerialiseBase, TInv, TypeOK, builderVars, buildVars
    <2> QED
      BY <1>3, <2>1, <2>2 DEF SerialiseBase, TInv, Idle, builderVars, buildVars
  <1> QED
    BY <1>1, <1>2, <1>3

(* An edit.                                                                *)
LEMMA EditTInv ==
    ASSUME TInv, Edit
    PROVE  TInv'
  <1>1. IsFiniteSet(DOMAIN file)
    BY DEF Edit, TInv
  <1>2. \A f \in PackageEdits(file) : IsFiniteSet(DOMAIN f)
    BY <1>1, PackageEditsKeep
  <1>3. \A f, m : IsFiniteSet(DOMAIN f) => IsFiniteSet(DOMAIN Put(f, MANIFEST, m))
    <2> TAKE f, m
    <2>1. DOMAIN Put(f, MANIFEST, m) = DOMAIN f \cup {MANIFEST}
      BY DEF Put
    <2> QED
      BY <2>1, FS_AddElement
  <1>4. IsFiniteSet(DOMAIN file')
    <2>1. CASE file' \in PackageEdits(file)
      BY <1>2, <2>1
    <2>2. CASE \E e : file' = Put(file, MANIFEST, e)
      BY <1>1, <1>3, <2>2
    <2>3. CASE \E f \in PackageEdits(file) : file' = Rebound(f)
      BY <1>2, <1>3, <2>3 DEF Rebound
    <2> QED
      BY <2>1, <2>2, <2>3, EditIs
  <1>5. edits' \in 0..MaxEdits /\ UNCHANGED <<builderVars, buildVars>>
    BY OdtAssumption DEF Edit, TInv, TypeOK
  <1>6. TypeOK'
    BY <1>5 DEF TInv, TypeOK, builderVars, buildVars
  <1> QED
    BY <1>4, <1>5, <1>6 DEF TInv, Idle, builderVars, buildVars

(* It holds at first.                                                      *)
LEMMA InitTInv == Init => TInv
  <1> SUFFICES ASSUME Init
               PROVE  TInv
    OBVIOUS
  <1>1. TypeOK
    BY OdtAssumption, RedundancyAssumption DEF Init, TypeOK
  <1> QED
    BY <1>1, EmptyIsSeq, NewOdtFinite DEF Init, TInv, Idle

(* Every step keeps it.                                                    *)
LEMMA NextTInv == TInv /\ [Next]_vars => TInv'
  <1> SUFFICES ASSUME TInv, [Next]_vars
               PROVE  TInv'
    OBVIOUS
  <1>1. CASE PlacePackagePart \/ PlaceStegoMedia
    <2>1. PkgFinite(pkg)
      BY DEF TInv
    <2> QED
      BY <1>1, <2>1, PlacingAdds, AddsFinite, PlaceTInv
  <1>2. CASE UNCHANGED vars
    BY <1>2 DEF vars, builderVars, buildVars, TInv, TypeOK, Idle
  <1> QED
    BY <1>1, <1>2, AuthoringTInv, CarrierTInv, OtherStepTInv, EditTInv DEF Next

(* It holds in every state of every behaviour.                             *)
LEMMA AlwaysTInv == Spec => []TInv
  BY InitTInv, NextTInv, PTL DEF Spec

(* Of the builder of text documents: every variable keeps its shape, and   *)
(* no more builds finish than begin.                                       *)
THEOREM OdtBuilderIsTyped == Spec => []TypeOK
  <1>1. TInv => TypeOK
    BY DEF TInv
  <1> QED
    BY <1>1, AlwaysTInv, PTL

-----------------------------------------------------------------------------
(* What a manifest is worth.  Wherever a manifest got to, the signatures   *)
(* of authors in it are over the bodies of finished builds, and its        *)
(* records of pictures lead to pictures.                                   *)

RecordWell(r) ==
    /\ "channel" \in DOMAIN r
    /\ r.channel = "stego_media" =>
         \A i \in DOMAIN r.loc.parts : r.loc.parts[i][1] = "figure"

WellPlaced(recs) == \A s \in DOMAIN recs : RecordWell(recs[s])

\* Of parts, those of a package or of a file, and a history of builds.
ManifestOK(f, B) ==
    MANIFEST \in DOMAIN f => Honest(f[MANIFEST], B) /\ WellPlaced(f[MANIFEST].records)

\* A build emits a package with a manifest, listed, bound to it and signed.
EmittedOK(b, B) ==
    LET m == ManifestOf(b.pkg)
    IN  /\ PkgShape(b.pkg)
        /\ MANIFEST \in DOMAIN b.pkg.parts /\ MANIFEST \in DOMAIN b.pkg.types
        /\ ManifestOK(b.pkg.parts, B)
        /\ m.surface = OdtSurfaceDigest(b.pkg)
        /\ b.signer # NoSignature =>
             /\ m.algorithm = Algorithm /\ m.publicKey = b.signer
             /\ m.signature = Signature(b.signer, CanonicalBody(m))

MInv ==
    /\ IsSeq(cosigners)
    /\ IsSeq(built)
    /\ WellPlaced(records)
    /\ ManifestOK(pkg.parts, built)
    /\ file # NoKey => ManifestOK(file, built)
    /\ \A i \in DOMAIN built : EmittedOK(built[i], built)

(* One record more.                                                        *)
LEMMA OneMoreWell ==
    ASSUME NEW recs, WellPlaced(recs), NEW s, NEW r, RecordWell(r)
    PROVE  WellPlaced(Put(recs, s, r))
  BY DEF WellPlaced, Put

(* A part added, other than the manifest.                                  *)
LEMMA AddsManifestOK ==
    ASSUME NEW p, NEW q, NEW name, name # MANIFEST, NEW data, Adds(p, q, name, data),
           NEW B, ManifestOK(p.parts, B)
    PROVE  ManifestOK(q.parts, B)
  BY Directories DEF Adds, ManifestOK

(* The same manifest.                                                      *)
LEMMA SameManifestOK ==
    ASSUME NEW f, NEW e, SameManifest(f, e), NEW B, ManifestOK(f, B)
    PROVE  ManifestOK(e, B)
  BY DEF SameManifest, ManifestOK

(* Writing a package out leaves its manifest as it is.                     *)
LEMMA ToBytesSame ==
    ASSUME NEW p
    PROVE  SameManifest(p.parts, ToBytes(p))
  BY ToBytesIs, Directories DEF SameManifest

(* A manifest put among parts.                                             *)
LEMMA PutManifestOK ==
    ASSUME NEW f, NEW m, NEW B, Honest(m, B), WellPlaced(m.records)
    PROVE  ManifestOK(Put(f, MANIFEST, m), B)
  BY DEF ManifestOK, Put

(* A new package has none.                                                 *)
LEMMA NewOdtOK ==
    ASSUME NEW B
    PROVE  ManifestOK(NewBaseOdt.parts, B)
  BY NewOdt DEF ManifestOK

(* Editors drop records, and exchange those of payload parts.              *)
LEMMA ManifestEditsWell ==
    ASSUME NEW m, NEW B, Honest(m, B), WellPlaced(m.records),
           NEW e \in UNION {DropRecord(m), SwapRecords(m), StripSignature(m),
                            DeclareAlgorithm(m), SignAsStranger(m), AddCosignature(m),
                            PromoteCosignature(m)}
    PROVE  WellPlaced(e.records)
  <1>1. "records" \in DOMAIN m
    BY DEF Honest
  <1>2. CASE e \in DropRecord(m)
    <2>1. PICK s \in DOMAIN m.records : e.records = Without(m.records, s)
      BY <1>1, <1>2 DEF DropRecord
    <2> QED
      BY <2>1 DEF WellPlaced, Without
  <1>3. CASE e \in SwapRecords(m)
    <2>1. PICK a \in DOMAIN m.records, c \in DOMAIN m.records :
              /\ m.records[a].channel \in PartChannels /\ m.records[c].channel \in PartChannels
              /\ e = [m EXCEPT !.records = Exchanged(@, a, c)]
      BY <1>3 DEF SwapRecords
    <2> DEFINE recs == m.records
               out == Exchanged(recs, a, c)
    <2>2. e.records = out
      BY <1>1, <2>1
    <2>3. /\ DOMAIN out = DOMAIN recs
          /\ \A s \in DOMAIN recs : s # a /\ s # c => out[s] = recs[s]
      BY DEF Exchanged
    <2>4. "channel" \in DOMAIN recs[a] /\ "channel" \in DOMAIN recs[c]
      BY DEF WellPlaced, RecordWell
    <2>5. \A s \in {a, c} : DOMAIN out[s] = DOMAIN recs[s] /\ out[s].channel = recs[s].channel
      BY <2>4 DEF Exchanged
    <2>6. \A s \in {a, c} : recs[s].channel # "stego_media"
      BY <2>1 DEF PartChannels
    <2> HIDE DEF out
    <2> QED
      BY <2>2, <2>3, <2>4, <2>5, <2>6 DEF WellPlaced, RecordWell
  <1>4. CASE e \in StripSignature(m) \/ e \in DeclareAlgorithm(m) \/ e \in SignAsStranger(m)
                \/ e \in AddCosignature(m) \/ e \in PromoteCosignature(m)
    <2>1. e.records = m.records
      BY <1>1, <1>4 DEF StripSignature, DeclareAlgorithm, SignAsStranger, AddCosignature,
                        PromoteCosignature
    <2> QED
      BY <2>1
  <1> QED
    BY <1>2, <1>3, <1>4

(* One build more: what was emitted before is as good as it was.           *)
LEMMA EmittedOKGrows ==
    ASSUME NEW B, IsSeq(B), NEW b, NEW c, EmittedOK(c, B)
    PROVE  EmittedOK(c, Append(B, b))
  BY HonestGrows DEF EmittedOK, ManifestOK

(* The digest leaves the manifest out: writing it does not change it.      *)
LEMMA SurfaceIgnoresManifest ==
    ASSUME NEW p, PkgShape(p), NEW m
    PROVE  OdtSurfaceDigest(AddFile(p, MANIFEST, m, "manifest")) = OdtSurfaceDigest(p)
  <1> DEFINE q == AddFile(p, MANIFEST, m, "manifest")
  <1>1. q.parts = Put(p.parts, MANIFEST, m) /\ q.types = Put(p.types, MANIFEST, "manifest")
    BY DEF AddFile, PkgShape
  <1> HIDE DEF q
  <1>2. MANIFEST \in DigestExcluded
    BY DEF DigestExcluded
  <1>3. \A f, v : Except(Put(f, MANIFEST, v), DigestExcluded) = Except(f, DigestExcluded)
    BY <1>2 DEF Except, Put
  <1> QED
    BY <1>1, <1>3 DEF OdtSurfaceDigest, q

(* The package a build emits, and its manifest.                            *)
LEMMA EmittedPackage ==
    ASSUME PkgShape(pkg)
    PROVE  LET q == AddFile(pkg, MANIFEST, SignedManifest, "manifest")
               m == SignedManifest
               body == CanonicalBody(m)
           IN  /\ Adds(pkg, q, MANIFEST, m) /\ ManifestOf(q) = m
               /\ MANIFEST \in DOMAIN q.parts /\ MANIFEST \in DOMAIN q.types
               /\ DOMAIN m = {"records", "surface", "publicKey", "signature",
                              "cosignatures", "algorithm"}
               /\ m.records = records /\ m.surface = OdtSurfaceDigest(q)
               /\ m.algorithm = Algorithm /\ m.publicKey = signer
               /\ m.signature = IF signer = NoSignature THEN NoSignature
                                ELSE Signature(signer, body)
               /\ m.cosignatures = [i \in DOMAIN cosigners |->
                                      [publicKey |-> cosigners[i],
                                       value |-> Signature(cosigners[i], body)]]
  <1> DEFINE m == SignedManifest
             q == AddFile(pkg, MANIFEST, m, "manifest")
             bound == [NewManifest EXCEPT !.records = records,
                                          !.surface = OdtSurfaceDigest(pkg)]
  <1>1. /\ DOMAIN m = {"records", "surface", "publicKey", "signature", "cosignatures",
                       "algorithm"}
        /\ m.records = records /\ m.surface = OdtSurfaceDigest(pkg)
        /\ m.algorithm = Algorithm /\ m.publicKey = signer
        /\ m.signature = IF signer = NoSignature THEN NoSignature
                         ELSE Signature(signer, CanonicalBody(bound))
        /\ m.cosignatures = [i \in DOMAIN cosigners |->
                               [publicKey |-> cosigners[i],
                                value |-> Signature(cosigners[i], CanonicalBody(bound))]]
    BY DEF SignedManifest, NewManifest
  <1>2. bound.records = records /\ bound.surface = OdtSurfaceDigest(pkg)
    BY DEF NewManifest
  <1> HIDE DEF bound, m
  <1>3. CanonicalBody(bound) = CanonicalBody(m)
    BY <1>1, <1>2 DEF CanonicalBody, MerkleRoot
  <1>4. Adds(pkg, q, MANIFEST, m) /\ q.types = Put(pkg.types, MANIFEST, "manifest")
    BY AddFileAdds
  <1>5. OdtSurfaceDigest(q) = OdtSurfaceDigest(pkg)
    BY SurfaceIgnoresManifest
  <1> HIDE DEF q
  <1>6. /\ ManifestOf(q) = m /\ MANIFEST \in DOMAIN q.parts
        /\ MANIFEST \in DOMAIN q.types
    BY <1>4 DEF Adds, ManifestOf, Put
  <1> QED
    BY <1>1, <1>3, <1>4, <1>5, <1>6 DEF q, m

(* What a build emits carries the signatures of those it was asked to.     *)
LEMMA FinishBuildMInv ==
    ASSUME TInv, MInv, FinishBuild
    PROVE  MInv'
  <1> DEFINE m == SignedManifest
             q == AddFile(pkg, MANIFEST, m, "manifest")
             b == [modules |-> pending, signer |-> signer, cosigners |-> cosigners,
                   shares |-> shares, pkg |-> q]
             B == Append(built, b)
  <1>1. /\ built' = B /\ file' = ToBytes(q) /\ pkg' = AfterBuild(q)
        /\ cosigners' = cosigners /\ records' = <<>>
    BY DEF FinishBuild, builderVars
  <1>2. b.signer = signer /\ b.cosigners = cosigners /\ b.pkg = q
    OBVIOUS
  <1> DEFINE body == CanonicalBody(m)
  <1>3. /\ Adds(pkg, q, MANIFEST, m) /\ ManifestOf(q) = m
        /\ MANIFEST \in DOMAIN q.parts /\ MANIFEST \in DOMAIN q.types
        /\ DOMAIN m = {"records", "surface", "publicKey", "signature",
                       "cosignatures", "algorithm"}
        /\ m.records = records /\ m.surface = OdtSurfaceDigest(q)
        /\ m.algorithm = Algorithm /\ m.publicKey = signer
        /\ m.signature = IF signer = NoSignature THEN NoSignature
                         ELSE Signature(signer, body)
        /\ m.cosignatures = [i \in DOMAIN cosigners |->
                               [publicKey |-> cosigners[i],
                                value |-> Signature(cosigners[i], body)]]
    BY EmittedPackage DEF TInv, PkgFinite
  <1>4. IsSeq(built) /\ IsSeq(cosigners)
    BY DEF MInv
  <1>5. /\ IsSeq(B) /\ DOMAIN B = DOMAIN built \cup {Len(built) + 1}
        /\ \A i \in DOMAIN built : B[i] = built[i]
        /\ B[Len(built) + 1] = b
    <2>1. IsSeq(B) /\ Len(built) \in Nat /\ Len(B) = Len(built) + 1
      BY <1>4, AppendIsSeq, SeqShape
    <2> QED
      BY <1>4, <2>1, AppendIsSeq, SeqShape
  <1> HIDE DEF m, q, b, body
  <1>6. Honest(m, B)
    BY <1>2, <1>3, <1>4, SignedIsHonest DEF body
  <1>7. ManifestOK(q.parts, B)
    BY <1>3, <1>6 DEF ManifestOK, MInv, ManifestOf
  <1>8. EmittedOK(b, B)
    BY <1>2, <1>3, <1>7 DEF EmittedOK, Adds, body
  <1>9. \A i \in DOMAIN built : EmittedOK(built[i], B)
    BY <1>4, EmittedOKGrows DEF MInv, B
  <1> HIDE DEF B
  <1>10. \A i \in DOMAIN B : EmittedOK(B[i], B)
    BY <1>5, <1>8, <1>9
  <1>11. ManifestOK(pkg'.parts, B)
    BY <1>1, <1>7, NewOdtOK DEF AfterBuild
  <1>12. ManifestOK(file', B)
    BY <1>1, <1>7, ToBytesSame, SameManifestOK
  <1>13. WellPlaced(records')
    BY <1>1 DEF WellPlaced
  <1> QED
    BY <1>1, <1>4, <1>5, <1>10, <1>11, <1>12, <1>13 DEF MInv

(* A module placed.                                                        *)
LEMMA PlacingMInv ==
    ASSUME TInv, MInv, PlacePackagePart \/ PlaceStegoMedia \/ PlaceCarrier
    PROVE  MInv'
  <1>1. PkgFinite(pkg) /\ PkgShape(pkg)
    BY DEF TInv, PkgFinite
  <1>2. \A i \in DOMAIN carriers : carriers[i][1] = "figure"
    BY ElementOfSeq, SeqDef DEF TInv, TypeOK
  <1>3. ASSUME NEW p, NEW parts, Place(p, parts), NEW name, name # MANIFEST,
               Adds(pkg, p, name, Sealed), RecordWell(Record(parts))
        PROVE  MInv'
    <2>1. /\ records' = Put(records, Module.slot, Record(parts)) /\ pkg' = p
          /\ UNCHANGED <<cosigners, built, file>>
      BY <1>3 DEF Place, builderVars
    <2>2. ManifestOK(pkg'.parts, built)
      BY <1>3, <2>1, AddsManifestOK DEF MInv
    <2>3. WellPlaced(records')
      BY <1>3, <2>1, OneMoreWell DEF MInv
    <2> QED
      BY <2>1, <2>2, <2>3 DEF MInv
  <1>4. CASE PlacePackagePart \/ PlaceStegoMedia
    <2>1. CASE /\ Module.channel = "odt_package_part"
               /\ \E p : Place(p, <<NextPayload>>) /\ Adds(pkg, p, NextPayload, Sealed)
      <3>1. RecordWell(Record(<<NextPayload>>)) /\ NextPayload # MANIFEST
        BY <2>1, Directories DEF RecordWell, Record
      <3> QED
        BY <1>3, <2>1, <3>1
    <2>2. CASE /\ Module.channel = "stego_media"
               /\ Place(WithFigure, Append(carriers, NextFigure))
               /\ Adds(pkg, WithFigure, NextFigure, Sealed)
      <3>1. \A i \in DOMAIN Append(carriers, NextFigure) :
                Append(carriers, NextFigure)[i][1] = "figure"
        <4>1. IsSeq(carriers)
          BY DEF TInv, TypeOK, IsSeq
        <4>2. \A i \in 1..(Len(carriers) + 1) :
                  i \in 1..Len(carriers) \/ i = Len(carriers) + 1
          BY <4>1, SeqShape
        <4> QED
          BY <1>2, <4>1, <4>2, AppendIsSeq, SeqShape, Directories
      <3>2. RecordWell(Record(Append(carriers, NextFigure))) /\ NextFigure # MANIFEST
        BY <3>1, Directories DEF RecordWell, Record
      <3> QED
        BY <1>3, <2>2, <3>2
    <2> QED
      BY <1>1, <1>4, <2>1, <2>2, PlacingAdds
  <1>5. CASE PlaceCarrier
    <2>1. pkg' = WithFigure /\ UNCHANGED <<cosigners, built, file, records>>
      BY <1>5 DEF PlaceCarrier, builderVars
    <2>2. ManifestOK(pkg'.parts, built)
      BY <1>1, <2>1, WithFigureAdds, AddsManifestOK, Directories DEF MInv
    <2> QED
      BY <2>1, <2>2 DEF MInv
  <1> QED
    BY <1>4, <1>5

(* An edit adds no author's signature.                                     *)
LEMMA EditMInv ==
    ASSUME TInv, MInv, Edit
    PROVE  MInv'
  <1>1. /\ file # NoKey /\ ManifestOK(file, built) /\ IsFiniteSet(DOMAIN file)
        /\ UNCHANGED <<cosigners, built, records, pkg>>
    BY DEF Edit, MInv, TInv, builderVars, buildVars
  <1>2. ASSUME NEW f \in PackageEdits(file)
        PROVE  ManifestOK(f, built) /\ SameManifest(file, f)
    BY <1>1, PackageEditsKeep, SameManifestOK
  <1>3. ASSUME MANIFEST \in DOMAIN file, NEW e, file' = Put(file, MANIFEST, e),
               LET m == file[MANIFEST]
               IN  \/ e \in UNION {DropRecord(m), SwapRecords(m), StripSignature(m),
                                   DeclareAlgorithm(m), SignAsStranger(m),
                                   AddCosignature(m), PromoteCosignature(m)}
                   \/ \E i \in DOMAIN built : e = ManifestOf(built[i].pkg)
        PROVE  ManifestOK(file', built)
    <2>1. Honest(file[MANIFEST], built) /\ WellPlaced(file[MANIFEST].records)
      BY <1>1, <1>3 DEF ManifestOK
    <2>2. \A i \in DOMAIN built : /\ Honest(ManifestOf(built[i].pkg), built)
                                  /\ WellPlaced(ManifestOf(built[i].pkg).records)
      BY DEF MInv, EmittedOK, ManifestOK, ManifestOf
    <2>3. Honest(e, built)
      BY <1>3, <2>1, <2>2, ManifestEditsHonest
    <2>4. WellPlaced(e.records)
      BY <1>3, <2>1, <2>2, ManifestEditsWell
    <2> QED
      BY <1>3, <2>3, <2>4, PutManifestOK
  <1>4. ASSUME MANIFEST \in DOMAIN file, NEW f \in PackageEdits(file), file' = Rebound(f)
        PROVE  ManifestOK(file', built)
    <2> DEFINE d == OdtSurfaceDigest(FromBytes(f))
               e == [f[MANIFEST] EXCEPT !.surface = d]
    <2>1. Honest(f[MANIFEST], built) /\ WellPlaced(f[MANIFEST].records)
      BY <1>2, <1>4 DEF SameManifest, ManifestOK
    <2> HIDE DEF d
    <2>2. SameSignatures(f[MANIFEST], e) /\ e.records = f[MANIFEST].records
      BY <2>1 DEF SameSignatures, Honest
    <2>3. Honest(e, built)
      BY <2>1, <2>2, SameSignaturesHonest
    <2>4. file' = Put(f, MANIFEST, e)
      BY <1>4 DEF Rebound, d
    <2> HIDE DEF e
    <2> QED
      BY <2>1, <2>2, <2>3, <2>4, PutManifestOK
  <1>5. ManifestOK(file', built)
    BY <1>2, <1>3, <1>4, EditIs
  <1> QED
    BY <1>1, <1>5 DEF MInv

(* Every step keeps it.                                                    *)
LEMMA NextMInv == TInv /\ TInv' /\ MInv /\ [Next]_vars => MInv'
  <1> SUFFICES ASSUME TInv, TInv', MInv, [Next]_vars
               PROVE  MInv'
    OBVIOUS
  <1>1. CASE \/ \E m \in Modules : AddModule(m)
             \/ \E key \in Authors : Sign(key)
             \/ UNCHANGED vars
    BY <1>1 DEF AddModule, Sign, vars, builderVars, buildVars, MInv
  <1>2. CASE \E key \in Authors : AddCosigner(key)
    <2>1. IsSeq(cosigners')
      BY <1>2, AppendIsSeq DEF AddCosigner, MInv
    <2> QED
      BY <1>2, <2>1 DEF AddCosigner, buildVars, MInv
  <1>3. CASE file # NoKey /\ UseBase(FromBytes(file))
    BY <1>3, FromBytesIs DEF UseBase, MInv
  <1>4. CASE BeginBuild
    <2>1. WellPlaced(records')
      BY <1>4 DEF BeginBuild, WellPlaced
    <2> QED
      BY <1>4, <2>1 DEF BeginBuild, builderVars, MInv
  <1>5. CASE Raise
    <2>1. WellPlaced(records') /\ ManifestOK(pkg'.parts, built)
      BY <1>5, NewOdtOK DEF Raise, AfterBuild, WellPlaced, MInv
    <2> QED
      BY <1>5, <2>1 DEF Raise, builderVars, MInv
  <1>6. CASE SerialiseBase
    <2>1. ManifestOK(file', built)
      BY <1>6, ToBytesSame, SameManifestOK DEF SerialiseBase, MInv
    <2> QED
      BY <1>6, <2>1 DEF SerialiseBase, builderVars, buildVars, MInv
  <1> QED
    BY <1>1, <1>2, <1>3, <1>4, <1>5, <1>6, PlacingMInv, FinishBuildMInv, EditMInv DEF Next

(* Nothing is signed at first.                                             *)
LEMMA InitMInv == Init => MInv
  <1> SUFFICES ASSUME Init
               PROVE  MInv
    OBVIOUS
  <1>1. WellPlaced(records) /\ built = <<>> /\ cosigners = <<>> /\ pkg = NewBaseOdt
          /\ file = NoKey
    BY DEF Init, WellPlaced
  <1>2. DOMAIN built = {}
    BY <1>1
  <1> QED
    BY <1>1, <1>2, EmptyIsSeq, NewOdtOK DEF MInv

(* It holds in every state of every behaviour.                             *)
LEMMA AlwaysMInv == Spec => []MInv
  BY AlwaysTInv, InitMInv, NextMInv, PTL DEF Spec

(* Packages that hash alike show the same, where no part of theirs reads   *)
(* like more than the part it is.                                          *)
LEMMA FramedShownAlike ==
    ASSUME NEW p, NEW q, FramedShown(p), FramedShown(q),
           OdtSurfaceDigest(p) = OdtSurfaceDigest(q)
    PROVE  Shown(p) = Shown(q)
  <1> DEFINE P == Except(p.parts, DigestExcluded)
             X == Except(p.types, DigestExcluded)
             Q == Except(q.parts, DigestExcluded)
             Y == Except(q.types, DigestExcluded)
  <1>1. Shown(p) = [parts |-> P, types |-> X] /\ Shown(q) = [parts |-> Q, types |-> Y]
    BY DEF Shown, DigestExcluded
  <1>2. Framed(P) /\ Framed(Q)
    BY <1>1 DEF FramedShown
  <1>3. Entries(P, X, <<>>) = Entries(Q, Y, <<>>)
    BY DEF OdtSurfaceDigest
  <1>4. /\ P = [n \in DOMAIN P |-> P[n]] /\ Q = [n \in DOMAIN Q |-> Q[n]]
        /\ X = [n \in DOMAIN X |-> X[n]] /\ Y = [n \in DOMAIN Y |-> Y[n]]
    BY DEF Except
  <1> HIDE DEF P, X, Q, Y
  <1>5. /\ DOMAIN P = DOMAIN Q /\ \A n \in DOMAIN P : P[n] = Q[n]
        /\ DOMAIN X = DOMAIN Y /\ \A n \in DOMAIN X : X[n] = Y[n]
    BY <1>2, <1>3, FramedEntries
  <1>6. P = Q /\ X = Y
    BY <1>4, <1>5
  <1> QED
    BY <1>1, <1>6

(* A key that verifies for a document vouches for a build that the         *)
(* document says the same as.                                              *)
LEMMA MInvAuthentic ==
    ASSUME MInv
    PROVE  Authentic
  <1> DEFINE p == FromBytes(file)
             m == ManifestOf(p)
  <1> SUFFICES ASSUME file # NoKey, MANIFEST \in DOMAIN file, NEW key \in Authors,
                      VerifyProvenance(p, key) \/ key \in Cosigners(p)
               PROVE  \E i \in DOMAIN built :
                          Vouches(key, built[i]) /\ SaysWhatWasBuilt(p, built[i])
    BY DEF Authentic
  <1>1. m = file[MANIFEST]
    BY FromBytesIs DEF ManifestOf
  <1>2. Honest(m, built)
    BY <1>1 DEF MInv, ManifestOK
  <1> HIDE DEF p
  <1>3. /\ OdtSurfaceDigest(p) = m.surface
        /\ (VerifySignature(m) /\ m.publicKey = key) \/ key \in ValidCosigners(m)
    BY DEF VerifyProvenance, Cosigners
  <1> HIDE DEF m
  <1>4. PICK i \in DOMAIN built :
            /\ Vouches(key, built[i])
            /\ m.records = ManifestOf(built[i].pkg).records
            /\ m.surface = ManifestOf(built[i].pkg).surface
    BY <1>2, <1>3, VerifiedIsVouchedFor
  <1>5. ManifestOf(built[i].pkg).surface = OdtSurfaceDigest(built[i].pkg)
    BY DEF MInv, EmittedOK
  <1>6. OdtSurfaceDigest(p) = OdtSurfaceDigest(built[i].pkg)
    BY <1>3, <1>4, <1>5
  <1>7. FramedShown(p) /\ FramedShown(built[i].pkg) => Shown(p) = Shown(built[i].pkg)
    BY <1>6, FramedShownAlike
  <1> QED
    BY <1>4, <1>6, <1>7 DEF SaysWhatWasBuilt, m

(* Whatever is done to a text document after it was built, by an editor or *)
(* by an office program that lists its parts anew, a key that verifies for *)
(* it is of an author who vouched for just these records, in a package     *)
(* that hashes like this one; and for just these parts and media types,    *)
(* where no part holds the bytes of a further entry.                       *)
THEOREM OdtProvenanceIsAuthentic == Spec => []Authentic
  BY AlwaysMInv, MInvAuthentic, PTL

-----------------------------------------------------------------------------
(* When a signed build verifies for its reader.                            *)

\* The absence of a signature is none.
AbsenceIsNoSignature == \A key, body : Signature(key, body) # NoSignature

(* What the reader of a build has.                                         *)
LEMMA ReadBackIs ==
    ASSUME NEW b, LET p == b.pkg IN MANIFEST \in DOMAIN p.parts
    PROVE  LET p == b.pkg
               q == ReadBack(b)
           IN  /\ ManifestOf(q) = ManifestOf(p)
               /\ q.parts = ToBytes(p) /\ q.types = Listing(p)
               /\ \A n \in DOMAIN p.parts : n[1] \in {"payload", "figure"} =>
                    HasPart(q, n) /\ q.parts[n] = p.parts[n]
  <1> DEFINE p == b.pkg
             f == ToBytes(p)
             q == FromBytes(f)
  <1>1. /\ DOMAIN f = DOMAIN p.parts \cup {MIMETYPE, LISTING}
        /\ f[LISTING] = Listing(p)
        /\ \A n \in DOMAIN p.parts \ {MIMETYPE, LISTING} : f[n] = p.parts[n]
    BY ToBytesIs
  <1>2. ReadBack(b) = q
    BY DEF ReadBack
  <1> HIDE DEF p, f
  <1>3. q.parts = f /\ q.types = Listing(p)
    BY <1>1 DEF FromBytes
  <1> HIDE DEF q
  <1>4. ManifestOf(q) = ManifestOf(p)
    BY <1>1, <1>3, Directories DEF ManifestOf, p
  <1>5. ASSUME NEW n \in DOMAIN p.parts, n[1] \in {"payload", "figure"}
        PROVE  HasPart(q, n) /\ q.parts[n] = p.parts[n]
    BY <1>1, <1>3, <1>5, Directories DEF HasPart
  <1> QED
    BY <1>2, <1>3, <1>4, <1>5 DEF f, p

(* The types read back are those digested just if the package lists what   *)
(* it has and has what it lists.                                           *)
LEMMA TypesMatch ==
    ASSUME NEW p, MANIFEST \in DOMAIN p.parts, MANIFEST \in DOMAIN p.types
    PROVE  Except(Listing(p), DigestExcluded) = Except(p.types, DigestExcluded)
             <=> Complete(p)
  <1> DEFINE l == Except(Listing(p), DigestExcluded)
             t == Except(p.types, DigestExcluded)
  <1>1. /\ DOMAIN l = DOMAIN p.parts \ DigestExcluded
        /\ \A n \in DOMAIN l : n \in DOMAIN p.types => l[n] = p.types[n]
    BY DEF Except, Listing, Put, DigestExcluded, Reserved
  <1>2. /\ DOMAIN t = DOMAIN p.types \ DigestExcluded
        /\ \A n \in DOMAIN t : t[n] = p.types[n]
        /\ t = [n \in DOMAIN t |-> t[n]]
    BY DEF Except
  <1>3. l = [n \in DOMAIN l |-> l[n]]
    BY DEF Except
  <1> HIDE DEF l, t
  <1>4. ASSUME DOMAIN l = DOMAIN t
        PROVE  l = t
    BY <1>1, <1>2, <1>3, <1>4
  <1>5. Complete(p) <=> DOMAIN l = DOMAIN t
    <2>1. DigestExcluded = {MANIFEST} \cup Reserved /\ MANIFEST \notin Reserved
      BY Directories DEF DigestExcluded, Reserved
    <2> QED
      BY <1>1, <1>2, <2>1 DEF Complete
  <1> QED
    BY <1>4, <1>5 DEF l, t

(* So the signature of a build holds for the reader of a complete package. *)
LEMMA MInvSignedBuildVerifies ==
    ASSUME MInv, AbsenceIsNoSignature
    PROVE  SignedBuildVerifies
  <1> SUFFICES ASSUME NEW i \in DOMAIN built, built[i].signer # NoSignature
               PROVE  LET verifies == VerifyProvenance(ReadBack(built[i]), built[i].signer)
                      IN  /\ Complete(built[i].pkg) => verifies
                          /\ verifies /\ FramedShown(built[i].pkg) => Complete(built[i].pkg)
    BY DEF SignedBuildVerifies
  <1> DEFINE b == built[i]
             p == b.pkg
             q == ReadBack(b)
             m == ManifestOf(p)
  <1>1. EmittedOK(b, built)
    BY DEF MInv
  <1> HIDE DEF b
  <1>2. /\ MANIFEST \in DOMAIN p.parts /\ MANIFEST \in DOMAIN p.types
        /\ m.surface = OdtSurfaceDigest(p)
        /\ m.algorithm = Algorithm /\ m.publicKey = b.signer
        /\ m.signature = Signature(b.signer, CanonicalBody(m))
    BY <1>1 DEF EmittedOK, b
  <1>3. ManifestOf(q) = m /\ q.parts = ToBytes(p) /\ q.types = Listing(p)
    BY <1>2, ReadBackIs
  <1> HIDE DEF q, m
  <1>4. VerifySignature(m)
    BY <1>2 DEF VerifySignature, IsSigned, AbsenceIsNoSignature, b
  <1>5. VerifyProvenance(q, b.signer) <=> OdtSurfaceDigest(q) = OdtSurfaceDigest(p)
    BY <1>2, <1>3, <1>4 DEF VerifyProvenance
  <1>6. Except(q.parts, DigestExcluded) = Except(p.parts, DigestExcluded)
    <2>1. /\ DOMAIN q.parts = DOMAIN p.parts \cup {MIMETYPE, LISTING}
          /\ \A n \in DOMAIN p.parts \ {MIMETYPE, LISTING} : q.parts[n] = p.parts[n]
      BY <1>3, ToBytesIs
    <2>2. MIMETYPE \in DigestExcluded /\ LISTING \in DigestExcluded
      BY DEF DigestExcluded, Reserved
    <2> HIDE DEF p
    <2> QED
      BY <2>1, <2>2 DEF Except
  <1>7. Except(q.types, DigestExcluded) = Except(p.types, DigestExcluded) <=> Complete(p)
    BY <1>2, <1>3, TypesMatch
  <1>8. Complete(p) => OdtSurfaceDigest(q) = OdtSurfaceDigest(p)
    BY <1>6, <1>7 DEF OdtSurfaceDigest
  <1>9. OdtSurfaceDigest(q) = OdtSurfaceDigest(p) /\ FramedShown(p) => Complete(p)
    <2> SUFFICES ASSUME OdtSurfaceDigest(q) = OdtSurfaceDigest(p), FramedShown(p)
                 PROVE  Complete(p)
      OBVIOUS
    <2>1. Shown(q).parts = Shown(p).parts
      BY <1>6 DEF Shown, DigestExcluded
    <2>2. FramedShown(q)
      BY <2>1 DEF FramedShown
    <2>3. Shown(q).types = Shown(p).types
      BY <2>2, FramedShownAlike
    <2> QED
      BY <1>7, <2>3 DEF Shown, DigestExcluded
  <1> QED
    BY <1>5, <1>8, <1>9 DEF b, q

(* A signed text document verifies for its own reader if its base package  *)
(* listed every part it has and no other, and, unless a part of it holds   *)
(* the bytes of further entries, only then: the listing that is written is *)
(* made anew, after the digest was taken.                                  *)
THEOREM SignedOdtVerifies ==
    ASSUME AbsenceIsNoSignature
    PROVE  Spec => []SignedBuildVerifies
  <1>1. MInv => SignedBuildVerifies
    BY MInvSignedBuildVerifies
  <1> QED
    BY <1>1, AlwaysMInv, PTL

-----------------------------------------------------------------------------
(* What was placed is found and opens.  While a build is under way, every  *)
(* module it has placed is where its record leads: pictures are numbered   *)
(* on, and the payloads of one build have numbers of their own.            *)

PayloadOf(j) ==
    <<"payload", Cardinality({k \in 1..j : pending[k].channel = "odt_package_part"})>>

\* A record leads to its bytes.
Leads(r, p) ==
    /\ r.channel = "odt_package_part" =>
         LET n == r.loc.parts[1]
         IN  n[1] = "payload" /\ HasPart(p, n) /\ p.parts[n] = r.digest
    /\ r.channel = "stego_media" =>
         \E i \in DOMAIN r.loc.parts :
             LET n == r.loc.parts[i]
             IN  n[1] = "figure" /\ HasPart(p, n) /\ p.parts[n] = r.digest

\* A module is recorded and placed in p, and its shares are handed out.
PlacedAs(m, n, recs, issued, p) ==
    LET r == recs[m.slot]
    IN  /\ m.slot \in DOMAIN recs
        /\ r.channel = m.channel /\ r.mode = Mode(m) /\ r.digest = SealModule(m, n)
        /\ m.seal = "threshold" =>
             m.slot \in DOMAIN issued /\ issued[m.slot] = ContentKey(m.slot, n)
        /\ Leads(r, p)

QueueOK == \A i, j \in DOMAIN pending : pending[i].slot = pending[j].slot => i = j

BuildOK ==
    ~Idle =>
        /\ \A j \in 1..(step - 1) :
             /\ PlacedAs(pending[j], builds, records, shares, pkg)
             /\ pending[j].channel = "odt_package_part" =>
                  records[pending[j].slot].loc.parts[1] = PayloadOf(j)
        /\ \A s \in DOMAIN records : \E j \in 1..(step - 1) : pending[j].slot = s

BuildsOK ==
    \A i \in DOMAIN built : \E n \in 0..MaxBuilds : \A j \in DOMAIN built[i].modules :
        LET b == built[i]
        IN  /\ b.modules[j] \in Modules
            /\ PlacedAs(b.modules[j], n, ManifestOf(b.pkg).records, b.shares, b.pkg)

KInv == QueueOK /\ BuildOK /\ BuildsOK

(* Payloads of one build have different numbers.                           *)
LEMMA PayloadsDiffer ==
    ASSUME NEW l \in Nat, pending[l].channel = "odt_package_part", NEW j \in 1..(l - 1)
    PROVE  PayloadOf(j) # PayloadOf(l)
  <1> DEFINE S(i) == {k \in 1..i : pending[k].channel = "odt_package_part"}
  <1>1. S(j) \subseteq S(l) /\ l \in S(l) /\ l \notin S(j)
    OBVIOUS
  <1>2. IsFiniteSet(S(l))
    <2>1. IsFiniteSet(1..l)
      BY FS_Interval
    <2> QED
      BY <2>1, FS_Subset
  <1>3. Cardinality(S(j)) # Cardinality(S(l))
    BY <1>1, <1>2, FS_Subset
  <1> QED
    BY <1>3 DEF PayloadOf

(* The bytes a record leads to are read.                                   *)
LEMMA LeadsIsRead ==
    ASSUME NEW r, r.channel \in OdtChannelIds, NEW p, Leads(r, p)
    PROVE  StoredBytes(p, r) = r.digest
  <1>1. CASE r.channel = "odt_package_part"
    BY <1>1 DEF Leads, StoredBytes, PartBytes
  <1>2. CASE r.channel = "stego_media"
    <2>1. \E i \in DOMAIN r.loc.parts : PartBytes(p, r.loc.parts[i]) = r.digest
      BY <1>2 DEF Leads, PartBytes
    <2> QED
      BY <1>2, <2>1 DEF StoredBytes, ExtractStegoMedia
  <1> QED
    BY <1>1, <1>2 DEF OdtChannelIds

(* A part added leaves them where they are, unless it takes their name.    *)
LEMMA LeadsKept ==
    ASSUME NEW r, NEW p, Leads(r, p), NEW q, NEW name, NEW data, Adds(p, q, name, data),
           r.channel = "odt_package_part" => name # r.loc.parts[1],
           name[1] = "figure" => ~HasPart(p, name)
    PROVE  Leads(r, q)
  <1>1. \A n \in DOMAIN p.parts : n # CONTENT /\ n # name =>
            HasPart(q, n) /\ q.parts[n] = p.parts[n]
    BY DEF Adds, HasPart
  <1>2. CASE r.channel = "odt_package_part"
    <2> DEFINE n == r.loc.parts[1]
    <2>1. n[1] = "payload" /\ HasPart(p, n) /\ p.parts[n] = r.digest /\ name # n
      BY <1>2 DEF Leads
    <2> HIDE DEF n
    <2>2. HasPart(q, n) /\ q.parts[n] = r.digest
      BY <1>1, <2>1, Directories DEF HasPart
    <2> QED
      BY <1>2, <2>1, <2>2 DEF Leads, n
  <1>3. CASE r.channel = "stego_media"
    <2>1. PICK i \in DOMAIN r.loc.parts :
              LET n == r.loc.parts[i]
              IN  n[1] = "figure" /\ HasPart(p, n) /\ p.parts[n] = r.digest
      BY <1>3 DEF Leads
    <2> DEFINE n == r.loc.parts[i]
    <2>2. n[1] = "figure" /\ HasPart(p, n) /\ p.parts[n] = r.digest
      BY <2>1
    <2> HIDE DEF n
    <2>3. HasPart(q, n) /\ q.parts[n] = r.digest
      BY <1>1, <2>2, Directories DEF HasPart
    <2> QED
      BY <1>3, <2>2, <2>3 DEF Leads, n
  <1> QED
    BY <1>2, <1>3 DEF Leads

(* A module placed stays placed, while others are.                         *)
LEMMA PlacedKept ==
    ASSUME TInv, KInv, step \in 1..Len(pending), NEW j \in 1..(step - 1),
           NEW q, NEW name, NEW data, Adds(pkg, q, name, data),
           \/ name = NextFigure
           \/ name = NextPayload /\ Module.channel = "odt_package_part",
           NEW recs, NEW issued,
           \A s \in DOMAIN records : s # Module.slot =>
               s \in DOMAIN recs /\ recs[s] = records[s],
           \A s \in DOMAIN shares : s # Module.slot =>
               s \in DOMAIN issued /\ issued[s] = shares[s]
    PROVE  /\ PlacedAs(pending[j], builds, recs, issued, q)
           /\ pending[j].channel = "odt_package_part" =>
                recs[pending[j].slot].loc.parts[1] = PayloadOf(j)
  <1> DEFINE m == pending[j]
             r == records[m.slot]
  <1>1. /\ PlacedAs(m, builds, records, shares, pkg)
        /\ m.channel = "odt_package_part" => r.loc.parts[1] = PayloadOf(j)
    BY DEF KInv, BuildOK, Idle
  <1>2. m.slot # Module.slot
    <2>1. DOMAIN pending = 1..Len(pending) /\ Len(pending) \in Nat
      BY LenProperties DEF TInv, TypeOK
    <2>2. j \in DOMAIN pending /\ step \in DOMAIN pending /\ j # step
      BY <2>1
    <2> QED
      BY <2>2 DEF KInv, QueueOK, Module
  <1> HIDE DEF m
  <1>3. m.slot \in DOMAIN records /\ Leads(r, pkg) /\ r.channel = m.channel
    BY <1>1 DEF PlacedAs
  <1>4. /\ recs[m.slot] = r /\ m.slot \in DOMAIN recs
        /\ m.slot \in DOMAIN shares =>
             m.slot \in DOMAIN issued /\ issued[m.slot] = shares[m.slot]
    BY <1>2, <1>3
  <1>5. name = NextFigure => ~HasPart(pkg, name)
    BY PartIsNew DEF TInv, PkgFinite, NextFigure
  <1>6. r.channel = "odt_package_part" => name # r.loc.parts[1]
    <2>1. CASE name = NextFigure
      <3>1. r.channel = "odt_package_part" => r.loc.parts[1][1] = "payload"
        BY <1>3 DEF Leads
      <3> QED
        BY <2>1, <3>1, Directories
    <2>2. CASE name = NextPayload /\ Module.channel = "odt_package_part"
      <3>1. step \in Nat /\ name = PayloadOf(step)
        BY <2>2 DEF NextPayload, PayloadOf, TInv, TypeOK
      <3>2. PayloadOf(j) # PayloadOf(step)
        BY <2>2, <3>1, PayloadsDiffer DEF Module
      <3> QED
        BY <1>1, <1>3, <3>1, <3>2
    <2> QED
      BY <2>1, <2>2
  <1>7. Leads(r, q)
    BY <1>3, <1>5, <1>6, Directories, LeadsKept
  <1>8. PlacedAs(m, builds, recs, issued, q)
    BY <1>1, <1>4, <1>7 DEF PlacedAs
  <1> QED
    BY <1>1, <1>4, <1>8 DEF m

(* Handing out the shares of one module leaves those of the others.        *)
LEMMA SharesIssued ==
    ASSUME IssueShares
    PROVE  /\ \A s \in DOMAIN shares : s # Module.slot =>
                s \in DOMAIN shares' /\ shares'[s] = shares[s]
           /\ Module.seal = "threshold" =>
                /\ Module.slot \in DOMAIN shares'
                /\ shares'[Module.slot] = ContentKey(Module.slot, builds)
  BY DEF IssueShares, Put

(* The module placed is where its record leads.                            *)
LEMMA ModulePlaced ==
    ASSUME NEW p, NEW name, Adds(pkg, p, name, Sealed), NEW parts, IssueShares,
           \/ /\ Module.channel = "odt_package_part"
              /\ name = NextPayload /\ parts = <<NextPayload>>
           \/ /\ Module.channel = "stego_media" /\ IsSeq(carriers)
              /\ name = NextFigure /\ parts = Append(carriers, NextFigure)
    PROVE  PlacedAs(Module, builds, Put(records, Module.slot, Record(parts)), shares', p)
  <1> DEFINE recs == Put(records, Module.slot, Record(parts))
             r == Record(parts)
  <1>1. /\ r.channel = Module.channel /\ r.mode = Mode(Module)
        /\ r.digest = Sealed /\ r.loc.parts = parts
    BY DEF Record
  <1> HIDE DEF r
  <1>2. Module.slot \in DOMAIN recs /\ recs[Module.slot] = r
    BY DEF Put, r
  <1>3. HasPart(p, name) /\ p.parts[name] = Sealed
    BY DEF Adds, HasPart
  <1>4. CASE Module.channel = "odt_package_part"
    <2>1. name = NextPayload /\ parts = <<NextPayload>>
      BY <1>4
    <2>2. parts[1] = name /\ name[1] = "payload"
      BY <2>1, Directories
    <2>3. Leads(r, p)
      BY <1>1, <1>3, <1>4, <2>2 DEF Leads
    <2> QED
      BY <1>1, <1>2, <2>3, SharesIssued DEF PlacedAs, Sealed
  <1>5. CASE Module.channel = "stego_media"
    <2>1. IsSeq(carriers) /\ name = NextFigure /\ parts = Append(carriers, NextFigure)
      BY <1>5
    <2>2. Len(carriers) + 1 \in DOMAIN parts /\ parts[Len(carriers) + 1] = name
      <3>1. Len(carriers) \in Nat /\ DOMAIN parts = 1..(Len(carriers) + 1)
        BY <2>1, AppendIsSeq, SeqShape
      <3> QED
        BY <2>1, <3>1, AppendIsSeq
    <2>3. name[1] = "figure"
      BY <2>1, Directories
    <2>4. Leads(r, p)
      BY <1>1, <1>3, <1>5, <2>2, <2>3 DEF Leads
    <2> QED
      BY <1>1, <1>2, <2>4, SharesIssued DEF PlacedAs, Sealed
  <1> QED
    BY <1>4, <1>5

(* A step of a build that places a module.                                 *)
LEMMA PlaceKInv ==
    ASSUME TInv, KInv, PlacePackagePart \/ PlaceStegoMedia
    PROVE  KInv'
  <1>1. step \in 1..Len(pending) /\ PkgFinite(pkg)
    BY DEF PlacePackagePart, PlaceStegoMedia, Placing, TInv
  <1>2. PICK p, parts, name :
            /\ Place(p, parts) /\ Adds(pkg, p, name, Sealed)
            /\ \/ /\ Module.channel = "odt_package_part"
                  /\ name = NextPayload /\ parts = <<NextPayload>>
               \/ /\ Module.channel = "stego_media"
                  /\ name = NextFigure /\ parts = Append(carriers, NextFigure)
    BY <1>1, PlacingAdds
  <1> DEFINE recs == Put(records, Module.slot, Record(parts))
  <1>3. /\ pkg' = p /\ records' = recs /\ step' = step + 1 /\ IssueShares
        /\ UNCHANGED <<pending, builds, built>>
    BY <1>2 DEF Place, builderVars
  <1>4. /\ step \in Nat /\ step' - 1 = step /\ IsSeq(carriers)
        /\ DOMAIN pending = 1..Len(pending)
    BY <1>3, LenProperties DEF TInv, TypeOK, IsSeq
  <1>5. \A s \in DOMAIN records : s # Module.slot => s \in DOMAIN recs /\ recs[s] = records[s]
    BY DEF Put
  <1>6. PlacedAs(Module, builds, recs, shares', p)
    BY <1>2, <1>3, <1>4, ModulePlaced
  <1>7. Module.channel = "odt_package_part" =>
            recs[Module.slot].loc.parts[1] = PayloadOf(step)
    BY <1>2 DEF Put, Record, NextPayload, PayloadOf
  <1>8. DOMAIN recs = DOMAIN records \cup {Module.slot}
    BY DEF Put
  <1> HIDE DEF recs
  <1>9. ASSUME NEW j \in 1..step
        PROVE  /\ PlacedAs(pending[j], builds, recs, shares', p)
               /\ pending[j].channel = "odt_package_part" =>
                    recs[pending[j].slot].loc.parts[1] = PayloadOf(j)
    <2>1. CASE j = step
      BY <1>6, <1>7, <2>1 DEF Module
    <2>2. CASE j # step
      <3>1. j \in 1..(step - 1)
        BY <1>4, <2>2
      <3> QED
        BY <1>1, <1>2, <1>3, <1>5, <3>1, PlacedKept, SharesIssued
    <2> QED
      BY <2>1, <2>2
  <1>10. ASSUME NEW s \in DOMAIN recs
         PROVE  \E j \in 1..step : pending[j].slot = s
    <2>1. CASE s = Module.slot
      BY <1>4, <1>1, <2>1 DEF Module
    <2>2. CASE s \in DOMAIN records
      <3>1. PICK j \in 1..(step - 1) : pending[j].slot = s
        BY <1>1, <2>2 DEF KInv, BuildOK, Idle
      <3>2. j \in 1..step
        BY <1>4, <3>1
      <3> QED
        BY <3>1, <3>2
    <2> QED
      BY <1>8, <2>1, <2>2
  <1>11. \A j : PayloadOf(j)' = PayloadOf(j)
    BY <1>3 DEF PayloadOf
  <1>12. BuildOK'
    BY <1>3, <1>4, <1>9, <1>10, <1>11 DEF BuildOK
  <1>13. QueueOK' /\ BuildsOK'
    BY <1>3 DEF KInv, QueueOK, BuildsOK
  <1> QED
    BY <1>12, <1>13 DEF KInv

(* One carrier.                                                            *)
LEMMA CarrierKInv ==
    ASSUME TInv, KInv, PlaceCarrier
    PROVE  KInv'
  <1>1. /\ step \in 1..Len(pending) /\ pkg' = WithFigure /\ IssueShares
        /\ UNCHANGED <<pending, step, records, builds, built>>
    BY DEF PlaceCarrier, Placing, builderVars
  <1>2. Adds(pkg, WithFigure, NextFigure, Sealed)
    BY WithFigureAdds DEF TInv, PkgFinite
  <1>3. ASSUME NEW j \in 1..(step - 1)
        PROVE  /\ PlacedAs(pending[j], builds, records, shares', pkg')
               /\ pending[j].channel = "odt_package_part" =>
                    records[pending[j].slot].loc.parts[1] = PayloadOf(j)
    BY <1>1, <1>2, PlacedKept, SharesIssued
  <1>4. \A j : PayloadOf(j)' = PayloadOf(j)
    BY <1>1 DEF PayloadOf
  <1>5. \A s \in DOMAIN records : \E j \in 1..(step - 1) : pending[j].slot = s
    BY <1>1 DEF KInv, BuildOK, Idle
  <1>6. BuildOK'
    BY <1>1, <1>3, <1>4, <1>5 DEF BuildOK
  <1>7. QueueOK' /\ BuildsOK'
    BY <1>1 DEF KInv, QueueOK, BuildsOK
  <1> QED
    BY <1>6, <1>7 DEF KInv

(* A build that finishes has placed all its modules.                       *)
LEMMA FinishBuildKInv ==
    ASSUME TInv, MInv, KInv, FinishBuild
    PROVE  KInv'
  <1> DEFINE q == AddFile(pkg, MANIFEST, SignedManifest, "manifest")
             b == [modules |-> pending, signer |-> signer, cosigners |-> cosigners,
                   shares |-> shares, pkg |-> q]
  <1>1. /\ built' = Append(built, b) /\ step' = 0 /\ step = Len(pending) + 1
        /\ pending' = pending
    BY DEF FinishBuild, builderVars
  <1>2. b.modules = pending /\ b.shares = shares /\ b.pkg = q
    OBVIOUS
  <1>3. /\ Adds(pkg, q, MANIFEST, SignedManifest)
        /\ ManifestOf(q) = SignedManifest /\ SignedManifest.records = records
    BY EmittedPackage DEF TInv, PkgFinite
  <1> HIDE DEF b, q
  <1>4. /\ Len(pending) \in Nat /\ DOMAIN pending = 1..(step - 1) /\ step > 0
        /\ \A j \in DOMAIN pending : pending[j] \in Modules
    BY <1>1, LenProperties, ElementOfSeq DEF TInv, TypeOK
  <1>5. builds \in 0..MaxBuilds
    BY DEF TInv, TypeOK
  <1>6. ASSUME NEW j \in DOMAIN pending
        PROVE  PlacedAs(pending[j], builds, records, shares, q)
    <2> DEFINE r == records[pending[j].slot]
    <2>1. PlacedAs(pending[j], builds, records, shares, pkg)
      BY <1>4 DEF KInv, BuildOK, Idle
    <2>2. Leads(r, pkg)
      BY <2>1 DEF PlacedAs
    <2>3. r.channel = "odt_package_part" => MANIFEST # r.loc.parts[1]
      BY <2>2, Directories DEF Leads
    <2>4. Leads(r, q)
      BY <1>3, <2>2, <2>3, LeadsKept, Directories
    <2> QED
      BY <2>1, <2>4 DEF PlacedAs
  <1>7. \E n \in 0..MaxBuilds : \A j \in DOMAIN b.modules :
            /\ b.modules[j] \in Modules
            /\ PlacedAs(b.modules[j], n, ManifestOf(b.pkg).records, b.shares, b.pkg)
    BY <1>2, <1>3, <1>4, <1>5, <1>6
  <1>8. /\ DOMAIN built' = DOMAIN built \cup {Len(built) + 1}
        /\ \A i \in DOMAIN built : built'[i] = built[i]
        /\ built'[Len(built) + 1] = b
    <2>1. IsSeq(built) /\ IsSeq(built') /\ Len(built) \in Nat /\ Len(built') = Len(built) + 1
      BY <1>1, AppendIsSeq, SeqShape DEF TInv
    <2> QED
      BY <1>1, <2>1, AppendIsSeq, SeqShape
  <1>9. BuildsOK'
    <2> SUFFICES ASSUME NEW i \in DOMAIN built'
                 PROVE  \E n \in 0..MaxBuilds : \A j \in DOMAIN built'[i].modules :
                          /\ built'[i].modules[j] \in Modules
                          /\ PlacedAs(built'[i].modules[j], n,
                                      ManifestOf(built'[i].pkg).records,
                                      built'[i].shares, built'[i].pkg)
      BY DEF BuildsOK
    <2>1. CASE i \in DOMAIN built
      BY <1>8, <2>1 DEF KInv, BuildsOK
    <2>2. CASE i = Len(built) + 1
      BY <1>7, <1>8, <2>2
    <2> QED
      BY <1>8, <2>1, <2>2
  <1>10. QueueOK' /\ BuildOK'
    BY <1>1 DEF KInv, QueueOK, BuildOK, Idle
  <1> QED
    BY <1>9, <1>10 DEF KInv

(* Every step keeps it.                                                    *)
LEMMA NextKInv == TInv /\ MInv /\ KInv /\ [Next]_vars => KInv'
  <1> SUFFICES ASSUME TInv, MInv, KInv, [Next]_vars
               PROVE  KInv'
    OBVIOUS
  <1>1. CASE \E m \in Modules : AddModule(m)
    <2>1. PICK m \in Modules : AddModule(m)
      BY <1>1
    <2>2. /\ pending' = Append(pending, m) /\ \A i \in DOMAIN pending : pending[i].slot # m.slot
          /\ UNCHANGED <<step, built>> /\ Idle
      BY <2>1 DEF AddModule, buildVars, Authoring
    <2>3. IsSeq(pending)
      BY DEF TInv, TypeOK, IsSeq
    <2>4. /\ DOMAIN pending = 1..Len(pending) /\ Len(pending) \in Nat
          /\ DOMAIN pending' = 1..(Len(pending) + 1)
          /\ \A i \in 1..Len(pending) : pending'[i] = pending[i]
          /\ pending'[Len(pending) + 1] = m
      BY <2>2, <2>3, AppendIsSeq, SeqShape
    <2>5. QueueOK'
      <3> SUFFICES ASSUME NEW i \in DOMAIN pending', NEW j \in DOMAIN pending',
                          pending'[i].slot = pending'[j].slot
                   PROVE  i = j
        BY DEF QueueOK
      <3>1. CASE i \in 1..Len(pending) /\ j \in 1..Len(pending)
        BY <2>4, <3>1 DEF KInv, QueueOK
      <3>2. CASE i = Len(pending) + 1 /\ j \in 1..Len(pending)
        BY <2>2, <2>4, <3>2
      <3>3. CASE j = Len(pending) + 1 /\ i \in 1..Len(pending)
        BY <2>2, <2>4, <3>3
      <3> QED
        BY <2>4, <3>1, <3>2, <3>3
    <2> QED
      BY <2>2, <2>5 DEF KInv, BuildOK, BuildsOK, Idle
  <1>2. CASE \/ \E key \in Authors : Sign(key) \/ AddCosigner(key)
             \/ UseBase(FromBytes(file))
    BY <1>2 DEF Sign, AddCosigner, UseBase, buildVars, Authoring, KInv, QueueOK, BuildOK,
                BuildsOK, Idle
  <1>3. CASE BeginBuild
    <2>1. /\ step' = 1 /\ records' = <<>> /\ UNCHANGED <<pending, built>>
      BY <1>3 DEF BeginBuild, builderVars
    <2>2. BuildOK'
      BY <2>1 DEF BuildOK
    <2> QED
      BY <2>1, <2>2 DEF KInv, QueueOK, BuildsOK
  <1>4. CASE Raise
    BY <1>4 DEF Raise, builderVars, KInv, QueueOK, BuildOK, BuildsOK, Idle
  <1>5. CASE SerialiseBase \/ Edit \/ UNCHANGED vars
    <2>1. UNCHANGED <<pending, pkg, step, records, shares, builds, built>>
      BY <1>5 DEF SerialiseBase, Edit, vars, builderVars, buildVars
    <2>2. \A j : PayloadOf(j)' = PayloadOf(j)
      BY <2>1 DEF PayloadOf
    <2> QED
      BY <2>1, <2>2 DEF KInv, QueueOK, BuildOK, BuildsOK, Idle
  <1> QED
    BY <1>1, <1>2, <1>3, <1>4, <1>5, PlaceKInv, CarrierKInv, FinishBuildKInv DEF Next

(* Nothing is queued at first.                                             *)
LEMMA InitKInv == Init => KInv
  BY DEF Init, KInv, QueueOK, BuildOK, BuildsOK, Idle

(* It holds in every state of every behaviour.                             *)
LEMMA AlwaysKInv == Spec => []KInv
  BY AlwaysTInv, AlwaysMInv, InitKInv, NextKInv, PTL DEF Spec


(* The modules of a build, read back, open for those they are meant for.   *)
LEMMA KInvRoundTrip ==
    ASSUME MInv, KInv
    PROVE  RoundTrip
  <1> SUFFICES ASSUME NEW i \in DOMAIN built, NEW j \in DOMAIN built[i].modules
               PROVE  LET b == built[i]
                          m == b.modules[j]
                      IN  /\ Extract(ReadBack(b), m.slot, RightCredential(m, b)) = m.obj
                          /\ m.seal = "decoy" =>
                               Extract(ReadBack(b), m.slot,
                                       Credential(DecoyPassword, NoKey, {})) = DecoyObject
    BY DEF RoundTrip
  <1> DEFINE b == built[i]
             m == b.modules[j]
             p == b.pkg
             q == ReadBack(b)
             recs == ManifestOf(p).records
             r == recs[m.slot]
  <1>1. PICK n \in 0..MaxBuilds : m \in Modules /\ PlacedAs(m, n, recs, b.shares, p)
    BY DEF KInv, BuildsOK
  <1>2. MANIFEST \in DOMAIN p.parts
    BY DEF MInv, EmittedOK
  <1>3. /\ m.seal \in Lineages /\ m.channel \in OdtChannelIds
        /\ m.seal = "recipients" => Recipients # {}
        /\ SealModule(m, n) # Refused /\ ContentKey(m.slot, n) # NoKey
    <2> HIDE DEF m
    <2>1. m.seal \in SealsUsed /\ m.channel \in ChannelsUsed
      BY <1>1 DEF Modules
    <2> QED
      BY <1>1, <2>1, OdtAssumption, OdtValuesAssumption
  <1> HIDE DEF b
  <1>4. /\ ManifestOf(q) = ManifestOf(p)
        /\ \A k \in DOMAIN p.parts : k[1] \in {"payload", "figure"} =>
             HasPart(q, k) /\ q.parts[k] = p.parts[k]
    BY <1>2, ReadBackIs
  <1> HIDE DEF m, q
  <1>5. /\ m.slot \in DOMAIN recs
        /\ r.channel = m.channel /\ r.mode = Mode(m) /\ r.digest = SealModule(m, n)
        /\ m.seal = "threshold" => b.shares[m.slot] = ContentKey(m.slot, n)
        /\ Leads(r, p)
    BY <1>1 DEF PlacedAs
  <1> HIDE DEF recs
  <1>6. Leads(r, q)
    <2> HIDE DEF p, r
    <2>1. \A k : HasPart(p, k) /\ k[1] \in {"payload", "figure"} =>
             HasPart(q, k) /\ q.parts[k] = p.parts[k]
      BY <1>4 DEF HasPart
    <2>2. r.channel = "odt_package_part" =>
            LET k == r.loc.parts[1]
            IN  k[1] = "payload" /\ HasPart(q, k) /\ q.parts[k] = r.digest
      BY <1>5, <2>1 DEF Leads
    <2>3. ASSUME r.channel = "stego_media"
          PROVE  \E l \in DOMAIN r.loc.parts :
                    LET k == r.loc.parts[l]
                    IN  k[1] = "figure" /\ HasPart(q, k) /\ q.parts[k] = r.digest
      BY <1>5, <2>1, <2>3 DEF Leads
    <2> QED
      BY <2>2, <2>3 DEF Leads
  <1>7. StoredBytes(q, r) = r.digest
    BY <1>3, <1>5, <1>6, LeadsIsRead
  <1>8. \A cred : Extract(q, m.slot, cred) = Unseal(m.slot, Mode(m), SealModule(m, n), cred)
    BY <1>3, <1>4, <1>5, <1>7 DEF Extract, recs
  <1>9. Unseal(m.slot, Mode(m), SealModule(m, n), RightCredential(m, b)) = m.obj
    BY <1>3, <1>5, RightCredentialOpens
  <1>10. m.seal = "decoy" =>
            Unseal(m.slot, Mode(m), SealModule(m, n), Credential(DecoyPassword, NoKey, {}))
              = DecoyObject
    BY DecoyOpens
  <1> QED
    BY <1>8, <1>9, <1>10 DEF b, m, q

(* Every module of every finished build of a text document opens when the  *)
(* document is read back, with the credentials its author handed out, and  *)
(* under the decoy password as the decoy: whatever the base package held,  *)
(* and whichever builds on it failed.                                      *)
THEOREM EveryOdtModuleOpens == Spec => []RoundTrip
  BY AlwaysMInv, AlwaysKInv, KInvRoundTrip, PTL

-----------------------------------------------------------------------------
(* What is placed stays undisturbed.                                       *)

(* A step of a build adds one part to its package, throws the package away *)
(* or leaves it as it is.                                                  *)
LEMMA StepAdds ==
    ASSUME TInv, Next, ~Idle
    PROVE  \/ UNCHANGED pkg
           \/ step' = 0 /\ ~shared
           \/ \E name, data :
                /\ Adds(pkg, pkg', name, data)
                /\ \/ name = MANIFEST
                   \/ name = NextFigure
                   \/ /\ name = NextPayload
                      /\ step \in 1..Len(pending) /\ Module.channel = "odt_package_part"
  <1>1. PkgFinite(pkg) /\ PkgShape(pkg)
    BY DEF TInv, PkgFinite
  <1>2. CASE PlacePackagePart \/ PlaceStegoMedia
    <2>1. CASE /\ Module.channel = "odt_package_part"
               /\ \E p : Place(p, <<NextPayload>>) /\ Adds(pkg, p, NextPayload, Sealed)
      <3>1. Adds(pkg, pkg', NextPayload, Sealed)
        BY <2>1 DEF Place
      <3>2. step \in 1..Len(pending)
        BY <1>1, <1>2, PlacingAdds
      <3> QED
        BY <2>1, <3>1, <3>2
    <2>2. CASE /\ Place(WithFigure, Append(carriers, NextFigure))
               /\ Adds(pkg, WithFigure, NextFigure, Sealed)
      BY <2>2 DEF Place
    <2> QED
      BY <1>1, <1>2, <2>1, <2>2, PlacingAdds
  <1>3. CASE PlaceCarrier
    BY <1>1, <1>3, WithFigureAdds DEF PlaceCarrier
  <1>4. CASE Raise
    BY <1>4 DEF Raise, AfterBuild
  <1>5. CASE FinishBuild
    <2> DEFINE q == AddFile(pkg, MANIFEST, SignedManifest, "manifest")
    <2>1. pkg' = AfterBuild(q) /\ step' = 0
      BY <1>5 DEF FinishBuild
    <2>2. Adds(pkg, q, MANIFEST, SignedManifest)
      BY <1>1, AddFileAdds
    <2> HIDE DEF q
    <2> QED
      BY <2>1, <2>2 DEF AfterBuild
  <1>6. CASE Edit
    BY <1>6 DEF Edit, buildVars
  <1> QED
    BY <1>2, <1>3, <1>4, <1>5, <1>6
       DEF Next, AddModule, Sign, AddCosigner, UseBase, BeginBuild, SerialiseBase,
           Authoring, Idle

(* Such a step disturbs nothing that was placed.                           *)
LEMMA StepUndisturbed ==
    ASSUME TInv, MInv, KInv, [Next]_vars, step > 0
    PROVE  /\ \A s \in DOMAIN records :
                StoredBytes(pkg', records[s]) = StoredBytes(pkg, records[s])
                    \/ (step' = 0 /\ ~shared)
           /\ HasPart(pkg, MANIFEST) /\ shared =>
                \A s \in DOMAIN ManifestOf(pkg).records :
                    LET r == ManifestOf(pkg).records[s]
                    IN  r.channel = "stego_media" /\ StoredBytes(pkg, r) # Refused =>
                            StoredBytes(pkg', r) = StoredBytes(pkg, r)
  <1>1. CASE UNCHANGED pkg
    BY <1>1
  <1>2. CASE step' = 0 /\ ~shared
    BY <1>2
  <1>3. ASSUME NEW name, NEW data, Adds(pkg, pkg', name, data),
               \/ name = MANIFEST
               \/ name = NextFigure
               \/ /\ name = NextPayload
                  /\ step \in 1..Len(pending) /\ Module.channel = "odt_package_part"
        PROVE  /\ \A s \in DOMAIN records :
                    StoredBytes(pkg', records[s]) = StoredBytes(pkg, records[s])
               /\ HasPart(pkg, MANIFEST) =>
                    \A s \in DOMAIN ManifestOf(pkg).records :
                        LET r == ManifestOf(pkg).records[s]
                        IN  r.channel = "stego_media" /\ StoredBytes(pkg, r) # Refused =>
                                StoredBytes(pkg', r) = StoredBytes(pkg, r)
    <2>1. name[1] = "figure" => ~HasPart(pkg, name)
      <3>1. ~HasPart(pkg, NextFigure)
        BY PartIsNew DEF TInv, PkgFinite, NextFigure
      <3> QED
        BY <1>3, <3>1, Directories
    <2>2. ASSUME NEW s \in DOMAIN records
          PROVE  StoredBytes(pkg', records[s]) = StoredBytes(pkg, records[s])
      <3>1. PICK j \in 1..(step - 1) : pending[j].slot = s
        BY DEF KInv, BuildOK, Idle
      <3> DEFINE r == records[s]
      <3>2. /\ PlacedAs(pending[j], builds, records, shares, pkg)
            /\ pending[j].channel = "odt_package_part" => r.loc.parts[1] = PayloadOf(j)
        BY <3>1 DEF KInv, BuildOK, Idle
      <3>3. r.channel = pending[j].channel /\ Leads(r, pkg)
        BY <3>1, <3>2 DEF PlacedAs
      <3>4. r.channel \in OdtChannelIds
        <4>1. j \in 1..Len(pending) /\ pending \in Seq(Modules)
          <5>1. step \in Nat /\ step <= Len(pending) + 1 /\ Len(pending) \in Nat
            BY LenProperties DEF TInv, TypeOK
          <5> QED
            BY <5>1 DEF TInv, TypeOK
        <4>2. pending[j] \in Modules
          BY <4>1, ElementOfSeq
        <4> QED
          BY <3>3, <4>2, OdtAssumption DEF Modules
      <3>5. r.channel = "odt_package_part" => name # r.loc.parts[1]
        <4>1. r.channel = "odt_package_part" => r.loc.parts[1][1] = "payload"
          BY <3>3 DEF Leads
        <4>2. CASE name = NextPayload /\ step \in 1..Len(pending)
                     /\ Module.channel = "odt_package_part"
          <5>1. step \in Nat /\ name = PayloadOf(step)
            BY <4>2 DEF NextPayload, PayloadOf, TInv, TypeOK
          <5>2. PayloadOf(j) # PayloadOf(step)
            BY <4>2, <5>1, PayloadsDiffer DEF Module
          <5> QED
            BY <3>2, <3>3, <5>1, <5>2
        <4> QED
          BY <1>3, <4>1, <4>2, Directories
      <3> HIDE DEF r
      <3>6. Leads(r, pkg')
        BY <1>3, <2>1, <3>3, <3>5, LeadsKept
      <3> QED
        BY <3>3, <3>4, <3>6, LeadsIsRead DEF r
    <2>3. ASSUME HasPart(pkg, MANIFEST), NEW r, RecordWell(r), r.channel = "stego_media",
                 StoredBytes(pkg, r) # Refused
          PROVE  StoredBytes(pkg', r) = StoredBytes(pkg, r)
      <3>1. /\ \E i \in DOMAIN r.loc.parts : PartBytes(pkg, r.loc.parts[i]) = r.digest
            /\ StoredBytes(pkg, r) = r.digest /\ r.digest # Refused
        BY <2>3 DEF StoredBytes, ExtractStegoMedia
      <3>2. PICK i \in DOMAIN r.loc.parts : PartBytes(pkg, r.loc.parts[i]) = r.digest
        BY <3>1
      <3> DEFINE n == r.loc.parts[i]
      <3>3. HasPart(pkg, n) /\ pkg.parts[n] = r.digest /\ n[1] = "figure"
        BY <2>3, <3>1, <3>2 DEF PartBytes, RecordWell
      <3> HIDE DEF n
      <3>4. n # name /\ n # CONTENT
        BY <2>1, <3>3, Directories
      <3>5. HasPart(pkg', n) /\ pkg'.parts[n] = r.digest
        BY <1>3, <3>3, <3>4 DEF Adds, HasPart
      <3>6. PartBytes(pkg', r.loc.parts[i]) = r.digest
        BY <3>5 DEF PartBytes, n
      <3> QED
        BY <2>3, <3>1, <3>6 DEF StoredBytes, ExtractStegoMedia
    <2>4. HasPart(pkg, MANIFEST) => WellPlaced(ManifestOf(pkg).records)
      BY DEF MInv, ManifestOK, HasPart, ManifestOf
    <2> QED
      BY <2>2, <2>3, <2>4 DEF WellPlaced
  <1>4. UNCHANGED pkg \/ Next
    BY DEF vars, buildVars
  <1>5. ~Idle
    BY DEF Idle
  <1> QED
    BY <1>1, <1>2, <1>3, <1>4, <1>5, StepAdds

(* However many modules a build of a text document places, in however many *)
(* pictures, and whatever its base package conceals already: a step of it  *)
(* leaves readable what the build has placed, and what the pictures of     *)
(* earlier builds carry.                                                   *)
THEOREM OdtPlacingDisturbsNothing == Spec => PlacedUndisturbed
  BY AlwaysTInv, AlwaysMInv, AlwaysKInv, StepUndisturbed, PTL DEF Spec, PlacedUndisturbed
=============================================================================

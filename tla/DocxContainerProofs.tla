------------------------- MODULE DocxContainerProofs -------------------------
(***************************************************************************)
(* The container for any modules, keys, failed builds, shared packages and *)
(* edits.  In this order: what builds do to a package, and the shape of    *)
(* the variables; what a signature is worth; what a manifest lists; that   *)
(* what was placed is found and opens.                                     *)
(***************************************************************************)
EXTENDS DocxContainer, ContainerLemmas

-----------------------------------------------------------------------------
(* What builds do to a package.                                            *)

(* The id a new relationship gets is used by no other of its source part.  *)
LEMMA RelIdIsNew ==
    ASSUME NEW p, IsFiniteSet(p.rels), NEW source
    PROVE  /\ NextRelId(p, source) \in Nat
           /\ \A r \in p.rels : r.source = source => r.id # NextRelId(p, source)
  <1> DEFINE from == {q \in p.rels : q.source = source}
             used == {r.id : r \in from}
             f    == [r \in from |-> r.id]
  <1>1. IsFiniteSet(from)
    BY FS_Subset
  <1>2. f \in Surjection(from, used)
    BY DEF Surjection
  <1>3. IsFiniteSet(used)
    BY <1>1, <1>2, FS_Surjection
  <1>4. Cardinality(used) \in Nat
    BY <1>3, FS_CardinalityType
  <1>5. \E n \in 1..(Cardinality(used) + 1) :
            n \notin used /\ \A m \in 1..(n - 1) : m \in used
    BY <1>3, FirstUnused
  <1>6. /\ NextRelId(p, source) \in 1..(Cardinality(used) + 1)
        /\ NextRelId(p, source) \notin used
    BY <1>5 DEF NextRelId
  <1> QED
    BY <1>4, <1>6

-----------------------------------------------------------------------------
\* A package has finitely many parts and edges.
PkgFinite(p) ==
    /\ DOMAIN p = {"parts", "types", "rels"}
    /\ IsFiniteSet(DOMAIN p.parts)
    /\ IsFiniteSet(p.rels)

\* A story with drawings that resolve.
PkgDraws(p) ==
    /\ HasPart(p, DOCUMENT)
    /\ "figs" \in DOMAIN p.parts[DOCUMENT]
    /\ IsSeq(p.parts[DOCUMENT].figs)
    /\ RelIdsUnique(p)
    /\ FiguresResolve(p)

\* While nobody edited it.
PkgSound(p) == PkgFinite(p) /\ (edits = 0 => PkgDraws(p))

TInv ==
    /\ TypeOK
    /\ IsSeq(built)
    /\ ~Idle => Len(built) < builds
    /\ PkgSound(pkg)
    /\ doc # NoKey => PkgSound(doc)

-----------------------------------------------------------------------------
(* Operations of a package.                                                *)

(* A package whose edges and story are those of another, and that has its  *)
(* parts.                                                                  *)
LEMMA SameStory ==
    ASSUME NEW p, NEW q, PkgSound(p), PkgFinite(q),
           q.rels = p.rels, DOMAIN p.parts \subseteq DOMAIN q.parts,
           HasPart(p, DOCUMENT) => /\ "figs" \in DOMAIN p.parts[DOCUMENT] =>
                                        "figs" \in DOMAIN q.parts[DOCUMENT]
                                   /\ q.parts[DOCUMENT].figs = p.parts[DOCUMENT].figs
    PROVE  PkgSound(q)
  BY DEF PkgSound, PkgDraws, HasPart, RelIdsUnique, FiguresResolve

(* A part other than the story added, or replaced.                         *)
LEMMA AddPartSound ==
    ASSUME NEW p, PkgSound(p), NEW name, name # DOCUMENT, NEW data, NEW ctype
    PROVE  PkgSound(AddPart(p, name, data, ctype))
  <1> DEFINE q == AddPart(p, name, data, ctype)
  <1>1. /\ DOMAIN q = {"parts", "types", "rels"}
        /\ q.rels = p.rels
        /\ q.parts = Put(p.parts, name, data)
    BY DEF AddPart, PkgSound, PkgFinite
  <1> HIDE DEF q
  <1>2. DOMAIN q.parts = DOMAIN p.parts \cup {name}
    BY <1>1 DEF Put
  <1>3. PkgFinite(q)
    BY <1>1, <1>2, FS_AddElement DEF PkgSound, PkgFinite
  <1>4. HasPart(p, DOCUMENT) => q.parts[DOCUMENT] = p.parts[DOCUMENT]
    BY <1>1 DEF Put, HasPart
  <1>5. PkgSound(q)
    BY <1>1, <1>2, <1>3, <1>4, SameStory
  <1> QED
    BY <1>5 DEF q

(* The same, of a part whose content alone changes.                        *)
LEMMA SetPartSound ==
    ASSUME NEW p, PkgSound(p), NEW name, name # DOCUMENT, NEW data
    PROVE  PkgSound(SetPart(p, name, data))
  <1> DEFINE q == SetPart(p, name, data)
  <1>1. /\ DOMAIN q = {"parts", "types", "rels"}
        /\ q.rels = p.rels
        /\ q.parts = Put(p.parts, name, data)
    BY DEF SetPart, PkgSound, PkgFinite
  <1> HIDE DEF q
  <1>2. DOMAIN q.parts = DOMAIN p.parts \cup {name}
    BY <1>1 DEF Put
  <1>3. PkgFinite(q)
    BY <1>1, <1>2, FS_AddElement DEF PkgSound, PkgFinite
  <1>4. HasPart(p, DOCUMENT) => q.parts[DOCUMENT] = p.parts[DOCUMENT]
    BY <1>1 DEF Put, HasPart
  <1>5. PkgSound(q)
    BY <1>1, <1>2, <1>3, <1>4, SameStory
  <1> QED
    BY <1>5 DEF q

(* An edge added gets an id of its own, and no drawing loses its own.      *)
LEMMA AddRelationshipSound ==
    ASSUME NEW p, PkgSound(p), NEW source, NEW rtype, NEW target
    PROVE  PkgSound(AddRelationship(p, source, rtype, target))
  <1> DEFINE q == AddRelationship(p, source, rtype, target)
             e == [source |-> source, id |-> NextRelId(p, source), type |-> rtype,
                   target |-> target]
  <1>1. /\ DOMAIN q = {"parts", "types", "rels"}
        /\ q.rels = p.rels \cup {e}
        /\ q.parts = p.parts
    BY DEF AddRelationship, PkgSound, PkgFinite
  <1>2. PkgFinite(q)
    <2>1. IsFiniteSet(p.rels \cup {e})
      BY FS_AddElement DEF PkgSound, PkgFinite
    <2> HIDE DEF q, e
    <2> QED
      BY <1>1, <2>1 DEF PkgSound, PkgFinite
  <1>3. RelIdsUnique(p) => RelIdsUnique(q)
    <2>1. \A r \in p.rels : r.source = e.source => r.id # e.id
      BY RelIdIsNew DEF PkgSound, PkgFinite
    <2> HIDE DEF q, e
    <2> QED
      BY <1>1, <2>1 DEF RelIdsUnique
  <1> HIDE DEF q, e
  <1>4. FiguresResolve(p) => FiguresResolve(q)
    BY <1>1 DEF FiguresResolve, HasPart
  <1>5. PkgSound(q)
    BY <1>1, <1>2, <1>3, <1>4 DEF PkgSound, PkgDraws, HasPart
  <1> QED
    BY <1>5 DEF q

(* The drawing of a carrier embeds the image edge just added.              *)
LEMMA EmbedReplicaSound ==
    ASSUME NEW p, PkgSound(p), NEW bytes
    PROVE  PkgSound(EmbedReplica(p, bytes))
  <1> DEFINE name == NextPart(p, "media")
             rid  == NextRelId(p, DOCUMENT)
             a    == AddPart(p, name, bytes, "png")
             w    == AddRelationship(a, DOCUMENT, "image", name)
             q    == EmbedReplica(p, bytes)
             e    == [source |-> DOCUMENT, id |-> rid, type |-> "image", target |-> name]
             v    == [w.parts[DOCUMENT] EXCEPT !.figs = Append(@, rid)]
  <1>1. name # DOCUMENT
    BY DEF NextPart, DOCUMENT
  <1>2. PkgSound(w)
    BY <1>1, AddPartSound, AddRelationshipSound
  <1>3. a.rels = p.rels /\ DOMAIN a.parts = DOMAIN p.parts \cup {name}
    BY PutDomain DEF AddPart, PkgSound, PkgFinite
  <1>4. NextRelId(a, DOCUMENT) = rid
    BY <1>3 DEF NextRelId
  <1>5. /\ w.rels = p.rels \cup {e}
        /\ DOMAIN w.parts = DOMAIN p.parts \cup {name}
    BY <1>3, <1>4 DEF AddRelationship, AddPart, PkgSound, PkgFinite
  <1>6. q = [w EXCEPT !.parts[DOCUMENT] = v]
    BY DEF EmbedReplica
  <1> HIDE DEF w, q, a, rid, name
  <1>7. /\ DOMAIN q = {"parts", "types", "rels"} /\ q.rels = w.rels
        /\ q.parts = [w.parts EXCEPT ![DOCUMENT] = v]
        /\ DOMAIN q.parts = DOMAIN w.parts
    BY <1>2, <1>6 DEF PkgSound, PkgFinite
  <1>8. PkgFinite(q)
    BY <1>2, <1>7 DEF PkgSound, PkgFinite
  <1>9. ASSUME PkgDraws(w)
        PROVE  PkgDraws(q)
    <2> DEFINE figs == w.parts[DOCUMENT].figs
    <2>1. /\ DOMAIN q.parts[DOCUMENT] = DOMAIN w.parts[DOCUMENT]
          /\ q.parts[DOCUMENT].figs = Append(figs, rid)
      BY <1>7, <1>9 DEF PkgDraws, HasPart
    <2>2. /\ IsSeq(figs) /\ Len(figs) \in Nat /\ DOMAIN figs = 1..Len(figs)
      BY <1>9, SeqShape DEF PkgDraws
    <2>3. /\ IsSeq(Append(figs, rid))
          /\ DOMAIN Append(figs, rid) = 1..(Len(figs) + 1)
          /\ \A i \in 1..Len(figs) : Append(figs, rid)[i] = figs[i]
          /\ Append(figs, rid)[Len(figs) + 1] = rid
      BY <2>2, AppendIsSeq, SeqShape
    <2>4. \A i \in 1..Len(figs) : \E r \in q.rels :
                /\ r.source = DOCUMENT /\ r.id = Append(figs, rid)[i]
                /\ r.type = "image" /\ HasPart(q, r.target)
      BY <1>7, <1>9, <2>2, <2>3 DEF PkgDraws, FiguresResolve, HasPart
    <2>5. /\ e \in q.rels /\ e.source = DOCUMENT /\ e.type = "image"
          /\ e.id = Append(figs, rid)[Len(figs) + 1] /\ HasPart(q, e.target)
      BY <1>5, <1>7, <2>3 DEF HasPart
    <2>6. FiguresResolve(q)
      <3> SUFFICES ASSUME NEW i \in 1..(Len(figs) + 1)
                   PROVE  \E r \in q.rels :
                            /\ r.source = DOCUMENT /\ r.id = Append(figs, rid)[i]
                            /\ r.type = "image" /\ HasPart(q, r.target)
        BY <2>1, <2>3 DEF FiguresResolve
      <3>1. CASE i \in 1..Len(figs)
        BY <2>4, <3>1
      <3>2. CASE i = Len(figs) + 1
        <4> HIDE DEF e, rid, figs
        <4> QED
          BY <2>5, <3>2
      <3> QED
        BY <2>2, <3>1, <3>2
    <2> QED
      BY <1>7, <1>9, <2>1, <2>3, <2>6 DEF PkgDraws, HasPart, RelIdsUnique
  <1> QED
    BY <1>2, <1>8, <1>9 DEF PkgSound, q

(* The names the code writes parts under are not the story's.              *)
LEMMA NotTheStory ==
    /\ CUSTOM # DOCUMENT /\ MANIFEST # DOCUMENT
    /\ \A p, dir : dir # "document" => NextPart(p, dir) # DOCUMENT
  BY DEF CUSTOM, MANIFEST, DOCUMENT, NextPart

(* A part of its own for the module, and its edge.                         *)
LEMMA EmbedPartSound ==
    ASSUME NEW p, PkgSound(p), NEW bytes, NEW slot
    PROVE  /\ PkgSound(EmbedPackagePart(p, bytes, slot).pkg)
           /\ PkgSound(EmbedCustomXml(p, bytes, slot).pkg)
  BY NotTheStory, AddPartSound, AddRelationshipSound
     DEF EmbedPackagePart, EmbedCustomXml, Placed

(* A property set or added.                                                *)
LEMMA EmbedMetadataSound ==
    ASSUME NEW p, PkgSound(p), NEW bytes, NEW slot
    PROVE  PkgSound(EmbedMetadata(p, bytes, slot).pkg)
  BY NotTheStory, AddPartSound, SetPartSound, AddRelationshipSound
     DEF EmbedMetadata, Placed

(* A block in the story, beside the drawings.                              *)
LEMMA EmbedMceSound ==
    ASSUME NEW p, PkgSound(p), NEW bytes, NEW slot
    PROVE  PkgSound(EmbedMce(p, bytes, slot).pkg)
  <1> DEFINE v == [p.parts[DOCUMENT] EXCEPT
                      !.mce = Append(@, [slot |-> slot, bytes |-> bytes])]
             q == EmbedMce(p, bytes, slot).pkg
  <1>1. q = [p EXCEPT !.parts[DOCUMENT] = v]
    BY DEF EmbedMce, Placed
  <1>2. "figs" \in DOMAIN p.parts[DOCUMENT] =>
            "figs" \in DOMAIN v /\ v.figs = p.parts[DOCUMENT].figs
    OBVIOUS
  <1> HIDE DEF q, v
  <1>3. /\ DOMAIN q = {"parts", "types", "rels"} /\ q.rels = p.rels
        /\ q.parts = [p.parts EXCEPT ![DOCUMENT] = v]
        /\ DOMAIN q.parts = DOMAIN p.parts
    BY <1>1 DEF PkgSound, PkgFinite
  <1>4. PkgFinite(q)
    BY <1>3 DEF PkgSound, PkgFinite
  <1>5. PkgDraws(p) => PkgDraws(q)
    BY <1>2, <1>3 DEF PkgDraws, HasPart, RelIdsUnique, FiguresResolve
  <1> QED
    BY <1>4, <1>5 DEF PkgSound, q

(* The manifest written.                                                   *)
LEMMA WriteManifestSound ==
    ASSUME NEW p, PkgSound(p), NEW m
    PROVE  PkgSound(WriteManifest(p, m))
  BY NotTheStory, AddPartSound, SetPartSound, AddRelationshipSound DEF WriteManifest

(* A new document has no drawings, and two edges from its root.            *)
LEMMA NewBaseDocumentSound == PkgSound(NewBaseDocument)
  <1> DEFINE q == NewBaseDocument
             story == [text |-> "original", mce |-> <<>>, figs |-> <<>>]
             e == [source |-> ROOT, id |-> 1, type |-> "officeDocument",
                   target |-> DOCUMENT]
             c == [source |-> ROOT, id |-> 2, type |-> "coreProps", target |-> CORE]
  <1>1. DOMAIN <<>> = {}
    BY EmptyIsSeq, SeqShape
  <1>2. /\ DOMAIN q = {"parts", "types", "rels"}
        /\ q.rels = {e, c}
        /\ DOMAIN q.parts = {DOCUMENT, CORE} /\ q.parts[DOCUMENT] = story
    BY <1>1 DEF NewBaseDocument, Put, DOCUMENT, CORE
  <1>3. PkgFinite(q)
    <2>1. IsFiniteSet({e}) /\ IsFiniteSet({DOCUMENT})
      BY FS_Singleton
    <2>2. IsFiniteSet({e} \cup {c}) /\ IsFiniteSet({DOCUMENT} \cup {CORE})
      BY <2>1, FS_AddElement
    <2>3. {e} \cup {c} = {e, c} /\ {DOCUMENT} \cup {CORE} = {DOCUMENT, CORE}
      OBVIOUS
    <2> HIDE DEF q, e, c
    <2> QED
      BY <1>2, <2>2, <2>3 DEF PkgFinite
  <1>4. e.id # c.id
    OBVIOUS
  <1>5. story.figs = <<>> /\ "figs" \in DOMAIN story
    OBVIOUS
  <1> HIDE DEF q, e, c, story
  <1>6. RelIdsUnique(q)
    BY <1>2, <1>4 DEF RelIdsUnique
  <1>7. PkgDraws(q)
    BY <1>1, <1>2, <1>5, <1>6, EmptyIsSeq DEF PkgDraws, HasPart, FiguresResolve
  <1> QED
    BY <1>3, <1>7 DEF PkgSound, q

-----------------------------------------------------------------------------
(* Edits.                                                                  *)

(* A part that swallows another: two parts with an index of their own.     *)
LEMMA FoldPartShape ==
    ASSUME NEW d, DOMAIN d = {"parts", "types", "rels"}, NEW e \in FoldPart(d)
    PROVE  \E n \in Numbered(d) : \E v :
              LET o == <<n[1], n[2] + 1>>
              IN  /\ HasPart(d, o)
                  /\ DOMAIN e = {"parts", "types", "rels"}
                  /\ e.types = d.types /\ e.rels = d.rels
                  /\ e.parts = Without(Put(d.parts, n, v), o)
  <1>1. PICK n \in Numbered(d) :
            /\ HasPart(d, <<n[1], n[2] + 1>>)
            /\ e = [d EXCEPT !.parts =
                        Without(Put(@, n, Swallow(@[n], <<n[1], n[2] + 1>>, @[<<n[1], n[2] + 1>>])),
                                <<n[1], n[2] + 1>>)]
    BY DEF FoldPart
  <1> DEFINE o == <<n[1], n[2] + 1>>
             v == Swallow(d.parts[n], o, d.parts[o])
  <1>2. e = [d EXCEPT !.parts = Without(Put(d.parts, n, v), o)]
    BY <1>1
  <1> HIDE DEF o, v
  <1>3. /\ DOMAIN e = {"parts", "types", "rels"}
        /\ e.types = d.types /\ e.rels = d.rels
        /\ e.parts = Without(Put(d.parts, n, v), o)
    BY <1>2
  <1> QED
    BY <1>1, <1>3 DEF o

(* An edited package is a package.                                         *)
LEMMA PackageEditsFinite ==
    ASSUME NEW d, PkgFinite(d), NEW e \in PackageEdits(d)
    PROVE  PkgFinite(e)
  <1>1. DOMAIN d = {"parts", "types", "rels"} /\ IsFiniteSet(DOMAIN d.parts)
        /\ IsFiniteSet(d.rels)
    BY DEF PkgFinite
  <1>2. CASE e \in EditText(d) \cup SwapParts(d) \cup OverwritePart(d) \cup Retype(d)
    <2>1. /\ DOMAIN e = {"parts", "types", "rels"}
          /\ DOMAIN e.parts = DOMAIN d.parts /\ e.rels = d.rels
      BY <1>1, <1>2 DEF EditText, SwapParts, Swapped, OverwritePart, Retype
    <2> QED
      BY <1>1, <2>1 DEF PkgFinite
  <1>3. CASE e \in DropPart(d)
    <2>1. PICK n : e = [d EXCEPT !.parts = Without(@, n), !.types = Without(@, n)]
      BY <1>3 DEF DropPart
    <2>2. /\ DOMAIN e = {"parts", "types", "rels"}
          /\ DOMAIN e.parts = DOMAIN d.parts \ {n} /\ e.rels = d.rels
      BY <1>1, <2>1 DEF Without
    <2> QED
      BY <1>1, <2>2, FS_RemoveElement DEF PkgFinite
  <1>4. CASE e \in AddUnlistedPart(d)
    <2>1. PICK n : /\ DOMAIN e = {"parts", "types", "rels"}
                   /\ DOMAIN e.parts = DOMAIN d.parts \cup {n} /\ e.rels = d.rels
      BY <1>1, <1>4 DEF AddUnlistedPart, AddPart, Put
    <2> QED
      BY <1>1, <2>1, FS_AddElement DEF PkgFinite
  <1>5. CASE e \in Repoint(d)
    <2>1. PICK r \in d.rels, n \in Numbered(d) \cup {DOCUMENT} :
                e = [d EXCEPT !.rels = (@ \ {r}) \cup {[r EXCEPT !.target = n]}]
      BY <1>5 DEF Repoint
    <2> DEFINE s == [r EXCEPT !.target = n]
    <2>2. /\ DOMAIN e = {"parts", "types", "rels"}
          /\ e.parts = d.parts /\ e.rels = (d.rels \ {r}) \cup {s}
      BY <1>1, <2>1
    <2>3. IsFiniteSet((d.rels \ {r}) \cup {s})
      BY <1>1, FS_RemoveElement, FS_AddElement
    <2> QED
      BY <1>1, <2>2, <2>3 DEF PkgFinite
  <1>6. CASE e \in FoldPart(d)
    <2>1. PICK n \in Numbered(d) : \E v :
              /\ DOMAIN e = {"parts", "types", "rels"} /\ e.rels = d.rels
              /\ e.parts = Without(Put(d.parts, n, v), <<n[1], n[2] + 1>>)
      BY <1>1, <1>6, FoldPartShape
    <2> DEFINE o == <<n[1], n[2] + 1>>
    <2> HIDE DEF o
    <2>2. DOMAIN e.parts = (DOMAIN d.parts \cup {n}) \ {o}
      BY <2>1 DEF Without, Put, o
    <2>3. IsFiniteSet((DOMAIN d.parts \cup {n}) \ {o})
      BY <1>1, FS_AddElement, FS_RemoveElement
    <2> QED
      BY <1>1, <2>1, <2>2, <2>3 DEF PkgFinite
  <1> QED
    BY <1>2, <1>3, <1>4, <1>5, <1>6 DEF PackageEdits

(* So is one with another manifest.                                        *)
LEMMA SetPartFinite ==
    ASSUME NEW d, PkgFinite(d), NEW name, NEW m
    PROVE  PkgFinite(SetPart(d, name, m))
  <1> DEFINE q == SetPart(d, name, m)
  <1>1. /\ DOMAIN q = {"parts", "types", "rels"} /\ q.rels = d.rels
        /\ DOMAIN q.parts = DOMAIN d.parts \cup {name}
    BY DEF SetPart, PkgFinite, Put
  <1>2. IsFiniteSet(DOMAIN d.parts \cup {name})
    BY FS_AddElement DEF PkgFinite
  <1> HIDE DEF q
  <1>3. PkgFinite(q)
    BY <1>1, <1>2 DEF PkgFinite
  <1> QED
    BY <1>3 DEF q

-----------------------------------------------------------------------------
(* The invariant.                                                          *)

(* The packages of a step that is no edit.                                 *)
LEMMA PackagesSound ==
    ASSUME TInv, UNCHANGED edits,
           PkgSound(pkg'), UNCHANGED doc \/ (doc' # NoKey => PkgSound(doc'))
    PROVE  PkgSound(pkg)' /\ (doc # NoKey => PkgSound(doc))'
  BY DEF TInv, PkgSound, PkgFinite, PkgDraws, HasPart, RelIdsUnique, FiguresResolve

(* Queueing modules, choosing keys and handing over a base package.        *)
LEMMA AuthoringTInv ==
    ASSUME TInv, \/ \E m \in Modules : AddModule(m)
                 \/ \E key \in Authors : Sign(key) \/ AddCosigner(key)
                 \/ UseBase(NewBaseDocument)
                 \/ doc # NoKey /\ UseBase(doc)
                 \/ BeginBuild
                 \/ SerialiseBase
    PROVE  TInv'
  <1>1. TypeOK /\ Len(pending) \in Nat /\ Len(cosigners) \in Nat
    BY LenProperties DEF TInv, TypeOK
  <1>2. /\ IsSeq(built) /\ Len(built) \in Nat
    BY SeqShape DEF TInv
  <1>3. PkgSound(pkg)' /\ (doc # NoKey => PkgSound(doc))'
    <2>1. UNCHANGED edits /\ PkgSound(pkg')
      BY NewBaseDocumentSound DEF TInv, AddModule, Sign, AddCosigner, UseBase, BeginBuild,
         SerialiseBase, buildVars
    <2>2. UNCHANGED doc \/ (doc' # NoKey => PkgSound(doc'))
      BY DEF TInv, AddModule, Sign, AddCosigner, UseBase, BeginBuild, SerialiseBase
    <2> QED
      BY <2>1, <2>2, PackagesSound
  <1>4. CASE \E m \in Modules : AddModule(m)
    <2>1. PICK m \in Modules : AddModule(m)
      BY <1>4
    <2>2. /\ Append(pending, m) \in Seq(Modules)
          /\ Len(Append(pending, m)) = Len(pending) + 1
      BY <1>1, AppendProperties DEF TypeOK
    <2>3. TypeOK'
      BY <1>1, <2>1, <2>2, BoundsAssumption DEF TypeOK, AddModule, buildVars, Idle
    <2> QED
      BY <1>3, <2>1, <2>3 DEF TInv, AddModule, buildVars, Idle
  <1>5. CASE \E key \in Authors : Sign(key) \/ AddCosigner(key)
    <2>1. PICK key \in Authors : Sign(key) \/ AddCosigner(key)
      BY <1>5
    <2>2. /\ Append(cosigners, key) \in Seq(Authors)
          /\ Len(Append(cosigners, key)) = Len(cosigners) + 1
      BY <1>1, AppendProperties DEF TypeOK
    <2>3. TypeOK'
      <3>1. CASE Sign(key)
        BY <1>1, <3>1 DEF TypeOK, Sign, buildVars
      <3>2. CASE AddCosigner(key)
        <4>1. cosigners' \in Seq(Authors) /\ Len(cosigners') <= MaxCosigners
          BY <1>1, <2>2, <3>2, BoundsAssumption DEF AddCosigner
        <4> QED
          BY <1>1, <3>2, <4>1 DEF TypeOK, AddCosigner, buildVars
      <3> QED
        BY <2>1, <3>1, <3>2
    <2> QED
      BY <1>3, <2>1, <2>3 DEF TInv, Sign, AddCosigner, buildVars, Idle
  <1>6. CASE UseBase(NewBaseDocument) \/ UseBase(doc) \/ SerialiseBase
    <2>1. TypeOK'
      BY <1>1, <1>6 DEF TypeOK, UseBase, SerialiseBase, builderVars, buildVars
    <2> QED
      BY <1>3, <1>6, <2>1 DEF TInv, UseBase, SerialiseBase, builderVars, buildVars, Idle
  <1>7. CASE BeginBuild
    <2>1. DOMAIN <<>> = {}
      BY EmptyIsSeq, SeqShape
    <2>2. TypeOK'
      <3>1. DOMAIN records' \subseteq Slots /\ DOMAIN shares' \subseteq Slots
        BY <1>7, <2>1 DEF BeginBuild
      <3>2. step' \in 0..(Len(pending') + 1)
        BY <1>1, <1>7 DEF BeginBuild, builderVars
      <3>3. builds' \in 0..MaxBuilds /\ Len(built') <= builds'
        BY <1>1, <1>2, <1>7, BoundsAssumption DEF TypeOK, BeginBuild
      <3> QED
        BY <1>1, <1>7, <3>1, <3>2, <3>3 DEF TypeOK, BeginBuild, builderVars
    <2>3. Len(built) < builds + 1
      BY <1>1, <1>2 DEF TypeOK
    <2> QED
      BY <1>3, <1>7, <2>2, <2>3 DEF TInv, BeginBuild, Idle
  <1> QED
    BY <1>4, <1>5, <1>6, <1>7

(* The module under way has a slot.                                        *)
LEMMA ModuleHasSlot ==
    ASSUME TypeOK, step \in 1..Len(pending)
    PROVE  Module.slot \in Slots
  <1>1. pending \in Seq(Modules)
    BY DEF TypeOK
  <1>2. pending[step] \in Modules
    BY <1>1, ElementOfSeq
  <1> QED
    BY <1>2 DEF Module, Modules

(* A module placed: its record and shares are of a slot, the index moves   *)
(* on by one.                                                              *)
LEMMA PlaceTInv ==
    ASSUME TInv, step \in 1..Len(pending), NEW placed, Place(placed), PkgSound(placed.pkg)
    PROVE  TInv'
  <1>1. TypeOK /\ Len(pending) \in Nat
    BY LenProperties DEF TInv, TypeOK
  <1>2. Module.slot \in Slots
    BY <1>1, ModuleHasSlot
  <1>3. DOMAIN records' \subseteq Slots /\ DOMAIN shares' \subseteq Slots
    BY <1>1, <1>2 DEF TypeOK, Place, Put, IssueShares
  <1>4. carriers' \in Seq({"media"} \X Nat) /\ Len(carriers') < Redundancy
    BY EmptySeq, RedundancyAssumption DEF Place
  <1>5. step' \in 0..(Len(pending) + 1) /\ step' # 0
    BY <1>1 DEF Place
  <1>6. TypeOK'
    BY <1>1, <1>3, <1>4, <1>5 DEF TypeOK, Place, builderVars
  <1>7. PkgSound(pkg)' /\ (doc # NoKey => PkgSound(doc))'
    BY PackagesSound DEF Place
  <1>8. Len(built) < builds
    BY <1>1 DEF TInv, Idle
  <1> QED
    BY <1>5, <1>6, <1>7, <1>8 DEF TInv, Place, Idle

(* A build that raises.                                                    *)
LEMMA RaiseTInv ==
    ASSUME TInv, step \in 1..Len(pending), Raise
    PROVE  TInv'
  <1>1. TypeOK /\ Len(pending) \in Nat
    BY LenProperties DEF TInv, TypeOK
  <1>2. Module.slot \in Slots
    BY <1>1, ModuleHasSlot
  <1>3. DOMAIN <<>> = {}
    BY EmptyIsSeq, SeqShape
  <1>4. DOMAIN records' \subseteq Slots /\ DOMAIN shares' \subseteq Slots
    BY <1>1, <1>2, <1>3 DEF TypeOK, Raise, Put, IssueShares
  <1>5. carriers' \in Seq({"media"} \X Nat) /\ Len(carriers') < Redundancy
    BY EmptySeq, RedundancyAssumption DEF Raise
  <1>6. TypeOK'
    BY <1>1, <1>4, <1>5 DEF TypeOK, Raise, builderVars
  <1>7. PkgSound(pkg)' /\ (doc # NoKey => PkgSound(doc))'
    BY PackagesSound, NewBaseDocumentSound DEF Raise, AfterBuild, TInv
  <1> QED
    BY <1>6, <1>7 DEF TInv, Raise, Idle

(* A carrier that is not the last one: a media part that was not there.    *)
LEMMA PlaceCarrierTInv ==
    ASSUME TInv, PlaceCarrier
    PROVE  TInv'
  <1>1. /\ TypeOK /\ Len(pending) \in Nat /\ step \in 1..Len(pending)
        /\ Len(carriers) \in Nat /\ Redundancy \in Nat
    BY LenProperties, RedundancyAssumption DEF TInv, TypeOK, PlaceCarrier, Placing
  <1>2. Module.slot \in Slots
    BY <1>1, ModuleHasSlot
  <1>3. DOMAIN shares' \subseteq Slots
    BY <1>1, <1>2 DEF TypeOK, PlaceCarrier, Put, IssueShares
  <1>4. carriers' \in Seq({"media"} \X Nat) /\ Len(carriers') < Redundancy
    <2>1. NextPart(pkg, "media") \in {"media"} \X Nat
      BY PartIsNew DEF NextPart, TInv, PkgSound, PkgFinite
    <2>2. carriers \in Seq({"media"} \X Nat)
      BY <1>1 DEF TypeOK
    <2> HIDE DEF NextPart
    <2>3. /\ Append(carriers, NextPart(pkg, "media")) \in Seq({"media"} \X Nat)
          /\ Len(Append(carriers, NextPart(pkg, "media"))) = Len(carriers) + 1
      BY <2>1, <2>2, AppendProperties
    <2> QED
      BY <1>1, <2>3 DEF PlaceCarrier
  <1>5. TypeOK'
    BY <1>1, <1>3, <1>4 DEF TypeOK, PlaceCarrier, builderVars
  <1>6. PkgSound(pkg)' /\ (doc # NoKey => PkgSound(doc))'
    BY EmbedReplicaSound, PackagesSound DEF PlaceCarrier, TInv
  <1> QED
    BY <1>5, <1>6 DEF TInv, PlaceCarrier, Idle

(* A build that raises before anything is placed.                          *)
LEMMA SealingFailsTInv ==
    ASSUME TInv, SealingFails
    PROVE  TInv'
  <1>1. TypeOK /\ Len(pending) \in Nat
    BY LenProperties DEF TInv, TypeOK
  <1>2. DOMAIN <<>> = {}
    BY EmptyIsSeq, SeqShape
  <1>3. TypeOK'
    BY <1>1, <1>2 DEF TypeOK, SealingFails, builderVars
  <1>4. PkgSound(pkg)' /\ (doc # NoKey => PkgSound(doc))'
    BY PackagesSound, NewBaseDocumentSound DEF SealingFails, AfterBuild, TInv
  <1> QED
    BY <1>3, <1>4 DEF TInv, SealingFails, Idle

(* One step of the loop over the modules.                                  *)
LEMMA PlacingTInv ==
    ASSUME TInv, \/ PlacePackagePart \/ PlaceCustomXml \/ PlaceMetadata \/ PlaceMce
                 \/ PlaceCarrier \/ PlaceStegoMedia \/ StegoMediaFails
                 \/ SealingFails
    PROVE  TInv'
  <1>1. PkgSound(pkg)
    BY DEF TInv
  <1>2. CASE PlacePackagePart
    BY <1>1, <1>2, EmbedPartSound, PlaceTInv DEF PlacePackagePart, Placing
  <1>3. CASE PlaceCustomXml
    BY <1>1, <1>3, EmbedPartSound, PlaceTInv DEF PlaceCustomXml, Placing
  <1>4. CASE PlaceMetadata
    BY <1>1, <1>4, EmbedMetadataSound, PlaceTInv, RaiseTInv DEF PlaceMetadata, Placing
  <1>5. CASE PlaceMce
    BY <1>1, <1>5, EmbedMceSound, PlaceTInv DEF PlaceMce, Placing
  <1>6. CASE PlaceStegoMedia
    <2>1. PkgSound(EmbedStegoMedia(pkg, Sealed, Module.slot, carriers).pkg)
      BY <1>1, EmbedReplicaSound DEF EmbedStegoMedia, Placed
    <2> QED
      BY <1>6, <2>1, PlaceTInv DEF PlaceStegoMedia, Placing
  <1>7. CASE StegoMediaFails
    BY <1>7, RaiseTInv DEF StegoMediaFails, Placing
  <1> QED
    BY <1>2, <1>3, <1>4, <1>5, <1>6, <1>7, PlaceCarrierTInv, SealingFailsTInv

(* The build is over, and the package with its manifest goes out.          *)
LEMMA FinishBuildTInv ==
    ASSUME TInv, FinishBuild
    PROVE  TInv'
  <1> DEFINE emitted == WriteManifest(pkg, SignedManifest)
             b == [modules |-> pending, signer |-> signer, cosigners |-> cosigners,
                   fresh |-> ~shared, shares |-> shares, n |-> builds, pkg |-> emitted]
  <1>1. TypeOK /\ Len(pending) \in Nat /\ Len(built) \in Nat
    BY LenProperties, SeqShape DEF TInv, TypeOK
  <1>2. PkgSound(emitted)
    BY WriteManifestSound DEF TInv
  <1>3. built' = Append(built, b) /\ pkg' = AfterBuild(emitted) /\ doc' = emitted
    BY DEF FinishBuild
  <1> HIDE DEF emitted, b
  <1>4. IsSeq(built') /\ Len(built') = Len(built) + 1
    BY <1>3, AppendIsSeq DEF TInv
  <1>5. Len(built') <= builds
    BY <1>1, <1>4 DEF TInv, TypeOK, FinishBuild, Idle
  <1>6. DOMAIN <<>> = {}
    BY EmptyIsSeq, SeqShape
  <1>7. TypeOK'
    BY <1>1, <1>5, <1>6 DEF TypeOK, FinishBuild, builderVars
  <1>8. PkgSound(pkg)' /\ (doc # NoKey => PkgSound(doc))'
    BY <1>2, <1>3, PackagesSound, NewBaseDocumentSound DEF FinishBuild, AfterBuild
  <1> QED
    BY <1>4, <1>7, <1>8 DEF TInv, FinishBuild, Idle

(* After an edit nothing is said of drawings any more.                     *)
LEMMA EditTInv ==
    ASSUME TInv, Edit
    PROVE  TInv'
  <1>1. TypeOK /\ PkgFinite(pkg) /\ PkgFinite(doc)
    BY DEF TInv, Edit, PkgSound
  <1>2. edits' \in 0..MaxEdits /\ edits' # 0
    BY <1>1, BoundsAssumption DEF TypeOK, Edit
  <1>3. PkgFinite(doc')
    <2>1. CASE doc' \in PackageEdits(doc)
      BY <1>1, <2>1, PackageEditsFinite
    <2>2. CASE doc' \in ManifestEdits(doc)
      <3>1. PICK m : doc' = SetPart(doc, MANIFEST, m)
        BY <2>2 DEF ManifestEdits
      <3> QED
        BY <1>1, <3>1, SetPartFinite
    <2>3. CASE doc' \in {Rebound(d) : d \in PackageEdits(doc)}
      <3>1. PICK d \in PackageEdits(doc) : doc' = Rebound(d)
        BY <2>3
      <3> QED
        BY <1>1, <3>1, PackageEditsFinite, SetPartFinite DEF Rebound
    <2> QED
      BY <2>1, <2>2, <2>3 DEF Edit
  <1>4. PkgSound(pkg)' /\ PkgSound(doc)'
    BY <1>1, <1>2, <1>3 DEF PkgSound, PkgFinite, Edit, buildVars
  <1>5. TypeOK'
    BY <1>1, <1>2 DEF TypeOK, Edit, builderVars, buildVars
  <1> QED
    BY <1>4, <1>5 DEF TInv, Edit, builderVars, buildVars, Idle

(* Nothing was placed at first.                                            *)
LEMMA InitTInv ==
    ASSUME Init
    PROVE  TInv
  <1>1. DOMAIN <<>> = {}
    BY EmptyIsSeq, SeqShape
  <1>2. TypeOK
    BY <1>1, EmptySeq, BoundsAssumption, RedundancyAssumption DEF Init, TypeOK
  <1> QED
    BY <1>2, EmptyIsSeq, NewBaseDocumentSound DEF Init, TInv, Idle

(* The invariant is inductive.                                             *)
LEMMA NextTInv ==
    ASSUME TInv, [Next]_vars
    PROVE  TInv'
  <1>1. CASE UNCHANGED vars
    BY <1>1 DEF vars, builderVars, buildVars, TInv, TypeOK, Idle, PkgSound, PkgFinite,
       PkgDraws, HasPart, RelIdsUnique, FiguresResolve
  <1>2. CASE Next
    BY <1>2, AuthoringTInv, PlacingTInv, FinishBuildTInv, EditTInv DEF Next
  <1> QED
    BY <1>1, <1>2

(* The invariant holds in every state of every behaviour.                  *)
LEMMA AlwaysTInv == Spec => []TInv
  BY InitTInv, NextTInv, PTL DEF Spec

-----------------------------------------------------------------------------
(* The theorems.                                                           *)

(* Of the builder: every variable keeps its shape, no more builds finish   *)
(* than begin, and the shares handed out are of slots asked for.           *)
THEOREM BuilderIsTyped == Spec => []TypeOK
  <1>1. TInv => TypeOK
    BY DEF TInv
  <1> QED
    BY <1>1, AlwaysTInv, PTL

(* Relationship ids stay unique within a source part and every drawing     *)
(* resolves to a media part, through any builds, finished or failed, on    *)
(* one base package or several, until somebody edits a document.           *)
THEOREM DrawingsAlwaysResolve == Spec => []DrawingsResolve
  <1>1. TInv => DrawingsResolve
    BY DEF TInv, PkgSound, PkgDraws, DrawingsResolve
  <1> QED
    BY <1>1, AlwaysTInv, PTL

\* add_part raises OpcError on a name that is there already.
NumberedPartsAreNew == \A dir : ~HasPart(pkg, NextPart(pkg, dir))

(* No channel that numbers its parts ever has its add_part refused: the    *)
(* index it computes is free in whatever package it is handed, edited or   *)
(* left behind by a failed build.                                          *)
THEOREM AddPartIsNeverRefused == Spec => []NumberedPartsAreNew
  <1>1. TInv => NumberedPartsAreNew
    BY PartIsNew DEF TInv, PkgSound, PkgFinite, NumberedPartsAreNew
  <1> QED
    BY <1>1, AlwaysTInv, PTL

-----------------------------------------------------------------------------
(* What a signature on a document is worth.  Every manifest at hand is     *)
(* honest: the signatures of authors in it are over the bodies of finished *)
(* builds.                                                                 *)

PkgShape(p) == DOMAIN p = {"parts", "types", "rels"}

PkgOK(p, B) ==
    /\ PkgShape(p)
    /\ HasPart(p, MANIFEST) => Honest(ManifestOf(p), B)

\* A build emits a package with a manifest that is bound to it.
BuiltOK(B) ==
    /\ IsSeq(B)
    /\ \A i \in DOMAIN B :
        /\ PkgOK(B[i].pkg, B)
        /\ HasPart(B[i].pkg, MANIFEST)
        /\ ManifestOf(B[i].pkg).surface = SurfaceDigest(B[i].pkg)

PInv ==
    /\ IsSeq(cosigners)
    /\ PkgOK(pkg, built)
    /\ doc # NoKey => PkgOK(doc, built)
    /\ BuiltOK(built)

-----------------------------------------------------------------------------
(* Packages that differ in anything but the manifest.                      *)

SameManifest(p, q) ==
    /\ PkgShape(p) => PkgShape(q)
    /\ HasPart(q, MANIFEST) <=> HasPart(p, MANIFEST)
    /\ HasPart(p, MANIFEST) => ManifestOf(q) = ManifestOf(p)

(* If the manifest is the same, what holds of the one package holds of the *)
(* other.                                                                  *)
LEMMA SameManifestOK ==
    ASSUME NEW p, NEW q, NEW B, SameManifest(p, q), PkgOK(p, B)
    PROVE  PkgOK(q, B)
  BY DEF SameManifest, PkgOK

(* Doing one such thing after another.                                     *)
LEMMA SameManifestTransitive ==
    ASSUME NEW p, NEW q, NEW r, SameManifest(p, q), SameManifest(q, r)
    PROVE  SameManifest(p, r)
  BY DEF SameManifest

(* Operations of a package on any part but the manifest.                   *)
LEMMA AddPartSame ==
    ASSUME NEW p, PkgShape(p), NEW name, NEW data, NEW ctype, name # MANIFEST
    PROVE  SameManifest(p, AddPart(p, name, data, ctype))
  <1> DEFINE q == AddPart(p, name, data, ctype)
  <1>1. PkgShape(q) /\ q.parts = Put(p.parts, name, data)
    BY DEF AddPart, PkgShape
  <1> QED
    BY <1>1, PutElsewhere DEF SameManifest, HasPart, ManifestOf

(* New content for a part that is not the manifest.                        *)
LEMMA SetPartSame ==
    ASSUME NEW p, PkgShape(p), NEW name, NEW data, name # MANIFEST
    PROVE  SameManifest(p, SetPart(p, name, data))
  <1> DEFINE q == SetPart(p, name, data)
  <1>1. PkgShape(q) /\ q.parts = Put(p.parts, name, data)
    BY DEF SetPart, PkgShape
  <1> QED
    BY <1>1, PutElsewhere DEF SameManifest, HasPart, ManifestOf

(* A new edge, wherever it leads.                                          *)
LEMMA AddRelationshipSame ==
    ASSUME NEW p, PkgShape(p), NEW source, NEW rtype, NEW target
    PROVE  SameManifest(p, AddRelationship(p, source, rtype, target))
  <1> DEFINE q == AddRelationship(p, source, rtype, target)
  <1>1. PkgShape(q) /\ q.parts = p.parts
    BY DEF AddRelationship, PkgShape
  <1> QED
    BY <1>1 DEF SameManifest, HasPart, ManifestOf

(* An edit inside a part that is not the manifest.                         *)
LEMMA EditPartSame ==
    ASSUME NEW p, PkgShape(p), NEW name, NEW v, name # MANIFEST
    PROVE  SameManifest(p, [p EXCEPT !.parts[name] = v])
  <1> DEFINE q == [p EXCEPT !.parts[name] = v]
  <1>1. PkgShape(q) /\ q.parts = [p.parts EXCEPT ![name] = v]
    BY DEF PkgShape
  <1> QED
    BY <1>1 DEF SameManifest, HasPart, ManifestOf

(* No channel numbers or names a part as the manifest.                     *)
LEMMA OtherNames ==
    /\ DOCUMENT # MANIFEST /\ CUSTOM # MANIFEST
    /\ \A p : /\ NextPart(p, "payload") # MANIFEST
              /\ NextPart(p, "item") # MANIFEST
              /\ NextPart(p, "media") # MANIFEST
  BY DEF DOCUMENT, CUSTOM, MANIFEST, NextPart

(* A part added with its edge.                                             *)
LEMMA AddWithEdgeSame ==
    ASSUME NEW p, PkgShape(p), NEW name, NEW data, NEW ctype, NEW source, NEW rtype,
           name # MANIFEST
    PROVE  SameManifest(p, AddRelationship(AddPart(p, name, data, ctype),
                                           source, rtype, name))
  <1> DEFINE q == AddPart(p, name, data, ctype)
  <1>1. SameManifest(p, q)
    BY AddPartSame
  <1>2. PkgShape(q)
    BY <1>1 DEF SameManifest
  <1>3. SameManifest(q, AddRelationship(q, source, rtype, name))
    BY <1>2, AddRelationshipSame
  <1> QED
    BY <1>1, <1>3, SameManifestTransitive

(* The five channels leave the manifest of the package alone.              *)
LEMMA EmbedPackagePartSame ==
    ASSUME NEW p, PkgShape(p), NEW bytes, NEW slot
    PROVE  SameManifest(p, EmbedPackagePart(p, bytes, slot).pkg)
  BY AddWithEdgeSame, OtherNames DEF EmbedPackagePart, Placed

(* A custom XML item is a part and an edge of its own.                     *)
LEMMA EmbedCustomXmlSame ==
    ASSUME NEW p, PkgShape(p), NEW bytes, NEW slot
    PROVE  SameManifest(p, EmbedCustomXml(p, bytes, slot).pkg)
  BY AddWithEdgeSame, OtherNames DEF EmbedCustomXml, Placed

(* A document property is in a part of its own, new or there already.      *)
LEMMA EmbedMetadataSame ==
    ASSUME NEW p, PkgShape(p), NEW bytes, NEW slot
    PROVE  SameManifest(p, EmbedMetadata(p, bytes, slot).pkg)
  BY AddWithEdgeSame, SetPartSame, OtherNames DEF EmbedMetadata, Placed

(* An AlternateContent block is in the document part.                      *)
LEMMA EmbedMceSame ==
    ASSUME NEW p, PkgShape(p), NEW bytes, NEW slot
    PROVE  SameManifest(p, EmbedMce(p, bytes, slot).pkg)
  <1> DEFINE v == [p.parts[DOCUMENT] EXCEPT
                      !.mce = Append(@, [slot |-> slot, bytes |-> bytes])]
  <1>1. EmbedMce(p, bytes, slot).pkg = [p EXCEPT !.parts[DOCUMENT] = v]
    BY DEF EmbedMce, Placed
  <1> HIDE DEF v
  <1>2. SameManifest(p, [p EXCEPT !.parts[DOCUMENT] = v])
    BY EditPartSame, OtherNames
  <1> QED
    BY <1>1, <1>2

(* A carrier is a media part, an edge and a drawing in the document part.  *)
LEMMA EmbedReplicaSame ==
    ASSUME NEW p, PkgShape(p), NEW bytes
    PROVE  SameManifest(p, EmbedReplica(p, bytes))
  <1> DEFINE name == NextPart(p, "media")
             q == AddRelationship(AddPart(p, name, bytes, "png"), DOCUMENT, "image", name)
             v == [q.parts[DOCUMENT] EXCEPT !.figs = Append(@, NextRelId(p, DOCUMENT))]
  <1>1. EmbedReplica(p, bytes) = [q EXCEPT !.parts[DOCUMENT] = v]
    BY DEF EmbedReplica
  <1>2. SameManifest(p, q)
    BY AddWithEdgeSame, OtherNames
  <1>3. PkgShape(q)
    BY <1>2 DEF SameManifest
  <1> HIDE DEF q, v
  <1>4. SameManifest(q, [q EXCEPT !.parts[DOCUMENT] = v])
    BY <1>3, EditPartSame, OtherNames
  <1> QED
    BY <1>1, <1>2, <1>4, SameManifestTransitive

(* A base package as new_base_document makes it carries no manifest.       *)
LEMMA NewBaseDocumentOK ==
    ASSUME NEW B
    PROVE  PkgOK(NewBaseDocument, B)
  <1>1. PkgShape(NewBaseDocument)
    BY DEF NewBaseDocument, PkgShape
  <1>2. DOMAIN NewBaseDocument.parts = {DOCUMENT, CORE}
    <2>1. DOMAIN <<>> = {}
      BY EmptyIsSeq, SeqShape
    <2> QED
      BY <2>1 DEF NewBaseDocument, Put
  <1> QED
    BY <1>1, <1>2 DEF PkgOK, HasPart, CORE, DOCUMENT, MANIFEST

-----------------------------------------------------------------------------
(* Edits.                                                                  *)

(* An edit of the package, manifest apart.                                 *)
LEMMA PackageEditsSame ==
    ASSUME NEW d, PkgShape(d), NEW e \in PackageEdits(d)
    PROVE  SameManifest(d, e)
  <1>1. CASE e \in EditText(d)
    <2>1. e = [d EXCEPT !.parts[DOCUMENT] = [d.parts[DOCUMENT] EXCEPT !.text = "edited"]]
      BY <1>1 DEF EditText
    <2> QED
      BY <2>1, EditPartSame, OtherNames
  <1>2. CASE e \in DropPart(d)
    <2>1. PICK n : /\ n # MANIFEST
                   /\ e = [d EXCEPT !.parts = Without(@, n), !.types = Without(@, n)]
      BY <1>2 DEF DropPart
    <2>2. PkgShape(e) /\ e.parts = Without(d.parts, n)
      BY <2>1 DEF PkgShape
    <2> QED
      BY <2>1, <2>2 DEF SameManifest, HasPart, ManifestOf, Without
  <1>3. CASE e \in SwapParts(d)
    <2>1. PICK n, o : /\ n # MANIFEST /\ o # MANIFEST
                      /\ e = [d EXCEPT !.parts = Swapped(@, n, o)]
      BY <1>3 DEF SwapParts, Numbered, MANIFEST
    <2>2. PkgShape(e) /\ e.parts = Swapped(d.parts, n, o)
      BY <2>1 DEF PkgShape
    <2> QED
      BY <2>1, <2>2 DEF SameManifest, HasPart, ManifestOf, Swapped
  <1>4. CASE e \in OverwritePart(d)
    <2>1. PICK n, obj : n # MANIFEST /\ e = [d EXCEPT !.parts[n] = Unsealed(obj)]
      BY <1>4 DEF OverwritePart, Numbered, MANIFEST
    <2> QED
      BY <2>1, EditPartSame
  <1>5. CASE e \in AddUnlistedPart(d)
    BY <1>5, AddPartSame, OtherNames DEF AddUnlistedPart
  <1>6. CASE e \in Retype(d) \/ e \in Repoint(d)
    <2>1. PkgShape(e) /\ e.parts = d.parts
      BY <1>6 DEF Retype, Repoint, PkgShape
    <2> QED
      BY <2>1 DEF SameManifest, HasPart, ManifestOf
  <1>7. CASE e \in FoldPart(d)
    <2>0. PICK n \in Numbered(d) : \E v :
              /\ DOMAIN e = {"parts", "types", "rels"}
              /\ e.parts = Without(Put(d.parts, n, v), <<n[1], n[2] + 1>>)
      BY <1>7, FoldPartShape DEF PkgShape
    <2>1. PICK v :
              /\ DOMAIN e = {"parts", "types", "rels"}
              /\ e.parts = Without(Put(d.parts, n, v), <<n[1], n[2] + 1>>)
      BY <2>0
    <2> DEFINE o == <<n[1], n[2] + 1>>
    <2>2. n # MANIFEST /\ o # MANIFEST
      BY DEF Numbered, MANIFEST
    <2>3. PkgShape(e) /\ e.parts = Without(Put(d.parts, n, v), o)
      BY <2>1 DEF PkgShape
    <2> HIDE DEF o
    <2> QED
      BY <2>2, <2>3 DEF SameManifest, HasPart, ManifestOf, Without, Put
  <1> QED
    BY <1>1, <1>2, <1>3, <1>4, <1>5, <1>6, <1>7 DEF PackageEdits

(* A manifest put into a package.                                          *)
LEMMA SetManifestOK ==
    ASSUME NEW p, PkgShape(p), NEW m, NEW B, Honest(m, B)
    PROVE  PkgOK(SetPart(p, MANIFEST, m), B)
  BY DEF SetPart, PkgOK, PkgShape, HasPart, ManifestOf, Put

-----------------------------------------------------------------------------
(* A build that finishes.                                                  *)

(* A package that was fine is fine after one more build.                   *)
LEMMA PkgOKGrows ==
    ASSUME NEW B, IsSeq(B), NEW b, NEW p, PkgOK(p, B)
    PROVE  PkgOK(p, Append(B, b))
  BY HonestGrows DEF PkgOK

(* The surface leaves the manifest out: writing it does not change it.     *)
LEMMA SurfaceIgnoresManifest ==
    ASSUME NEW p, PkgShape(p), NEW m
    PROVE  LET q == WriteManifest(p, m)
           IN  /\ PkgShape(q) /\ HasPart(q, MANIFEST) /\ ManifestOf(q) = m
               /\ SurfaceDigest(q) = SurfaceDigest(p)
  <1> DEFINE q == WriteManifest(p, m)
  <1>1. PkgShape(q) /\ q.parts = Put(p.parts, MANIFEST, m)
    BY DEF WriteManifest, SetPart, AddPart, AddRelationship, PkgShape
  <1>2. HasPart(q, MANIFEST) /\ ManifestOf(q) = m
    BY <1>1 DEF HasPart, ManifestOf, Put
  <1>3. Without(q.parts, MANIFEST) = Without(p.parts, MANIFEST)
    BY <1>1 DEF Without, Put
  <1>4. Without(q.types, MANIFEST) = Without(p.types, MANIFEST)
    <2>1. q.types = p.types \/ q.types = Put(p.types, MANIFEST, "manifest")
      BY DEF WriteManifest, SetPart, AddPart, AddRelationship, PkgShape
    <2> QED
      BY <2>1 DEF Without, Put
  <1>5. {r \in q.rels : r.target # MANIFEST} = {r \in p.rels : r.target # MANIFEST}
    <2>1. \/ q.rels = p.rels
          \/ \E r : r.target = MANIFEST /\ q.rels = p.rels \cup {r}
      BY DEF WriteManifest, SetPart, AddPart, AddRelationship, PkgShape
    <2> QED
      BY <2>1
  <1>6. EdgeCounts(q) = EdgeCounts(p)
    BY <1>5 DEF EdgeCounts
  <1> QED
    BY <1>1, <1>2, <1>3, <1>4, <1>6 DEF SurfaceDigest

(* The manifest a build signs is bound to the package, and what it carries *)
(* of signatures is vouched for by the build itself.                       *)
LEMMA FinishBuildPInv ==
    ASSUME PInv, FinishBuild
    PROVE  PInv'
  <1> DEFINE m == SignedManifest
             emitted == WriteManifest(pkg, m)
             b == [modules |-> pending, signer |-> signer, cosigners |-> cosigners,
                   fresh |-> ~shared, shares |-> shares, n |-> builds, pkg |-> emitted]
             B == Append(built, b)
  <1>1. built' = B /\ doc' = emitted /\ pkg' = AfterBuild(emitted) /\ cosigners' = cosigners
    BY DEF FinishBuild, builderVars
  <1>2. /\ PkgShape(emitted) /\ HasPart(emitted, MANIFEST) /\ ManifestOf(emitted) = m
        /\ SurfaceDigest(emitted) = SurfaceDigest(pkg)
    BY SurfaceIgnoresManifest DEF PInv, PkgOK
  <1>3. /\ IsSeq(B) /\ DOMAIN B = DOMAIN built \cup {Len(built) + 1}
        /\ \A i \in DOMAIN built : B[i] = built[i]
        /\ B[Len(built) + 1] = b
    <2>1. IsSeq(built) /\ IsSeq(B) /\ Len(built) \in Nat /\ Len(B) = Len(built) + 1
      BY AppendIsSeq, SeqShape DEF PInv, BuiltOK
    <2> QED
      BY <2>1, AppendIsSeq, SeqShape
  <1> DEFINE body == [records |-> records, surface |-> SurfaceDigest(pkg),
                      root |-> [s \in DOMAIN records |-> records[s].digest]]
  <1>4. /\ DOMAIN m = {"records", "surface", "publicKey", "signature", "cosignatures",
                       "algorithm"}
        /\ m.surface = SurfaceDigest(pkg)
        /\ CanonicalBody(m) = body
        /\ m.signature = NoSignature \/ m.signature = Signature(signer, body)
        /\ m.cosignatures = [i \in DOMAIN cosigners |->
                                [publicKey |-> cosigners[i],
                                 value |-> Signature(cosigners[i], body)]]
    BY DEF SignedManifest, NewManifest, CanonicalBody, MerkleRoot
  <1>5. b.signer = signer /\ b.cosigners = cosigners /\ b.pkg = emitted
    OBVIOUS
  <1> HIDE DEF m, emitted, b, body
  <1>6. IsSeq(built) /\ IsSeq(b.cosigners)
    BY <1>5 DEF PInv, BuiltOK
  <1>7. Honest(m, B)
    BY <1>2, <1>4, <1>5, <1>6, SignedIsHonest
  <1> HIDE DEF B
  <1>8. PkgOK(emitted, B)
    BY <1>2, <1>7 DEF PkgOK
  <1>9. BuiltOK(B)
    <2>1. ASSUME NEW i \in DOMAIN built
          PROVE  PkgOK(built[i].pkg, B)
      BY PkgOKGrows DEF PInv, BuiltOK, B
    <2> QED
      BY <1>2, <1>3, <1>4, <1>5, <1>8, <2>1 DEF PInv, BuiltOK
  <1>10. PkgOK(AfterBuild(emitted), B)
    BY <1>8, NewBaseDocumentOK DEF AfterBuild
  <1> QED
    BY <1>1, <1>8, <1>9, <1>10 DEF PInv

-----------------------------------------------------------------------------
(* The other steps.                                                        *)

(* A step that appends no build and leaves a base package and a document   *)
(* with the manifests they had, or takes them from one another.            *)
LEMMA OtherStepPInv ==
    ASSUME PInv, IsSeq(cosigners'), UNCHANGED built,
           SameManifest(pkg, pkg') \/ pkg' = NewBaseDocument \/ (doc # NoKey /\ pkg' = doc),
           UNCHANGED doc \/ doc' = pkg \/ (doc # NoKey /\ PkgOK(doc', built))
    PROVE  PInv'
  BY SameManifestOK, NewBaseDocumentOK DEF PInv

(* The same package has the same manifest.                                 *)
LEMMA SameManifestReflexive == \A p : SameManifest(p, p)
  BY DEF SameManifest

(* Queueing modules, choosing keys and handing over a base package.        *)
LEMMA AuthoringPInv ==
    ASSUME PInv, \/ \E m \in Modules : AddModule(m)
                 \/ \E key \in Authors : Sign(key) \/ AddCosigner(key)
                 \/ UseBase(NewBaseDocument)
                 \/ doc # NoKey /\ UseBase(doc)
                 \/ BeginBuild
                 \/ SerialiseBase
    PROVE  PInv'
  <1>1. IsSeq(cosigners')
    BY AppendIsSeq DEF PInv, AddModule, Sign, AddCosigner, UseBase, BeginBuild,
       SerialiseBase, builderVars
  <1>2. UNCHANGED built
    BY DEF AddModule, Sign, AddCosigner, UseBase, BeginBuild, SerialiseBase, buildVars
  <1>3. UNCHANGED pkg \/ pkg' = NewBaseDocument \/ (doc # NoKey /\ pkg' = doc)
    BY DEF AddModule, Sign, AddCosigner, UseBase, BeginBuild, SerialiseBase, buildVars
  <1>4. UNCHANGED doc \/ doc' = pkg
    BY DEF AddModule, Sign, AddCosigner, UseBase, BeginBuild, SerialiseBase
  <1> QED
    BY <1>1, <1>2, <1>3, <1>4, OtherStepPInv, SameManifestReflexive

(* Placing and raising leave the manifest of the package alone.            *)
LEMMA PlacingSame ==
    ASSUME PInv, \/ PlacePackagePart \/ PlaceCustomXml \/ PlaceMetadata \/ PlaceMce
                 \/ PlaceCarrier \/ PlaceStegoMedia \/ StegoMediaFails
                 \/ SealingFails
    PROVE  SameManifest(pkg, pkg') \/ pkg' = NewBaseDocument
  <1>1. PkgShape(pkg)
    BY DEF PInv, PkgOK
  <1>2. CASE PlacePackagePart
    BY <1>1, <1>2, EmbedPackagePartSame DEF PlacePackagePart, Place
  <1>3. CASE PlaceCustomXml
    BY <1>1, <1>3, EmbedCustomXmlSame DEF PlaceCustomXml, Place
  <1>4. CASE PlaceMetadata
    BY <1>1, <1>4, EmbedMetadataSame, SameManifestReflexive
       DEF PlaceMetadata, Place, Raise, AfterBuild
  <1>5. CASE PlaceMce
    BY <1>1, <1>5, EmbedMceSame DEF PlaceMce, Place
  <1>6. CASE PlaceCarrier
    BY <1>1, <1>6, EmbedReplicaSame DEF PlaceCarrier
  <1>7. CASE PlaceStegoMedia
    BY <1>1, <1>7, EmbedReplicaSame DEF PlaceStegoMedia, Place, EmbedStegoMedia, Placed
  <1>8. CASE StegoMediaFails
    BY <1>8, SameManifestReflexive DEF StegoMediaFails, Raise, AfterBuild
  <1>9. CASE SealingFails
    BY <1>9, SameManifestReflexive DEF SealingFails, AfterBuild
  <1> QED
    BY <1>2, <1>3, <1>4, <1>5, <1>6, <1>7, <1>8, <1>9

(* A module placed, a carrier placed, or a build that raises.              *)
LEMMA PlacingPInv ==
    ASSUME PInv, \/ PlacePackagePart \/ PlaceCustomXml \/ PlaceMetadata \/ PlaceMce
                 \/ PlaceCarrier \/ PlaceStegoMedia \/ StegoMediaFails
                 \/ SealingFails
    PROVE  PInv'
  <1>1. UNCHANGED <<cosigners, built, doc>>
    BY DEF PlacePackagePart, PlaceCustomXml, PlaceMetadata, PlaceMce, PlaceCarrier,
       PlaceStegoMedia, StegoMediaFails, SealingFails, Place, Raise, builderVars
  <1>2. SameManifest(pkg, pkg') \/ pkg' = NewBaseDocument
    BY PlacingSame
  <1> QED
    BY <1>1, <1>2, OtherStepPInv DEF PInv

(* An editor without an author's key puts no new signature of an author's  *)
(* into a document.                                                        *)
LEMMA EditPInv ==
    ASSUME PInv, Edit
    PROVE  PInv'
  <1>1. doc # NoKey /\ PkgOK(doc, built) /\ PkgShape(doc)
    BY DEF Edit, PInv, PkgOK
  <1>2. UNCHANGED <<cosigners, built, pkg>>
    BY DEF Edit, builderVars, buildVars
  <1>3. ASSUME NEW e \in PackageEdits(doc)
        PROVE  PkgOK(e, built) /\ SameManifest(doc, e)
    BY <1>1, <1>3, PackageEditsSame, SameManifestOK
  <1>4. ASSUME HasPart(doc, MANIFEST), doc' \in ManifestEdits(doc)
        PROVE  PkgOK(doc', built)
    <2>1. PICK m : /\ doc' = SetPart(doc, MANIFEST, m)
                   /\ LET o == ManifestOf(doc)
                      IN  \/ m \in UNION {DropRecord(o), SwapRecords(o), StripSignature(o),
                                          DeclareAlgorithm(o), SignAsStranger(o),
                                          AddCosignature(o), PromoteCosignature(o)}
                          \/ \E i \in DOMAIN built : m = ManifestOf(built[i].pkg)
      BY <1>4 DEF ManifestEdits
    <2>2. \A i \in DOMAIN built : Honest(ManifestOf(built[i].pkg), built)
      BY DEF PInv, BuiltOK, PkgOK
    <2>3. Honest(ManifestOf(doc), built)
      BY <1>1, <1>4 DEF PkgOK
    <2>4. Honest(m, built)
      BY <2>1, <2>2, <2>3, ManifestEditsHonest
    <2> QED
      BY <1>1, <2>1, <2>4, SetManifestOK
  <1>5. ASSUME HasPart(doc, MANIFEST), NEW d \in PackageEdits(doc), doc' = Rebound(d)
        PROVE  PkgOK(doc', built)
    <2> DEFINE m == [ManifestOf(d) EXCEPT !.surface = SurfaceDigest(d)]
    <2>1. HasPart(d, MANIFEST) /\ PkgShape(d) /\ Honest(ManifestOf(d), built)
      BY <1>3, <1>5 DEF SameManifest, PkgOK
    <2>2. SameSignatures(ManifestOf(d), m)
      BY <2>1 DEF SameSignatures, Honest
    <2>3. Honest(m, built)
      BY <2>1, <2>2, SameSignaturesHonest
    <2> QED
      BY <1>5, <2>1, <2>3, SetManifestOK DEF Rebound
  <1>6. PkgOK(doc', built)
    BY <1>3, <1>4, <1>5 DEF Edit
  <1> QED
    BY <1>1, <1>2, <1>6, OtherStepPInv, SameManifestReflexive DEF PInv

(* Nothing is signed at first.                                             *)
LEMMA InitPInv == Init => PInv
  BY EmptyIsSeq, SeqShape, NewBaseDocumentOK DEF Init, PInv, BuiltOK

(* The invariant is inductive.                                             *)
LEMMA NextPInv ==
    ASSUME PInv, [Next]_vars
    PROVE  PInv'
  <1>1. CASE UNCHANGED vars
    BY <1>1 DEF vars, builderVars, buildVars, PInv
  <1>2. CASE Next
    BY <1>2, AuthoringPInv, PlacingPInv, FinishBuildPInv, EditPInv DEF Next
  <1> QED
    BY <1>1, <1>2

(* The invariant holds in every state of every behaviour.                  *)
LEMMA AlwaysPInv == Spec => []PInv
  BY InitPInv, NextPInv, PTL DEF Spec

-----------------------------------------------------------------------------
(* A key whose signature or co-signature verifies over the manifest of the *)
(* document in hand, the surface matching, vouches for a build that the    *)
(* document says the same as.                                              *)
LEMMA VerifiedSaysWhatWasBuilt ==
    ASSUME PInv, HoldsDocument, SurfaceMatches(doc), NEW key \in Authors,
           LET m == ManifestOf(doc)
           IN  \/ VerifySignature(m) /\ m.publicKey = key
               \/ key \in ValidCosigners(m)
    PROVE  \E i \in DOMAIN built : Vouches(key, built[i]) /\ SaysWhatWasBuilt(i)
  <1>1. Honest(ManifestOf(doc), built)
    BY DEF PInv, PkgOK, HoldsDocument
  <1>2. PICK i \in DOMAIN built :
            /\ Vouches(key, built[i])
            /\ ManifestOf(doc).records = ManifestOf(built[i].pkg).records
            /\ ManifestOf(doc).surface = ManifestOf(built[i].pkg).surface
    BY <1>1, VerifiedIsVouchedFor
  <1>3. ManifestOf(built[i].pkg).surface = SurfaceDigest(built[i].pkg)
    BY DEF PInv, BuiltOK
  <1>4. SurfaceDigest(doc) = SurfaceDigest(built[i].pkg)
    BY <1>2, <1>3 DEF SurfaceMatches
  <1>5. /\ Framed(Without(doc.parts, MANIFEST))
        /\ Framed(Without(built[i].pkg.parts, MANIFEST))
        => Surface(doc) = Surface(built[i].pkg)
    BY <1>4, FramedSurface
  <1> QED
    BY <1>2, <1>4, <1>5 DEF SaysWhatWasBuilt

(* The invariant makes verify_provenance authentic.                        *)
LEMMA PInvAuthentic ==
    ASSUME PInv
    PROVE  Authentic
  BY VerifiedSaysWhatWasBuilt DEF Authentic, VerifyProvenance

(* And verify_cosigners.                                                   *)
LEMMA PInvCosignersVouched ==
    ASSUME PInv
    PROVE  CosignersVouched
  <1> SUFFICES ASSUME NEW key \in Authors, HoldsDocument, VerifyCosigner(doc, key)
               PROVE  \E i \in DOMAIN built :
                          Vouches(key, built[i]) /\ SaysWhatWasBuilt(i)
    BY DEF CosignersVouched
  <1>1. CASE VerifyProvenance(doc, key)
    BY <1>1, VerifiedSaysWhatWasBuilt DEF VerifyProvenance
  <1>2. CASE key \in Cosigners(doc)
    <2>1. SurfaceMatches(doc) /\ key \in ValidCosigners(ManifestOf(doc))
      BY <1>2 DEF Cosigners
    <2> QED
      BY <2>1, VerifiedSaysWhatWasBuilt
  <1> QED
    BY <1>1, <1>2 DEF VerifyCosigner

(* Whatever is done to a document after it was built, verify_provenance    *)
(* under a pinned key accepts only what the holder of that key signed:     *)
(* the modules of a build of theirs, in a package that hashes like that    *)
(* build's, and is it part for part where no part holds the bytes of a     *)
(* further entry.                                                          *)
THEOREM ProvenanceIsAuthentic == Spec => []Authentic
  BY AlwaysPInv, PInvAuthentic, PTL

(* verify_cosigners accepts a key only for what its holder signed.         *)
THEOREM CosignersAreAuthentic == Spec => []CosignersVouched
  BY AlwaysPInv, PInvCosignersVouched, PTL

-----------------------------------------------------------------------------
(* What a manifest lists.  A record is made of a module while it is        *)
(* placed, and an editor can only drop records or move their contents      *)
(* about.                                                                  *)

\* A record tells how a module was sealed and what it was attested to be.
RecordOf(r, m, n) ==
    /\ "digest" \in DOMAIN r
    /\ r.digest = SealModule(m, n)
    /\ r.reproduction = IF m.attested THEN Attestation(m.obj) ELSE NoKey

\* Each record is of a module asked for in its slot.
RecordsOf(recs, mods, n) ==
    \A s \in DOMAIN recs :
        /\ s # NoKey
        /\ \E j \in DOMAIN mods : mods[j].slot = s /\ RecordOf(recs[s], mods[j], n)

SealedBy(digest, b) ==
    \E j \in DOMAIN b.modules : digest = SealModule(b.modules[j], b.n)

\* Whatever slot it is in, each record's digest is of something that some
\* finished build sealed.
Lists(recs, B) ==
    \A s \in DOMAIN recs :
        /\ s # NoKey
        /\ "digest" \in DOMAIN recs[s]
        /\ \E i \in DOMAIN B : SealedBy(recs[s].digest, B[i])

PkgLists(p, B) == HasPart(p, MANIFEST) => Lists(ManifestOf(p).records, B)

RInv ==
    /\ IsSeq(pending) /\ \A j \in DOMAIN pending : pending[j].slot # NoKey
    /\ RecordsOf(records, pending, builds)
    /\ PkgLists(pkg, built)
    /\ doc # NoKey => PkgLists(doc, built)
    /\ \A i \in DOMAIN built :
         RecordsOf(ManifestOf(built[i].pkg).records, built[i].modules, built[i].n)

(* The records of a build list what it sealed.                             *)
LEMMA RecordsAreListed ==
    ASSUME NEW B, NEW i \in DOMAIN B, NEW recs, RecordsOf(recs, B[i].modules, B[i].n)
    PROVE  Lists(recs, B)
  <1> SUFFICES ASSUME NEW s \in DOMAIN recs
               PROVE  /\ s # NoKey
                      /\ "digest" \in DOMAIN recs[s]
                      /\ \E k \in DOMAIN B : SealedBy(recs[s].digest, B[k])
    BY DEF Lists
  <1>1. s # NoKey
    BY DEF RecordsOf
  <1>2. PICK j \in DOMAIN B[i].modules : RecordOf(recs[s], B[i].modules[j], B[i].n)
    BY DEF RecordsOf
  <1>3. "digest" \in DOMAIN recs[s] /\ recs[s].digest = SealModule(B[i].modules[j], B[i].n)
    BY <1>2 DEF RecordOf
  <1>4. SealedBy(recs[s].digest, B[i])
    BY <1>3 DEF SealedBy
  <1> QED
    BY <1>1, <1>3, <1>4

(* No records, and a package without a manifest.                           *)
LEMMA NothingListed ==
    ASSUME NEW B
    PROVE  /\ \A mods, n : RecordsOf(<<>>, mods, n)
           /\ PkgLists(NewBaseDocument, B)
  <1>1. DOMAIN <<>> = {}
    BY EmptyIsSeq, SeqShape
  <1>2. DOMAIN NewBaseDocument.parts = {DOCUMENT, CORE}
    BY <1>1 DEF NewBaseDocument, Put
  <1>3. ~HasPart(NewBaseDocument, MANIFEST)
    BY <1>2 DEF HasPart, CORE, DOCUMENT, MANIFEST
  <1> QED
    BY <1>1, <1>3 DEF RecordsOf, PkgLists

(* The same manifest lists the same.                                       *)
LEMMA SameManifestLists ==
    ASSUME NEW p, NEW q, NEW B, SameManifest(p, q), PkgLists(p, B)
    PROVE  PkgLists(q, B)
  BY DEF SameManifest, PkgLists

(* One module more is queued: records are of the modules they were of.     *)
LEMMA RecordsOfMore ==
    ASSUME NEW recs, NEW mods, IsSeq(mods), NEW m, NEW n, RecordsOf(recs, mods, n)
    PROVE  RecordsOf(recs, Append(mods, m), n)
  <1>1. /\ DOMAIN mods \subseteq DOMAIN Append(mods, m)
        /\ \A j \in DOMAIN mods : Append(mods, m)[j] = mods[j]
    BY AppendIsSeq, SeqShape
  <1> QED
    BY <1>1 DEF RecordsOf

(* One build more.                                                         *)
LEMMA ListsGrows ==
    ASSUME NEW B, IsSeq(B), NEW b, NEW p, PkgLists(p, B)
    PROVE  PkgLists(p, Append(B, b))
  <1>1. /\ DOMAIN B \subseteq DOMAIN Append(B, b)
        /\ \A i \in DOMAIN B : Append(B, b)[i] = B[i]
    BY AppendIsSeq, SeqShape
  <1> QED
    BY <1>1 DEF PkgLists, Lists

(* Queueing modules, choosing keys and handing over a base package.        *)
LEMMA AuthoringRInv ==
    ASSUME RInv, \/ \E m \in Modules : AddModule(m)
                 \/ \E key \in Authors : Sign(key) \/ AddCosigner(key)
                 \/ UseBase(NewBaseDocument)
                 \/ doc # NoKey /\ UseBase(doc)
                 \/ BeginBuild
                 \/ SerialiseBase
    PROVE  RInv'
  <1>1. UNCHANGED built
    BY DEF AddModule, Sign, AddCosigner, UseBase, BeginBuild, SerialiseBase, buildVars
  <1>2. PkgLists(pkg, built)'
    <2>1. UNCHANGED pkg \/ pkg' = NewBaseDocument \/ (doc # NoKey /\ pkg' = doc)
      BY DEF AddModule, Sign, AddCosigner, UseBase, BeginBuild, SerialiseBase, buildVars
    <2>2. PkgLists(pkg', built)
      BY <2>1, NothingListed DEF RInv
    <2> QED
      BY <1>1, <2>2
  <1>3. (doc # NoKey => PkgLists(doc, built))'
    <2>1. UNCHANGED doc \/ doc' = pkg
      BY DEF AddModule, Sign, AddCosigner, UseBase, BeginBuild, SerialiseBase
    <2>2. doc' # NoKey => PkgLists(doc', built)
      BY <2>1 DEF RInv
    <2> QED
      BY <1>1, <2>2
  <1>4. (IsSeq(pending) /\ \A j \in DOMAIN pending : pending[j].slot # NoKey)'
        /\ RecordsOf(records, pending, builds)'
    <2>1. CASE \E m \in Modules : AddModule(m)
      <3>1. PICK m \in Modules : AddModule(m)
        BY <2>1
      <3>2. pending' = Append(pending, m) /\ UNCHANGED <<records, builds>>
        BY <3>1 DEF AddModule, buildVars
      <3>3. m.slot # NoKey
        BY InputsAssumption DEF Modules
      <3>4. IsSeq(pending') /\ \A j \in DOMAIN pending' : pending'[j].slot # NoKey
        BY <3>2, <3>3, AppendIsSeq, SeqShape DEF RInv
      <3>5. RecordsOf(records, pending', builds)
        BY <3>2, RecordsOfMore DEF RInv
      <3> QED
        BY <3>2, <3>4, <3>5
    <2>2. CASE BeginBuild
      <3>1. UNCHANGED pending /\ records' = <<>>
        BY <2>2 DEF BeginBuild, builderVars
      <3>2. RecordsOf(records', pending', builds')
        BY <3>1, NothingListed
      <3> QED
        BY <3>1, <3>2 DEF RInv
    <2>3. CASE UNCHANGED <<pending, records, builds>>
      BY <2>3 DEF RInv
    <2>4. CASE \/ \E key \in Authors : Sign(key) \/ AddCosigner(key)
               \/ UseBase(NewBaseDocument) \/ UseBase(doc) \/ SerialiseBase
      <3>1. UNCHANGED <<pending, records, builds>>
        BY <2>4 DEF Sign, AddCosigner, UseBase, SerialiseBase, buildVars, builderVars
      <3> QED
        BY <2>3, <3>1
    <2> QED
      BY <2>1, <2>2, <2>4
  <1> QED
    BY <1>1, <1>2, <1>3, <1>4 DEF RInv

(* A module placed gets a record of its own, of what it was sealed to.     *)
LEMMA PlaceRecords ==
    ASSUME RInv, step \in 1..Len(pending), NEW placed, Place(placed)
    PROVE  RecordsOf(records, pending, builds)'
  <1>1. step \in DOMAIN pending /\ Module = pending[step] /\ Module.slot # NoKey
    BY SeqShape DEF RInv, Module
  <1>2. records' = Put(records, Module.slot, Record(placed.loc))
        /\ UNCHANGED <<pending, builds>>
    BY DEF Place, builderVars
  <1>3. RecordOf(Record(placed.loc), Module, builds)
    BY DEF RecordOf, Record, Sealed
  <1> HIDE DEF Module
  <1>4. RecordsOf(Put(records, Module.slot, Record(placed.loc)), pending, builds)
    <2> DEFINE r == Record(placed.loc)
               recs == Put(records, Module.slot, r)
    <2> HIDE DEF r
    <2> SUFFICES ASSUME NEW s \in DOMAIN recs
                 PROVE  /\ s # NoKey
                        /\ \E j \in DOMAIN pending :
                              pending[j].slot = s /\ RecordOf(recs[s], pending[j], builds)
      BY DEF RecordsOf, r
    <2>1. CASE s = Module.slot
      <3>1. recs[s] = r
        BY <2>1 DEF Put
      <3> QED
        BY <1>1, <1>3, <2>1, <3>1 DEF r
    <2>2. CASE s # Module.slot
      <3>1. s \in DOMAIN records /\ recs[s] = records[s]
        BY <2>2 DEF Put
      <3> QED
        BY <3>1 DEF RInv, RecordsOf
    <2> QED
      BY <2>1, <2>2
  <1> QED
    BY <1>2, <1>4

(* A module placed, a carrier placed, or a build that raises.              *)
LEMMA PlacingRInv ==
    ASSUME PInv, RInv,
           \/ PlacePackagePart \/ PlaceCustomXml \/ PlaceMetadata \/ PlaceMce
           \/ PlaceCarrier \/ PlaceStegoMedia \/ StegoMediaFails
           \/ SealingFails
    PROVE  RInv'
  <1>1. UNCHANGED <<pending, builds, built, doc>>
    BY DEF PlacePackagePart, PlaceCustomXml, PlaceMetadata, PlaceMce, PlaceCarrier,
       PlaceStegoMedia, StegoMediaFails, SealingFails, Place, Raise, builderVars
  <1>2. SameManifest(pkg, pkg') \/ pkg' = NewBaseDocument
    BY PlacingSame
  <1>3. PkgLists(pkg', built)
    BY <1>2, SameManifestLists, NothingListed DEF RInv
  <1>4. RecordsOf(records, pending, builds)'
    <2>1. \/ step \in 1..Len(pending) /\ \E placed : Place(placed)
          \/ records' = <<>>
          \/ UNCHANGED records
      BY DEF PlacePackagePart, PlaceCustomXml, PlaceMetadata, PlaceMce, PlaceCarrier,
         PlaceStegoMedia, StegoMediaFails, SealingFails, Raise, Placing
    <2>2. CASE records' = <<>>
      BY <2>2, NothingListed
    <2>3. CASE UNCHANGED records
      BY <1>1, <2>3 DEF RInv
    <2> QED
      BY <2>1, <2>2, <2>3, PlaceRecords
  <1> QED
    BY <1>1, <1>3, <1>4 DEF RInv

(* The manifest that goes out lists the records made.                      *)
LEMMA FinishBuildRInv ==
    ASSUME PInv, RInv, FinishBuild
    PROVE  RInv'
  <1> DEFINE m == SignedManifest
             emitted == WriteManifest(pkg, m)
             b == [modules |-> pending, signer |-> signer, cosigners |-> cosigners,
                   fresh |-> ~shared, shares |-> shares, n |-> builds, pkg |-> emitted]
             B == Append(built, b)
  <1>1. /\ built' = B /\ doc' = emitted /\ pkg' = AfterBuild(emitted) /\ records' = <<>>
        /\ UNCHANGED <<pending, builds>>
    BY DEF FinishBuild, builderVars
  <1>2. ManifestOf(emitted) = m
    BY SurfaceIgnoresManifest DEF PInv, PkgOK
  <1>3. m.records = records
    BY DEF SignedManifest, NewManifest
  <1>4. b.modules = pending /\ b.n = builds /\ b.pkg = emitted
    OBVIOUS
  <1> HIDE DEF m, emitted, b
  <1>5. /\ IsSeq(built) /\ DOMAIN B = DOMAIN built \cup {Len(built) + 1}
        /\ \A i \in DOMAIN built : B[i] = built[i]
        /\ B[Len(built) + 1] = b
    <2>1. IsSeq(built) /\ IsSeq(B) /\ Len(built) \in Nat /\ Len(B) = Len(built) + 1
      BY AppendIsSeq, SeqShape DEF PInv, BuiltOK
    <2> QED
      BY <2>1, AppendIsSeq, SeqShape
  <1> HIDE DEF B
  <1>6. \A i \in DOMAIN B :
           RecordsOf(ManifestOf(B[i].pkg).records, B[i].modules, B[i].n)
    BY <1>2, <1>3, <1>4, <1>5 DEF RInv
  <1>7. PkgLists(emitted, B)
    <2>1. RecordsOf(ManifestOf(emitted).records, b.modules, b.n)
      BY <1>2, <1>3, <1>4 DEF RInv
    <2>2. Lists(ManifestOf(emitted).records, B)
      BY <1>5, <2>1, RecordsAreListed
    <2> QED
      BY <2>2 DEF PkgLists
  <1>8. PkgLists(AfterBuild(emitted), B)
    BY <1>7, NothingListed DEF AfterBuild
  <1>9. RecordsOf(records', pending', builds')
    BY <1>1, NothingListed
  <1> QED
    BY <1>1, <1>6, <1>7, <1>8, <1>9 DEF RInv

(* Records dropped, moved about or taken from a build's own manifest.      *)
LEMMA ManifestEditsList ==
    ASSUME NEW m, NEW B, Lists(m.records, B), Honest(m, B),
           NEW e, e \in UNION {DropRecord(m), SwapRecords(m), StripSignature(m),
                               DeclareAlgorithm(m), SignAsStranger(m),
                               AddCosignature(m), PromoteCosignature(m)}
    PROVE  Lists(e.records, B)
  <1>1. CASE e \in DropRecord(m)
    <2>1. PICK s \in DOMAIN m.records : e = [m EXCEPT !.records = Without(@, s)]
      BY <1>1 DEF DropRecord
    <2>2. e.records = Without(m.records, s)
      BY <2>1 DEF Honest
    <2> QED
      BY <2>2 DEF Lists, Without
  <1>2. CASE e \in SwapRecords(m)
    <2>1. PICK a \in DOMAIN m.records, c \in DOMAIN m.records :
              e = [m EXCEPT !.records = Exchanged(@, a, c)]
      BY <1>2 DEF SwapRecords
    <2> DEFINE recs == m.records
               x == Exchanged(recs, a, c)
    <2>2. e.records = x
      BY <2>1 DEF Honest
    <2>3. "digest" \in DOMAIN recs[a] /\ "digest" \in DOMAIN recs[c]
      BY DEF Lists
    <2>4. DOMAIN x = DOMAIN recs
      BY DEF Exchanged
    <2>5. \A s \in DOMAIN recs : DOMAIN x[s] = DOMAIN recs[s]
      BY DEF Exchanged
    <2>6. \A s \in DOMAIN recs \ {a, c} : x[s] = recs[s]
      BY DEF Exchanged
    <2>7. x[c].digest = recs[a].digest
      BY <2>3 DEF Exchanged
    <2>8. x[a].digest = recs[c].digest
      BY <2>3 DEF Exchanged
    <2> HIDE DEF x
    <2> QED
      BY <2>2, <2>4, <2>5, <2>6, <2>7, <2>8 DEF Lists
  <1>3. CASE \/ e \in StripSignature(m) \/ e \in DeclareAlgorithm(m)
             \/ e \in SignAsStranger(m) \/ e \in AddCosignature(m)
             \/ e \in PromoteCosignature(m)
    <2>1. e.records = m.records
      BY <1>3 DEF StripSignature, DeclareAlgorithm, SignAsStranger, AddCosignature,
         PromoteCosignature, Honest
    <2> QED
      BY <2>1
  <1> QED
    BY <1>1, <1>2, <1>3

(* A manifest put into a package.                                          *)
LEMMA SetManifestLists ==
    ASSUME NEW p, PkgShape(p), NEW m, NEW B, Lists(m.records, B)
    PROVE  PkgLists(SetPart(p, MANIFEST, m), B)
  <1>1. ManifestOf(SetPart(p, MANIFEST, m)) = m
    BY DEF SetPart, PkgShape, ManifestOf, Put
  <1> QED
    BY <1>1 DEF PkgLists

(* An editor adds no record.                                               *)
LEMMA EditRInv ==
    ASSUME PInv, RInv, Edit
    PROVE  RInv'
  <1>1. doc # NoKey /\ PkgOK(doc, built) /\ PkgShape(doc) /\ PkgLists(doc, built)
    BY DEF Edit, PInv, RInv, PkgOK
  <1>2. UNCHANGED <<pending, records, builds, built, pkg>>
    BY DEF Edit, builderVars, buildVars
  <1>3. ASSUME NEW e \in PackageEdits(doc)
        PROVE  PkgLists(e, built) /\ PkgOK(e, built) /\ SameManifest(doc, e)
    BY <1>1, <1>3, PackageEditsSame, SameManifestOK, SameManifestLists
  <1>4. ASSUME HasPart(doc, MANIFEST), doc' \in ManifestEdits(doc)
        PROVE  PkgLists(doc', built)
    <2> DEFINE o == ManifestOf(doc)
    <2>1. PICK m : /\ doc' = SetPart(doc, MANIFEST, m)
                   /\ \/ m \in UNION {DropRecord(o), SwapRecords(o), StripSignature(o),
                                      DeclareAlgorithm(o), SignAsStranger(o),
                                      AddCosignature(o), PromoteCosignature(o)}
                      \/ \E i \in DOMAIN built : m = ManifestOf(built[i].pkg)
      BY <1>4 DEF ManifestEdits
    <2>2. Lists(o.records, built) /\ Honest(o, built)
      BY <1>1, <1>4 DEF PkgLists, PkgOK
    <2> HIDE DEF o
    <2>3. ASSUME NEW i \in DOMAIN built, m = ManifestOf(built[i].pkg)
          PROVE  Lists(m.records, built)
      BY <2>3, RecordsAreListed DEF RInv
    <2>4. Lists(m.records, built)
      BY <2>1, <2>2, <2>3, ManifestEditsList
    <2> QED
      BY <1>1, <2>1, <2>4, SetManifestLists
  <1>5. ASSUME HasPart(doc, MANIFEST), NEW d \in PackageEdits(doc), doc' = Rebound(d)
        PROVE  PkgLists(doc', built)
    <2> DEFINE m == [ManifestOf(d) EXCEPT !.surface = SurfaceDigest(d)]
    <2>1. HasPart(d, MANIFEST) /\ PkgShape(d) /\ Lists(ManifestOf(d).records, built)
      BY <1>1, <1>3, <1>5 DEF SameManifest, PkgOK, PkgLists
    <2>2. m.records = ManifestOf(d).records
      OBVIOUS
    <2> HIDE DEF m
    <2>3. doc' = SetPart(d, MANIFEST, m)
      BY <1>5 DEF Rebound, m
    <2> QED
      BY <2>1, <2>2, <2>3, SetManifestLists
  <1>6. PkgLists(doc', built)
    BY <1>3, <1>4, <1>5 DEF Edit
  <1> QED
    BY <1>2, <1>6 DEF RInv

(* Nothing is queued, and nothing listed, at first.                        *)
LEMMA InitRInv == Init => RInv
  BY EmptyIsSeq, SeqShape, NothingListed DEF Init, RInv

(* Both invariants together are inductive.                                 *)
LEMMA NextRInv ==
    ASSUME PInv, RInv, [Next]_vars
    PROVE  RInv'
  <1>1. CASE UNCHANGED vars
    BY <1>1 DEF vars, builderVars, buildVars, RInv
  <1>2. CASE Next
    BY <1>2, AuthoringRInv, PlacingRInv, FinishBuildRInv, EditRInv DEF Next
  <1> QED
    BY <1>1, <1>2

(* They hold in every state of every behaviour.                            *)
LEMMA AlwaysRInv == Spec => []RInv
  BY AlwaysPInv, InitRInv, NextRInv, PTL DEF Spec

(* What opens in a slot was sealed for it.                                 *)
LEMMA RInvSlotBinding ==
    ASSUME RInv
    PROVE  SlotBinding
  <1> SUFFICES ASSUME HoldsDocument,
                      NEW slot \in DOMAIN ManifestOf(doc).records,
                      NEW pw \in {Password, DecoyPassword},
                      ManifestOf(doc).records[slot].mode = "password",
                      Extract(doc, slot, Credential(pw, NoKey, {})) # Refused
               PROVE  \E i \in DOMAIN built : \E j \in DOMAIN built[i].modules :
                         LET m == built[i].modules[j]
                         IN  /\ m.slot = slot
                             /\ ManifestOf(doc).records[slot].digest
                                   = SealModule(m, built[i].n)
    BY DEF SlotBinding
  <1> DEFINE r == ManifestOf(doc).records[slot]
             cred == Credential(pw, NoKey, {})
  <1>1. Unseal(slot, r.mode, r.digest, cred) # Refused
    BY DEF Extract
  <1>2. \E key : Open(r.digest, key, slot) # Refused
    BY <1>1 DEF Unseal
  <1>3. slot # NoKey /\ \E i \in DOMAIN built : SealedBy(r.digest, built[i])
    BY DEF RInv, HoldsDocument, PkgLists, Lists
  <1>4. PICK i \in DOMAIN built : SealedBy(r.digest, built[i])
    BY <1>3
  <1>5. PICK j \in DOMAIN built[i].modules :
            r.digest = SealModule(built[i].modules[j], built[i].n)
    BY <1>4 DEF SealedBy
  <1>6. built[i].modules[j].slot = slot
    BY <1>2, <1>3, <1>5, OpensInItsSlot
  <1> QED
    BY <1>5, <1>6

(* An attestation that is presented as verified is in a record of a build  *)
(* the key vouches for.                                                    *)
LEMMA InvAttestationBound ==
    ASSUME PInv, RInv
    PROVE  AttestationBound
  <1> SUFFICES ASSUME NEW key \in Authors, HoldsDocument,
                      NEW slot \in DOMAIN ManifestOf(doc).records,
                      VerifiedAttestation(doc, slot, key) # NoKey
               PROVE  \E i \in DOMAIN built : \E j \in DOMAIN built[i].modules :
                        LET m == built[i].modules[j]
                        IN  /\ Vouches(key, built[i]) /\ m.slot = slot /\ m.attested
                            /\ VerifiedAttestation(doc, slot, key) = Attestation(m.obj)
                            /\ ManifestOf(doc).records[slot].digest
                                  = SealModule(m, built[i].n)
    BY DEF AttestationBound
  <1> DEFINE r == ManifestOf(doc).records[slot]
  <1>1. VerifyProvenance(doc, key) /\ VerifiedAttestation(doc, slot, key) = r.reproduction
    BY DEF VerifiedAttestation
  <1>2. PICK i \in DOMAIN built : Vouches(key, built[i]) /\ SaysWhatWasBuilt(i)
    BY <1>1, PInvAuthentic DEF Authentic
  <1>3. RecordsOf(ManifestOf(doc).records, built[i].modules, built[i].n)
    BY <1>2 DEF RInv, SaysWhatWasBuilt
  <1>4. PICK j \in DOMAIN built[i].modules :
            built[i].modules[j].slot = slot /\ RecordOf(r, built[i].modules[j], built[i].n)
    BY <1>3 DEF RecordsOf
  <1> DEFINE m == built[i].modules[j]
  <1>5. /\ r.digest = SealModule(m, built[i].n)
        /\ r.reproduction = IF m.attested THEN Attestation(m.obj) ELSE NoKey
    BY <1>4 DEF RecordOf
  <1> HIDE DEF r
  <1>6. CASE m.attested
    BY <1>1, <1>2, <1>4, <1>5, <1>6 DEF r
  <1>7. CASE ~m.attested
    BY <1>1, <1>5, <1>7
  <1> QED
    BY <1>6, <1>7

(* The ciphertext of a module opens under its own slot only, however the   *)
(* records and parts of unsigned documents are moved about.                *)
THEOREM CiphertextsKeepTheirSlot == Spec => []SlotBinding
  BY AlwaysRInv, RInvSlotBinding, PTL

(* An attestation presented as verified under a pinned key was made of the *)
(* object its slot holds, in a build the holder of the key vouches for.    *)
THEOREM AttestationsAreBound == Spec => []AttestationBound
  BY AlwaysPInv, AlwaysRInv, InvAttestationBound, PTL

-----------------------------------------------------------------------------
(* What was placed is found and opens.  While a build is under way, every  *)
(* module it has placed is where its record leads; a step leaves that      *)
(* there, and the finished build takes it along.                           *)

\* The parts a build writes again when they are there.
Singletons == {DOCUMENT, CUSTOM, MANIFEST}

\* A record that leads to parts of the module's own.
RecordShape(r) ==
    /\ DOMAIN r = {"slot", "channel", "loc", "digest", "mode", "reproduction"}
    /\ r.channel \in ChannelIds
    /\ r.channel \in {"package_part", "custom_xml"} => r.loc.parts[1] \notin Singletons
    /\ r.channel = "stego_media" =>
         \A i \in DOMAIN r.loc.parts : r.loc.parts[i] \notin Singletons

WellPlaced(recs) == \A s \in DOMAIN recs : RecordShape(recs[s])

\* A story with its blocks.
Story(p) ==
    /\ HasPart(p, DOCUMENT)
    /\ "mce" \in DOMAIN p.parts[DOCUMENT]
    /\ IsSeq(p.parts[DOCUMENT].mce)

Blocks(p) == p.parts[DOCUMENT].mce

\* There is something where the record leads.
Found(p, r) ==
    /\ r.channel \in {"package_part", "custom_xml"} => HasPart(p, r.loc.parts[1])
    /\ r.channel = "metadata" => r.loc.key \in DOMAIN Properties(p)
    /\ r.channel = "mce" => \E i \in DOMAIN Blocks(p) : Blocks(p)[i].slot = r.slot
    /\ r.channel = "stego_media" =>
         \E i \in DOMAIN r.loc.parts :
             HasPart(p, r.loc.parts[i]) /\ p.parts[r.loc.parts[i]] = r.digest

\* The module has its record, its shares, and its bytes where the record leads.
PlacedAs(m, n, recs, issued, p, fresh) ==
    /\ m.slot \in DOMAIN recs
    /\ recs[m.slot].digest = SealModule(m, n) /\ recs[m.slot].mode = Mode(m)
    /\ fresh \/ recs[m.slot].channel # "mce" =>
         ExtractStored(p, recs[m.slot]) = SealModule(m, n)
    /\ recs[m.slot].channel = m.channel
    /\ m.seal = "threshold" =>
         m.slot \in DOMAIN issued /\ issued[m.slot] = ContentKey(m.slot, n)

\* Shares are of threshold modules that were asked for.
SharesAsked(issued, mods, n) ==
    \A s \in DOMAIN issued :
        /\ issued[s] = ContentKey(s, n)
        /\ \E j \in DOMAIN mods : mods[j].slot = s /\ mods[j].seal = "threshold"

\* What the build under way has placed so far.
BuildOK ==
    ~Idle =>
        /\ \A j \in DOMAIN pending : j < step =>
             PlacedAs(pending[j], builds, records, shares, pkg, ~shared)
        /\ \A s \in DOMAIN records :
             /\ \E j \in DOMAIN pending : j < step /\ pending[j].slot = s
             /\ Found(pkg, records[s]) /\ records[s].slot = s
        /\ SharesAsked(shares, pending, builds)
        /\ ~shared => \A i \in DOMAIN Blocks(pkg) :
                        \E j \in DOMAIN pending : j < step /\ Blocks(pkg)[i].slot = pending[j].slot

\* What a finished build has emitted.
EmittedOK(b) ==
    /\ \A j \in DOMAIN b.modules :
         /\ b.modules[j] \in Modules
         /\ PlacedAs(b.modules[j], b.n, ManifestOf(b.pkg).records, b.shares, b.pkg, b.fresh)
    /\ SharesAsked(b.shares, b.modules, b.n)
    /\ b.n \in Nat /\ b.n <= builds

\* One module per slot.
QueueOK == \A i, j \in DOMAIN pending : pending[i].slot = pending[j].slot => i = j

StoriesOK == Story(pkg) /\ (doc # NoKey => Story(doc))

ListedWell(p) == HasPart(p, MANIFEST) => WellPlaced(ManifestOf(p).records)

ShapesOK ==
    /\ WellPlaced(records)
    /\ ListedWell(pkg) /\ (doc # NoKey => ListedWell(doc))

BaseOK == Idle /\ ~shared => pkg = NewBaseDocument

BuildsOK ==
    /\ IsSeq(built)
    /\ \A i \in DOMAIN built :
         /\ EmittedOK(built[i]) /\ ListedWell(built[i].pkg)
         /\ ~Idle => built[i].n < builds
         /\ \A k \in DOMAIN built : i < k => built[i].n < built[k].n

KInv == QueueOK /\ StoriesOK /\ ShapesOK /\ BaseOK /\ BuildOK /\ BuildsOK

\* What a step of a build may do to a package: it leaves the parts that modules
\* have of their own and the properties as they are, and adds to the blocks of
\* the story at most one, for the slot it is about.
Keeps(p, q, slot) ==
    /\ \A n \in DOMAIN p.parts \ Singletons : HasPart(q, n) /\ q.parts[n] = p.parts[n]
    /\ \A k \in DOMAIN Properties(p) :
         k \in DOMAIN Properties(q) /\ Properties(q)[k] = Properties(p)[k]
    /\ Story(q)
    /\ \/ Blocks(q) = Blocks(p)
       \/ \E b : b.slot = slot /\ Blocks(q) = Append(Blocks(p), b)

-----------------------------------------------------------------------------
(* What was placed is found again.                                         *)

(* A set of indices has a least one.                                       *)
LEMMA LeastIndex ==
    ASSUME NEW n \in Nat, NEW S, S \subseteq 1..n, S # {}
    PROVE  \E a \in S : \A j \in S : a <= j
  <1> DEFINE used == 1..n \ S
  <1>1. PICK a \in S : TRUE
    OBVIOUS
  <1>2. IsFiniteSet(used)
    <2>1. IsFiniteSet(1..n)
      BY FS_Interval
    <2> QED
      BY <2>1, FS_Subset
  <1>3. Cardinality(used) \in Nat
    BY <1>2, FS_CardinalityType
  <1>4. PICK k \in 1..(Cardinality(used) + 1) :
            k \notin used /\ \A m \in 1..(k - 1) : m \in used
    BY <1>2, FirstUnused
  <1>5. k \in Nat /\ k >= 1
    BY <1>3, <1>4
  <1>6. k <= a
    <2> SUFFICES ASSUME k > a
                 PROVE  FALSE
      BY <1>1, <1>5
    <2>1. a \in 1..(k - 1)
      BY <1>1, <1>5
    <2> QED
      BY <1>1, <1>4, <2>1
  <1>7. k \in S
    BY <1>1, <1>4, <1>5, <1>6
  <1>8. ASSUME NEW j \in S, j < k
        PROVE  FALSE
    BY <1>4, <1>5, <1>8
  <1> QED
    BY <1>5, <1>7, <1>8

\* Where the first block of a slot is.
Hits(elems, slot) == {i \in 1..Len(elems) : elems[i].slot = slot}
FirstHit(elems, slot) ==
    CHOOSE i \in Hits(elems, slot) : \A j \in Hits(elems, slot) : i <= j

(* A slot that has a block has a first one, and it is the one found.       *)
LEMMA FirstHitIs ==
    ASSUME NEW elems, IsSeq(elems), NEW slot, NEW a \in Hits(elems, slot),
           \A j \in Hits(elems, slot) : a <= j
    PROVE  FirstHit(elems, slot) = a
  <1>1. Hits(elems, slot) \subseteq 1..Len(elems) /\ Len(elems) \in Nat
    BY SeqShape DEF Hits
  <1>2. /\ FirstHit(elems, slot) \in Hits(elems, slot)
        /\ \A j \in Hits(elems, slot) : FirstHit(elems, slot) <= j
    BY DEF FirstHit
  <1>3. FirstHit(elems, slot) <= a /\ a <= FirstHit(elems, slot)
    BY <1>2
  <1>4. FirstHit(elems, slot) \in Nat /\ a \in Nat
    BY <1>1, <1>2
  <1> QED
    BY <1>3, <1>4

(* extract of the mce channel, in these terms.                             *)
LEMMA ExtractMceIs ==
    ASSUME NEW p, NEW r, Hits(Blocks(p), r.slot) # {}
    PROVE  ExtractMce(p, r) = Blocks(p)[FirstHit(Blocks(p), r.slot)].bytes
  BY DEF ExtractMce, Hits, FirstHit, Blocks

(* Blocks added at the end do not come before one that is there.           *)
LEMMA BlocksKept ==
    ASSUME NEW a, IsSeq(a), NEW b, NEW e, b = a \/ b = Append(a, e),
           NEW slot, Hits(a, slot) # {}
    PROVE  /\ Hits(b, slot) # {}
           /\ b[FirstHit(b, slot)] = a[FirstHit(a, slot)]
  <1>1. CASE b = a
    BY <1>1
  <1>2. CASE b = Append(a, e)
    <2>1. /\ IsSeq(b) /\ Len(a) \in Nat /\ Len(b) = Len(a) + 1
          /\ \A i \in 1..Len(a) : b[i] = a[i]
      BY <1>2, AppendIsSeq, SeqShape
    <2>2. Hits(a, slot) \subseteq 1..Len(a)
      BY DEF Hits
    <2>3. PICK k \in Hits(a, slot) : \A j \in Hits(a, slot) : k <= j
      BY <2>1, <2>2, LeastIndex
    <2>4. k \in 1..Len(a) /\ k \in Hits(b, slot)
      BY <2>1, <2>2 DEF Hits
    <2>5. \A j \in Hits(b, slot) : k <= j
      <3> SUFFICES ASSUME NEW j \in Hits(b, slot)
                   PROVE  k <= j
        OBVIOUS
      <3>1. j \in 1..(Len(a) + 1) /\ b[j].slot = slot
        BY <2>1 DEF Hits
      <3>2. CASE j = Len(a) + 1
        BY <2>1, <2>4, <3>2
      <3>3. CASE j \in 1..Len(a)
        BY <2>1, <2>3, <3>1, <3>3 DEF Hits
      <3> QED
        BY <2>1, <3>1, <3>2, <3>3
    <2>6. FirstHit(a, slot) = k
      BY <2>3, FirstHitIs
    <2>7. FirstHit(b, slot) = k
      BY <2>1, <2>4, <2>5, FirstHitIs
    <2> QED
      BY <2>1, <2>4, <2>6, <2>7
  <1> QED
    BY <1>1, <1>2

(* The first block of a slot that had none is the one appended.            *)
LEMMA BlockAppended ==
    ASSUME NEW a, IsSeq(a), NEW e, NEW slot, e.slot = slot, Hits(a, slot) = {}
    PROVE  /\ Hits(Append(a, e), slot) # {}
           /\ Append(a, e)[FirstHit(Append(a, e), slot)] = e
  <1> DEFINE b == Append(a, e)
  <1>1. /\ IsSeq(b) /\ Len(a) \in Nat /\ Len(b) = Len(a) + 1
        /\ \A i \in 1..Len(a) : b[i] = a[i]
        /\ b[Len(a) + 1] = e
    BY AppendIsSeq, SeqShape
  <1> HIDE DEF b
  <1>2. Hits(b, slot) = {Len(a) + 1}
    BY <1>1 DEF Hits
  <1>3. /\ Len(a) + 1 \in Hits(b, slot)
        /\ \A j \in Hits(b, slot) : Len(a) + 1 <= j
    BY <1>1, <1>2
  <1>4. FirstHit(b, slot) = Len(a) + 1
    BY <1>1, <1>3, FirstHitIs
  <1> QED
    BY <1>1, <1>3, <1>4 DEF b

(* A module whose bytes are there keeps them through any such step.        *)
LEMMA KeepsFound ==
    ASSUME NEW p, Story(p), NEW q, NEW slot, Keeps(p, q, slot),
           NEW r, RecordShape(r), Found(p, r)
    PROVE  Found(q, r) /\ ExtractStored(q, r) = ExtractStored(p, r)
  <1>1. CASE r.channel \in {"package_part", "custom_xml"}
    <2>1. /\ r.loc.parts[1] \in DOMAIN p.parts \ Singletons
      BY <1>1 DEF RecordShape, Found, HasPart
    <2>2. HasPart(p, r.loc.parts[1]) /\ HasPart(q, r.loc.parts[1])
          /\ q.parts[r.loc.parts[1]] = p.parts[r.loc.parts[1]]
      BY <2>1 DEF Keeps, HasPart
    <2> QED
      BY <1>1, <2>2 DEF Found, ExtractStored, PartBytes
  <1>2. CASE r.channel = "metadata"
    <2>1. r.loc.key \in DOMAIN Properties(p)
      BY <1>2 DEF Found
    <2>2. /\ r.loc.key \in DOMAIN Properties(q)
          /\ Properties(q)[r.loc.key] = Properties(p)[r.loc.key]
      BY <2>1 DEF Keeps
    <2> QED
      BY <1>2, <2>1, <2>2 DEF Found, ExtractStored, ExtractMetadata
  <1>3. CASE r.channel = "mce"
    <2> DEFINE a == Blocks(p)
               b == Blocks(q)
    <2>1. IsSeq(a) /\ DOMAIN a = 1..Len(a)
      BY SeqShape DEF Story, Blocks
    <2>2. Hits(a, r.slot) # {}
      BY <1>3, <2>1 DEF Found, Hits
    <2>3. PICK e : b = a \/ b = Append(a, e)
      BY DEF Keeps
    <2> HIDE DEF a, b
    <2>4. Hits(b, r.slot) # {} /\ b[FirstHit(b, r.slot)] = a[FirstHit(a, r.slot)]
      BY <2>1, <2>2, <2>3, BlocksKept
    <2>5. IsSeq(b) /\ DOMAIN b = 1..Len(b)
      BY SeqShape DEF Keeps, Story, Blocks, b
    <2>6. ExtractMce(q, r) = ExtractMce(p, r)
      BY <2>2, <2>4, ExtractMceIs DEF a, b
    <2> QED
      BY <1>3, <2>4, <2>5, <2>6 DEF Found, ExtractStored, Hits, b
  <1>4. CASE r.channel = "stego_media"
    <2>1. PICK i \in DOMAIN r.loc.parts :
              HasPart(p, r.loc.parts[i]) /\ p.parts[r.loc.parts[i]] = r.digest
      BY <1>4 DEF Found
    <2>2. r.loc.parts[i] \notin Singletons
      BY <1>4 DEF RecordShape
    <2>3. HasPart(q, r.loc.parts[i]) /\ q.parts[r.loc.parts[i]] = r.digest
      BY <2>1, <2>2 DEF Keeps, HasPart
    <2>4. ExtractStegoMedia(p, r) = r.digest /\ ExtractStegoMedia(q, r) = r.digest
      BY <2>1, <2>3 DEF ExtractStegoMedia, PartBytes
    <2> QED
      BY <1>4, <2>3, <2>4 DEF Found, ExtractStored
  <1> QED
    BY <1>1, <1>2, <1>3, <1>4 DEF RecordShape, ChannelIds

(* What can be read is there.                                              *)
LEMMA ReadIsFound ==
    ASSUME NEW p, Story(p), NEW r, RecordShape(r), ExtractStored(p, r) # Refused
    PROVE  Found(p, r)
  <1>1. CASE r.channel \in {"package_part", "custom_xml"}
    BY <1>1 DEF ExtractStored, PartBytes, Found
  <1>2. CASE r.channel = "metadata"
    BY <1>2 DEF ExtractStored, ExtractMetadata, Found
  <1>3. CASE r.channel = "mce"
    <2>1. DOMAIN Blocks(p) = 1..Len(Blocks(p))
      BY SeqShape DEF Story, Blocks
    <2> QED
      BY <1>3, <2>1 DEF ExtractStored, ExtractMce, Found, Blocks
  <1>4. CASE r.channel = "stego_media"
    BY <1>4 DEF ExtractStored, ExtractStegoMedia, PartBytes, Found
  <1> QED
    BY <1>1, <1>2, <1>3, <1>4 DEF RecordShape, ChannelIds

-----------------------------------------------------------------------------
(* The channels.                                                           *)

(* A step that changes nothing.                                            *)
LEMMA KeepsItself ==
    ASSUME NEW p, Story(p), NEW slot
    PROVE  Keeps(p, p, slot)
  BY DEF Keeps, HasPart

(* A part added under a name that is free, with its edge.                  *)
LEMMA AddPartKeeps ==
    ASSUME NEW p, PkgShape(p), Story(p), NEW name, ~HasPart(p, name),
           name \notin {DOCUMENT, CUSTOM},
           NEW data, NEW ctype, NEW source, NEW rtype, NEW slot
    PROVE  LET q == AddRelationship(AddPart(p, name, data, ctype), source, rtype, name)
           IN  /\ PkgShape(q)
               /\ Keeps(p, q, slot) /\ Blocks(q) = Blocks(p)
               /\ HasPart(q, name) /\ q.parts[name] = data
               /\ q.parts[DOCUMENT] = p.parts[DOCUMENT]
  <1> DEFINE q == AddRelationship(AddPart(p, name, data, ctype), source, rtype, name)
  <1>1. PkgShape(q) /\ q.parts = Put(p.parts, name, data)
    BY DEF AddRelationship, AddPart, PkgShape
  <1> HIDE DEF q
  <1>2. /\ DOMAIN q.parts = DOMAIN p.parts \cup {name}
        /\ q.parts[name] = data
        /\ \A n \in DOMAIN p.parts : n # name => q.parts[n] = p.parts[n]
    BY <1>1 DEF Put
  <1>3. HasPart(q, DOCUMENT) /\ q.parts[DOCUMENT] = p.parts[DOCUMENT]
    BY <1>2 DEF Story, HasPart
  <1>4. Properties(q) = Properties(p)
    BY <1>2 DEF Properties, HasPart
  <1>5. Story(q) /\ Blocks(q) = Blocks(p)
    BY <1>3 DEF Story, Blocks
  <1>6. \A n \in DOMAIN p.parts \ Singletons : HasPart(q, n) /\ q.parts[n] = p.parts[n]
    BY <1>2 DEF HasPart
  <1>7. Keeps(p, q, slot)
    BY <1>4, <1>5, <1>6 DEF Keeps
  <1> QED
    BY <1>1, <1>2, <1>3, <1>5, <1>7 DEF q, HasPart

(* A part that is there written again.                                     *)
LEMMA SetPartKeeps ==
    ASSUME NEW p, PkgShape(p), Story(p), NEW name, name \in {CUSTOM, MANIFEST}, NEW data,
           NEW slot,
           name = CUSTOM => \A k \in DOMAIN Properties(p) :
                                k \in DOMAIN data /\ data[k] = Properties(p)[k]
    PROVE  LET q == SetPart(p, name, data)
           IN  Keeps(p, q, slot) /\ Blocks(q) = Blocks(p)
               /\ HasPart(q, name) /\ q.parts[name] = data
  <1> DEFINE q == SetPart(p, name, data)
  <1>1. PkgShape(q) /\ q.parts = Put(p.parts, name, data)
    BY DEF SetPart, PkgShape
  <1> HIDE DEF q
  <1>2. /\ DOMAIN q.parts = DOMAIN p.parts \cup {name}
        /\ q.parts[name] = data
        /\ \A n \in DOMAIN p.parts : n # name => q.parts[n] = p.parts[n]
    BY <1>1 DEF Put
  <1>3. name # DOCUMENT /\ CUSTOM # MANIFEST
    BY DEF CUSTOM, MANIFEST, DOCUMENT
  <1>4. HasPart(q, DOCUMENT) /\ q.parts[DOCUMENT] = p.parts[DOCUMENT]
    BY <1>2, <1>3 DEF Story, HasPart
  <1>5. \A k \in DOMAIN Properties(p) :
            k \in DOMAIN Properties(q) /\ Properties(q)[k] = Properties(p)[k]
    <2>1. CASE name = CUSTOM
      <3>1. Properties(q) = data
        BY <1>2, <2>1 DEF Properties, HasPart
      <3> QED
        BY <2>1, <3>1
    <2>2. CASE name = MANIFEST
      <3>1. Properties(q) = Properties(p)
        BY <1>2, <1>3, <2>2 DEF Properties, HasPart
      <3> QED
        BY <3>1
    <2> QED
      BY <2>1, <2>2
  <1>6. Story(q) /\ Blocks(q) = Blocks(p)
    BY <1>4 DEF Story, Blocks
  <1>7. \A n \in DOMAIN p.parts \ Singletons : HasPart(q, n) /\ q.parts[n] = p.parts[n]
    BY <1>2 DEF HasPart, Singletons
  <1>8. Keeps(p, q, slot)
    BY <1>5, <1>6, <1>7 DEF Keeps
  <1> QED
    BY <1>2, <1>6, <1>8 DEF q, HasPart

\* Where a module's bytes lead once it is placed.
LeadsTo(p, loc, slot, channel, bytes) ==
    \A r : /\ r.channel = channel /\ r.loc = loc /\ r.digest = bytes /\ r.slot = slot
           /\ DOMAIN r = {"slot", "channel", "loc", "digest", "mode", "reproduction"}
           => RecordShape(r) /\ Found(p, r) /\ ExtractStored(p, r) = bytes

(* No directory of numbered parts has a part that is written twice.        *)
LEMMA NumberedApart ==
    ASSUME NEW p, NEW dir \in {"payload", "item", "media"}
    PROVE  NextPart(p, dir) \notin Singletons
  BY DEF NextPart, Singletons, DOCUMENT, CUSTOM, MANIFEST

(* package_part and custom_xml: a part of the module's own.                *)
LEMMA EmbedPartPlaces ==
    ASSUME NEW p, PkgShape(p), PkgFinite(p), Story(p), NEW bytes, NEW slot,
           NEW placed,
           NEW channel,
           \/ channel = "package_part" /\ placed = EmbedPackagePart(p, bytes, slot)
           \/ channel = "custom_xml" /\ placed = EmbedCustomXml(p, bytes, slot)
    PROVE  /\ Keeps(p, placed.pkg, slot) /\ Blocks(placed.pkg) = Blocks(p)
           /\ LeadsTo(placed.pkg, placed.loc, slot, channel, bytes)
  <1>1. PICK name, source, rtype, ctype :
            /\ placed = Placed(AddRelationship(AddPart(p, name, bytes, ctype),
                                               source, rtype, name), <<name>>, slot)
            /\ name = NextPart(p, "payload") \/ name = NextPart(p, "item")
    BY DEF EmbedPackagePart, EmbedCustomXml
  <1> DEFINE q == AddRelationship(AddPart(p, name, bytes, ctype), source, rtype, name)
             at == <<name>>
  <1>2. placed.pkg = q /\ placed.loc.parts = at /\ at[1] = name
    BY <1>1 DEF Placed
  <1>3. ~HasPart(p, name) /\ name \notin Singletons
    BY <1>1, PartIsNew, NumberedApart DEF PkgFinite
  <1>4. /\ Keeps(p, q, slot) /\ Blocks(q) = Blocks(p)
        /\ HasPart(q, name) /\ q.parts[name] = bytes
    BY <1>3, AddPartKeeps DEF Singletons
  <1> HIDE DEF q, at
  <1>5. LeadsTo(q, placed.loc, slot, channel, bytes)
    <2> SUFFICES ASSUME NEW r, r.channel = channel, r.loc = placed.loc, r.digest = bytes,
                        r.slot = slot,
                        DOMAIN r = {"slot", "channel", "loc", "digest", "mode",
                                    "reproduction"}
                 PROVE  RecordShape(r) /\ Found(q, r) /\ ExtractStored(q, r) = bytes
      BY DEF LeadsTo
    <2>1. r.loc.parts[1] = name /\ r.channel \in {"package_part", "custom_xml"}
      BY <1>2
    <2>2. RecordShape(r)
      BY <1>3, <2>1 DEF RecordShape, ChannelIds
    <2>3. Found(q, r)
      BY <1>4, <2>1 DEF Found
    <2>4. ExtractStored(q, r) = bytes
      BY <1>4, <2>1 DEF ExtractStored, PartBytes
    <2> QED
      BY <2>2, <2>3, <2>4
  <1> QED
    BY <1>2, <1>4, <1>5

(* metadata: a property more.                                              *)
LEMMA EmbedMetadataPlaces ==
    ASSUME NEW p, PkgShape(p), Story(p), NEW bytes, NEW slot,
           ~MetadataCollides(p, slot)
    PROVE  LET placed == EmbedMetadata(p, bytes, slot)
           IN  /\ Keeps(p, placed.pkg, slot) /\ Blocks(placed.pkg) = Blocks(p)
               /\ LeadsTo(placed.pkg, placed.loc, slot, "metadata", bytes)
  <1> DEFINE props == Put(Properties(p), slot, bytes)
             placed == EmbedMetadata(p, bytes, slot)
             q == placed.pkg
             more == AddRelationship(AddPart(p, CUSTOM, props, "props"),
                                     ROOT, "props", CUSTOM)
  <1>1. /\ q = IF HasPart(p, CUSTOM) THEN SetPart(p, CUSTOM, props) ELSE more
        /\ placed.loc.key = slot
    BY DEF EmbedMetadata, Placed
  <1>2. slot \notin DOMAIN Properties(p)
    BY DEF MetadataCollides
  <1>3. /\ slot \in DOMAIN props /\ props[slot] = bytes
        /\ \A k \in DOMAIN Properties(p) : k \in DOMAIN props /\ props[k] = Properties(p)[k]
    BY <1>2 DEF Put
  <1> HIDE DEF props, placed, more
  <1>4. /\ Keeps(p, q, slot) /\ Blocks(q) = Blocks(p)
        /\ HasPart(q, CUSTOM) /\ q.parts[CUSTOM] = props
    <2>1. CASE HasPart(p, CUSTOM)
      BY <1>1, <1>3, <2>1, SetPartKeeps
    <2>2. CASE ~HasPart(p, CUSTOM)
      <3>1. PkgShape(more) /\ more.parts = Put(p.parts, CUSTOM, props)
        BY DEF more, AddRelationship, AddPart, PkgShape
      <3>2. /\ DOMAIN more.parts = DOMAIN p.parts \cup {CUSTOM}
            /\ more.parts[CUSTOM] = props
            /\ \A n \in DOMAIN p.parts : n # CUSTOM => more.parts[n] = p.parts[n]
        BY <3>1 DEF Put
      <3>3. CUSTOM # DOCUMENT
        BY DEF CUSTOM, DOCUMENT
      <3>4. Story(more) /\ Blocks(more) = Blocks(p)
        BY <3>2, <3>3 DEF Story, Blocks, HasPart
      <3>5. Properties(more) = props
        BY <3>2 DEF Properties, HasPart
      <3>6. \A n \in DOMAIN p.parts \ Singletons :
                HasPart(more, n) /\ more.parts[n] = p.parts[n]
        BY <3>2 DEF HasPart, Singletons
      <3>7. Keeps(p, more, slot)
        BY <1>3, <3>4, <3>5, <3>6 DEF Keeps
      <3> QED
        BY <1>1, <2>2, <3>2, <3>4, <3>7 DEF HasPart
    <2> QED
      BY <2>1, <2>2
  <1>5. Properties(q) = props
    BY <1>4 DEF Properties
  <1> HIDE DEF q
  <1>6. LeadsTo(q, placed.loc, slot, "metadata", bytes)
    <2> SUFFICES ASSUME NEW r, r.channel = "metadata", r.loc = placed.loc,
                        r.digest = bytes, r.slot = slot,
                        DOMAIN r = {"slot", "channel", "loc", "digest", "mode",
                                    "reproduction"}
                 PROVE  RecordShape(r) /\ Found(q, r) /\ ExtractStored(q, r) = bytes
      BY DEF LeadsTo
    <2>1. RecordShape(r)
      BY DEF RecordShape, ChannelIds
    <2>2. Found(q, r)
      BY <1>1, <1>3, <1>5 DEF Found
    <2>3. ExtractStored(q, r) = bytes
      BY <1>1, <1>3, <1>5 DEF ExtractStored, ExtractMetadata
    <2> QED
      BY <2>1, <2>2, <2>3
  <1> QED
    BY <1>4, <1>6 DEF q, placed

(* mce: a block at the end, which is found if its slot had none.           *)
LEMMA EmbedMcePlaces ==
    ASSUME NEW p, PkgShape(p), Story(p), NEW bytes, NEW slot
    PROVE  LET placed == EmbedMce(p, bytes, slot)
           IN  /\ Keeps(p, placed.pkg, slot)
               /\ \A r : /\ r.channel = "mce" /\ r.digest = bytes /\ r.slot = slot
                         /\ DOMAIN r = {"slot", "channel", "loc", "digest", "mode",
                                        "reproduction"}
                         => /\ RecordShape(r) /\ Found(placed.pkg, r)
                            /\ Hits(Blocks(p), slot) = {} =>
                                 ExtractStored(placed.pkg, r) = bytes
  <1> DEFINE e == [slot |-> slot, bytes |-> bytes]
             v == [p.parts[DOCUMENT] EXCEPT !.mce = Append(@, e)]
             q == EmbedMce(p, bytes, slot).pkg
  <1>1. q = [p EXCEPT !.parts[DOCUMENT] = v]
    BY DEF EmbedMce, Placed
  <1>2. "mce" \in DOMAIN v /\ v.mce = Append(Blocks(p), e)
    BY DEF Story, Blocks
  <1>3. e.slot = slot /\ e.bytes = bytes
    OBVIOUS
  <1> HIDE DEF e, v, q
  <1>4. /\ DOMAIN q.parts = DOMAIN p.parts /\ q.parts[DOCUMENT] = v
        /\ \A n \in DOMAIN p.parts : n # DOCUMENT => q.parts[n] = p.parts[n]
    BY <1>1 DEF PkgShape, Story, HasPart
  <1>5. /\ IsSeq(Blocks(p)) /\ Len(Blocks(p)) \in Nat
        /\ IsSeq(Append(Blocks(p), e)) /\ Len(Append(Blocks(p), e)) = Len(Blocks(p)) + 1
        /\ DOMAIN Append(Blocks(p), e) = 1..(Len(Blocks(p)) + 1)
        /\ Append(Blocks(p), e)[Len(Blocks(p)) + 1] = e
    BY AppendIsSeq, SeqShape DEF Story, Blocks
  <1>6. Story(q) /\ Blocks(q) = Append(Blocks(p), e)
    BY <1>2, <1>4, <1>5 DEF Story, Blocks, HasPart
  <1>7. Properties(q) = Properties(p)
    <2>1. CUSTOM # DOCUMENT
      BY DEF CUSTOM, DOCUMENT
    <2> QED
      BY <1>4, <2>1 DEF Properties, HasPart
  <1>8. Keeps(p, q, slot)
    <2>1. \A n \in DOMAIN p.parts \ Singletons : HasPart(q, n) /\ q.parts[n] = p.parts[n]
      BY <1>4 DEF HasPart, Singletons
    <2>2. \E b : b.slot = slot /\ Blocks(q) = Append(Blocks(p), b)
      BY <1>3, <1>6
    <2> QED
      BY <1>6, <1>7, <2>1, <2>2 DEF Keeps
  <1>9. ASSUME NEW r, r.channel = "mce", r.digest = bytes, r.slot = slot,
               DOMAIN r = {"slot", "channel", "loc", "digest", "mode", "reproduction"}
        PROVE  /\ RecordShape(r) /\ Found(q, r)
               /\ Hits(Blocks(p), slot) = {} => ExtractStored(q, r) = bytes
    <2>1. RecordShape(r)
      BY <1>9 DEF RecordShape, ChannelIds
    <2>2. Found(q, r)
      <3>1. Len(Blocks(p)) + 1 \in DOMAIN Blocks(q) /\ Blocks(q)[Len(Blocks(p)) + 1].slot = slot
        BY <1>3, <1>5, <1>6
      <3> QED
        BY <1>9, <3>1 DEF Found
    <2>3. ASSUME Hits(Blocks(p), slot) = {}
          PROVE  ExtractStored(q, r) = bytes
      <3> DEFINE a == Blocks(p)
                 b == Blocks(q)
      <3>0. IsSeq(a) /\ Hits(a, slot) = {} /\ b = Append(a, e)
        BY <1>5, <1>6, <2>3
      <3> HIDE DEF a, b
      <3>1. /\ Hits(b, slot) # {}
            /\ b[FirstHit(b, slot)] = e
        BY <1>3, <3>0, BlockAppended
      <3>2. ExtractMce(q, r) = bytes
        BY <1>3, <1>9, <3>1, ExtractMceIs DEF b
      <3> QED
        BY <1>9, <3>2 DEF ExtractStored
    <2> QED
      BY <2>1, <2>2, <2>3
  <1> QED
    BY <1>8, <1>9 DEF q

(* stego_media: a carrier.                                                 *)
LEMMA EmbedReplicaKeeps ==
    ASSUME NEW p, PkgShape(p), PkgFinite(p), Story(p), NEW bytes, NEW slot
    PROVE  LET q == EmbedReplica(p, bytes)
               name == NextPart(p, "media")
           IN  /\ Keeps(p, q, slot) /\ Blocks(q) = Blocks(p)
               /\ HasPart(q, name) /\ q.parts[name] = bytes
  <1> DEFINE name == NextPart(p, "media")
             w == AddRelationship(AddPart(p, name, bytes, "png"), DOCUMENT, "image", name)
             v == [w.parts[DOCUMENT] EXCEPT !.figs = Append(@, NextRelId(p, DOCUMENT))]
             q == EmbedReplica(p, bytes)
  <1>1. q = [w EXCEPT !.parts[DOCUMENT] = v]
    BY DEF EmbedReplica
  <1>2. ~HasPart(p, name) /\ name \notin Singletons
    BY PartIsNew, NumberedApart DEF PkgFinite
  <1>3. /\ PkgShape(w) /\ Keeps(p, w, slot) /\ Blocks(w) = Blocks(p)
        /\ HasPart(w, name) /\ w.parts[name] = bytes
    BY <1>2, AddPartKeeps DEF Singletons
  <1>4. DOMAIN v = DOMAIN w.parts[DOCUMENT]
        /\ ("mce" \in DOMAIN v => v.mce = w.parts[DOCUMENT].mce)
    OBVIOUS
  <1> HIDE DEF q, w, v, name
  <1>5. /\ DOMAIN q.parts = DOMAIN w.parts
        /\ (HasPart(w, DOCUMENT) => q.parts[DOCUMENT] = v)
        /\ \A n \in DOMAIN w.parts : n # DOCUMENT => q.parts[n] = w.parts[n]
    BY <1>1, <1>3 DEF PkgShape, HasPart
  <1>6. Story(q) /\ Blocks(q) = Blocks(w)
    BY <1>3, <1>4, <1>5 DEF Keeps, Story, Blocks, HasPart
  <1>7. Properties(q) = Properties(w)
    <2>1. CUSTOM # DOCUMENT
      BY DEF CUSTOM, DOCUMENT
    <2> QED
      BY <1>5, <2>1 DEF Properties, HasPart
  <1>8. \A n \in DOMAIN p.parts \ Singletons : HasPart(q, n) /\ q.parts[n] = p.parts[n]
    BY <1>3, <1>5 DEF Keeps, HasPart, Singletons
  <1>9. Keeps(p, q, slot)
    BY <1>3, <1>6, <1>7, <1>8 DEF Keeps
  <1>10. HasPart(q, name) /\ q.parts[name] = bytes
    BY <1>2, <1>3, <1>5 DEF HasPart, Singletons
  <1> QED
    BY <1>3, <1>6, <1>9, <1>10 DEF q, name

(* The last carrier, and all of them on record.                            *)
LEMMA EmbedStegoMediaPlaces ==
    ASSUME NEW p, PkgShape(p), PkgFinite(p), Story(p), NEW bytes, NEW slot,
           NEW before, before \in Seq({"media"} \X Nat)
    PROVE  LET placed == EmbedStegoMedia(p, bytes, slot, before)
           IN  /\ Keeps(p, placed.pkg, slot) /\ Blocks(placed.pkg) = Blocks(p)
               /\ LeadsTo(placed.pkg, placed.loc, slot, "stego_media", bytes)
  <1> DEFINE name == NextPart(p, "media")
             at == Append(before, name)
             placed == EmbedStegoMedia(p, bytes, slot, before)
             q == EmbedReplica(p, bytes)
  <1>1. placed.pkg = q /\ placed.loc.parts = at
    BY DEF EmbedStegoMedia, Placed
  <1>2. /\ Keeps(p, q, slot) /\ Blocks(q) = Blocks(p)
        /\ HasPart(q, name) /\ q.parts[name] = bytes
    BY EmbedReplicaKeeps
  <1>3. name \in {"media"} \X Nat
    BY PartIsNew DEF NextPart, PkgFinite
  <1> HIDE DEF name, q, placed
  <1>4. /\ at \in Seq({"media"} \X Nat) /\ Len(at) = Len(before) + 1
        /\ Len(before) \in Nat /\ at[Len(before) + 1] = name
    BY <1>3, AppendProperties, LenProperties
  <1> HIDE DEF at
  <1>5. \A i \in DOMAIN at : at[i] \notin Singletons
    <2>1. \A i \in DOMAIN at : at[i] \in {"media"} \X Nat
      BY <1>4, ElementOfSeq, LenProperties
    <2>2. \A x \in {"media"} \X Nat : x \notin Singletons
      BY DEF Singletons, DOCUMENT, CUSTOM, MANIFEST
    <2> QED
      BY <2>1, <2>2
  <1>6. Len(before) + 1 \in DOMAIN at
    BY <1>4, LenProperties
  <1>7. LeadsTo(q, placed.loc, slot, "stego_media", bytes)
    <2> SUFFICES ASSUME NEW r, r.channel = "stego_media", r.loc = placed.loc,
                        r.digest = bytes, r.slot = slot,
                        DOMAIN r = {"slot", "channel", "loc", "digest", "mode",
                                    "reproduction"}
                 PROVE  RecordShape(r) /\ Found(q, r) /\ ExtractStored(q, r) = bytes
      BY DEF LeadsTo
    <2>1. r.loc.parts = at
      BY <1>1
    <2>2. RecordShape(r)
      BY <1>5, <2>1 DEF RecordShape, ChannelIds
    <2>3. /\ HasPart(q, r.loc.parts[Len(before) + 1])
          /\ q.parts[r.loc.parts[Len(before) + 1]] = r.digest
      BY <1>2, <1>4, <2>1
    <2>4. Found(q, r)
      BY <1>6, <2>1, <2>3 DEF Found
    <2>5. ExtractStored(q, r) = bytes
      BY <1>6, <2>1, <2>3 DEF ExtractStored, ExtractStegoMedia, PartBytes
    <2> QED
      BY <2>2, <2>4, <2>5
  <1> QED
    BY <1>1, <1>2, <1>7 DEF placed

(* The manifest written.                                                   *)
LEMMA WriteManifestKeeps ==
    ASSUME NEW p, PkgShape(p), Story(p), NEW m, NEW slot
    PROVE  Keeps(p, WriteManifest(p, m), slot)
  <1>1. CUSTOM # MANIFEST /\ DOCUMENT # MANIFEST
    BY DEF CUSTOM, DOCUMENT, MANIFEST
  <1>2. CASE HasPart(p, MANIFEST)
    BY <1>1, <1>2, SetPartKeeps DEF WriteManifest
  <1>3. CASE ~HasPart(p, MANIFEST)
    BY <1>1, <1>3, AddPartKeeps DEF WriteManifest
  <1> QED
    BY <1>2, <1>3

(* A new document has a story without blocks and no manifest.              *)
LEMMA NewDocument ==
    /\ Story(NewBaseDocument)
    /\ Blocks(NewBaseDocument) = <<>>
    /\ ~HasPart(NewBaseDocument, MANIFEST)
  <1> DEFINE story == [text |-> "original", mce |-> <<>>, figs |-> <<>>]
             q == NewBaseDocument
  <1>1. DOMAIN <<>> = {}
    BY EmptyIsSeq, SeqShape
  <1>2. /\ DOMAIN q.parts = {DOCUMENT, CORE} /\ q.parts[DOCUMENT] = story
    BY <1>1 DEF NewBaseDocument, Put, DOCUMENT, CORE
  <1>3. "mce" \in DOMAIN story /\ story.mce = <<>>
    OBVIOUS
  <1> HIDE DEF q, story
  <1>4. Story(q) /\ Blocks(q) = <<>>
    BY <1>2, <1>3, EmptyIsSeq DEF Story, Blocks, HasPart
  <1>5. ~HasPart(q, MANIFEST)
    BY <1>2 DEF HasPart, CORE, DOCUMENT, MANIFEST
  <1> QED
    BY <1>4, <1>5 DEF q

-----------------------------------------------------------------------------
(* A step of a build.                                                      *)

(* A module that was placed stays placed.                                  *)
LEMMA PlacedKept ==
    ASSUME NEW p, Story(p), NEW q, NEW slot, Keeps(p, q, slot),
           NEW m, NEW n, NEW recs, NEW issued, NEW fresh,
           PlacedAs(m, n, recs, issued, p, fresh),
           RecordShape(recs[m.slot]), Found(p, recs[m.slot]),
           NEW recs2, m.slot \in DOMAIN recs2, recs2[m.slot] = recs[m.slot],
           NEW issued2,
           m.slot \in DOMAIN issued =>
             m.slot \in DOMAIN issued2 /\ issued2[m.slot] = issued[m.slot]
    PROVE  PlacedAs(m, n, recs2, issued2, q, fresh)
  <1>1. ExtractStored(q, recs[m.slot]) = ExtractStored(p, recs[m.slot])
    BY KeepsFound
  <1> QED
    BY <1>1 DEF PlacedAs

(* Builds that have finished are not touched.                              *)
LEMMA BuildsStay ==
    ASSUME BuildsOK, UNCHANGED <<built, builds>>, Idle' \/ ~Idle
    PROVE  BuildsOK'
  BY DEF BuildsOK, EmittedOK

(* A package that has the manifest it had lists what it listed.            *)
LEMMA SameManifestWell ==
    ASSUME NEW p, NEW q, SameManifest(p, q), ListedWell(p)
    PROVE  ListedWell(q)
  BY DEF SameManifest, ListedWell

\* What an embed returns for the module under way.
WellEmbedded(placed) ==
    LET r == Record(placed.loc)
    IN  /\ Keeps(pkg, placed.pkg, Module.slot) /\ SameManifest(pkg, placed.pkg)
        /\ RecordShape(r) /\ Found(placed.pkg, r)
        /\ ~shared \/ Module.channel # "mce" => ExtractStored(placed.pkg, r) = Sealed

(* What the record says.                                                   *)
LEMMA RecordSays ==
    ASSUME NEW loc
    PROVE  LET r == Record(loc)
           IN  /\ r.slot = Module.slot /\ r.channel = Module.channel /\ r.loc = loc
               /\ r.digest = Sealed /\ r.mode = Mode(Module)
               /\ DOMAIN r = {"slot", "channel", "loc", "digest", "mode", "reproduction"}
  BY DEF Record

(* Shares are handed out for the module under way.                         *)
LEMMA SharesIssued ==
    ASSUME SharesAsked(shares, pending, builds), IssueShares,
           step \in DOMAIN pending
    PROVE  /\ SharesAsked(shares', pending, builds)
           /\ \A s \in DOMAIN shares : s # Module.slot =>
                s \in DOMAIN shares' /\ shares'[s] = shares[s]
           /\ Module.seal = "threshold" =>
                /\ Module.slot \in DOMAIN shares'
                /\ shares'[Module.slot] = ContentKey(Module.slot, builds)
  <1>1. CASE Module.seal = "threshold"
    <2> DEFINE key == ContentKey(Module.slot, builds)
    <2>1. shares' = Put(shares, Module.slot, key)
      BY <1>1 DEF IssueShares
    <2>2. /\ DOMAIN shares' = DOMAIN shares \cup {Module.slot}
          /\ shares'[Module.slot] = key
          /\ \A s \in DOMAIN shares : s # Module.slot => shares'[s] = shares[s]
      BY <2>1 DEF Put
    <2>3. SharesAsked(shares', pending, builds)
      <3> SUFFICES ASSUME NEW s \in DOMAIN shares'
                   PROVE  /\ shares'[s] = ContentKey(s, builds)
                          /\ \E j \in DOMAIN pending :
                                pending[j].slot = s /\ pending[j].seal = "threshold"
        BY DEF SharesAsked
      <3>1. CASE s = Module.slot
        BY <1>1, <2>2, <3>1 DEF Module
      <3>2. CASE s # Module.slot
        BY <2>2, <3>2 DEF SharesAsked
      <3> QED
        BY <3>1, <3>2
    <2> QED
      BY <2>2, <2>3
  <1>2. CASE Module.seal # "threshold"
    BY <1>2 DEF IssueShares
  <1> QED
    BY <1>1, <1>2

(* A module placed joins those that are, and none of them is disturbed.    *)
LEMMA PlaceKInv ==
    ASSUME TInv, KInv, step \in 1..Len(pending), NEW placed, Place(placed),
           WellEmbedded(placed)
    PROVE  KInv'
  <1> DEFINE r == Record(placed.loc)
             q == placed.pkg
             slot == Module.slot
  <1>1. /\ step \in DOMAIN pending /\ Module = pending[step]
        /\ DOMAIN pending = 1..Len(pending) /\ Len(pending) \in Nat
    BY LenProperties DEF TInv, TypeOK, Module
  <1>2. /\ pkg' = q /\ step' = step + 1 /\ records' = Put(records, slot, r)
        /\ IssueShares
        /\ UNCHANGED <<pending, signer, cosigners, shared, builds, built, doc>>
    BY DEF Place, builderVars
  <1>3. /\ r.slot = slot /\ r.channel = Module.channel /\ r.digest = Sealed
        /\ r.mode = Mode(Module)
    BY RecordSays
  <1>4. /\ Keeps(pkg, q, slot) /\ SameManifest(pkg, q) /\ RecordShape(r) /\ Found(q, r)
        /\ ~shared \/ Module.channel # "mce" => ExtractStored(q, r) = SealModule(Module, builds)
    BY DEF WellEmbedded, Sealed
  <1> HIDE DEF r, q
  <1>5. /\ slot \in DOMAIN records' /\ records'[slot] = r
        /\ DOMAIN records' = DOMAIN records \cup {slot}
        /\ \A s \in DOMAIN records : s # slot => records'[s] = records[s]
    BY <1>2 DEF Put
  <1>6. ~Idle /\ ~Idle' /\ Story(pkg)
    BY <1>1, <1>2 DEF Idle, KInv, StoriesOK
  <1>7. /\ \A j \in DOMAIN pending : j < step =>
             PlacedAs(pending[j], builds, records, shares, pkg, ~shared)
        /\ \A s \in DOMAIN records :
             /\ \E j \in DOMAIN pending : j < step /\ pending[j].slot = s
             /\ Found(pkg, records[s]) /\ records[s].slot = s
        /\ SharesAsked(shares, pending, builds)
        /\ ~shared => \A i \in DOMAIN Blocks(pkg) :
                        \E j \in DOMAIN pending : j < step /\ Blocks(pkg)[i].slot = pending[j].slot
    BY <1>6 DEF KInv, BuildOK
  <1>8. /\ SharesAsked(shares', pending, builds)
        /\ \A s \in DOMAIN shares : s # slot => s \in DOMAIN shares' /\ shares'[s] = shares[s]
        /\ Module.seal = "threshold" =>
             slot \in DOMAIN shares' /\ shares'[slot] = ContentKey(slot, builds)
    BY <1>1, <1>2, <1>7, SharesIssued
  <1>9. \A j \in DOMAIN pending : j < step => pending[j].slot # slot
    BY <1>1 DEF KInv, QueueOK
  <1>10. WellPlaced(records) /\ WellPlaced(records')
    BY <1>4, <1>5 DEF KInv, ShapesOK, WellPlaced
  <1>11. ASSUME NEW j \in DOMAIN pending, j < step + 1
         PROVE  PlacedAs(pending[j], builds, records', shares', q, ~shared)
    <2>1. CASE j < step
      <3> DEFINE m == pending[j]
      <3>1. PlacedAs(m, builds, records, shares, pkg, ~shared) /\ m.slot # slot
        BY <1>7, <1>9, <2>1
      <3> HIDE DEF m
      <3>2. m.slot \in DOMAIN records
        BY <3>1 DEF PlacedAs
      <3>3. RecordShape(records[m.slot]) /\ Found(pkg, records[m.slot])
        BY <1>7, <1>10, <3>2 DEF WellPlaced
      <3>4. m.slot \in DOMAIN records' /\ records'[m.slot] = records[m.slot]
        BY <1>5, <3>1, <3>2
      <3>5. m.slot \in DOMAIN shares =>
              m.slot \in DOMAIN shares' /\ shares'[m.slot] = shares[m.slot]
        BY <1>8, <3>1
      <3>6. PlacedAs(m, builds, records', shares', q, ~shared)
        BY <1>4, <1>6, <3>1, <3>3, <3>4, <3>5, PlacedKept
      <3> QED
        BY <3>6 DEF m
    <2>2. CASE j = step
      <3>1. PlacedAs(Module, builds, records', shares', q, ~shared)
        BY <1>3, <1>4, <1>5, <1>8 DEF PlacedAs, Sealed
      <3> QED
        BY <1>1, <2>2, <3>1
    <2> QED
      BY <1>1, <1>11, <2>1, <2>2
  <1>12. ASSUME NEW s \in DOMAIN records'
         PROVE  /\ \E j \in DOMAIN pending : j < step + 1 /\ pending[j].slot = s
                /\ Found(q, records'[s]) /\ records'[s].slot = s
    <2>1. CASE s = slot
      BY <1>1, <1>3, <1>4, <1>5, <2>1
    <2>2. CASE s # slot
      <3>1. s \in DOMAIN records /\ records'[s] = records[s]
        BY <1>5, <1>12, <2>2
      <3>2. Found(pkg, records[s]) /\ records[s].slot = s /\ RecordShape(records[s])
        BY <1>7, <1>10, <3>1 DEF WellPlaced
      <3>3. Found(q, records[s])
        BY <1>4, <1>6, <3>2, KeepsFound
      <3>4. PICK j \in DOMAIN pending : j < step /\ pending[j].slot = s
        BY <1>7, <3>1
      <3>5. j < step + 1
        BY <1>1, <3>4
      <3> QED
        BY <3>1, <3>2, <3>3, <3>4, <3>5
    <2> QED
      BY <2>1, <2>2
  <1>13. ASSUME ~shared, NEW i \in DOMAIN Blocks(q)
         PROVE  \E j \in DOMAIN pending : j < step + 1 /\ Blocks(q)[i].slot = pending[j].slot
    <2> DEFINE a == Blocks(pkg)
               c == Blocks(q)
    <2>1. PICK e : e.slot = slot /\ (c = a \/ c = Append(a, e))
      <3>1. CASE c = a
        <4>1. r.slot = slot
          BY <1>3
        <4> QED
          BY <3>1, <4>1
      <3>2. CASE \E b : b.slot = slot /\ c = Append(a, b)
        BY <3>2
      <3> QED
        BY <1>4, <3>1, <3>2 DEF Keeps
    <2>2. IsSeq(a) /\ DOMAIN a = 1..Len(a) /\ Len(a) \in Nat
      BY <1>6, SeqShape DEF Story, Blocks
    <2>3. \A k \in DOMAIN a : \E j \in DOMAIN pending : j < step /\ a[k].slot = pending[j].slot
      BY <1>7, <1>13
    <2> HIDE DEF a
    <2>4. CASE c = a
      <3>1. PICK j \in DOMAIN pending : j < step /\ a[i].slot = pending[j].slot
        BY <1>13, <2>3, <2>4
      <3>2. j < step + 1
        BY <1>1, <3>1
      <3> QED
        BY <2>4, <3>1, <3>2
    <2>5. CASE c = Append(a, e)
      <3> HIDE DEF c
      <3>1. /\ DOMAIN c = 1..(Len(a) + 1) /\ c[Len(a) + 1] = e
            /\ \A k \in 1..Len(a) : c[k] = a[k]
        BY <2>2, <2>5, AppendIsSeq, SeqShape
      <3>2. i \in DOMAIN c
        BY <1>13 DEF c
      <3>3. CASE i = Len(a) + 1
        <4>1. c[i].slot = pending[step].slot
          BY <1>1, <2>1, <3>1, <3>3
        <4> QED
          BY <1>1, <4>1 DEF c
      <3>4. CASE i \in 1..Len(a)
        <4>1. PICK j \in DOMAIN pending : j < step /\ a[i].slot = pending[j].slot
          BY <2>2, <2>3, <3>4
        <4>2. j < step + 1 /\ c[i].slot = pending[j].slot
          BY <1>1, <3>1, <3>4, <4>1
        <4> QED
          BY <4>2 DEF c
      <3> QED
        BY <2>2, <3>1, <3>2, <3>3, <3>4
    <2> QED
      BY <2>1, <2>4, <2>5
  <1>14. BuildOK'
    BY <1>2, <1>8, <1>11, <1>12, <1>13 DEF BuildOK
  <1>15. QueueOK' /\ BaseOK' /\ BuildsOK'
    BY <1>2, <1>6, BuildsStay DEF KInv, QueueOK, BaseOK
  <1>16. StoriesOK' /\ ShapesOK'
    <2>1. Story(q) /\ ListedWell(q)
      BY <1>4, SameManifestWell DEF Keeps, KInv, ShapesOK
    <2> QED
      BY <1>2, <1>10, <2>1 DEF KInv, StoriesOK, ShapesOK
  <1> QED
    BY <1>14, <1>15, <1>16 DEF KInv

(* An embed that leads to its bytes, in these terms.                       *)
LEMMA LeadsToIsWell ==
    ASSUME NEW placed, Keeps(pkg, placed.pkg, Module.slot), SameManifest(pkg, placed.pkg),
           NEW channel, Module.channel = channel,
           LeadsTo(placed.pkg, placed.loc, Module.slot, channel, Sealed)
    PROVE  WellEmbedded(placed)
  <1> DEFINE r == Record(placed.loc)
  <1>1. /\ r.slot = Module.slot /\ r.channel = channel /\ r.loc = placed.loc
        /\ r.digest = Sealed
        /\ DOMAIN r = {"slot", "channel", "loc", "digest", "mode", "reproduction"}
    BY RecordSays
  <1> HIDE DEF r
  <1>2. RecordShape(r) /\ Found(placed.pkg, r) /\ ExtractStored(placed.pkg, r) = Sealed
    BY <1>1 DEF LeadsTo
  <1> QED
    BY <1>2 DEF WellEmbedded, r

(* A carrier that is not the last one disturbs nothing.                    *)
LEMMA CarrierKInv ==
    ASSUME TInv, PInv, KInv, PlaceCarrier
    PROVE  KInv'
  <1> DEFINE q == EmbedReplica(pkg, Sealed)
             slot == Module.slot
  <1>1. /\ step \in DOMAIN pending
        /\ DOMAIN pending = 1..Len(pending) /\ Len(pending) \in Nat
    BY LenProperties DEF TInv, TypeOK, PlaceCarrier, Placing
  <1>2. /\ pkg' = q /\ IssueShares
        /\ UNCHANGED <<pending, shared, step, records, builds, built, doc>>
    BY DEF PlaceCarrier, builderVars
  <1>3. ~Idle /\ ~Idle' /\ Story(pkg) /\ PkgShape(pkg) /\ PkgFinite(pkg)
    BY <1>1, <1>2 DEF Idle, KInv, StoriesOK, PInv, PkgOK, TInv, PkgSound
  <1>4. Keeps(pkg, q, slot) /\ Blocks(q) = Blocks(pkg)
    BY <1>3, EmbedReplicaKeeps
  <1>5. SameManifest(pkg, q)
    BY <1>3, EmbedReplicaSame
  <1> HIDE DEF q
  <1>6. /\ \A j \in DOMAIN pending : j < step =>
             PlacedAs(pending[j], builds, records, shares, pkg, ~shared)
        /\ \A s \in DOMAIN records :
             /\ \E j \in DOMAIN pending : j < step /\ pending[j].slot = s
             /\ Found(pkg, records[s]) /\ records[s].slot = s
        /\ SharesAsked(shares, pending, builds)
        /\ ~shared => \A i \in DOMAIN Blocks(pkg) :
                        \E j \in DOMAIN pending : j < step /\ Blocks(pkg)[i].slot = pending[j].slot
    BY <1>3 DEF KInv, BuildOK
  <1>7. /\ SharesAsked(shares', pending, builds)
        /\ \A s \in DOMAIN shares : s # slot => s \in DOMAIN shares' /\ shares'[s] = shares[s]
    BY <1>1, <1>2, <1>6, SharesIssued
  <1>8. \A j \in DOMAIN pending : j < step => pending[j].slot # slot
    BY <1>1 DEF KInv, QueueOK, Module
  <1>9. WellPlaced(records)
    BY DEF KInv, ShapesOK
  <1>10. ASSUME NEW j \in DOMAIN pending, j < step
         PROVE  PlacedAs(pending[j], builds, records, shares', q, ~shared)
    <2> DEFINE m == pending[j]
    <2>1. PlacedAs(m, builds, records, shares, pkg, ~shared) /\ m.slot # slot
      BY <1>6, <1>8, <1>10
    <2> HIDE DEF m
    <2>2. m.slot \in DOMAIN records
      BY <2>1 DEF PlacedAs
    <2>3. RecordShape(records[m.slot]) /\ Found(pkg, records[m.slot])
      BY <1>6, <1>9, <2>2 DEF WellPlaced
    <2>4. m.slot \in DOMAIN shares =>
            m.slot \in DOMAIN shares' /\ shares'[m.slot] = shares[m.slot]
      BY <1>7, <2>1
    <2>5. PlacedAs(m, builds, records, shares', q, ~shared)
      BY <1>3, <1>4, <2>1, <2>2, <2>3, <2>4, PlacedKept
    <2> QED
      BY <2>5 DEF m
  <1>11. \A s \in DOMAIN records : Found(q, records[s])
    <2> SUFFICES ASSUME NEW s \in DOMAIN records
                 PROVE  Found(q, records[s])
      OBVIOUS
    <2>1. Found(pkg, records[s]) /\ RecordShape(records[s])
      BY <1>6, <1>9 DEF WellPlaced
    <2> QED
      BY <1>3, <1>4, <2>1, KeepsFound
  <1>12. BuildOK'
    BY <1>2, <1>4, <1>6, <1>7, <1>10, <1>11 DEF BuildOK
  <1>13. QueueOK' /\ BaseOK' /\ BuildsOK'
    BY <1>2, <1>3, BuildsStay DEF KInv, QueueOK, BaseOK
  <1>14. StoriesOK' /\ ShapesOK'
    <2>1. Story(q) /\ ListedWell(q)
      BY <1>4, <1>5, SameManifestWell DEF Keeps, KInv, ShapesOK
    <2> QED
      BY <1>2, <1>9, <2>1 DEF KInv, StoriesOK, ShapesOK
  <1> QED
    BY <1>12, <1>13, <1>14 DEF KInv

(* No records, and a new document, are in order.                           *)
LEMMA NewIsWell == WellPlaced(<<>>) /\ ListedWell(NewBaseDocument)
  <1>1. DOMAIN <<>> = {}
    BY EmptyIsSeq, SeqShape
  <1> QED
    BY <1>1, NewDocument DEF WellPlaced, ListedWell

(* A build that raises leaves what it placed in a base package.            *)
LEMMA AbortKInv ==
    ASSUME KInv, step' = 0, records' = <<>>, pkg' = AfterBuild(pkg),
           UNCHANGED <<pending, shared, builds, built, doc>>
    PROVE  KInv'
  <1>1. Story(pkg') /\ ListedWell(pkg')
    BY NewDocument, NewIsWell DEF AfterBuild, KInv, StoriesOK, ShapesOK
  <1>2. QueueOK' /\ BaseOK' /\ BuildOK' /\ BuildsOK'
    BY BuildsStay DEF KInv, QueueOK, BaseOK, BuildOK, Idle, AfterBuild
  <1>3. StoriesOK' /\ ShapesOK'
    BY <1>1, NewIsWell DEF KInv, StoriesOK, ShapesOK
  <1> QED
    BY <1>2, <1>3 DEF KInv

(* A build from scratch has no block of the module under way yet.          *)
LEMMA NoBlockYet ==
    ASSUME TInv, KInv, ~shared, step \in DOMAIN pending, step # 0
    PROVE  Hits(Blocks(pkg), Module.slot) = {}
  <1>1. \A i \in DOMAIN Blocks(pkg) :
          \E j \in DOMAIN pending : j < step /\ Blocks(pkg)[i].slot = pending[j].slot
    BY DEF KInv, BuildOK, Idle
  <1>2. DOMAIN Blocks(pkg) = 1..Len(Blocks(pkg))
    BY SeqShape DEF KInv, StoriesOK, Story, Blocks
  <1>3. \A j \in DOMAIN pending : pending[j].slot = Module.slot => j = step
    BY DEF KInv, QueueOK, Module
  <1>4. ~(step < step)
    BY LenProperties DEF TInv, TypeOK
  <1> QED
    BY <1>1, <1>2, <1>3 DEF Hits

(* One step of the loop over the modules places one where its record leads *)
(* or raises.                                                              *)
LEMMA PlacingEmbeds ==
    ASSUME TInv, PInv, KInv,
           \/ PlacePackagePart \/ PlaceCustomXml \/ PlaceMetadata \/ PlaceMce
           \/ PlaceStegoMedia \/ StegoMediaFails \/ SealingFails
    PROVE  \/ /\ step \in 1..Len(pending)
              /\ \E placed : Place(placed) /\ WellEmbedded(placed)
           \/ /\ step' = 0 /\ records' = <<>> /\ pkg' = AfterBuild(pkg)
              /\ UNCHANGED <<pending, shared, builds, built, doc>>
  <1>1. PkgShape(pkg) /\ PkgFinite(pkg) /\ Story(pkg)
    BY DEF PInv, PkgOK, TInv, PkgSound, KInv, StoriesOK
  <1>2. CASE PlacePackagePart
    <2> DEFINE placed == EmbedPackagePart(pkg, Sealed, Module.slot)
    <2>1. /\ step \in 1..Len(pending) /\ Module.channel = "package_part" /\ Place(placed)
      BY <1>2 DEF PlacePackagePart, Placing
    <2>2. SameManifest(pkg, placed.pkg)
      BY <1>1, EmbedPackagePartSame
    <2>3. /\ Keeps(pkg, placed.pkg, Module.slot)
          /\ LeadsTo(placed.pkg, placed.loc, Module.slot, "package_part", Sealed)
      BY <1>1, EmbedPartPlaces
    <2> HIDE DEF placed
    <2> QED
      BY <2>1, <2>2, <2>3, LeadsToIsWell
  <1>3. CASE PlaceCustomXml
    <2> DEFINE placed == EmbedCustomXml(pkg, Sealed, Module.slot)
    <2>1. /\ step \in 1..Len(pending) /\ Module.channel = "custom_xml" /\ Place(placed)
      BY <1>3 DEF PlaceCustomXml, Placing
    <2>2. SameManifest(pkg, placed.pkg)
      BY <1>1, EmbedCustomXmlSame
    <2>3. /\ Keeps(pkg, placed.pkg, Module.slot)
          /\ LeadsTo(placed.pkg, placed.loc, Module.slot, "custom_xml", Sealed)
      BY <1>1, EmbedPartPlaces
    <2> HIDE DEF placed
    <2> QED
      BY <2>1, <2>2, <2>3, LeadsToIsWell
  <1>4. CASE PlaceMetadata /\ ~MetadataRefuses
    <2> DEFINE placed == EmbedMetadata(pkg, Sealed, Module.slot)
    <2>1. /\ step \in 1..Len(pending) /\ Module.channel = "metadata" /\ Place(placed)
          /\ ~MetadataCollides(pkg, Module.slot)
      BY <1>4 DEF PlaceMetadata, Placing, MetadataRefuses
    <2>2. SameManifest(pkg, placed.pkg)
      BY <1>1, EmbedMetadataSame
    <2>3. /\ Keeps(pkg, placed.pkg, Module.slot)
          /\ LeadsTo(placed.pkg, placed.loc, Module.slot, "metadata", Sealed)
      BY <1>1, <2>1, EmbedMetadataPlaces
    <2> HIDE DEF placed
    <2> QED
      BY <2>1, <2>2, <2>3, LeadsToIsWell
  <1>5. CASE PlaceMce
    <2> DEFINE placed == EmbedMce(pkg, Sealed, Module.slot)
               r == Record(placed.loc)
    <2>1. /\ step \in 1..Len(pending) /\ Module.channel = "mce" /\ Place(placed)
      BY <1>5 DEF PlaceMce, Placing
    <2>2. SameManifest(pkg, placed.pkg)
      BY <1>1, EmbedMceSame
    <2>3. /\ r.channel = "mce" /\ r.digest = Sealed /\ r.slot = Module.slot
          /\ DOMAIN r = {"slot", "channel", "loc", "digest", "mode", "reproduction"}
      BY <2>1, RecordSays
    <2> HIDE DEF r
    <2>4. /\ Keeps(pkg, placed.pkg, Module.slot)
          /\ RecordShape(r) /\ Found(placed.pkg, r)
          /\ Hits(Blocks(pkg), Module.slot) = {} => ExtractStored(placed.pkg, r) = Sealed
      BY <1>1, <2>3, EmbedMcePlaces
    <2> HIDE DEF placed
    <2>5. step \in DOMAIN pending /\ step # 0
      BY <2>1, LenProperties DEF TInv, TypeOK
    <2>6. WellEmbedded(placed)
      BY <2>1, <2>2, <2>4, <2>5, NoBlockYet DEF WellEmbedded, r
    <2> QED
      BY <2>1, <2>6
  <1>6. CASE PlaceStegoMedia
    <2> DEFINE placed == EmbedStegoMedia(pkg, Sealed, Module.slot, carriers)
    <2>1. /\ step \in 1..Len(pending) /\ Module.channel = "stego_media" /\ Place(placed)
      BY <1>6 DEF PlaceStegoMedia, Placing
    <2>2. SameManifest(pkg, placed.pkg)
      BY <1>1, EmbedReplicaSame DEF EmbedStegoMedia, Placed
    <2>3. carriers \in Seq({"media"} \X Nat)
      BY DEF TInv, TypeOK
    <2>4. /\ Keeps(pkg, placed.pkg, Module.slot)
          /\ LeadsTo(placed.pkg, placed.loc, Module.slot, "stego_media", Sealed)
      BY <1>1, <2>3, EmbedStegoMediaPlaces
    <2> HIDE DEF placed
    <2> QED
      BY <2>1, <2>2, <2>4, LeadsToIsWell
  <1>7. CASE StegoMediaFails \/ (PlaceMetadata /\ MetadataRefuses) \/ SealingFails
    BY <1>7 DEF StegoMediaFails, PlaceMetadata, SealingFails, Raise, builderVars
  <1> QED
    BY <1>2, <1>3, <1>4, <1>5, <1>6, <1>7

(* Either way what was placed stays.                                       *)
LEMMA PlacingKInv ==
    ASSUME TInv, PInv, KInv,
           \/ PlacePackagePart \/ PlaceCustomXml \/ PlaceMetadata \/ PlaceMce
           \/ PlaceCarrier \/ PlaceStegoMedia \/ StegoMediaFails
           \/ SealingFails
    PROVE  KInv'
  BY PlacingEmbeds, PlaceKInv, AbortKInv, CarrierKInv

(* The build is over: its modules are where the manifest that goes out     *)
(* says.                                                                   *)
LEMMA FinishBuildKInv ==
    ASSUME TInv, PInv, KInv, FinishBuild
    PROVE  KInv'
  <1> DEFINE m == SignedManifest
             emitted == WriteManifest(pkg, m)
             b == [modules |-> pending, signer |-> signer, cosigners |-> cosigners,
                   fresh |-> ~shared, shares |-> shares, n |-> builds, pkg |-> emitted]
             B == Append(built, b)
  <1>1. /\ built' = B /\ doc' = emitted /\ pkg' = AfterBuild(emitted) /\ records' = <<>>
        /\ step = Len(pending) + 1 /\ step' = 0
        /\ UNCHANGED <<pending, shared, builds>>
    BY DEF FinishBuild, builderVars
  <1>2. /\ TypeOK /\ DOMAIN pending = 1..Len(pending) /\ Len(pending) \in Nat
        /\ pending \in Seq(Modules) /\ builds \in Nat
        /\ \A j \in DOMAIN pending : pending[j] \in Modules
    BY LenProperties, ElementOfSeq, BoundsAssumption DEF TInv, TypeOK
  <1>3. ~Idle /\ Idle' /\ \A j \in DOMAIN pending : j < step
    BY <1>1, <1>2 DEF Idle
  <1>4. PkgShape(pkg) /\ Story(pkg)
    BY DEF PInv, PkgOK, KInv, StoriesOK
  <1>5. \A s : Keeps(pkg, emitted, s)
    BY <1>4, WriteManifestKeeps
  <1>6. HasPart(emitted, MANIFEST) /\ ManifestOf(emitted) = m
    BY <1>4, SurfaceIgnoresManifest
  <1>7. m.records = records
    BY DEF SignedManifest, NewManifest
  <1>8. /\ b.modules = pending /\ b.n = builds /\ b.pkg = emitted
        /\ b.fresh = ~shared /\ b.shares = shares
    OBVIOUS
  <1> HIDE DEF m, emitted, b
  <1>9. /\ IsSeq(built) /\ IsSeq(B) /\ Len(built) \in Nat
        /\ DOMAIN built = 1..Len(built) /\ DOMAIN B = 1..(Len(built) + 1)
        /\ \A i \in DOMAIN built : B[i] = built[i]
        /\ B[Len(built) + 1] = b
    BY AppendIsSeq, SeqShape DEF KInv, BuildsOK
  <1> HIDE DEF B
  <1>10. WellPlaced(records) /\ ListedWell(emitted)
    BY <1>6, <1>7 DEF KInv, ShapesOK, ListedWell
  <1>11. \A j \in DOMAIN pending :
            PlacedAs(pending[j], builds, records, shares, emitted, ~shared)
    <2> SUFFICES ASSUME NEW j \in DOMAIN pending
                 PROVE  PlacedAs(pending[j], builds, records, shares, emitted, ~shared)
      OBVIOUS
    <2> DEFINE o == pending[j]
    <2>1. PlacedAs(o, builds, records, shares, pkg, ~shared)
      BY <1>3 DEF KInv, BuildOK
    <2> HIDE DEF o
    <2>2. o.slot \in DOMAIN records
      BY <2>1 DEF PlacedAs
    <2>3. RecordShape(records[o.slot]) /\ Found(pkg, records[o.slot])
      BY <1>3, <1>10, <2>2 DEF WellPlaced, KInv, BuildOK
    <2>4. Keeps(pkg, emitted, o.slot)
      BY <1>5
    <2>5. PlacedAs(o, builds, records, shares, emitted, ~shared)
      BY <1>4, <2>1, <2>2, <2>3, <2>4, PlacedKept
    <2> QED
      BY <2>5 DEF o
  <1>12. EmittedOK(b)
    BY <1>2, <1>3, <1>6, <1>7, <1>8, <1>11 DEF EmittedOK, KInv, BuildOK
  <1>13. BuildsOK'
    <2> SUFFICES ASSUME NEW i \in DOMAIN B
                 PROVE  /\ EmittedOK(B[i]) /\ ListedWell(B[i].pkg)
                        /\ \A k \in DOMAIN B : i < k => B[i].n < B[k].n
      BY <1>1, <1>3, <1>9 DEF BuildsOK, EmittedOK
    <2>1. CASE i \in DOMAIN built
      <3>1. /\ EmittedOK(built[i]) /\ ListedWell(built[i].pkg) /\ built[i].n < builds
            /\ \A k \in DOMAIN built : i < k => built[i].n < built[k].n
        BY <1>3, <2>1 DEF KInv, BuildsOK
      <3> QED
        BY <1>8, <1>9, <2>1, <3>1
    <2>2. CASE i = Len(built) + 1
      <3>1. \A k \in DOMAIN B : ~(i < k)
        BY <1>9, <2>2
      <3> QED
        BY <1>8, <1>9, <1>10, <1>12, <2>2, <3>1
    <2> QED
      BY <1>9, <2>1, <2>2
  <1>14. Story(emitted)
    BY <1>5 DEF Keeps
  <1>15. StoriesOK' /\ ShapesOK'
    BY <1>1, <1>10, <1>14, NewDocument, NewIsWell DEF StoriesOK, ShapesOK, AfterBuild
  <1>16. QueueOK' /\ BaseOK' /\ BuildOK'
    BY <1>1, <1>3 DEF KInv, QueueOK, BaseOK, BuildOK, AfterBuild, Idle
  <1> QED
    BY <1>13, <1>15, <1>16 DEF KInv

-----------------------------------------------------------------------------
(* The other steps.                                                        *)

(* Queueing modules, choosing keys and handing over a base package.        *)
LEMMA AuthoringKInv ==
    ASSUME TInv, KInv,
           \/ \E m \in Modules : AddModule(m)
           \/ \E key \in Authors : Sign(key) \/ AddCosigner(key)
           \/ UseBase(NewBaseDocument)
           \/ doc # NoKey /\ UseBase(doc)
           \/ BeginBuild
           \/ SerialiseBase
    PROVE  KInv'
  <1>1. CASE \E m \in Modules : AddModule(m)
    <2>1. PICK m \in Modules : AddModule(m)
      BY <1>1
    <2>2. /\ Idle /\ \A i \in DOMAIN pending : pending[i].slot # m.slot
          /\ pending' = Append(pending, m)
          /\ UNCHANGED <<shared, pkg, step, records, builds, built, doc>>
      BY <2>1 DEF AddModule, buildVars
    <2>3. /\ DOMAIN pending = 1..Len(pending) /\ Len(pending) \in Nat
          /\ DOMAIN pending' = 1..(Len(pending) + 1)
          /\ \A i \in DOMAIN pending : pending'[i] = pending[i]
          /\ pending'[Len(pending) + 1] = m
      <3>1. pending \in Seq(Modules) /\ IsSeq(pending)
        BY DEF TInv, TypeOK, IsSeq
      <3> QED
        BY <2>2, <3>1, AppendIsSeq, SeqShape
    <2>4. QueueOK'
      <3> SUFFICES ASSUME NEW i \in DOMAIN pending', NEW j \in DOMAIN pending',
                          pending'[i].slot = pending'[j].slot
                   PROVE  i = j
        BY DEF QueueOK
      <3>1. CASE i \in DOMAIN pending /\ j \in DOMAIN pending
        BY <2>3, <3>1 DEF KInv, QueueOK
      <3>2. CASE i = Len(pending) + 1 /\ j \in DOMAIN pending
        BY <2>2, <2>3, <3>2
      <3>3. CASE i \in DOMAIN pending /\ j = Len(pending) + 1
        BY <2>2, <2>3, <3>3
      <3> QED
        BY <2>3, <3>1, <3>2, <3>3
    <2>5. BuildsOK' /\ BuildOK' /\ BaseOK'
      BY <2>2, BuildsStay DEF KInv, BuildOK, BaseOK, Idle
    <2> QED
      BY <2>2, <2>4, <2>5 DEF KInv, StoriesOK, ShapesOK
  <1>2. CASE \/ \E key \in Authors : Sign(key) \/ AddCosigner(key)
             \/ SerialiseBase
    <2>1. /\ Idle /\ UNCHANGED <<pending, shared, pkg, step, records, builds, built>>
          /\ UNCHANGED doc \/ doc' = pkg
      BY <1>2 DEF Sign, AddCosigner, SerialiseBase, buildVars, builderVars
    <2>2. BuildsOK' /\ BuildOK' /\ BaseOK' /\ QueueOK'
      BY <2>1, BuildsStay DEF KInv, BuildOK, BaseOK, QueueOK, Idle
    <2>3. StoriesOK' /\ ShapesOK'
      BY <2>1 DEF KInv, StoriesOK, ShapesOK
    <2> QED
      BY <2>2, <2>3 DEF KInv
  <1>3. CASE UseBase(NewBaseDocument) \/ (doc # NoKey /\ UseBase(doc))
    <2>1. /\ Idle /\ shared' /\ UNCHANGED <<pending, step, records, builds, built, doc>>
          /\ Story(pkg') /\ ListedWell(pkg')
      BY <1>3, NewDocument, NewIsWell DEF UseBase, KInv, StoriesOK, ShapesOK
    <2>2. BuildsOK' /\ BuildOK' /\ BaseOK' /\ QueueOK'
      BY <2>1, BuildsStay DEF KInv, BuildOK, BaseOK, QueueOK, Idle
    <2>3. StoriesOK' /\ ShapesOK'
      BY <2>1 DEF KInv, StoriesOK, ShapesOK
    <2> QED
      BY <2>2, <2>3 DEF KInv
  <1>4. CASE BeginBuild
    <2>1. /\ Idle /\ step' = 1 /\ builds' = builds + 1
          /\ records' = <<>> /\ shares' = <<>>
          /\ UNCHANGED <<pending, shared, pkg, built, doc>>
      BY <1>4 DEF BeginBuild, builderVars
    <2>2. builds \in Nat
      BY BoundsAssumption DEF TInv, TypeOK
    <2>3. DOMAIN <<>> = {} /\ Len(pending) \in Nat /\ DOMAIN pending = 1..Len(pending)
      BY EmptyIsSeq, SeqShape, LenProperties DEF TInv, TypeOK
    <2>4. BuildsOK'
      <3>1. \A i \in DOMAIN built : EmittedOK(built[i])'
        BY <2>1, <2>2 DEF KInv, BuildsOK, EmittedOK
      <3>2. \A i \in DOMAIN built : built[i].n < builds + 1
        BY <2>2 DEF KInv, BuildsOK, EmittedOK
      <3> QED
        BY <2>1, <3>1, <3>2 DEF KInv, BuildsOK
    <2>5. BuildOK'
      <3>1. \A j \in DOMAIN pending : ~(j < 1)
        BY <2>3
      <3>2. ~shared => Blocks(pkg) = <<>>
        BY <2>1, NewDocument DEF KInv, BaseOK
      <3>3. SharesAsked(<<>>, pending, builds')
        BY <2>3 DEF SharesAsked
      <3> QED
        BY <2>1, <2>3, <3>1, <3>2, <3>3 DEF BuildOK
    <2>6. StoriesOK' /\ ShapesOK' /\ QueueOK' /\ BaseOK'
      BY <2>1, NewIsWell DEF KInv, StoriesOK, ShapesOK, QueueOK, BaseOK, Idle
    <2> QED
      BY <2>4, <2>5, <2>6 DEF KInv
  <1> QED
    BY <1>1, <1>2, <1>3, <1>4

(* No edit takes the story away.                                           *)
LEMMA PackageEditsStory ==
    ASSUME NEW d, PkgShape(d), Story(d), NEW e \in PackageEdits(d)
    PROVE  Story(e)
  <1>1. CASE e \in EditText(d)
    <2> DEFINE v == [d.parts[DOCUMENT] EXCEPT !.text = "edited"]
    <2>1. e = [d EXCEPT !.parts[DOCUMENT] = v]
      BY <1>1 DEF EditText
    <2>2. "mce" \in DOMAIN v /\ v.mce = d.parts[DOCUMENT].mce
      BY DEF Story
    <2> HIDE DEF v
    <2>3. DOMAIN e.parts = DOMAIN d.parts /\ e.parts[DOCUMENT] = v
      BY <2>1 DEF PkgShape, Story, HasPart
    <2> QED
      BY <2>2, <2>3 DEF Story, HasPart
  <1>2. CASE e \in DropPart(d)
    <2>1. PICK n : /\ n # DOCUMENT
                   /\ e = [d EXCEPT !.parts = Without(@, n), !.types = Without(@, n)]
      BY <1>2 DEF DropPart
    <2>2. e.parts = Without(d.parts, n)
      BY <2>1 DEF PkgShape
    <2>3. HasPart(e, DOCUMENT) /\ e.parts[DOCUMENT] = d.parts[DOCUMENT]
      BY <2>1, <2>2 DEF Without, Story, HasPart
    <2> QED
      BY <2>3 DEF Story
  <1>3. CASE e \in SwapParts(d)
    <2>1. PICK n, o : /\ n # DOCUMENT /\ o # DOCUMENT
                      /\ e = [d EXCEPT !.parts = Swapped(@, n, o)]
      BY <1>3 DEF SwapParts, Numbered, DOCUMENT
    <2>2. e.parts = Swapped(d.parts, n, o)
      BY <2>1 DEF PkgShape
    <2>3. HasPart(e, DOCUMENT) /\ e.parts[DOCUMENT] = d.parts[DOCUMENT]
      BY <2>1, <2>2 DEF Swapped, Story, HasPart
    <2> QED
      BY <2>3 DEF Story
  <1>4. CASE e \in OverwritePart(d)
    <2>1. PICK n, obj : n # DOCUMENT /\ e = [d EXCEPT !.parts[n] = Unsealed(obj)]
      BY <1>4 DEF OverwritePart, Numbered, DOCUMENT
    <2>2. e.parts = [d.parts EXCEPT ![n] = Unsealed(obj)]
      BY <2>1 DEF PkgShape
    <2>3. HasPart(e, DOCUMENT) /\ e.parts[DOCUMENT] = d.parts[DOCUMENT]
      BY <2>1, <2>2 DEF Story, HasPart
    <2> QED
      BY <2>3 DEF Story
  <1>5. CASE e \in AddUnlistedPart(d)
    <2>1. PICK n, v : n # DOCUMENT /\ e.parts = Put(d.parts, n, v)
      BY <1>5 DEF AddUnlistedPart, AddPart, NextPart, PkgShape, DOCUMENT
    <2>2. HasPart(e, DOCUMENT) /\ e.parts[DOCUMENT] = d.parts[DOCUMENT]
      BY <2>1 DEF Put, Story, HasPart
    <2> QED
      BY <2>2 DEF Story
  <1>6. CASE e \in Retype(d) \/ e \in Repoint(d)
    <2>1. e.parts = d.parts
      BY <1>6 DEF Retype, Repoint, PkgShape
    <2> QED
      BY <2>1 DEF Story, HasPart
  <1>7. CASE e \in FoldPart(d)
    <2>0. PICK n \in Numbered(d) : \E v : e.parts = Without(Put(d.parts, n, v), <<n[1], n[2] + 1>>)
      BY <1>7, FoldPartShape DEF PkgShape
    <2>1. PICK v : e.parts = Without(Put(d.parts, n, v), <<n[1], n[2] + 1>>)
      BY <2>0
    <2> DEFINE o == <<n[1], n[2] + 1>>
    <2>2. n # DOCUMENT /\ o # DOCUMENT
      BY DEF Numbered, DOCUMENT
    <2>3. e.parts = Without(Put(d.parts, n, v), o)
      BY <2>1
    <2> HIDE DEF o
    <2>4. HasPart(e, DOCUMENT) /\ e.parts[DOCUMENT] = d.parts[DOCUMENT]
      BY <2>2, <2>3 DEF Without, Put, Story, HasPart
    <2> QED
      BY <2>4 DEF Story
  <1> QED
    BY <1>1, <1>2, <1>3, <1>4, <1>5, <1>6, <1>7 DEF PackageEdits

(* Records dropped or exchanged still lead to parts of a module's own.     *)
LEMMA ManifestEditsWell ==
    ASSUME NEW m, NEW B, WellPlaced(m.records), Honest(m, B),
           NEW e, e \in UNION {DropRecord(m), SwapRecords(m), StripSignature(m),
                               DeclareAlgorithm(m), SignAsStranger(m),
                               AddCosignature(m), PromoteCosignature(m)}
    PROVE  WellPlaced(e.records)
  <1>1. CASE e \in DropRecord(m)
    <2>1. PICK s \in DOMAIN m.records : e = [m EXCEPT !.records = Without(@, s)]
      BY <1>1 DEF DropRecord
    <2>2. e.records = Without(m.records, s)
      BY <2>1 DEF Honest
    <2> QED
      BY <2>2 DEF WellPlaced, Without
  <1>2. CASE e \in SwapRecords(m)
    <2>1. PICK a \in DOMAIN m.records, c \in DOMAIN m.records :
              /\ m.records[a].channel \in PartChannels /\ m.records[c].channel \in PartChannels
              /\ e = [m EXCEPT !.records = Exchanged(@, a, c)]
      BY <1>2 DEF SwapRecords
    <2> DEFINE recs == m.records
               x == Exchanged(recs, a, c)
    <2>2. e.records = x
      BY <2>1 DEF Honest
    <2>3. RecordShape(recs[a]) /\ RecordShape(recs[c])
      BY DEF WellPlaced
    <2>4. recs[a].channel = "package_part" /\ recs[c].channel = "package_part"
      BY <2>1, <2>3 DEF RecordShape, ChannelIds, PartChannels
    <2>5. /\ {"loc", "channel"} \subseteq DOMAIN recs[a]
          /\ {"loc", "channel"} \subseteq DOMAIN recs[c]
      BY <2>3 DEF RecordShape
    <2>6. DOMAIN x = DOMAIN recs /\ \A s \in DOMAIN recs : DOMAIN x[s] = DOMAIN recs[s]
      BY DEF Exchanged
    <2>7. \A s \in DOMAIN recs \ {a, c} : x[s] = recs[s]
      BY DEF Exchanged
    <2>8. x[c].channel = "package_part" /\ x[c].loc = recs[a].loc
      BY <2>4, <2>5 DEF Exchanged
    <2>9. x[a].channel = "package_part" /\ x[a].loc = recs[c].loc
      BY <2>4, <2>5 DEF Exchanged
    <2> HIDE DEF x
    <2>10. RecordShape(x[a]) /\ RecordShape(x[c])
      BY <2>3, <2>4, <2>6, <2>8, <2>9 DEF RecordShape
    <2> QED
      BY <2>2, <2>6, <2>7, <2>10 DEF WellPlaced
  <1>3. CASE \/ e \in StripSignature(m) \/ e \in DeclareAlgorithm(m)
             \/ e \in SignAsStranger(m) \/ e \in AddCosignature(m)
             \/ e \in PromoteCosignature(m)
    <2>1. e.records = m.records
      BY <1>3 DEF StripSignature, DeclareAlgorithm, SignAsStranger, AddCosignature,
         PromoteCosignature, Honest
    <2> QED
      BY <2>1
  <1> QED
    BY <1>1, <1>2, <1>3

(* A manifest put into a document.                                         *)
LEMMA SetManifestWell ==
    ASSUME NEW d, PkgShape(d), Story(d), NEW m, WellPlaced(m.records)
    PROVE  LET q == SetPart(d, MANIFEST, m)
           IN  Story(q) /\ ListedWell(q)
  <1> DEFINE q == SetPart(d, MANIFEST, m)
  <1>1. q.parts = Put(d.parts, MANIFEST, m)
    BY DEF SetPart, PkgShape
  <1>2. ManifestOf(q) = m
    BY <1>1 DEF ManifestOf, Put
  <1>3. HasPart(q, DOCUMENT) /\ q.parts[DOCUMENT] = d.parts[DOCUMENT]
    BY <1>1, OtherNames DEF Put, Story, HasPart
  <1> HIDE DEF q
  <1>4. Story(q) /\ ListedWell(q)
    BY <1>2, <1>3 DEF Story, ListedWell
  <1> QED
    BY <1>4 DEF q

(* An edit leaves a document with its story, and records that lead to      *)
(* parts of a module's own.                                                *)
LEMMA EditKInv ==
    ASSUME PInv, KInv, Edit
    PROVE  KInv'
  <1>1. doc # NoKey /\ PkgOK(doc, built) /\ PkgShape(doc) /\ Story(doc) /\ ListedWell(doc)
    BY DEF Edit, PInv, PkgOK, KInv, StoriesOK, ShapesOK
  <1>2. UNCHANGED <<pending, shared, step, records, shares, builds, built, pkg>>
    BY DEF Edit, builderVars, buildVars
  <1>3. ASSUME NEW e \in PackageEdits(doc)
        PROVE  /\ SameManifest(doc, e) /\ PkgShape(e) /\ Story(e) /\ ListedWell(e)
    <2>1. SameManifest(doc, e) /\ Story(e)
      BY <1>1, <1>3, PackageEditsSame, PackageEditsStory
    <2> QED
      BY <1>1, <2>1, SameManifestWell DEF SameManifest
  <1>4. ASSUME HasPart(doc, MANIFEST), doc' \in ManifestEdits(doc)
        PROVE  Story(doc') /\ ListedWell(doc')
    <2> DEFINE o == ManifestOf(doc)
    <2>1. PICK m : /\ doc' = SetPart(doc, MANIFEST, m)
                   /\ \/ m \in UNION {DropRecord(o), SwapRecords(o), StripSignature(o),
                                      DeclareAlgorithm(o), SignAsStranger(o),
                                      AddCosignature(o), PromoteCosignature(o)}
                      \/ \E i \in DOMAIN built : m = ManifestOf(built[i].pkg)
      BY <1>4 DEF ManifestEdits
    <2>2. WellPlaced(o.records) /\ Honest(o, built)
      BY <1>1, <1>4 DEF ListedWell, PkgOK
    <2> HIDE DEF o
    <2>3. ASSUME NEW i \in DOMAIN built, m = ManifestOf(built[i].pkg)
          PROVE  WellPlaced(m.records)
      BY <2>3 DEF PInv, BuiltOK, KInv, BuildsOK, ListedWell
    <2>4. WellPlaced(m.records)
      BY <2>1, <2>2, <2>3, ManifestEditsWell
    <2> QED
      BY <1>1, <2>1, <2>4, SetManifestWell
  <1>5. ASSUME HasPart(doc, MANIFEST), NEW d \in PackageEdits(doc), doc' = Rebound(d)
        PROVE  Story(doc') /\ ListedWell(doc')
    <2> DEFINE m == [ManifestOf(d) EXCEPT !.surface = SurfaceDigest(d)]
    <2>1. HasPart(d, MANIFEST) /\ PkgShape(d) /\ Story(d)
          /\ WellPlaced(ManifestOf(d).records)
      BY <1>3, <1>5 DEF SameManifest, ListedWell
    <2>2. m.records = ManifestOf(d).records
      OBVIOUS
    <2> HIDE DEF m
    <2>3. doc' = SetPart(d, MANIFEST, m)
      BY <1>5 DEF Rebound, m
    <2> QED
      BY <2>1, <2>2, <2>3, SetManifestWell
  <1>6. Story(doc') /\ ListedWell(doc')
    BY <1>3, <1>4, <1>5 DEF Edit
  <1>7. BuildsOK' /\ BuildOK' /\ BaseOK' /\ QueueOK'
    BY <1>2, BuildsStay DEF KInv, BuildOK, BaseOK, QueueOK, Idle
  <1>8. StoriesOK' /\ ShapesOK'
    BY <1>2, <1>6 DEF KInv, StoriesOK, ShapesOK
  <1> QED
    BY <1>7, <1>8 DEF KInv

(* Nothing is placed at first.                                             *)
LEMMA InitKInv == Init => KInv
  <1> SUFFICES ASSUME Init
               PROVE  KInv
    OBVIOUS
  <1>1. DOMAIN <<>> = {}
    BY EmptyIsSeq, SeqShape
  <1>2. QueueOK /\ BuildsOK
    BY <1>1, EmptyIsSeq DEF Init, QueueOK, BuildsOK
  <1>3. StoriesOK /\ ShapesOK /\ BaseOK /\ BuildOK
    BY NewDocument, NewIsWell DEF Init, StoriesOK, ShapesOK, BaseOK, BuildOK, Idle
  <1> QED
    BY <1>2, <1>3 DEF KInv

(* The three invariants together are inductive.                            *)
LEMMA NextKInv ==
    ASSUME TInv, PInv, KInv, [Next]_vars
    PROVE  KInv'
  <1>1. CASE UNCHANGED vars
    BY <1>1 DEF vars, builderVars, buildVars, KInv, QueueOK, StoriesOK, ShapesOK, BaseOK,
       BuildOK, BuildsOK, EmittedOK, Idle
  <1>2. CASE Next
    BY <1>2, AuthoringKInv, PlacingKInv, FinishBuildKInv, EditKInv DEF Next
  <1> QED
    BY <1>1, <1>2

(* They hold in every state of every behaviour.                            *)
LEMMA AlwaysKInv == Spec => []KInv
  BY AlwaysTInv, AlwaysPInv, InitKInv, NextKInv, PTL DEF Spec

-----------------------------------------------------------------------------
(* What finished builds are good for.                                      *)

(* The bytes of a module placed are what its reader unseals.               *)
LEMMA ExtractsItsBytes ==
    ASSUME TInv, KInv, NEW i \in DOMAIN built, NEW j \in DOMAIN built[i].modules,
           built[i].fresh \/ built[i].modules[j].channel # "mce", NEW cred
    PROVE  LET m == built[i].modules[j]
               n == built[i].n
           IN  /\ m \in Modules /\ n \in 0..MaxBuilds
               /\ m.seal = "threshold" => built[i].shares[m.slot] = ContentKey(m.slot, n)
               /\ Extract(built[i].pkg, m.slot, cred)
                    = Unseal(m.slot, Mode(m), SealModule(m, n), cred)
  <1> DEFINE b == built[i]
             m == b.modules[j]
             n == b.n
             recs == ManifestOf(b.pkg).records
             r == recs[m.slot]
  <1>1. /\ m \in Modules /\ PlacedAs(m, n, recs, b.shares, b.pkg, b.fresh)
        /\ n \in Nat /\ n <= builds
    BY DEF KInv, BuildsOK, EmittedOK
  <1>2. n \in 0..MaxBuilds
    BY <1>1, BoundsAssumption DEF TInv, TypeOK
  <1> HIDE DEF n, m, recs
  <1>3. /\ m.slot \in DOMAIN recs /\ r.digest = SealModule(m, n) /\ r.mode = Mode(m)
        /\ r.channel = m.channel
        /\ m.seal = "threshold" => b.shares[m.slot] = ContentKey(m.slot, n)
    BY <1>1 DEF PlacedAs
  <1>4. ExtractStored(b.pkg, r) = SealModule(m, n)
    BY <1>1, <1>3 DEF PlacedAs, m
  <1>5. SealModule(m, n) # Refused
    BY <1>1, <1>2, ValuesAssumption
  <1>6. Extract(b.pkg, m.slot, cred) = Unseal(m.slot, Mode(m), SealModule(m, n), cred)
    BY <1>3, <1>4, <1>5 DEF Extract, recs
  <1> QED
    BY <1>1, <1>2, <1>3, <1>6 DEF m, n

(* If anything is read for a module at all, it is the bytes sealed for it. *)
LEMMA ExtractsAtMost ==
    ASSUME TInv, KInv, NEW i \in DOMAIN built, NEW j \in DOMAIN built[i].modules, NEW cred
    PROVE  LET m == built[i].modules[j]
               n == built[i].n
           IN  /\ m \in Modules /\ n \in 0..MaxBuilds
               /\ ManifestOf(built[i].pkg).records[m.slot].channel = m.channel
               /\ Extract(built[i].pkg, m.slot, cred)
                    \in {Unseal(m.slot, Mode(m), SealModule(m, n), cred), Refused}
  <1> DEFINE b == built[i]
             m == b.modules[j]
             n == b.n
             recs == ManifestOf(b.pkg).records
             r == recs[m.slot]
  <1>1. /\ m \in Modules /\ PlacedAs(m, n, recs, b.shares, b.pkg, b.fresh)
        /\ n \in Nat /\ n <= builds
    BY DEF KInv, BuildsOK, EmittedOK
  <1>2. n \in 0..MaxBuilds
    BY <1>1, BoundsAssumption DEF TInv, TypeOK
  <1> HIDE DEF n, m, recs
  <1>3. /\ m.slot \in DOMAIN recs /\ r.digest = SealModule(m, n) /\ r.mode = Mode(m)
        /\ r.channel = m.channel
    BY <1>1 DEF PlacedAs
  <1>4. Extract(b.pkg, m.slot, cred) \in {Unseal(m.slot, Mode(m), SealModule(m, n), cred), Refused}
    BY <1>3 DEF Extract, recs
  <1> QED
    BY <1>1, <1>2, <1>3, <1>4 DEF m, n, recs

(* So every module of a finished build opens to what it was made of.       *)
LEMMA KInvRoundTrip ==
    ASSUME TInv, KInv
    PROVE  RoundTrip
  <1> SUFFICES ASSUME NEW i \in DOMAIN built, NEW j \in DOMAIN built[i].modules,
                      built[i].fresh \/ built[i].modules[j].channel # "mce"
               PROVE  Opens(built[i].modules[j], built[i])
    BY DEF RoundTrip
  <1> DEFINE b == built[i]
             m == b.modules[j]
             n == b.n
  <1>1. /\ m \in Modules /\ n \in 0..MaxBuilds
        /\ m.seal = "threshold" => b.shares[m.slot] = ContentKey(m.slot, n)
        /\ \A cred : Extract(b.pkg, m.slot, cred)
                       = Unseal(m.slot, Mode(m), SealModule(m, n), cred)
    BY ExtractsItsBytes
  <1> HIDE DEF b, m, n
  <1>2. Extract(b.pkg, m.slot, RightCredential(m, b)) = m.obj
    <2>1. /\ m.seal \in Lineages
          /\ m.seal = "recipients" => Recipients # {}
          /\ ContentKey(m.slot, n) # NoKey
      BY <1>1, InputsAssumption, ValuesAssumption DEF Modules
    <2> QED
      BY <1>1, <2>1, RightCredentialOpens
  <1>3. m.seal = "decoy" =>
          Extract(b.pkg, m.slot, Credential(DecoyPassword, NoKey, {})) = DecoyObject
    BY <1>1, DecoyOpens
  <1>4. Opens(m, b)
    BY <1>2, <1>3 DEF Opens
  <1> QED
    BY <1>4 DEF b, m

(* Builds finished at different times drew different content keys.         *)
LEMMA BuildsDiffer ==
    ASSUME KInv, NEW i \in DOMAIN built, NEW k \in DOMAIN built,
           built[i].n = built[k].n
    PROVE  i = k
  <1>1. DOMAIN built = 1..Len(built) /\ Len(built) \in Nat
    BY SeqShape DEF KInv, BuildsOK
  <1>2. built[i].n \in Nat /\ built[k].n \in Nat
    BY DEF KInv, BuildsOK, EmittedOK
  <1>3. ~(i < k) /\ ~(k < i)
    BY <1>2 DEF KInv, BuildsOK
  <1> QED
    BY <1>1, <1>3

(* Shares were handed out of a threshold module.                           *)
LEMMA SharesOfModule ==
    ASSUME KInv, NEW i \in DOMAIN built, NEW slot \in DOMAIN built[i].shares
    PROVE  /\ built[i].shares[slot] = ContentKey(slot, built[i].n)
           /\ \E j \in DOMAIN built[i].modules :
                /\ built[i].modules[j].slot = slot
                /\ built[i].modules[j].seal = "threshold"
  BY DEF KInv, BuildsOK, EmittedOK, SharesAsked

(* Enough shares open the build they are of, and nothing else does.        *)
LEMMA KInvShares ==
    ASSUME TInv, KInv
    PROVE  SharesOpenTheirBuild
  <1> SUFFICES ASSUME NEW i \in DOMAIN built, NEW slot \in DOMAIN built[i].shares,
                      NEW held \in SUBSET SharesDrawn(DOMAIN built[i].shares)
               PROVE  LET b      == built[i]
                          opens  == Extract(b.pkg, slot, Credential(NoKey, NoKey, held))
                                        # Refused
                          enough == /\ held \subseteq SharesOf(b.shares[slot])
                                    /\ Cardinality(held) >= K
                      IN  /\ opens => enough
                          /\ enough /\ (\/ b.fresh
                                        \/ ManifestOf(b.pkg).records[slot].channel # "mce")
                                => opens
    BY DEF SharesOpenTheirBuild
  <1> DEFINE cred == Credential(NoKey, NoKey, held)
             n == built[i].n
             key == ContentKey(slot, n)
             r == ManifestOf(built[i].pkg).records[slot]
             got == Extract(built[i].pkg, slot, cred)
             enough == held \subseteq SharesOf(key) /\ Cardinality(held) >= K
  <1>1. PICK j \in DOMAIN built[i].modules :
            built[i].modules[j].slot = slot /\ built[i].modules[j].seal = "threshold"
    BY SharesOfModule
  <1>2. built[i].shares[slot] = key
    BY SharesOfModule
  <1> DEFINE m == built[i].modules[j]
             opened == Unseal(slot, "threshold", SealModule(m, n), cred)
  <1>3. /\ m \in Modules /\ n \in 0..MaxBuilds
        /\ r.channel = m.channel
        /\ got = opened \/ got = Refused
        /\ built[i].fresh \/ m.channel # "mce" => got = opened
    BY <1>1, ExtractsAtMost, ExtractsItsBytes DEF Mode
  <1>4. m.slot = slot /\ m.seal = "threshold" /\ m.obj # Refused
    BY <1>1, <1>3, ValuesAssumption DEF Modules
  <1>5. cred.shares = held
    BY DEF Credential
  <1>6. key # NoKey
    BY <1>3, <1>4, ValuesAssumption
  <1>7. opened # Refused <=> enough
    <2> HIDE DEF cred, key, m, n
    <2>1. opened = IF Combine(held) = NoKey THEN Refused
                   ELSE Open(SealModule(m, n), Combine(held), slot)
      BY <1>5 DEF Unseal
    <2>2. opened # Refused <=> Combine(held) = key
      BY <1>4, <1>6, <2>1, OpenThreshold DEF key
    <2>3. Combine(held) = key <=> enough
      <3>1. \A s \in held : \E k : s \in SharesOf(k)
        BY DEF SharesDrawn
      <3> QED
        BY <1>6, <3>1, CombinesToKey DEF enough
    <2> QED
      BY <2>2, <2>3
  <1> HIDE DEF cred, key, m, n, r, opened, enough
  <1>8. got # Refused => enough
    BY <1>3, <1>7
  <1>9. enough /\ (built[i].fresh \/ r.channel # "mce") => got # Refused
    BY <1>3, <1>7
  <1> QED
    BY <1>2, <1>8, <1>9 DEF enough, r, cred

(* A step while a build is under way keeps what is in its package, unless  *)
(* it raises and the package was the build's own.                          *)
LEMMA StepKeeps ==
    ASSUME TInv, PInv, KInv, Next, ~Idle
    PROVE  (\E slot : Keeps(pkg, pkg', slot)) \/ (step' = 0 /\ ~shared)
  <1>1. PkgShape(pkg) /\ PkgFinite(pkg) /\ Story(pkg)
    BY DEF PInv, PkgOK, TInv, PkgSound, KInv, StoriesOK
  <1>2. CASE UNCHANGED pkg
    BY <1>1, <1>2, KeepsItself
  <1>3. CASE \/ PlacePackagePart \/ PlaceCustomXml \/ PlaceMetadata \/ PlaceMce
             \/ PlaceStegoMedia \/ StegoMediaFails \/ SealingFails
    <2>1. CASE \E placed : Place(placed) /\ WellEmbedded(placed)
      BY <2>1 DEF Place, WellEmbedded
    <2>2. CASE step' = 0 /\ pkg' = AfterBuild(pkg)
      BY <1>2, <2>2 DEF AfterBuild
    <2> QED
      BY <1>3, <2>1, <2>2, PlacingEmbeds
  <1>4. CASE PlaceCarrier
    <2>1. Keeps(pkg, EmbedReplica(pkg, Sealed), Module.slot)
      BY <1>1, EmbedReplicaKeeps
    <2> QED
      BY <1>4, <2>1 DEF PlaceCarrier
  <1>5. CASE FinishBuild
    <2> DEFINE emitted == WriteManifest(pkg, SignedManifest)
    <2>1. pkg' = AfterBuild(emitted) /\ step' = 0
      BY <1>5 DEF FinishBuild
    <2>2. Keeps(pkg, emitted, NoKey)
      BY <1>1, WriteManifestKeeps
    <2> QED
      BY <2>1, <2>2 DEF AfterBuild
  <1>6. CASE Edit \/ SerialiseBase
    BY <1>2, <1>6 DEF Edit, SerialiseBase, buildVars
  <1>7. CASE \/ \E m \in Modules : AddModule(m)
             \/ \E key \in Authors : Sign(key) \/ AddCosigner(key)
             \/ UseBase(NewBaseDocument) \/ UseBase(doc)
             \/ BeginBuild
    BY <1>7 DEF AddModule, Sign, AddCosigner, UseBase, BeginBuild
  <1> QED
    BY <1>3, <1>4, <1>5, <1>6, <1>7 DEF Next

(* What can be read before the step can be read after it.                  *)
LEMMA StepUndisturbed ==
    ASSUME TInv, PInv, KInv, [Next]_vars
    PROVE  [ step > 0 =>
               /\ \A s \in DOMAIN records :
                     ExtractStored(pkg', records[s]) = ExtractStored(pkg, records[s])
                         \/ (step' = 0 /\ ~shared)
               /\ HasPart(pkg, MANIFEST) /\ shared =>
                     \A s \in DOMAIN ManifestOf(pkg).records :
                         LET r == ManifestOf(pkg).records[s]
                         IN  ExtractStored(pkg, r) # Refused =>
                                 ExtractStored(pkg', r) = ExtractStored(pkg, r) ]_vars
  <1> SUFFICES ASSUME Next, step > 0
               PROVE  /\ \A s \in DOMAIN records :
                           ExtractStored(pkg', records[s]) = ExtractStored(pkg, records[s])
                               \/ (step' = 0 /\ ~shared)
                      /\ HasPart(pkg, MANIFEST) /\ shared =>
                           \A s \in DOMAIN ManifestOf(pkg).records :
                             LET r == ManifestOf(pkg).records[s]
                             IN  ExtractStored(pkg, r) # Refused =>
                                     ExtractStored(pkg', r) = ExtractStored(pkg, r)
    OBVIOUS
  <1>1. ~Idle /\ Story(pkg)
    BY DEF TInv, TypeOK, Idle, KInv, StoriesOK
  <1>2. CASE \E slot : Keeps(pkg, pkg', slot)
    <2>1. PICK slot : Keeps(pkg, pkg', slot)
      BY <1>2
    <2>2. ASSUME NEW s \in DOMAIN records
          PROVE  ExtractStored(pkg', records[s]) = ExtractStored(pkg, records[s])
      <3>1. RecordShape(records[s]) /\ Found(pkg, records[s])
        BY <1>1 DEF KInv, ShapesOK, WellPlaced, BuildOK
      <3> QED
        BY <1>1, <2>1, <3>1, KeepsFound
    <2>3. ASSUME HasPart(pkg, MANIFEST), NEW s \in DOMAIN ManifestOf(pkg).records,
                 ExtractStored(pkg, ManifestOf(pkg).records[s]) # Refused
          PROVE  ExtractStored(pkg', ManifestOf(pkg).records[s])
                   = ExtractStored(pkg, ManifestOf(pkg).records[s])
      <3> DEFINE r == ManifestOf(pkg).records[s]
      <3>1. RecordShape(r) /\ ExtractStored(pkg, r) # Refused
        BY <2>3 DEF KInv, ShapesOK, ListedWell, WellPlaced
      <3> HIDE DEF r
      <3>2. Found(pkg, r)
        BY <1>1, <3>1, ReadIsFound
      <3>3. ExtractStored(pkg', r) = ExtractStored(pkg, r)
        BY <1>1, <2>1, <3>1, <3>2, KeepsFound
      <3> QED
        BY <3>3 DEF r
    <2> QED
      BY <2>2, <2>3
  <1>3. CASE step' = 0 /\ ~shared
    BY <1>3
  <1> QED
    BY <1>1, <1>2, <1>3, StepKeeps

(* Every module of every finished build opens to the object it was made    *)
(* of, and under the decoy password to the decoy: whatever earlier builds, *)
(* finished or failed, left in the base package; of the mce channel this   *)
(* is said of documents built from scratch.                                *)
THEOREM EveryModuleOpens == Spec => []RoundTrip
  BY AlwaysTInv, AlwaysKInv, KInvRoundTrip, PTL

(* Whatever shares for the slots of a document are put together, also of   *)
(* several builds, finished or raised: a module opens only under K or more *)
(* that are all of its own build and slot; any such do open it, except     *)
(* through the mce channel of a document not built from scratch.           *)
THEOREM SharesOpenOnlyTheirBuild == Spec => []SharesOpenTheirBuild
  BY AlwaysTInv, AlwaysKInv, KInvShares, PTL

(* Placing a module disturbs neither those this build has placed nor those *)
(* the manifest in the base package lists.                                 *)
THEOREM PlacingDisturbsNothing == Spec => ModulesUndisturbed
  BY AlwaysTInv, AlwaysPInv, AlwaysKInv, StepUndisturbed, PTL DEF Spec, ModulesUndisturbed
=============================================================================

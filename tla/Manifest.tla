------------------------------ MODULE Manifest ------------------------------
(***************************************************************************)
(* The intelligence manifest (manifest.py) and what its signature binds:   *)
(* the records of the modules, their Merkle root, and the surface digest   *)
(* of the package the manifest travels in (container.py).                  *)
(*                                                                         *)
(* Records are kept by slot: add and from_bytes both refuse a second       *)
(* record of one slot.  Signatures are ideal: [key, body] verifies under   *)
(* key over body and under nothing else.                                   *)
(***************************************************************************)
EXTENDS Channels

CONSTANT NoSignature

Algorithm == "ed25519"

NewManifest ==
    [records |-> <<>>, surface |-> NoSignature, publicKey |-> NoSignature,
     signature |-> NoSignature, cosignatures |-> <<>>, algorithm |-> Algorithm]

\* The root binds every slot to its digest.
MerkleRoot(m) == [s \in DOMAIN m.records |-> m.records[s].digest]

\* Mutant: the signature does not bind the surface.
CanonicalBodyOfModules(m) == [records |-> m.records, root |-> MerkleRoot(m)]

CanonicalBody(m) ==
    [records |-> m.records, root |-> MerkleRoot(m), surface |-> m.surface]

Signature(key, body) == [key |-> key, body |-> body]

IsSigned(m) == m.signature # NoSignature /\ m.publicKey # NoSignature

VerifySignature(m) ==
    /\ m.algorithm = Algorithm
    /\ IsSigned(m)
    /\ m.signature = Signature(m.publicKey, CanonicalBody(m))

\* Cosignatures verify one by one; a later entry under a key overrides an
\* earlier one, as the dictionary of verify_cosignatures does.
ValidCosigners(m) ==
    {m.cosignatures[i].publicKey : i \in
        {j \in DOMAIN m.cosignatures :
            LET c == m.cosignatures[j]
            IN  /\ c.value = Signature(c.publicKey, CanonicalBody(m))
                /\ \A l \in DOMAIN m.cosignatures :
                        m.cosignatures[l].publicKey = c.publicKey => l <= j}}

-----------------------------------------------------------------------------
(* The manifest in its package.                                            *)

\* An edge as it is digested: its id is left out, so the digest is the same
\* under a renumbering of the edges.
EdgeOf(r) == [source |-> r.source, type |-> r.type, target |-> r.target]

\* How many edges of the package, those to the manifest apart, read as e.
EdgeCounts(pkg) ==
    LET edges == {r \in pkg.rels : r.target # MANIFEST}
    IN  [e \in {EdgeOf(r) : r \in edges} |-> Cardinality({r \in edges : EdgeOf(r) = e})]

\* What is hashed is a stream of entries, one for a part, a type or an edge,
\* joined by a byte that any part may hold itself.  The bytes of a part may
\* therefore go on like the entries that follow it in the stream, and are
\* then hashed as if those entries were there; a part that does this has
\* them in its field "then".
ThenOf(data) == IF "then" \in DOMAIN data THEN data.then ELSE {}

\* The bytes of a part up to where they begin to read like other entries.
OwnOf(data) == IF "then" \in DOMAIN data THEN Without(data, "then") ELSE data

PartEntries(name, data) == {<<"part", name, OwnOf(data)>>} \cup ThenOf(data)

\* The bytes of a part, going on with the entries of another one.
Swallow(data, name, next) == Put(data, "then", ThenOf(data) \cup PartEntries(name, next))

\* The entries of a stream, wherever in it they stand.  Neither their order
\* nor an entry that is there twice is told apart, as they are in the code:
\* what is refused here for its digest is refused there.
Entries(parts, types, edges) ==
    (UNION {PartEntries(n, parts[n]) : n \in DOMAIN parts})
        \cup {<<"type", n, types[n]>> : n \in DOMAIN types}
        \cup {<<"edge", e, edges[e]>> : e \in DOMAIN edges}

\* No part reads like more than the part it is.
Framed(parts) == \A n \in DOMAIN parts : "then" \notin DOMAIN parts[n]

\* Everything but the manifest itself: the other parts, what they are, and
\* the edges that do not lead to the manifest.
SurfaceDigest(pkg) ==
    Entries(Without(pkg.parts, MANIFEST), Without(pkg.types, MANIFEST), EdgeCounts(pkg))

\* What the digest is taken of.
Surface(pkg) ==
    [parts |-> Without(pkg.parts, MANIFEST),
     types |-> Without(pkg.types, MANIFEST),
     edges |-> EdgeCounts(pkg)]

\* Replaces the manifest of the package, or adds one with its edge.
WriteManifest(pkg, m) ==
    IF HasPart(pkg, MANIFEST)
    THEN SetPart(pkg, MANIFEST, m)
    ELSE AddRelationship(AddPart(pkg, MANIFEST, m, "manifest"),
                         ROOT, "manifest", MANIFEST)

ManifestOf(pkg) == pkg.parts[MANIFEST]
=============================================================================

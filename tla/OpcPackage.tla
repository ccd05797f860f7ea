----------------------------- MODULE OpcPackage -----------------------------
(***************************************************************************)
(* The in-memory OPC package of opc.py: named parts, the content type each *)
(* one resolves to, and relationship edges keyed by their source part.     *)
(*                                                                         *)
(* A part name is a pair <<directory, index>>: the channels number their   *)
(* parts (payloadN.dxp, itemN.xml, imageN.png) and the singletons have     *)
(* index 0.  A content type is named after what it types.  The ZIP framing *)
(* of to_bytes/read_package keeps parts, types and edges as they are, so a *)
(* serialised package is represented by the package itself.                *)
(***************************************************************************)
EXTENDS Integers, FiniteSets

ROOT     == <<"root", 0>>       \* the package itself, "" in the code
DOCUMENT == <<"document", 0>>   \* word/document.xml
CORE     == <<"core", 0>>       \* docProps/core.xml
CUSTOM   == <<"custom", 0>>     \* docProps/custom.xml
MANIFEST == <<"manifest", 0>>   \* intelligence/manifest.json

\* parts: name -> content; types: name -> content type; rels: set of edges.
HasPart(pkg, name) == name \in DOMAIN pkg.parts

\* f with key k bound to v, added or replaced: a Python item assignment.
Put(f, k, v) == [x \in DOMAIN f \cup {k} |-> IF x = k THEN v ELSE f[x]]

Without(f, k) == [x \in DOMAIN f \ {k} |-> f[x]]

\* The code refuses a name that is there already.  That refusal is left out:
\* every caller gives the first name not used of its kind, or looks for the
\* part before (DocxContainerProofs, AddPartIsNeverRefused).
AddPart(pkg, name, data, ctype) ==
    [pkg EXCEPT !.parts = Put(@, name, data), !.types = Put(@, name, ctype)]

SetPart(pkg, name, data) == [pkg EXCEPT !.parts = Put(@, name, data)]

\* Mutant: ids are counted per kind of edge instead of per source part.
NextRelIdByImages(pkg, source) ==
    Cardinality({r \in pkg.rels : r.source = source /\ r.type = "image"}) + 1

\* The first unused rIdN of a source part.
NextRelId(pkg, source) ==
    LET used == {r.id : r \in {q \in pkg.rels : q.source = source}}
    IN  CHOOSE n \in 1..(Cardinality(used) + 1) :
            n \notin used /\ \A m \in 1..(n - 1) : m \in used

AddRelationship(pkg, source, rtype, target) ==
    [pkg EXCEPT !.rels =
        @ \cup {[source |-> source, id |-> NextRelId(pkg, source),
                 type |-> rtype, target |-> target]}]

\* Mutant: numbering starts over, whatever the package holds already.
NextIndexRestarts(pkg, dir) == 1

\* The first free index in a numbered directory: _next_index and its twins.
NextIndex(pkg, dir) ==
    LET used == {n \in 1..Cardinality(DOMAIN pkg.parts) : HasPart(pkg, <<dir, n>>)}
    IN  CHOOSE n \in 1..(Cardinality(used) + 1) :
            n \notin used /\ \A m \in 1..(n - 1) : m \in used

NextPart(pkg, dir) == <<dir, NextIndex(pkg, dir)>>
=============================================================================

--------------------------- MODULE EditedManifests ---------------------------
(***************************************************************************)
(* What may become of a manifest once a document left its author: edits    *)
(* made by anyone.  An editor has no author's key: it may drop or copy     *)
(* signatures, or sign as itself.                                          *)
(***************************************************************************)
EXTENDS Manifest

CONSTANTS Authors,       \* signing keys held by the authors
          Stranger       \* a signing key held by somebody else

\* Nobody but the authors holds an author's key.
ASSUME SignersAssumption ==
    Stranger \notin Authors /\ NoSignature \notin Authors \cup {Stranger}

\* The holder of a key signed what a build emitted, or co-signed it.
Vouches(key, b) ==
    \/ key = b.signer
    \/ \E j \in DOMAIN b.cosigners : key = b.cosigners[j]

\* The channels that keep a module in a part of its own.
PartChannels == {"package_part", "odt_package_part"}

DropRecord(m) == {[m EXCEPT !.records = Without(@, s)] : s \in DOMAIN m.records}

\* The records of slots a and b trade places and digests.
Exchanged(recs, a, b) ==
    [recs EXCEPT ![a].loc = recs[b].loc, ![a].digest = recs[b].digest,
                 ![b].loc = recs[a].loc, ![b].digest = recs[a].digest]

SwapRecords(m) ==
    LET payloads == {s \in DOMAIN m.records : m.records[s].channel \in PartChannels}
    IN  {[m EXCEPT !.records = Exchanged(@, q[1], q[2])] : q \in payloads \X payloads}

StripSignature(m) == {[m EXCEPT !.signature = NoSignature]}

DeclareAlgorithm(m) == {[m EXCEPT !.algorithm = "other"]}

SignAsStranger(m) ==
    {[m EXCEPT !.publicKey = Stranger, !.signature = Signature(Stranger, CanonicalBody(m))]}

\* The signature of a co-signer moved to where the signer's was.
PromoteCosignature(m) ==
    {[m EXCEPT !.publicKey = m.cosignatures[i].publicKey,
               !.signature = m.cosignatures[i].value] : i \in DOMAIN m.cosignatures}

\* An entry under any key, made with the stranger's.
AddCosignature(m) ==
    {[m EXCEPT !.cosignatures =
        Append(@, [publicKey |-> k, value |-> Signature(Stranger, CanonicalBody(m))])] :
            k \in Authors \cup {Stranger}}
=============================================================================

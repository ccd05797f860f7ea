--------------------------- MODULE TransparencyLog ---------------------------
(***************************************************************************)
(* The hash-chained log of transparency.py as pure operators: appending,   *)
(* the chain check, signed tree heads and consistency proofs.              *)
(*                                                                         *)
(* An entry's data stands for its timestamp, attestation digest, toolchain *)
(* hash and metadata.  Hashes are ideal: the hash of an entry is a term    *)
(* that contains it, so two entries have one hash only if they are equal.  *)
(* A Merkle root is the sequence of its leaves in slot order, which for a  *)
(* chain that verifies is the order of the entries.  A signature verifies  *)
(* under the key and over the body it was made with.                       *)
(***************************************************************************)
EXTENDS Integers, Sequences

\* The hash the first entry links to, "0" * 64.
Genesis == <<"zero">>

EntryHash(e) == <<"blake2b", e>>

TipHash(log) == IF log = <<>> THEN Genesis ELSE EntryHash(log[Len(log)])

\* Mutant: the entry is made, and not added.
EntryNotAdded(log, data) == log

AppendEntry(log, data) ==
    Append(log, [index |-> Len(log), data |-> data, prev |-> TipHash(log)])

\* Self-consistency only: a rewritten log passes, and so does an edited tip.
VerifyChain(log) ==
    \A i \in 1..Len(log) :
        /\ log[i].index = i - 1
        /\ log[i].prev = IF i = 1 THEN Genesis ELSE EntryHash(log[i - 1])

MerkleTreeRoot(log) == [i \in 1..Len(log) |-> EntryHash(log[i])]

-----------------------------------------------------------------------------
(* Signed tree heads.                                                      *)

SthBody(size, root) == [log_size |-> size, root_hash |-> root]

Signature(key, body) == [key |-> key, body |-> body]

SignedTreeHead(log, key) ==
    [log_size |-> Len(log), root_hash |-> MerkleTreeRoot(log), public_key |-> key,
     signature |-> Signature(key, SthBody(Len(log), MerkleTreeRoot(log)))]

\* Mutant: the head is authentic, whatever log it is presented with.
VerifySignatureOnly(log, sth, pinned) ==
    /\ sth.public_key = pinned
    /\ sth.signature = Signature(pinned, SthBody(sth.log_size, sth.root_hash))

\* The head is the pinned signer's, and it describes the log in hand.
VerifySignedTreeHead(log, sth, pinned) ==
    /\ sth.public_key = pinned
    /\ sth.log_size = Len(log)
    /\ sth.root_hash = MerkleTreeRoot(log)
    /\ sth.signature = Signature(pinned, SthBody(sth.log_size, sth.root_hash))

-----------------------------------------------------------------------------
(* Consistency proofs: the hashes of the log as it was.                    *)

ConsistencyProof(log) ==
    [old_size |-> Len(log), old_root |-> MerkleTreeRoot(log),
     prefix_hashes |-> [i \in 1..Len(log) |-> EntryHash(log[i])]]

\* Mutant: the old root is recomputed, but the entries are not compared.
VerifyRootOnly(log, proof) ==
    /\ proof.old_size <= Len(log)
    /\ Len(proof.prefix_hashes) = proof.old_size
    /\ proof.prefix_hashes = proof.old_root
    /\ VerifyChain(log)

\* The log is at least as long, retains every entry, and the root recomputes.
VerifyConsistency(log, proof) ==
    /\ proof.old_size <= Len(log)
    /\ Len(proof.prefix_hashes) = proof.old_size
    /\ \A i \in 1..proof.old_size : EntryHash(log[i]) = proof.prefix_hashes[i]
    /\ proof.prefix_hashes = proof.old_root
    /\ VerifyChain(log)

-----------------------------------------------------------------------------
(* The published form: every entry beside its hash.                        *)

\* Mutant: only the newest entry is written out.
ToJsonNewest(log) ==
    [i \in 1..1 |-> [entry |-> log[Len(log)], hash |-> EntryHash(log[Len(log)])]]

ToJson(log) == [i \in 1..Len(log) |-> [entry |-> log[i], hash |-> EntryHash(log[i])]]

Entries(raw) == [i \in 1..Len(raw) |-> raw[i].entry]

\* What from_json accepts; it raises otherwise.
FromJsonAccepts(raw) ==
    /\ VerifyChain(Entries(raw))
    /\ \A i \in 1..Len(raw) : raw[i].hash = EntryHash(raw[i].entry)
=============================================================================

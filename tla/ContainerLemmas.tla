---------------------------- MODULE ContainerLemmas ----------------------------
(***************************************************************************)
(* What the proofs about the two containers share: sequences, numbering in *)
(* a package, the opening of what was sealed, and what the signatures in a *)
(* manifest are worth, whoever edited it.                                  *)
(***************************************************************************)
EXTENDS Sealing, EditedManifests, SequenceTheorems, FiniteSetTheorems, TLAPS

-----------------------------------------------------------------------------
(* Sequences whose elements may be anything, as the histories are.         *)

\* A sequence, whatever its elements are.
IsSeq(s) == \E S : s \in Seq(S)

(* A function on 1..n is a sequence of length n.                           *)
LEMMA FunctionIsSeq ==
    ASSUME NEW n \in Nat, NEW T, NEW s \in [1..n -> T]
    PROVE  IsSeq(s) /\ Len(s) = n
  <1>1. s \in Seq(T)
    BY SeqDef
  <1>2. Len(s) = n
    BY <1>1, LenProperties
  <1> QED
    BY <1>1, <1>2 DEF IsSeq

(* A sequence has a length, and is a function on the indices up to it.     *)
LEMMA SeqShape ==
    ASSUME NEW s, IsSeq(s)
    PROVE  Len(s) \in Nat /\ DOMAIN s = 1..Len(s) /\ s = [i \in 1..Len(s) |-> s[i]]
  <1>1. PICK S : s \in Seq(S)
    BY DEF IsSeq
  <1>2. Len(s) \in Nat /\ s \in [1..Len(s) -> S]
    BY <1>1, LenProperties
  <1> QED
    BY <1>2

(* The empty sequence is one.                                              *)
LEMMA EmptyIsSeq == IsSeq(<<>>) /\ Len(<<>>) = 0
  BY EmptySeq DEF IsSeq

(* Appending keeps what was there and adds one element at the end.         *)
LEMMA AppendIsSeq ==
    ASSUME NEW s, IsSeq(s), NEW e
    PROVE  /\ IsSeq(Append(s, e))
           /\ Len(Append(s, e)) = Len(s) + 1
           /\ \A i \in 1..Len(s) : Append(s, e)[i] = s[i]
           /\ Append(s, e)[Len(s) + 1] = e
  <1>1. PICK S : s \in Seq(S)
    BY DEF IsSeq
  <1> DEFINE T == S \cup {e}
  <1>2. s \in Seq(T) /\ e \in T
    BY <1>1, SeqMonotonic
  <1>3. /\ Append(s, e) \in Seq(T)
        /\ Len(Append(s, e)) = Len(s) + 1
        /\ \A i \in 1..Len(s) : Append(s, e)[i] = s[i]
        /\ Append(s, e)[Len(s) + 1] = e
    BY <1>2, AppendProperties, LenProperties
  <1> QED
    BY <1>3 DEF IsSeq

-----------------------------------------------------------------------------
(* Numbering: the search for the first free number finds one, and it is    *)
(* free.                                                                   *)

(* Among 1..(n + 1) there is a first number that n numbers leave free.     *)
LEMMA FirstUnused ==
    ASSUME NEW used, IsFiniteSet(used)
    PROVE  \E n \in 1..(Cardinality(used) + 1) :
                n \notin used /\ \A m \in 1..(n - 1) : m \in used
  <1> DEFINE c    == Cardinality(used)
             Full == {m \in 0..c : 1..m \subseteq used}
             d    == Cardinality(Full)
  <1>1. c \in Nat
    BY FS_CardinalityType
  <1>2. ASSUME NEW m \in Nat, 1..m \subseteq used
        PROVE  m <= c
    <2>1. Cardinality(1..m) = m
      BY FS_Interval
    <2> QED
      BY <1>2, <2>1, FS_Subset
  <1>3. IsFiniteSet(Full) /\ d \in Nat
    <2>1. IsFiniteSet(0..c)
      BY <1>1, FS_Interval
    <2>2. Full \in SUBSET (0..c)
      OBVIOUS
    <2>3. IsFiniteSet(Full)
      BY <2>1, <2>2, FS_Subset
    <2> QED
      BY <2>3, FS_CardinalityType
  <1>4. Full \subseteq 0..(d - 1)
    <2> SUFFICES ASSUME NEW m \in Full
                 PROVE  m <= d - 1
      BY <1>1, <1>3
    <2>1. 0..m \subseteq Full
      BY <1>1
    <2>2. Cardinality(0..m) = m + 1
      BY <1>1, FS_Interval
    <2>3. m + 1 <= d
      BY <1>3, <2>1, <2>2, FS_Subset
    <2> QED
      BY <1>1, <1>3, <2>3
  <1>5. d \in Nat \ {0}
    <2>1. 0 \in Full
      BY <1>1
    <2> QED
      BY <1>3, <2>1, FS_EmptySet
  <1>6. Full = 0..(d - 1)
    <2>1. IsFiniteSet(0..(d - 1)) /\ Cardinality(0..(d - 1)) = d
      BY <1>5, FS_Interval
    <2> QED
      BY <1>4, <2>1, FS_Subset
  <1> HIDE DEF Full, d, c
  <1>7. d - 1 \in Full /\ d \notin Full
    BY <1>5, <1>6
  <1>8. 1..(d - 1) \subseteq used /\ d - 1 <= c
    BY <1>1, <1>5, <1>7 DEF Full
  <1>9. d \notin used
    <2> SUFFICES ASSUME d \in used
                 PROVE  FALSE
      OBVIOUS
    <2>1. 1..d \subseteq used
      BY <1>5, <1>8
    <2>2. d <= c
      BY <1>2, <1>5, <2>1
    <2> QED
      BY <1>1, <1>5, <1>7, <2>1, <2>2 DEF Full
  <1> QED
    BY <1>1, <1>5, <1>8, <1>9 DEF c

(* The part a numbered directory gets next is not there yet, so that       *)
(* add_part never meets the name it refuses.                               *)
LEMMA PartIsNew ==
    ASSUME NEW p, IsFiniteSet(DOMAIN p.parts), NEW dir
    PROVE  NextIndex(p, dir) \in Nat /\ ~HasPart(p, NextPart(p, dir))
  <1> DEFINE c    == Cardinality(DOMAIN p.parts)
             used == {n \in 1..c : HasPart(p, <<dir, n>>)}
             n    == NextIndex(p, dir)
  <1>1. c \in Nat
    BY FS_CardinalityType
  <1>2. IsFiniteSet(1..c) /\ Cardinality(1..c) = c
    BY <1>1, FS_Interval
  <1>3. IsFiniteSet(used) /\ Cardinality(used) <= c
    BY <1>2, FS_Subset
  <1>4. Cardinality(used) \in Nat
    BY <1>3, FS_CardinalityType
  <1>5. \E k \in 1..(Cardinality(used) + 1) :
            k \notin used /\ \A m \in 1..(k - 1) : m \in used
    BY <1>3, FirstUnused
  <1>6. n \in 1..(Cardinality(used) + 1) /\ n \notin used /\ \A m \in 1..(n - 1) : m \in used
    BY <1>5 DEF NextIndex
  <1> HIDE DEF n
  <1>7. n \in Nat
    BY <1>4, <1>6
  <1>8. ASSUME HasPart(p, <<dir, n>>)
        PROVE  FALSE
    <2>1. n = c + 1
      BY <1>1, <1>3, <1>4, <1>6, <1>8
    <2> DEFINE f == [m \in 1..n |-> <<dir, m>>]
    <2>2. \A m \in 1..n : HasPart(p, <<dir, m>>)
      BY <1>1, <1>6, <1>8, <2>1
    <2>3. f \in Injection(1..n, DOMAIN p.parts)
      <3>1. f \in [1..n -> DOMAIN p.parts]
        BY <2>2 DEF HasPart
      <3>2. \A a, b \in 1..n : f[a] = f[b] => a = b
        OBVIOUS
      <3> QED
        BY <3>1, <3>2 DEF Injection, IsInjective
    <2>4. Cardinality(1..n) <= c
      BY <2>3, FS_Injection
    <2>5. Cardinality(1..n) = n
      BY <1>7, FS_Interval
    <2> QED
      BY <1>1, <2>1, <2>4, <2>5
  <1> QED
    BY <1>7, <1>8 DEF NextPart, n

(* Binding a name adds at most that name.                                  *)
LEMMA PutDomain ==
    ASSUME NEW f, NEW k, NEW v
    PROVE  /\ DOMAIN Put(f, k, v) = DOMAIN f \cup {k}
           /\ Put(f, k, v)[k] = v
           /\ \A n \in DOMAIN f : n # k => Put(f, k, v)[n] = f[n]
  BY DEF Put

(* A binding to another name leaves a function's value at a name alone.    *)
LEMMA PutElsewhere ==
    ASSUME NEW f, NEW k, NEW v, NEW n, k # n
    PROVE  /\ n \in DOMAIN Put(f, k, v) <=> n \in DOMAIN f
           /\ n \in DOMAIN f => Put(f, k, v)[n] = f[n]
  BY DEF Put

-----------------------------------------------------------------------------
(* Opening what was sealed.                                                *)

(* The two passwords and the absence of one are different.                 *)
LEMMA PasswordsDiffer ==
    Password # DecoyPassword /\ Password # NoKey /\ DecoyPassword # NoKey
  <1>1. ASSUME NEW a, NEW c
        PROVE  Cardinality({a, c}) <= 2
    <2>1. IsFiniteSet({a}) /\ Cardinality({a}) = 1
      BY FS_Singleton
    <2>2. Cardinality({a} \cup {c}) \in {1, 2}
      BY <2>1, FS_AddElement
    <2>3. {a} \cup {c} = {a, c}
      OBVIOUS
    <2> QED
      BY <2>2, <2>3
  <1> DEFINE S == {Password, DecoyPassword, NoKey}
  <1>2. Cardinality(S) = 3
    BY PasswordsAssumption
  <1>3. ASSUME Password = DecoyPassword
        PROVE  FALSE
    <2>1. S = {DecoyPassword, NoKey}
      BY <1>3
    <2> HIDE DEF S
    <2> QED
      BY <1>1, <1>2, <2>1
  <1>4. ASSUME Password = NoKey \/ DecoyPassword = NoKey
        PROVE  FALSE
    <2>1. S = {Password, DecoyPassword}
      BY <1>4
    <2> HIDE DEF S
    <2> QED
      BY <1>1, <1>2, <2>1
  <1> QED
    BY <1>3, <1>4

(* A key that fits the first frame opens it.                               *)
LEMMA OpenFirst ==
    ASSUME NEW bytes, NEW key, Len(bytes.frames) \in Nat, Len(bytes.frames) >= 1,
           bytes.frames[1].key = key
    PROVE  Open(bytes, key, bytes.aad) = bytes.frames[1].obj
  <1> DEFINE hits == {i \in 1..Len(bytes.frames) :
                        bytes.aad = bytes.aad /\ bytes.frames[i].key = key}
             k == CHOOSE i \in hits : \A j \in hits : i <= j
  <1>1. 1 \in hits /\ \A j \in hits : 1 <= j
    OBVIOUS
  <1>2. hits \subseteq Nat
    OBVIOUS
  <1>3. Open(bytes, key, bytes.aad) = bytes.frames[k].obj
    BY <1>1 DEF Open
  <1> HIDE DEF hits
  <1>4. k \in hits /\ \A j \in hits : k <= j
    BY <1>1
  <1>5. k = 1
    BY <1>1, <1>2, <1>4
  <1> QED
    BY <1>3, <1>5

(* A key that fits the second of two frames and not the first.             *)
LEMMA OpenSecond ==
    ASSUME NEW bytes, NEW key, Len(bytes.frames) = 2,
           bytes.frames[1].key # key, bytes.frames[2].key = key
    PROVE  Open(bytes, key, bytes.aad) = bytes.frames[2].obj
  <1> DEFINE hits == {i \in 1..Len(bytes.frames) :
                        bytes.aad = bytes.aad /\ bytes.frames[i].key = key}
             k == CHOOSE i \in hits : \A j \in hits : i <= j
  <1>1. 2 \in hits /\ \A j \in hits : j = 2
    OBVIOUS
  <1>2. Open(bytes, key, bytes.aad) = bytes.frames[k].obj
    BY <1>1 DEF Open
  <1> HIDE DEF hits
  <1>3. k \in hits
    BY <1>1
  <1> QED
    BY <1>1, <1>2, <1>3

(* The shares of a key, any K of them and no fewer, combine to it.         *)
LEMMA SharesCombine ==
    ASSUME NEW key, NEW held \in SUBSET SharesOf(key)
    PROVE  Combine(held) = IF Cardinality(held) >= K THEN key ELSE NoKey
  <1>1. CASE Cardinality(held) >= K
    <2>1. held # {}
      BY <1>1, FS_EmptySet, ThresholdAssumption
    <2>2. \A s \in held : s.key = key
      BY DEF SharesOf
    <2>3. (CHOOSE s \in held : TRUE) \in held
      BY <2>1
    <2> QED
      BY <1>1, <2>1, <2>2, <2>3 DEF Combine
  <1>2. CASE ~(Cardinality(held) >= K)
    BY <1>2 DEF Combine
  <1> QED
    BY <1>1, <1>2

(* Shares combine to a key exactly when all are of that key and K or more. *)
LEMMA CombinesToKey ==
    ASSUME NEW key, key # NoKey, NEW held, \A s \in held : \E k : s \in SharesOf(k)
    PROVE  Combine(held) = key <=> held \subseteq SharesOf(key) /\ Cardinality(held) >= K
  <1>1. ASSUME held \subseteq SharesOf(key), Cardinality(held) >= K
        PROVE  Combine(held) = key
    BY <1>1, SharesCombine
  <1>2. ASSUME Combine(held) = key
        PROVE  held \subseteq SharesOf(key) /\ Cardinality(held) >= K
    <2>1. /\ Cardinality(held) >= K
          /\ \E s \in held : \A t \in held : t.key = s.key
          /\ key = (CHOOSE s \in held : TRUE).key
      BY <1>2 DEF Combine
    <2>2. (CHOOSE s \in held : TRUE) \in held
      BY <2>1
    <2>3. \A t \in held : t.key = key
      BY <2>1, <2>2
    <2>4. ASSUME NEW t \in held
          PROVE  t \in SharesOf(key)
      <3>1. PICK k : t \in SharesOf(k)
        OBVIOUS
      <3>2. t.key = k
        BY <3>1 DEF SharesOf
      <3> QED
        BY <2>3, <3>1, <3>2
    <2> QED
      BY <2>1, <2>4
  <1> QED
    BY <1>1, <1>2

(* There are N of them.                                                    *)
LEMMA SharesCount ==
    ASSUME NEW key
    PROVE  Cardinality(SharesOf(key)) = N
  <1> DEFINE f == [x \in 1..N |-> [key |-> key, x |-> x]]
             S == SharesOf(key)
  <1>1. IsFiniteSet(1..N) /\ Cardinality(1..N) = N
    BY FS_Interval, ThresholdAssumption
  <1>2. \A a, c \in 1..N : f[a] = f[c] => a = c
    <2> SUFFICES ASSUME NEW a \in 1..N, NEW c \in 1..N, f[a] = f[c]
                 PROVE  a = c
      OBVIOUS
    <2>1. f[a].x = a /\ f[c].x = c
      OBVIOUS
    <2> QED
      BY <2>1
  <1>3. f \in [1..N -> S]
    BY DEF SharesOf
  <1>4. \A s \in S : \E x \in 1..N : f[x] = s
    BY DEF SharesOf
  <1> HIDE DEF f, S
  <1>5. f \in Bijection(1..N, S)
    BY <1>2, <1>3, <1>4 DEF Bijection, Injection, Surjection, IsInjective
  <1>6. ExistsBijection(1..N, S)
    BY <1>5 DEF ExistsBijection
  <1>7. Cardinality(S) = N
    BY <1>1, <1>6, FS_Bijection
  <1> QED
    BY <1>7 DEF S

(* The credential an author hands out opens the module.                    *)
LEMMA RightCredentialOpens ==
    ASSUME NEW m, m.seal \in Lineages, m.seal = "recipients" => Recipients # {},
           NEW n, ContentKey(m.slot, n) # NoKey, NEW b,
           m.seal = "threshold" => b.shares[m.slot] = ContentKey(m.slot, n)
    PROVE  Unseal(m.slot, Mode(m), SealModule(m, n), RightCredential(m, b)) = m.obj
  <1> DEFINE bytes == SealModule(m, n)
             cred == RightCredential(m, b)
  <1>1. bytes.frames = Frames(m, n) /\ bytes.aad = IF m.seal = "plain" THEN NoKey ELSE m.slot
    BY DEF SealModule
  <1>2. CASE m.seal = "plain"
    <2>1. Frames(m, n)[1].obj = m.obj
      BY <1>2 DEF Frames, Frame
    <2> QED
      BY <1>1, <1>2, <2>1 DEF Unseal, Mode
  <1>3. CASE m.seal \in {"password", "decoy"}
    <2>1. /\ Len(Frames(m, n)) = 2 /\ Frames(m, n)[1].key = PasswordKey(Password)
          /\ Frames(m, n)[1].obj = m.obj
      BY <1>3 DEF Frames, Frame
    <2>2. cred.password = Password /\ Mode(m) = "password"
      BY <1>3 DEF RightCredential, Credential, Mode
    <2> HIDE DEF bytes, cred
    <2>3. /\ Len(bytes.frames) \in Nat /\ Len(bytes.frames) >= 1
          /\ bytes.frames[1].key = PasswordKey(Password) /\ bytes.frames[1].obj = m.obj
      BY <1>1, <2>1
    <2>4. Open(bytes, PasswordKey(Password), bytes.aad) = m.obj
      BY <2>3, OpenFirst
    <2>5. bytes.aad = m.slot
      BY <1>1, <1>3
    <2> QED
      BY <2>2, <2>4, <2>5, PasswordsDiffer DEF Unseal, bytes, cred
  <1>4. CASE m.seal = "recipients"
    <2>1. /\ Len(Frames(m, n)) = 1 /\ Frames(m, n)[1].key = RecipientKey
          /\ Frames(m, n)[1].obj = m.obj
      BY <1>4 DEF Frames, Frame
    <2>2. cred.private \in Recipients /\ Mode(m) = "recipients"
      BY <1>4 DEF RightCredential, Credential, Mode
    <2> HIDE DEF bytes, cred
    <2>3. Open(bytes, RecipientKey, bytes.aad) = m.obj
      BY <1>1, <2>1, OpenFirst
    <2>4. bytes.aad = m.slot
      BY <1>1, <1>4
    <2> QED
      BY <2>2, <2>3, <2>4 DEF Unseal, bytes, cred
  <1>5. CASE m.seal = "threshold"
    <2> DEFINE key == ContentKey(m.slot, n)
    <2>1. /\ Len(Frames(m, n)) = 1 /\ Frames(m, n)[1].key = key
          /\ Frames(m, n)[1].obj = m.obj
      BY <1>5 DEF Frames, Frame
    <2>2. cred.shares = SharesOf(key) /\ Mode(m) = "threshold"
      BY <1>5 DEF RightCredential, Credential, Mode
    <2>3. key # NoKey
      OBVIOUS
    <2> HIDE DEF bytes, cred, key
    <2>4. Combine(cred.shares) = key
      BY <2>2, SharesCombine, SharesCount, ThresholdAssumption
    <2>5. Open(bytes, key, bytes.aad) = m.obj
      BY <1>1, <2>1, OpenFirst
    <2>6. bytes.aad = m.slot
      BY <1>1, <1>5
    <2> QED
      BY <2>2, <2>3, <2>4, <2>5, <2>6 DEF Unseal, bytes, cred
  <1> QED
    BY <1>2, <1>3, <1>4, <1>5 DEF Lineages

(* The decoy password opens the decoy.                                     *)
LEMMA DecoyOpens ==
    ASSUME NEW m, NEW n, m.seal = "decoy"
    PROVE  Unseal(m.slot, Mode(m), SealModule(m, n), Credential(DecoyPassword, NoKey, {}))
             = DecoyObject
  <1> DEFINE bytes == SealModule(m, n)
  <1>1. bytes.frames = Frames(m, n) /\ bytes.aad = m.slot
    BY DEF SealModule
  <1>2. /\ Len(Frames(m, n)) = 2 /\ Frames(m, n)[1].key = PasswordKey(Password)
        /\ Frames(m, n)[2].key = PasswordKey(DecoyPassword)
        /\ Frames(m, n)[2].obj = DecoyObject
    BY DEF Frames, Frame
  <1>3. PasswordKey(Password) # PasswordKey(DecoyPassword)
    BY PasswordsDiffer DEF PasswordKey
  <1> HIDE DEF bytes
  <1>4. Open(bytes, PasswordKey(DecoyPassword), bytes.aad) = DecoyObject
    BY <1>1, <1>2, <1>3, OpenSecond
  <1>5. Mode(m) = "password"
    BY DEF Mode
  <1> QED
    BY <1>1, <1>4, <1>5, PasswordsDiffer DEF Unseal, Credential, bytes

(* A key that fits no frame of a threshold module opens nothing.           *)
LEMMA OpenThreshold ==
    ASSUME NEW m, m.seal = "threshold", m.obj # Refused, NEW n, NEW key
    PROVE  Open(SealModule(m, n), key, m.slot) # Refused <=> key = ContentKey(m.slot, n)
  <1> DEFINE bytes == SealModule(m, n)
  <1>1. bytes.frames = Frames(m, n) /\ bytes.aad = m.slot
    BY DEF SealModule
  <1>2. /\ Len(Frames(m, n)) = 1 /\ Frames(m, n)[1].key = ContentKey(m.slot, n)
        /\ Frames(m, n)[1].obj = m.obj
    BY DEF Frames, Frame
  <1> HIDE DEF bytes
  <1>3. CASE key = ContentKey(m.slot, n)
    <2>1. Open(bytes, key, bytes.aad) = m.obj
      BY <1>1, <1>2, <1>3, OpenFirst
    <2> QED
      BY <1>1, <1>3, <2>1 DEF bytes
  <1>4. CASE key # ContentKey(m.slot, n)
    <2>1. \A i \in 1..Len(bytes.frames) : bytes.frames[i].key # key
      BY <1>1, <1>2, <1>4
    <2>2. Open(bytes, key, m.slot) = Refused
      BY <2>1 DEF Open
    <2> QED
      BY <1>4, <2>2 DEF bytes
  <1> QED
    BY <1>3, <1>4

(* A ciphertext opens under a password only in the slot it is bound to.    *)
LEMMA OpensInItsSlot ==
    ASSUME NEW m, NEW n, NEW slot, slot # NoKey, NEW key,
           Open(SealModule(m, n), key, slot) # Refused
    PROVE  m.slot = slot
  <1>1. SealModule(m, n).aad = slot
    BY DEF Open
  <1>2. SealModule(m, n).aad = NoKey \/ SealModule(m, n).aad = m.slot
    BY DEF SealModule
  <1> QED
    BY <1>1, <1>2

-----------------------------------------------------------------------------
(* What a signature is worth.  Every signature of an author's key to be    *)
(* found in a manifest, wherever it was moved to, is over the body of some *)
(* finished build that the key vouches for.                                *)

\* Of a signature value and a history of builds.
Known(sig, B) ==
    \A key \in Authors : \A body :
        sig = Signature(key, body) =>
            \E i \in DOMAIN B :
                /\ Vouches(key, B[i])
                /\ body = CanonicalBody(ManifestOf(B[i].pkg))

Honest(m, B) ==
    /\ DOMAIN m = {"records", "surface", "publicKey", "signature", "cosignatures",
                   "algorithm"}
    /\ m.signature = NoSignature \/ Known(m.signature, B)
    /\ IsSeq(m.cosignatures)
    /\ \A i \in DOMAIN m.cosignatures : Known(m.cosignatures[i].value, B)

(* A stranger's signature is no author's.                                  *)
LEMMA StrangerKnown ==
    ASSUME NEW body, NEW B
    PROVE  Known(Signature(Stranger, body), B)
  BY SignersAssumption DEF Known, Signature

\* A manifest with other signatures, or with other contents under the same.
SameSignatures(m, e) ==
    /\ DOMAIN e = DOMAIN m
    /\ e.signature = m.signature /\ e.cosignatures = m.cosignatures

(* Contents do not matter to the invariant, only signatures do.            *)
LEMMA SameSignaturesHonest ==
    ASSUME NEW m, NEW e, NEW B, Honest(m, B), SameSignatures(m, e)
    PROVE  Honest(e, B)
  BY DEF Honest, SameSignatures

(* An editor without an author's key adds no author's signature.           *)
LEMMA ManifestEditsHonest ==
    ASSUME NEW m, NEW B, Honest(m, B), NEW e,
           \/ e \in UNION {DropRecord(m), SwapRecords(m), StripSignature(m),
                           DeclareAlgorithm(m), SignAsStranger(m), AddCosignature(m),
                           PromoteCosignature(m)}
           \/ Honest(e, B)
    PROVE  Honest(e, B)
  <1>1. CASE e \in DropRecord(m) \/ e \in SwapRecords(m) \/ e \in DeclareAlgorithm(m)
    <2>1. ASSUME e \in DropRecord(m)
          PROVE  SameSignatures(m, e)
      BY <2>1 DEF DropRecord, SameSignatures, Honest
    <2>2. ASSUME e \in SwapRecords(m)
          PROVE  SameSignatures(m, e)
      BY <2>2 DEF SwapRecords, SameSignatures, Honest
    <2>3. ASSUME e \in DeclareAlgorithm(m)
          PROVE  SameSignatures(m, e)
      BY <2>3 DEF DeclareAlgorithm, SameSignatures, Honest
    <2> QED
      BY <1>1, <2>1, <2>2, <2>3, SameSignaturesHonest
  <1>2. CASE e \in StripSignature(m)
    BY <1>2 DEF StripSignature, Honest
  <1>3. CASE e \in SignAsStranger(m)
    <2> DEFINE sig == Signature(Stranger, CanonicalBody(m))
    <2>1. e = [m EXCEPT !.publicKey = Stranger, !.signature = sig]
      BY <1>3 DEF SignAsStranger
    <2>2. Known(sig, B)
      BY StrangerKnown
    <2> HIDE DEF sig
    <2> QED
      BY <2>1, <2>2 DEF Honest
  <1>4. CASE e \in AddCosignature(m)
    <2>1. PICK k : e = [m EXCEPT !.cosignatures =
                          Append(@, [publicKey |-> k,
                                     value |-> Signature(Stranger, CanonicalBody(m))])]
      BY <1>4 DEF AddCosignature
    <2> DEFINE c == [publicKey |-> k, value |-> Signature(Stranger, CanonicalBody(m))]
    <2>2. DOMAIN e = DOMAIN m /\ e.signature = m.signature
            /\ e.cosignatures = Append(m.cosignatures, c)
      BY <2>1 DEF Honest
    <2>3. Known(c.value, B)
      BY StrangerKnown
    <2> HIDE DEF c
    <2>4. /\ IsSeq(e.cosignatures)
          /\ \A i \in DOMAIN e.cosignatures :
                e.cosignatures[i] = c \/ \E j \in DOMAIN m.cosignatures :
                                            e.cosignatures[i] = m.cosignatures[j]
      BY <2>2, AppendIsSeq, SeqShape DEF Honest
    <2>5. \A i \in DOMAIN e.cosignatures : Known(e.cosignatures[i].value, B)
      BY <2>3, <2>4 DEF Honest
    <2> QED
      BY <2>2, <2>4, <2>5 DEF Honest
  <1>5. CASE e \in PromoteCosignature(m)
    BY <1>5 DEF PromoteCosignature, Honest
  <1> QED
    BY <1>1, <1>2, <1>3, <1>4, <1>5

(* One build more: what was known stays known.                             *)
LEMMA KnownGrows ==
    ASSUME NEW B, IsSeq(B), NEW b, NEW sig, Known(sig, B)
    PROVE  Known(sig, Append(B, b))
  <1>1. /\ DOMAIN B \subseteq DOMAIN Append(B, b)
        /\ \A i \in DOMAIN B : Append(B, b)[i] = B[i]
    BY AppendIsSeq, SeqShape
  <1> QED
    BY <1>1 DEF Known

(* A manifest that was fine is fine after one more build.                  *)
LEMMA HonestGrows ==
    ASSUME NEW B, IsSeq(B), NEW b, NEW m, Honest(m, B)
    PROVE  Honest(m, Append(B, b))
  BY KnownGrows DEF Honest

(* The signatures a build makes are vouched for by the build itself.       *)
LEMMA SignedIsHonest ==
    ASSUME NEW B, IsSeq(B), NEW b, IsSeq(b.cosigners), NEW m, m = ManifestOf(b.pkg),
           DOMAIN m = {"records", "surface", "publicKey", "signature", "cosignatures",
                       "algorithm"},
           m.signature = NoSignature
             \/ m.signature = Signature(b.signer, CanonicalBody(m)),
           m.cosignatures = [i \in DOMAIN b.cosigners |->
                               [publicKey |-> b.cosigners[i],
                                value |-> Signature(b.cosigners[i], CanonicalBody(m))]]
    PROVE  Honest(m, Append(B, b))
  <1> DEFINE D == Append(B, b)
             body == CanonicalBody(m)
  <1>1. Len(B) + 1 \in DOMAIN D /\ D[Len(B) + 1] = b
    <2>1. Len(B) \in Nat /\ DOMAIN D = 1..Len(D) /\ Len(D) = Len(B) + 1
      BY AppendIsSeq, SeqShape
    <2> QED
      BY <2>1, AppendIsSeq
  <1> HIDE DEF D
  <1>2. ASSUME NEW key, Vouches(key, b)
        PROVE  Known(Signature(key, body), D)
    BY <1>1, <1>2 DEF Known, Signature
  <1>3. m.signature = NoSignature \/ Known(m.signature, D)
    BY <1>2 DEF Vouches
  <1> HIDE DEF body
  <1>4. m.cosignatures = [i \in DOMAIN b.cosigners |->
                            [publicKey |-> b.cosigners[i],
                             value |-> Signature(b.cosigners[i], body)]]
    BY DEF body
  <1>5. \A i \in DOMAIN m.cosignatures : Known(m.cosignatures[i].value, D)
    BY <1>2, <1>4 DEF Vouches
  <1>6. IsSeq(m.cosignatures)
    <2>1. Len(b.cosigners) \in Nat /\ DOMAIN b.cosigners = 1..Len(b.cosigners)
      BY SeqShape
    <2>2. m.cosignatures \in [1..Len(b.cosigners) ->
              {m.cosignatures[i] : i \in 1..Len(b.cosigners)}]
      BY <1>4, <2>1
    <2> QED
      BY <2>1, <2>2, FunctionIsSeq
  <1> QED
    BY <1>3, <1>5, <1>6 DEF Honest, D

(* A key whose signature or co-signature verifies vouches for a build with *)
(* the records and the surface of the manifest.                            *)
LEMMA VerifiedIsVouchedFor ==
    ASSUME NEW m, NEW B, Honest(m, B), NEW key \in Authors,
           \/ VerifySignature(m) /\ m.publicKey = key
           \/ key \in ValidCosigners(m)
    PROVE  \E i \in DOMAIN B :
              /\ Vouches(key, B[i])
              /\ m.records = ManifestOf(B[i].pkg).records
              /\ m.surface = ManifestOf(B[i].pkg).surface
  <1>1. Known(Signature(key, CanonicalBody(m)), B)
    <2>1. CASE VerifySignature(m) /\ m.publicKey = key
      BY <2>1 DEF VerifySignature, IsSigned, Honest
    <2>2. CASE key \in ValidCosigners(m)
      BY <2>2 DEF ValidCosigners, Honest
    <2> QED
      BY <2>1, <2>2
  <1>2. PICK i \in DOMAIN B :
            Vouches(key, B[i]) /\ CanonicalBody(m) = CanonicalBody(ManifestOf(B[i].pkg))
    BY <1>1 DEF Known
  <1>3. /\ m.records = ManifestOf(B[i].pkg).records
        /\ m.surface = ManifestOf(B[i].pkg).surface
    BY <1>2 DEF CanonicalBody
  <1> QED
    BY <1>2, <1>3


-----------------------------------------------------------------------------
(* What is hashed.                                                         *)

(* Where no part reads like more than itself, a stream of entries is of    *)
(* one package only.                                                       *)
LEMMA FramedEntries ==
    ASSUME NEW P, NEW X, NEW E, NEW Q, NEW Y, NEW F,
           Framed(P), Framed(Q), Entries(P, X, E) = Entries(Q, Y, F)
    PROVE  /\ DOMAIN P = DOMAIN Q /\ \A n \in DOMAIN P : P[n] = Q[n]
           /\ DOMAIN X = DOMAIN Y /\ \A n \in DOMAIN X : X[n] = Y[n]
           /\ DOMAIN E = DOMAIN F /\ \A e \in DOMAIN E : E[e] = F[e]
  <1>1. ASSUME NEW p, NEW x, NEW e, Framed(p), NEW z
        PROVE  z \in Entries(p, x, e) <=>
                  \/ \E n \in DOMAIN p : z = <<"part", n, p[n]>>
                  \/ \E n \in DOMAIN x : z = <<"type", n, x[n]>>
                  \/ \E n \in DOMAIN e : z = <<"edge", n, e[n]>>
    <2>1. \A n \in DOMAIN p : PartEntries(n, p[n]) = {<<"part", n, p[n]>>}
      BY <1>1 DEF Framed, PartEntries, OwnOf, ThenOf
    <2> DEFINE U == UNION {PartEntries(n, p[n]) : n \in DOMAIN p}
               V == {<<"type", n, x[n]>> : n \in DOMAIN x}
               W == {<<"edge", n, e[n]>> : n \in DOMAIN e}
    <2>2. z \in U <=> \E n \in DOMAIN p : z = <<"part", n, p[n]>>
      BY <2>1
    <2>3. z \in V <=> \E n \in DOMAIN x : z = <<"type", n, x[n]>>
      OBVIOUS
    <2>4. z \in W <=> \E n \in DOMAIN e : z = <<"edge", n, e[n]>>
      OBVIOUS
    <2>5. Entries(p, x, e) = U \cup V \cup W
      BY Zenon DEF Entries
    <2> HIDE DEF U, V, W
    <2> QED
      BY <2>2, <2>3, <2>4, <2>5
  <1>2. ASSUME NEW p, NEW x, NEW e, Framed(p), NEW q, NEW y, NEW f, Framed(q),
               Entries(p, x, e) = Entries(q, y, f)
        PROVE  /\ \A n \in DOMAIN p : n \in DOMAIN q /\ p[n] = q[n]
               /\ \A n \in DOMAIN x : n \in DOMAIN y /\ x[n] = y[n]
               /\ \A n \in DOMAIN e : n \in DOMAIN f /\ e[n] = f[n]
    <2>1. ASSUME NEW n \in DOMAIN p
          PROVE  n \in DOMAIN q /\ p[n] = q[n]
      <3>1. <<"part", n, p[n]>> \in Entries(q, y, f)
        BY <1>1, <1>2
      <3> QED
        BY <1>1, <1>2, <3>1
    <2>2. ASSUME NEW n \in DOMAIN x
          PROVE  n \in DOMAIN y /\ x[n] = y[n]
      <3>1. <<"type", n, x[n]>> \in Entries(q, y, f)
        BY <1>1, <1>2
      <3> QED
        BY <1>1, <1>2, <3>1
    <2>3. ASSUME NEW n \in DOMAIN e
          PROVE  n \in DOMAIN f /\ e[n] = f[n]
      <3>1. <<"edge", n, e[n]>> \in Entries(q, y, f)
        BY <1>1, <1>2
      <3> QED
        BY <1>1, <1>2, <3>1
    <2> QED
      BY <2>1, <2>2, <2>3
  <1>3. /\ \A n \in DOMAIN P : n \in DOMAIN Q /\ P[n] = Q[n]
        /\ \A n \in DOMAIN X : n \in DOMAIN Y /\ X[n] = Y[n]
        /\ \A n \in DOMAIN E : n \in DOMAIN F /\ E[n] = F[n]
    BY <1>2
  <1>4. /\ \A n \in DOMAIN Q : n \in DOMAIN P
        /\ \A n \in DOMAIN Y : n \in DOMAIN X
        /\ \A n \in DOMAIN F : n \in DOMAIN E
    BY <1>2
  <1> QED
    BY <1>3, <1>4

(* So has an OOXML package, the manifest left out.                         *)
LEMMA FramedSurface ==
    ASSUME NEW p, NEW q, Framed(Without(p.parts, MANIFEST)), Framed(Without(q.parts, MANIFEST)),
           SurfaceDigest(p) = SurfaceDigest(q)
    PROVE  Surface(p) = Surface(q)
  <1> DEFINE P == Without(p.parts, MANIFEST)
             X == Without(p.types, MANIFEST)
             E == EdgeCounts(p)
             Q == Without(q.parts, MANIFEST)
             Y == Without(q.types, MANIFEST)
             F == EdgeCounts(q)
  <1>1. /\ DOMAIN P = DOMAIN Q /\ \A n \in DOMAIN P : P[n] = Q[n]
        /\ DOMAIN X = DOMAIN Y /\ \A n \in DOMAIN X : X[n] = Y[n]
        /\ DOMAIN E = DOMAIN F /\ \A e \in DOMAIN E : E[e] = F[e]
    <2> HIDE DEF P, X, E, Q, Y, F
    <2> QED
      BY FramedEntries DEF SurfaceDigest, P, X, E, Q, Y, F
  <1>2. /\ P = [n \in DOMAIN P |-> P[n]] /\ Q = [n \in DOMAIN Q |-> Q[n]]
        /\ X = [n \in DOMAIN X |-> X[n]] /\ Y = [n \in DOMAIN Y |-> Y[n]]
    BY DEF Without
  <1>3. E = [n \in DOMAIN E |-> E[n]] /\ F = [n \in DOMAIN F |-> F[n]]
    BY DEF EdgeCounts
  <1> HIDE DEF P, X, E, Q, Y, F
  <1>4. P = Q /\ X = Y /\ E = F
    BY <1>1, <1>2, <1>3
  <1> QED
    BY <1>4 DEF Surface, P, X, E, Q, Y, F
=============================================================================

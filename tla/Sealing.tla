------------------------------- MODULE Sealing -------------------------------
(***************************************************************************)
(* The sealing lineages (seal_module) and their inverse (_unseal), over    *)
(* ideal cryptography: an envelope opens under the key and the associated  *)
(* data it was made with and under nothing else.  The associated data is   *)
(* the module's slot.  Stored bytes are a record of framed envelopes, the  *)
(* slot they are bound to, and a number n that stands for the salts and    *)
(* nonces drawn while sealing: two sealings of one object differ in it.    *)
(***************************************************************************)
EXTENDS Integers, Sequences, FiniteSets, Channels

CONSTANTS Password,       \* the password of every password module
          DecoyPassword,  \* the second password of a decoy module
          Recipients,     \* the private keys a recipients module is sealed to
          DecoyObject,    \* what the decoy password opens
          K, N,           \* threshold: any K of N shares
          NoKey           \* absence of a key, credential, slot or object

ASSUME ThresholdAssumption == K \in Nat /\ N \in Nat /\ 1 <= K /\ K <= N
ASSUME PasswordsAssumption == Cardinality({Password, DecoyPassword, NoKey}) = 3

Lineages == {"plain", "password", "decoy", "recipients", "threshold"}

PasswordKey(pw) == <<"password", pw>>
RecipientKey    == <<"recipients", Recipients>>

\* The key drawn by _random_key for a threshold module, fresh in each sealing.
ContentKey(slot, n) == <<"content", slot, n>>

Frame(key, obj) == [key |-> key, obj |-> obj]

\* A password module carries a second frame nobody can open, so that it
\* looks like a decoy module.
Frames(m, n) ==
    CASE m.seal = "plain"      -> << Frame(NoKey, m.obj) >>
      [] m.seal = "password"   -> << Frame(PasswordKey(Password), m.obj),
                                     Frame(NoKey, NoKey) >>
      [] m.seal = "decoy"      -> << Frame(PasswordKey(Password), m.obj),
                                     Frame(PasswordKey(DecoyPassword), DecoyObject) >>
      [] m.seal = "recipients" -> << Frame(RecipientKey, m.obj) >>
      [] m.seal = "threshold"  -> << Frame(ContentKey(m.slot, n), m.obj) >>

SealModule(m, n) ==
    IF m.seal = "plain"
    THEN [frames |-> Frames(m, n), aad |-> NoKey, n |-> 0]
    ELSE [frames |-> Frames(m, n), aad |-> m.slot, n |-> n]

\* What the manifest says of the sealing: a decoy is recorded as a password.
Mode(m) == IF m.seal = "decoy" THEN "password" ELSE m.seal

-----------------------------------------------------------------------------
(* Opening.  A credential offers a password, a private key and shares.     *)

Credential(pw, priv, shares) == [password |-> pw, private |-> priv, shares |-> shares]

\* A share of a content key, as split issues it.
SharesOf(key) == {[key |-> key, x |-> x] : x \in 1..N}

\* Mutant: any one share stands for the key.
CombineAny(shares) ==
    IF shares # {} THEN (CHOOSE s \in shares : TRUE).key ELSE NoKey

\* combine interpolates whatever it is given: fewer than K shares, or shares
\* of different splits, yield a key that opens nothing.
Combine(shares) ==
    IF Cardinality(shares) >= K /\ \E s \in shares : \A t \in shares : t.key = s.key
    THEN (CHOOSE s \in shares : TRUE).key
    ELSE NoKey

\* Mutant: the associated data is not checked.
OpenAnySlot(bytes, key, aad) ==
    LET hits == {i \in 1..Len(bytes.frames) : bytes.frames[i].key = key}
    IN  IF hits = {} THEN Refused
        ELSE bytes.frames[CHOOSE i \in hits : \A j \in hits : i <= j].obj

\* The object of the first frame that opens under this key and this slot;
\* every frame is tried.
Open(bytes, key, aad) ==
    LET hits == {i \in 1..Len(bytes.frames) :
                    bytes.aad = aad /\ bytes.frames[i].key = key}
    IN  IF hits = {} THEN Refused
        ELSE bytes.frames[CHOOSE i \in hits : \A j \in hits : i <= j].obj

\* The credential a mode asks for, refused when it is missing.
Unseal(slot, mode, bytes, cred) ==
    CASE mode = "plain" -> bytes.frames[1].obj
      [] mode = "password" ->
            IF cred.password = NoKey THEN Refused
            ELSE Open(bytes, PasswordKey(cred.password), slot)
      [] mode = "recipients" ->
            IF cred.private \notin Recipients THEN Refused
            ELSE Open(bytes, RecipientKey, slot)
      [] mode = "threshold" ->
            IF Combine(cred.shares) = NoKey THEN Refused
            ELSE Open(bytes, Combine(cred.shares), slot)

\* The credential the author of a module hands to its reader.
RightCredential(m, b) ==
    CASE m.seal = "plain" -> Credential(NoKey, NoKey, {})
      [] m.seal \in {"password", "decoy"} -> Credential(Password, NoKey, {})
      [] m.seal = "recipients" ->
            Credential(NoKey, CHOOSE r \in Recipients : TRUE, {})
      [] m.seal = "threshold" -> Credential(NoKey, NoKey, SharesOf(b.shares[m.slot]))
=============================================================================

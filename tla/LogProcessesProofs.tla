-------------------------- MODULE LogProcessesProofs --------------------------
(***************************************************************************)
(* What the operators of TransparencyLog determine of a log; what          *)
(* verify-transparency with a pinned signer is worth, for any number of    *)
(* appending commands, crashes, edits and rollbacks; and that commands run *)
(* one at a time publish an append-only log.                               *)
(***************************************************************************)
EXTENDS LogProcesses, SequenceTheorems, TLAPS

-----------------------------------------------------------------------------
(* Sequences whose elements may be anything, as the logs are.              *)

\* A sequence, whatever its elements are.
IsSeq(s) == \E S : s \in Seq(S)

(* A function on 1..n is a sequence of length n.                           *)
LEMMA FunctionIsSeq ==
    ASSUME NEW n \in Nat, NEW T, NEW s \in [1..n -> T]
    PROVE  IsSeq(s) /\ Len(s) = n
  <1>1. s \in Seq(T)
    BY SeqDef
  <1>2. Len(s) = n
    BY <1>1, LenProperties
  <1> QED
    BY <1>1, <1>2 DEF IsSeq

(* A sequence has a length, and is a function on the indices up to it.     *)
LEMMA SeqShape ==
    ASSUME NEW s, IsSeq(s)
    PROVE  Len(s) \in Nat /\ DOMAIN s = 1..Len(s) /\ s = [i \in 1..Len(s) |-> s[i]]
  <1>1. PICK S : s \in Seq(S)
    BY DEF IsSeq
  <1>2. Len(s) \in Nat /\ s \in [1..Len(s) -> S]
    BY <1>1, LenProperties
  <1> QED
    BY <1>2

(* The empty sequence is one.                                              *)
LEMMA EmptyIsSeq == IsSeq(<<>>) /\ Len(<<>>) = 0
  BY EmptySeq DEF IsSeq

(* Appending keeps what was there and adds one element at the end.         *)
LEMMA AppendIsSeq ==
    ASSUME NEW s, IsSeq(s), NEW e
    PROVE  /\ IsSeq(Append(s, e))
           /\ Len(Append(s, e)) = Len(s) + 1
           /\ \A i \in 1..Len(s) : Append(s, e)[i] = s[i]
           /\ Append(s, e)[Len(s) + 1] = e
  <1>1. PICK S : s \in Seq(S)
    BY DEF IsSeq
  <1> DEFINE T == S \cup {e}
  <1>2. s \in Seq(T) /\ e \in T
    BY <1>1, SeqMonotonic
  <1>3. /\ Append(s, e) \in Seq(T)
        /\ Len(Append(s, e)) = Len(s) + 1
        /\ \A i \in 1..Len(s) : Append(s, e)[i] = s[i]
        /\ Append(s, e)[Len(s) + 1] = e
    BY <1>2, AppendProperties, LenProperties
  <1> QED
    BY <1>3 DEF IsSeq

(* One element replaced: still a sequence.                                 *)
LEMMA ExceptIsSeq ==
    ASSUME NEW s, IsSeq(s), NEW n, NEW e
    PROVE  IsSeq([s EXCEPT ![n] = e]) /\ Len([s EXCEPT ![n] = e]) = Len(s)
  <1>1. Len(s) \in Nat /\ DOMAIN s = 1..Len(s)
    BY SeqShape
  <1>2. [s EXCEPT ![n] = e] \in [1..Len(s) -> {s[i] : i \in 1..Len(s)} \cup {e}]
    BY <1>1
  <1> QED
    BY <1>1, <1>2, FunctionIsSeq

(* The first n elements are a sequence.                                   *)
LEMMA PrefixIsSeq ==
    ASSUME NEW s, IsSeq(s), NEW n \in 0..Len(s)
    PROVE  IsSeq(SubSeq(s, 1, n)) /\ Len(SubSeq(s, 1, n)) = n
           /\ \A i \in 1..n : SubSeq(s, 1, n)[i] = s[i]
  <1>1. PICK S : s \in Seq(S)
    BY DEF IsSeq
  <1>2. Len(s) \in Nat /\ \A i \in 1..n : s[i] \in S
    BY <1>1, LenProperties, ElementOfSeq
  <1> HIDE <1>1
  <1>3. /\ SubSeq(s, 1, n) \in Seq(S)
        /\ Len(SubSeq(s, 1, n)) = IF 1 <= n THEN n - 1 + 1 ELSE 0
        /\ \A i \in 1..(n - 1 + 1) : SubSeq(s, 1, n)[i] = s[1 + i - 1]
    BY <1>2, SubSeqProperties
  <1>4. Len(SubSeq(s, 1, n)) = n
    BY <1>2, <1>3
  <1>5. \A i \in 1..n : SubSeq(s, 1, n)[i] = s[i]
    BY <1>2, <1>3
  <1> QED
    BY <1>3, <1>4, <1>5 DEF IsSeq

-----------------------------------------------------------------------------
(* The operators yield sequences.                                          *)

(* The entries of a published log are a log of the same length.            *)
LEMMA EntriesIsSeq ==
    ASSUME NEW raw, IsSeq(raw)
    PROVE  IsSeq(Entries(raw)) /\ Len(Entries(raw)) = Len(raw)
  <1>1. Len(raw) \in Nat
    BY SeqShape
  <1>2. Entries(raw) \in [1..Len(raw) -> {raw[i].entry : i \in 1..Len(raw)}]
    BY DEF Entries
  <1> QED
    BY <1>1, <1>2, FunctionIsSeq

(* The published form of a log is a sequence of the same length.           *)
LEMMA ToJsonIsSeq ==
    ASSUME NEW log, IsSeq(log)
    PROVE  IsSeq(ToJson(log)) /\ Len(ToJson(log)) = Len(log)
  <1>1. Len(log) \in Nat
    BY SeqShape
  <1>2. ToJson(log) \in [1..Len(log) ->
            {[entry |-> log[i], hash |-> EntryHash(log[i])] : i \in 1..Len(log)}]
    BY DEF ToJson
  <1> QED
    BY <1>1, <1>2, FunctionIsSeq

(* A log with one entry more is a log.                                     *)
LEMMA AppendEntryIsSeq ==
    ASSUME NEW log, IsSeq(log), NEW data
    PROVE  IsSeq(AppendEntry(log, data))
  BY AppendIsSeq DEF AppendEntry

-----------------------------------------------------------------------------
(* What hashes determine.                                                  *)

(* Two logs of one length and one Merkle root are the same log.            *)
LEMMA RootDetermines ==
    ASSUME NEW a, NEW b, IsSeq(a), IsSeq(b), Len(a) = Len(b),
           MerkleTreeRoot(a) = MerkleTreeRoot(b)
    PROVE  a = b
  <1>1. ASSUME NEW i \in 1..Len(a)
        PROVE  a[i] = b[i]
    <2>1. MerkleTreeRoot(a)[i] = EntryHash(a[i]) /\ MerkleTreeRoot(b)[i] = EntryHash(b[i])
      BY DEF MerkleTreeRoot
    <2>2. EntryHash(a[i]) = EntryHash(b[i])
      BY <2>1
    <2> QED
      BY <2>2 DEF EntryHash
  <1> QED
    BY <1>1, SeqShape

(* A head that verifies under the pinned key over two logs is a head of    *)
(* one log: verify_signed_tree_head binds length and root together.        *)
LEMMA HeadDetermines ==
    ASSUME NEW a, NEW b, NEW sth, NEW key, IsSeq(a), IsSeq(b),
           VerifySignedTreeHead(a, sth, key),
           sth.signature.body = SthBody(Len(b), MerkleTreeRoot(b))
    PROVE  a = b
  <1>1. sth.signature.body = SthBody(Len(a), MerkleTreeRoot(a))
    BY DEF VerifySignedTreeHead, Signature
  <1>2. Len(a) = Len(b) /\ MerkleTreeRoot(a) = MerkleTreeRoot(b)
    BY <1>1 DEF SthBody
  <1> QED
    BY <1>2, RootDetermines

(* verify_consistency accepts the proof of an older log only in a log that *)
(* extends it: every entry of the older one is there, at its place.        *)
THEOREM ConsistencyMeansExtension ==
    ASSUME NEW old, NEW new, IsSeq(old), IsSeq(new),
           VerifyConsistency(new, ConsistencyProof(old))
    PROVE  Len(old) <= Len(new) /\ SubSeq(new, 1, Len(old)) = old
  <1>1. Len(old) \in Nat /\ Len(new) \in Nat
    BY SeqShape
  <1>2. Len(old) <= Len(new)
    BY DEF VerifyConsistency, ConsistencyProof
  <1>3. ASSUME NEW i \in 1..Len(old)
        PROVE  new[i] = old[i]
    <2>1. EntryHash(new[i]) = EntryHash(old[i])
      BY DEF VerifyConsistency, ConsistencyProof
    <2> QED
      BY <2>1 DEF EntryHash
  <1> DEFINE s == SubSeq(new, 1, Len(old))
  <1>4. IsSeq(s) /\ Len(s) = Len(old) /\ \A i \in 1..Len(old) : s[i] = new[i]
    BY <1>1, <1>2, PrefixIsSeq
  <1>5. s = old
    BY <1>3, <1>4, SeqShape
  <1> QED
    BY <1>2, <1>5

-----------------------------------------------------------------------------
(* Any number of commands, and writes by others: what a monitor accepts.   *)

\* A signature by the operator is over a log the operator signed.
Vouched(sth) ==
    sth.signature.key = Operator =>
        \E log \in signed : sth.signature.body = SthBody(Len(log), MerkleTreeRoot(log))

FilesOK ==
    /\ file.state \in {"absent", "torn", "whole"}
    /\ IsWhole(file) => IsSeq(file.body)
    /\ IsWhole(head) => Vouched(head.body)

\* A command holds a log from the moment it has loaded one, and has signed
\* it before it writes the head.
AppenderOK(c) ==
    /\ DOMAIN c = {"at", "log", "signs", "raced"}
    /\ c.at # "idle" => IsSeq(c.log)
    /\ c.at = "write head" => c.log \in signed

AppendersOK ==
    /\ DOMAIN proc = Appenders
    /\ \A p \in Appenders : AppenderOK(proc[p])

SignedOK == \A log \in signed : IsSeq(log)

\* A log past its head check was signed.
MonitorOK ==
    /\ DOMAIN monitor = {"at", "log", "anchored", "ok"}
    /\ monitor.at # "idle" => IsSeq(monitor.log)
    /\ monitor.at = "head" => monitor.anchored
    /\ monitor.at = "proof" /\ monitor.anchored /\ monitor.ok => monitor.log \in signed

\* The proof kept is the one of the log accepted last.
AcceptedOK ==
    /\ IsSeq(accepted)
    /\ \A i \in 1..Len(accepted) : IsSeq(accepted[i].log)
    /\ IF Len(accepted) = 0
       THEN ~IsWhole(kept)
       ELSE /\ IsWhole(kept)
            /\ kept.body = ConsistencyProof(accepted[Len(accepted)].log)

\* Inductive, and with the two properties in it.
IInv ==
    /\ FilesOK /\ AppendersOK /\ SignedOK /\ MonitorOK /\ AcceptedOK
    /\ AcceptedIsSigned /\ AcceptedOnlyGrows

MonitorInv == MonitorOK /\ AcceptedOK /\ AcceptedIsSigned /\ AcceptedOnlyGrows

-----------------------------------------------------------------------------
(* What from_json returns is a log, if the file holds a sequence.          *)
LEMMA LoadedIsSeq ==
    ASSUME FilesOK, NEW log \in Loaded(file)
    PROVE  IsSeq(log)
  BY EntriesIsSeq, EmptyIsSeq DEF Loaded, FilesOK, IsWhole, Absent, Torn, Whole

(* Heads the operator's key did not sign are of no account.                *)
LEMMA HeadVouched ==
    ASSUME NEW log
    PROVE  /\ log \in signed => Vouched(SignedTreeHead(log, Operator))
           /\ Vouched(SignedTreeHead(log, Stranger))
           /\ Vouched([SignedTreeHead(log, Stranger) EXCEPT !.public_key = Operator])
  BY KeysAssumption DEF Vouched, SignedTreeHead, Signature

(* The initial state satisfies the invariant.                              *)
LEMMA InitIInv == Init => IInv
  <1> SUFFICES ASSUME Init PROVE IInv
    OBVIOUS
  <1>1. FilesOK
    BY DEF Init, FilesOK, Absent, IsWhole
  <1>2. AppendersOK
    BY DEF Init, AppendersOK, AppenderOK, Resting
  <1>3. SignedOK
    BY DEF Init, SignedOK
  <1>4. MonitorOK
    BY DEF Init, MonitorOK, NotVerifying
  <1>5. Len(accepted) = 0 /\ IsSeq(accepted)
    BY EmptyIsSeq DEF Init
  <1>6. AcceptedOK
    BY <1>5 DEF Init, AcceptedOK, Absent, IsWhole
  <1>7. AcceptedIsSigned /\ AcceptedOnlyGrows
    BY <1>5 DEF AcceptedIsSigned, AcceptedOnlyGrows
  <1> QED
    BY <1>1, <1>2, <1>3, <1>4, <1>6, <1>7 DEF IInv

(* What the monitor knows survives any step that leaves its variables      *)
(* alone and unsigns nothing.                                              *)
LEMMA MonitorUndisturbed ==
    ASSUME IInv, UNCHANGED monitorVars, signed \subseteq signed'
    PROVE  MonitorInv'
  BY DEF IInv, monitorVars, MonitorInv, MonitorOK, AcceptedOK, AcceptedIsSigned,
         AcceptedOnlyGrows, IsPrefixOf, IsWhole, ConsistencyProof, MerkleTreeRoot

(* What a writer may have left in the file it wrote.                       *)
LEMMA WrittenIs ==
    ASSUME NEW p, NEW text, NEW f \in Written(p, text)
    PROVE  f = Whole(text) \/ f = Torn
  BY DEF Written

(* A process that is overtaken has lost nothing of its own.                *)
LEMMA OvertakeKeeps ==
    ASSUME NEW p \in Appenders, NEW q \in Appenders, NEW at, AppenderOK(proc[q])
    PROVE  AppenderOK(Overtake(p, at, q))
  BY DEF Overtake, AppenderOK

(* A command at rest holds nothing.                                        *)
LEMMA RestingOK == AppenderOK(Resting)
  BY DEF AppenderOK, Resting

-----------------------------------------------------------------------------
(* Steps of the appending commands.                                        *)

(* A command that has read the log holds a longer log, and nothing is      *)
(* written yet.                                                            *)
LEMMA LoadAndAppendIInv ==
    ASSUME IInv, NEW p \in Appenders, LoadAndAppend(p)
    PROVE  IInv'
  <1> USE DEF LoadAndAppend, IInv, fileVars, historyVars
  <1>1. PICK log \in Loaded(file), data \in Payloads, signs \in BOOLEAN :
            proc' = [proc EXCEPT ![p] =
                       [at |-> "truncate log", log |-> AppendEntry(log, data),
                        signs |-> signs, raced |-> FALSE]]
    OBVIOUS
  <1>2. IsSeq(AppendEntry(log, data))
    BY LoadedIsSeq, AppendEntryIsSeq
  <1>3. FilesOK' /\ SignedOK'
    BY DEF FilesOK, SignedOK, Vouched, IsWhole
  <1>4. AppendersOK'
    BY <1>1, <1>2 DEF AppendersOK, AppenderOK
  <1> QED
    BY <1>3, <1>4, MonitorUndisturbed DEF MonitorInv

(* An emptied log file is no log, and takes no signature away.             *)
LEMMA TruncateLogIInv ==
    ASSUME IInv, NEW p \in Appenders, TruncateLog(p)
    PROVE  IInv'
  <1> USE DEF TruncateLog, IInv, historyVars
  <1>1. FilesOK' /\ SignedOK'
    BY DEF FilesOK, SignedOK, Vouched, IsWhole, Torn
  <1>2. AppendersOK'
    BY DEF AppendersOK, AppenderOK
  <1> QED
    BY <1>1, <1>2, MonitorUndisturbed DEF MonitorInv

(* What is written to the log file is the log the command holds, or is     *)
(* torn.                                                                   *)
LEMMA WriteLogIInv ==
    ASSUME IInv, NEW p \in Appenders, WriteLog(p)
    PROVE  IInv'
  <1> USE DEF WriteLog, IInv
  <1>1. IsSeq(ToJson(proc[p].log))
    BY ToJsonIsSeq DEF AppendersOK, AppenderOK
  <1>2. file' = Whole(ToJson(proc[p].log)) \/ file' = Torn
    BY WrittenIs
  <1>3. file'.state \in {"absent", "torn", "whole"}
            /\ (file'.state = "whole" => IsSeq(file'.body))
    <2>1. CASE file' = Torn
      BY <2>1 DEF Torn
    <2>2. CASE file' = Whole(ToJson(proc[p].log))
      <3>1. file'.state = "whole" /\ file'.body = ToJson(proc[p].log)
        BY <2>2 DEF Whole
      <3> QED
        BY <1>1, <3>1
    <2> QED
      BY <1>2, <2>1, <2>2
  <1>4. FilesOK' /\ SignedOK'
    BY <1>3 DEF FilesOK, SignedOK, Vouched, IsWhole
  <1>5. ASSUME NEW q \in Appenders
        PROVE  AppenderOK(proc[q])'
    <2>1. AppenderOK(proc[q]) /\ AppenderOK(proc[p])
      BY DEF AppendersOK
    <2>2. CASE q # p
      <3>1. proc'[q] = Overtake(p, "write log", q)
        BY <2>2
      <3> QED
        BY <2>1, <3>1, OvertakeKeeps DEF AppenderOK
    <2>3. CASE q = p /\ ~proc[p].signs
      BY <2>3, RestingOK DEF AppenderOK
    <2>4. CASE q = p /\ proc[p].signs
      <3>1. proc'[q] = [proc[p] EXCEPT !.at = "truncate head", !.raced = FALSE]
        BY <2>4
      <3> QED
        BY <2>1, <3>1 DEF AppenderOK
    <2> QED
      BY <2>2, <2>3, <2>4
  <1>6. AppendersOK'
    BY <1>5 DEF AppendersOK
  <1> QED
    BY <1>4, <1>6, MonitorUndisturbed DEF MonitorInv

(* The log is signed before the file of its head is emptied.               *)
LEMMA TruncateHeadIInv ==
    ASSUME IInv, NEW p \in Appenders, TruncateHead(p)
    PROVE  IInv'
  <1> USE DEF TruncateHead, IInv
  <1>1. IsSeq(proc[p].log)
    BY DEF AppendersOK, AppenderOK
  <1>2. FilesOK' /\ SignedOK'
    BY <1>1 DEF FilesOK, SignedOK, Vouched, IsWhole, Torn
  <1>3. AppendersOK'
    BY DEF AppendersOK, AppenderOK
  <1> QED
    BY <1>2, <1>3, MonitorUndisturbed DEF MonitorInv

(* The head written is over a log signed before, or is torn.               *)
LEMMA WriteHeadIInv ==
    ASSUME IInv, NEW p \in Appenders, WriteHead(p)
    PROVE  IInv'
  <1> USE DEF WriteHead, IInv
  <1>1. Vouched(SignedTreeHead(proc[p].log, Operator))
    BY HeadVouched DEF AppendersOK, AppenderOK
  <1>2. head' = Whole(SignedTreeHead(proc[p].log, Operator)) \/ head' = Torn
    BY WrittenIs
  <1>3. head'.state = "whole" => Vouched(head'.body)
    <2>1. CASE head' = Torn
      BY <2>1 DEF Torn
    <2>2. CASE head' = Whole(SignedTreeHead(proc[p].log, Operator))
      <3>1. head'.body = SignedTreeHead(proc[p].log, Operator)
        BY <2>2 DEF Whole
      <3> QED
        BY <1>1, <3>1
    <2> QED
      BY <1>2, <2>1, <2>2
  <1>4. FilesOK' /\ SignedOK'
    BY <1>3 DEF FilesOK, SignedOK, Vouched, IsWhole
  <1>5. ASSUME NEW q \in Appenders
        PROVE  AppenderOK(proc[q])'
    <2>1. AppenderOK(proc[q])
      BY DEF AppendersOK
    <2>2. CASE q # p
      <3>1. proc'[q] = Overtake(p, "write head", q)
        BY <2>2
      <3> QED
        BY <2>1, <3>1, OvertakeKeeps DEF AppenderOK
    <2>3. CASE q = p
      BY <2>3, RestingOK DEF AppenderOK
    <2> QED
      BY <2>2, <2>3
  <1>6. AppendersOK'
    BY <1>5 DEF AppendersOK
  <1> QED
    BY <1>4, <1>6, MonitorUndisturbed DEF MonitorInv

(* A command that is killed leaves the files and the signatures as they    *)
(* are.                                                                    *)
LEMMA CrashIInv ==
    ASSUME IInv, NEW p \in Appenders, Crash(p)
    PROVE  IInv'
  <1> USE DEF Crash, IInv, fileVars, historyVars
  <1>1. FilesOK' /\ SignedOK'
    BY DEF FilesOK, SignedOK, Vouched, IsWhole
  <1>2. AppendersOK'
    BY RestingOK DEF AppendersOK, AppenderOK
  <1> QED
    BY <1>1, <1>2, MonitorUndisturbed DEF MonitorInv

-----------------------------------------------------------------------------
(* Writes by others.                                                       *)

(* Whatever the last entries are replaced by is a log.                     *)
LEMMA RewritingIsSeq ==
    ASSUME NEW log, IsSeq(log), NEW new \in Rewritings(log)
    PROVE  IsSeq(new)
  <1>1. ASSUME NEW l \in Prefixes(log)
        PROVE  IsSeq(l)
    BY PrefixIsSeq DEF Prefixes
  <1>2. CASE new \in Prefixes(log)
    BY <1>1, <1>2
  <1>3. CASE \E l \in Prefixes(log), data \in Payloads : new = AppendEntry(l, data)
    BY <1>1, <1>3, AppendEntryIsSeq
  <1> QED
    BY <1>2, <1>3 DEF Rewritings

(* An editor without the operator's key puts a sequence in the log file,   *)
(* and no new signature of the operator's in the head.                     *)
LEMMA EditIInv ==
    ASSUME IInv, Edit
    PROVE  IInv'
  <1> USE DEF Edit, IInv, historyVars
  <1>1. IsSeq(file.body)
    BY DEF FilesOK
  <1>2. ASSUME NEW raw \in EditTip(file.body), file' = Whole(raw)
        PROVE  IsSeq(file'.body) /\ file'.state = "whole"
    <2>1. PICK e : raw = [file.body EXCEPT ![Len(file.body)] = e]
      BY <1>2 DEF EditTip
    <2>2. IsSeq(raw)
      BY <1>1, <2>1, ExceptIsSeq
    <2> QED
      BY <1>2, <2>2 DEF Whole
  <1>3. ASSUME NEW log, IsSeq(log), file' = Whole(ToJson(log))
        PROVE  IsSeq(file'.body) /\ file'.state = "whole"
    BY <1>3, ToJsonIsSeq DEF Whole
  <1>4. ASSUME NEW log \in Rewritings(Entries(file.body))
        PROVE  IsSeq(log)
    BY <1>1, EntriesIsSeq, RewritingIsSeq
  <1>5. file'.state \in {"absent", "torn", "whole"}
            /\ (file'.state = "whole" => IsSeq(file'.body))
    BY <1>1, <1>2, <1>3, <1>4 DEF FilesOK, SignedOK, IsWhole
  <1>6. ASSUME NEW sth, Vouched(sth), head' = Whole(sth)
        PROVE  head'.state = "whole" => Vouched(head'.body)
    BY <1>6 DEF Whole
  <1>7. head'.state = "whole" => Vouched(head'.body)
    BY <1>6, HeadVouched DEF FilesOK, IsWhole
  <1>8. FilesOK' /\ SignedOK'
    BY <1>5, <1>7 DEF FilesOK, SignedOK, Vouched, IsWhole
  <1>9. AppendersOK'
    BY DEF AppendersOK, AppenderOK
  <1> QED
    BY <1>8, <1>9, MonitorUndisturbed DEF MonitorInv

(* An operator who rewrites the log signs what they wrote.                 *)
LEMMA RollbackIInv ==
    ASSUME IInv, Rollback
    PROVE  IInv'
  <1> USE DEF Rollback, IInv
  <1>1. PICK log \in Rewritings(Entries(file.body)) :
            /\ file' = Whole(ToJson(log))
            /\ head' = Whole(SignedTreeHead(log, Operator))
            /\ signed' = signed \cup {log}
    OBVIOUS
  <1>2. IsSeq(log)
    BY EntriesIsSeq, RewritingIsSeq DEF FilesOK
  <1>3. file'.state = "whole" /\ IsSeq(file'.body)
    BY <1>1, <1>2, ToJsonIsSeq DEF Whole
  <1>4. Vouched(head.body)'
    <2>1. head'.body = SignedTreeHead(log, Operator)
      BY <1>1 DEF Whole
    <2> QED
      BY <1>1, <2>1 DEF Vouched, SignedTreeHead, Signature
  <1>5. FilesOK' /\ SignedOK'
    BY <1>1, <1>2, <1>3, <1>4 DEF FilesOK, SignedOK, IsWhole
  <1>6. AppendersOK'
    BY <1>1 DEF AppendersOK, AppenderOK
  <1> QED
    BY <1>1, <1>5, <1>6, MonitorUndisturbed DEF MonitorInv

-----------------------------------------------------------------------------
(* Steps of the monitor, which writes none of the two files.               *)

(* What the monitor does not touch keeps its part of the invariant.        *)
LEMMA OthersUndisturbed ==
    ASSUME IInv, UNCHANGED <<fileVars, proc, historyVars>>
    PROVE  FilesOK' /\ AppendersOK' /\ SignedOK'
  BY DEF IInv, fileVars, historyVars, FilesOK, AppendersOK, AppenderOK, SignedOK,
         Vouched, IsWhole

(* The monitor goes by the log it has read, whatever becomes of the file.  *)
LEMMA VerifyLogIInv ==
    ASSUME IInv, NEW anchored \in BOOLEAN, VerifyLog(anchored)
    PROVE  IInv'
  <1> USE DEF VerifyLog, IInv
  <1>1. IsSeq(Entries(file.body))
    BY EntriesIsSeq DEF FilesOK
  <1>2. MonitorOK'
    BY <1>1 DEF MonitorOK, historyVars
  <1>3. AcceptedOK' /\ AcceptedIsSigned' /\ AcceptedOnlyGrows'
    BY DEF AcceptedOK, AcceptedIsSigned, AcceptedOnlyGrows, historyVars, IsWhole,
           IsPrefixOf, ConsistencyProof, MerkleTreeRoot
  <1> QED
    BY <1>2, <1>3, OthersUndisturbed

(* A head that verifies for the log in hand is over that very log, so that *)
(* the log was signed.                                                     *)
LEMMA VerifyHeadIInv ==
    ASSUME IInv, VerifyHead
    PROVE  IInv'
  <1> USE DEF VerifyHead, IInv
  <1>1. ASSUME IsWhole(head), VerifySignedTreeHead(monitor.log, head.body, Operator)
        PROVE  monitor.log \in signed
    <2>1. head.body.signature.key = Operator
      BY <1>1 DEF VerifySignedTreeHead, Signature
    <2>2. PICK log \in signed :
              head.body.signature.body = SthBody(Len(log), MerkleTreeRoot(log))
      BY <1>1, <2>1 DEF FilesOK, Vouched
    <2>3. IsSeq(monitor.log) /\ IsSeq(log)
      BY DEF MonitorOK, SignedOK
    <2> QED
      BY <1>1, <2>2, <2>3, HeadDetermines
  <1>2. MonitorOK'
    BY <1>1 DEF MonitorOK, NotVerifying, historyVars
  <1>3. AcceptedOK' /\ AcceptedIsSigned' /\ AcceptedOnlyGrows'
    BY DEF AcceptedOK, AcceptedIsSigned, AcceptedOnlyGrows, historyVars, IsWhole,
           IsPrefixOf, ConsistencyProof, MerkleTreeRoot
  <1> QED
    BY <1>2, <1>3, OthersUndisturbed

(* Accepting: the log extends the one the proof kept is of.                *)
LEMMA AcceptIInv ==
    ASSUME IInv, monitor.at = "proof", monitor.ok,
           IsWhole(kept) => VerifyConsistency(monitor.log, kept.body),
           kept' = Whole(ConsistencyProof(monitor.log)),
           accepted' = Append(accepted, [log |-> monitor.log,
                                         anchored |-> monitor.anchored]),
           UNCHANGED signed
    PROVE  AcceptedOK' /\ AcceptedIsSigned' /\ AcceptedOnlyGrows'
  <1> USE DEF IInv
  <1> DEFINE n == Len(accepted)
             a == [log |-> monitor.log, anchored |-> monitor.anchored]
  <1>1. n \in Nat /\ IsSeq(accepted) /\ IsSeq(monitor.log)
    BY SeqShape DEF AcceptedOK, MonitorOK
  <1>2. /\ IsSeq(accepted') /\ Len(accepted') = n + 1
        /\ \A i \in 1..n : accepted'[i] = accepted[i]
        /\ accepted'[n + 1] = a
    BY <1>1, AppendIsSeq
  <1>3. \A i \in 1..Len(accepted') : i \in 1..n \/ i = n + 1
    BY <1>1, <1>2
  <1>4. \A i \in 1..Len(accepted') : IsSeq(accepted'[i].log)
    BY <1>1, <1>2, <1>3 DEF AcceptedOK
  <1>5. IsWhole(kept') /\ kept'.body = ConsistencyProof(monitor.log)
    BY DEF IsWhole, Whole
  <1>6. AcceptedOK'
    <2>1. Len(accepted') # 0 /\ accepted'[Len(accepted')].log = monitor.log
      BY <1>1, <1>2
    <2>2. (IsWhole(kept)
            /\ kept.body = ConsistencyProof(accepted[Len(accepted)].log))'
      BY <1>5, <2>1 DEF IsWhole, ConsistencyProof, MerkleTreeRoot
    <2> QED
      BY <1>2, <1>4, <2>1, <2>2 DEF AcceptedOK
  <1>7. AcceptedIsSigned'
    BY <1>2, <1>3 DEF AcceptedIsSigned, MonitorOK
  <1>8. ASSUME n > 0
        PROVE  IsPrefixOf(accepted[n].log, monitor.log)
    <2>1. VerifyConsistency(monitor.log, ConsistencyProof(accepted[n].log))
      BY <1>1, <1>8 DEF AcceptedOK
    <2>2. IsSeq(accepted[n].log)
      BY <1>1, <1>8 DEF AcceptedOK
    <2> QED
      BY <1>1, <2>1, <2>2, ConsistencyMeansExtension DEF IsPrefixOf
  <1>9. ASSUME NEW i \in 1..(Len(accepted') - 1)
        PROVE  IsPrefixOf(accepted'[i].log, accepted'[i + 1].log)
    <2>1. i \in 1..n /\ accepted'[i] = accepted[i]
      BY <1>1, <1>2
    <2>2. CASE i = n
      BY <1>1, <1>2, <1>8, <2>1, <2>2
    <2>3. CASE i # n
      <3>1. i \in 1..(n - 1) /\ i + 1 \in 1..n
        BY <1>1, <2>1, <2>3
      <3>2. accepted'[i + 1] = accepted[i + 1]
        BY <1>2, <3>1
      <3> QED
        BY <2>1, <3>1, <3>2 DEF AcceptedOnlyGrows
    <2> QED
      BY <2>2, <2>3
  <1>10. AcceptedOnlyGrows'
    BY <1>9 DEF AcceptedOnlyGrows, IsPrefixOf
  <1> QED
    BY <1>6, <1>7, <1>10

(* The verdict: a log refused changes nothing, and of one accepted the     *)
(* proof is kept.                                                          *)
LEMMA VerifyConsistencyAndEmitIInv ==
    ASSUME IInv, VerifyConsistencyAndEmit
    PROVE  IInv'
  <1> USE DEF VerifyConsistencyAndEmit, IInv
  <1>1. MonitorOK'
    BY DEF MonitorOK, NotVerifying
  <1>2. CASE monitor.ok /\ (IsWhole(kept) => VerifyConsistency(monitor.log, kept.body))
    <2>1. AcceptedOK' /\ AcceptedIsSigned' /\ AcceptedOnlyGrows'
      BY <1>2, AcceptIInv DEF historyVars
    <2> QED
      BY <1>1, <2>1, OthersUndisturbed
  <1>3. CASE ~(monitor.ok /\ (IsWhole(kept) => VerifyConsistency(monitor.log, kept.body)))
    <2>1. UNCHANGED <<kept, accepted, signed>>
      BY <1>3 DEF historyVars
    <2>2. AcceptedOK' /\ AcceptedIsSigned' /\ AcceptedOnlyGrows'
      BY <2>1 DEF AcceptedOK, AcceptedIsSigned, AcceptedOnlyGrows, IsWhole,
             IsPrefixOf, ConsistencyProof, MerkleTreeRoot
    <2> QED
      BY <1>1, <2>2, OthersUndisturbed
  <1> QED
    BY <1>2, <1>3

-----------------------------------------------------------------------------
(* The invariant is inductive.                                             *)
LEMMA NextIInv ==
    ASSUME IInv, [Next]_vars
    PROVE  IInv'
  <1>1. ASSUME NEW p \in Appenders, AppenderStep(p)
        PROVE  IInv'
    BY <1>1, LoadAndAppendIInv, TruncateLogIInv, WriteLogIInv, TruncateHeadIInv,
       WriteHeadIInv, CrashIInv DEF AppenderStep
  <1>2. CASE MonitorStep
    BY <1>2, VerifyLogIInv, VerifyHeadIInv, VerifyConsistencyAndEmitIInv DEF MonitorStep
  <1>3. CASE UNCHANGED vars
    <2>1. MonitorInv'
      BY <1>3, MonitorUndisturbed DEF vars, historyVars
    <2> QED
      BY <1>3, <2>1, OthersUndisturbed DEF vars, IInv, MonitorInv
  <1> QED
    BY <1>1, <1>2, <1>3, EditIInv, RollbackIInv DEF Next

(* The invariant holds in every state of every behaviour.                  *)
LEMMA AlwaysIInv == Spec => []IInv
  BY InitIInv, NextIInv, PTL DEF Spec

(* verify-transparency with a pinned signer and a tree head accepts only   *)
(* logs that signer signed.                                                *)
THEOREM OnlySignedLogsAccepted == Spec => []AcceptedIsSigned
  <1>1. IInv => AcceptedIsSigned
    BY DEF IInv
  <1> QED
    BY <1>1, AlwaysIInv, PTL

(* Each log a monitor accepts extends the one it accepted before, though   *)
(* the operator's own key signed every one of them.                        *)
THEOREM AcceptedLogsOnlyGrow == Spec => []AcceptedOnlyGrows
  <1>1. IInv => AcceptedOnlyGrows
    BY DEF IInv
  <1> QED
    BY <1>1, AlwaysIInv, PTL

-----------------------------------------------------------------------------
(* The shape of the variables, for the same processes.                     *)

\* Room for a command under way in what is left of the monitor's budget.
Verifying == IF monitor.at = "idle" THEN 0 ELSE 1

TypedFiles ==
    /\ {file.state, head.state, kept.state} \subseteq {"absent", "torn", "whole"}
    /\ IsWhole(file) => Len(file.body) <= MaxEntries

TypedAppender(c) ==
    /\ c.at \in {"idle", "truncate log", "write log", "truncate head", "write head"}
    /\ Len(c.log) <= MaxEntries
    /\ c.at # "idle" => c.log # <<>>

TypedAppenders == \A p \in Appenders : TypedAppender(proc[p])

TypedSigned == \A log \in signed : Len(log) <= MaxEntries

TypedMonitor ==
    /\ monitor.at \in {"idle", "head", "proof"}
    /\ DOMAIN budget = {"crashes", "verifies", "edits", "rollbacks"}
    /\ budget.verifies \in Nat
    /\ Len(accepted) + Verifying + budget.verifies <= MaxVerifies

\* The type invariant with what makes it inductive: how long the logs in the
\* file and among the signed ones are, and how many commands are still to come.
TInv == TypedFiles /\ TypedAppenders /\ TypedSigned /\ TypedMonitor

(* What from_json returns is a log no longer than a log may be.            *)
LEMMA LoadedIsShort ==
    ASSUME IInv, TInv, NEW log \in Loaded(file)
    PROVE  IsSeq(log) /\ Len(log) \in 0..MaxEntries
  <1>1. Len(<<>>) = 0 /\ MaxEntries \in Nat
    BY BoundsAssumption, EmptyIsSeq
  <1>2. IsSeq(log)
    BY LoadedIsSeq DEF IInv
  <1>3. CASE log = <<>>
    BY <1>1, <1>2, <1>3
  <1>4. CASE IsWhole(file) /\ log = Entries(file.body)
    BY <1>1, <1>2, <1>4, EntriesIsSeq, SeqShape DEF TInv, TypedFiles, IInv, FilesOK
  <1> QED
    BY <1>2, <1>3, <1>4 DEF Loaded, IsWhole, IInv, FilesOK

(* A log that was appended to is longer by one, and not empty.             *)
LEMMA AppendEntryIsLonger ==
    ASSUME NEW log, IsSeq(log), NEW data
    PROVE  Len(AppendEntry(log, data)) = Len(log) + 1 /\ AppendEntry(log, data) # <<>>
  <1>1. Len(AppendEntry(log, data)) = Len(log) + 1 /\ Len(log) \in Nat
    BY AppendIsSeq, SeqShape DEF AppendEntry
  <1> QED
    BY <1>1, EmptyIsSeq

(* The initial state has the shape.                                        *)
LEMMA InitTInv == Init => TInv
  <1> SUFFICES ASSUME Init PROVE TInv
    OBVIOUS
  <1>1. Len(<<>>) = 0 /\ {MaxEntries, MaxVerifies} \subseteq Nat
    BY EmptyIsSeq, BoundsAssumption
  <1>2. TypedFiles /\ TypedSigned
    BY DEF Init, TypedFiles, TypedSigned, Absent, IsWhole
  <1>3. TypedAppenders
    <2>1. TypedAppender(Resting)
      BY <1>1 DEF TypedAppender, Resting
    <2> QED
      BY <2>1 DEF Init, TypedAppenders
  <1>4. TypedMonitor
    BY <1>1 DEF Init, TypedMonitor, Verifying, NotVerifying
  <1> QED
    BY <1>2, <1>3, <1>4 DEF TInv

(* The appending commands, the editors and the operator leave it alone.    *)
LEMMA TypedMonitorUndisturbed ==
    ASSUME TypedMonitor, UNCHANGED monitorVars,
           DOMAIN budget' = {"crashes", "verifies", "edits", "rollbacks"},
           budget'.verifies = budget.verifies
    PROVE  TypedMonitor'
  BY DEF TypedMonitor, monitorVars, Verifying

(* Whatever the last entries are replaced by is no longer than a log may   *)
(* be.                                                                     *)
LEMMA RewritingIsShort ==
    ASSUME NEW log, IsSeq(log), Len(log) <= MaxEntries, NEW new \in Rewritings(log)
    PROVE  Len(new) <= MaxEntries
  <1>1. Len(log) \in Nat /\ MaxEntries \in Nat
    BY SeqShape, BoundsAssumption
  <1>2. ASSUME NEW l \in Prefixes(log)
        PROVE  IsSeq(l) /\ Len(l) \in 0..Len(log)
    BY PrefixIsSeq DEF Prefixes
  <1>3. CASE new \in Prefixes(log)
    BY <1>1, <1>2, <1>3
  <1>4. CASE \E l \in Prefixes(log), data \in Payloads :
                Len(l) < MaxEntries /\ new = AppendEntry(l, data)
    BY <1>1, <1>2, <1>4, AppendEntryIsLonger
  <1> QED
    BY <1>3, <1>4 DEF Rewritings

(* The appending commands keep the shape.                                  *)
LEMMA AppenderTInv ==
    ASSUME IInv, TInv, NEW p \in Appenders, AppenderStep(p)
    PROVE  TInv'
  <1> USE DEF TInv, IInv
  <1>1. DOMAIN proc = Appenders /\ AppenderOK(proc[p]) /\ TypedAppender(proc[p])
    BY DEF AppendersOK, TypedAppenders
  <1>2. TypedAppender(Resting)
    BY EmptyIsSeq, BoundsAssumption DEF TypedAppender, Resting
  <1>3. ASSUME NEW at, NEW q \in Appenders
        PROVE  TypedAppender(Overtake(p, at, q))
    BY DEF TypedAppenders, TypedAppender, Overtake, AppendersOK, AppenderOK
  <1>4. CASE LoadAndAppend(p)
    <2>1. PICK log \in Loaded(file), data \in Payloads, signs \in BOOLEAN :
            /\ Len(log) < MaxEntries
            /\ proc' = [proc EXCEPT ![p] =
                       [at |-> "truncate log", log |-> AppendEntry(log, data),
                        signs |-> signs, raced |-> FALSE]]
      BY <1>4 DEF LoadAndAppend
    <2>2. Len(AppendEntry(log, data)) <= MaxEntries /\ AppendEntry(log, data) # <<>>
      <3>1. IsSeq(log) /\ Len(log) \in 0..MaxEntries /\ MaxEntries \in Nat
        BY LoadedIsShort, BoundsAssumption
      <3>2. Len(AppendEntry(log, data)) = Len(log) + 1 /\ AppendEntry(log, data) # <<>>
        BY <3>1, AppendEntryIsLonger
      <3>3. Len(log) < MaxEntries
        BY <2>1
      <3> HIDE <2>1
      <3>4. Len(AppendEntry(log, data)) <= MaxEntries
        BY <3>1, <3>2, <3>3
      <3> QED
        BY <3>2, <3>4
    <2>3. TypedAppenders'
      BY <1>1, <2>1, <2>2 DEF TypedAppenders, TypedAppender
    <2>4. TypedFiles' /\ TypedSigned' /\ TypedMonitor'
      BY <1>4, TypedMonitorUndisturbed DEF LoadAndAppend, fileVars, monitorVars, historyVars,
         TypedFiles, TypedSigned, TypedMonitor, IsWhole
    <2> QED
      BY <2>3, <2>4
  <1>5. CASE TruncateLog(p)
    <2>1. TypedAppenders'
      BY <1>1, <1>5 DEF TruncateLog, TypedAppenders, TypedAppender, AppenderOK
    <2>2. TypedFiles' /\ TypedSigned' /\ TypedMonitor'
      BY <1>5, TypedMonitorUndisturbed DEF TruncateLog, monitorVars, historyVars,
         TypedFiles, TypedSigned, TypedMonitor, IsWhole, Torn
    <2> QED
      BY <2>1, <2>2
  <1>6. CASE WriteLog(p)
    <2>1. TypedAppenders'
      <3>1. ASSUME NEW q \in Appenders
            PROVE  TypedAppender(proc'[q])
        BY <1>1, <1>2, <1>3, <1>6 DEF WriteLog, TypedAppender, AppenderOK
      <3> QED
        BY <3>1 DEF TypedAppenders, TypedAppender
    <2>2. file' = Whole(ToJson(proc[p].log)) \/ file' = Torn
      BY <1>6, WrittenIs DEF WriteLog
    <2>3. Len(ToJson(proc[p].log)) <= MaxEntries
      BY <1>1, <1>6, ToJsonIsSeq DEF AppenderOK, TypedAppender, WriteLog
    <2>4. file'.state \in {"torn", "whole"}
            /\ (file'.state = "whole" => Len(file'.body) <= MaxEntries)
      BY <2>2, <2>3 DEF Whole, Torn
    <2>5. TypedFiles' /\ TypedSigned'
      BY <1>6, <2>4 DEF WriteLog, monitorVars, TypedFiles, TypedSigned, IsWhole
    <2>6. TypedMonitor'
      BY <1>6, TypedMonitorUndisturbed DEF WriteLog, TypedMonitor
    <2> QED
      BY <2>1, <2>5, <2>6
  <1>7. CASE TruncateHead(p)
    <2>1. TypedAppenders'
      BY <1>1, <1>7 DEF TruncateHead, TypedAppenders, TypedAppender, AppenderOK
    <2>2. TypedFiles' /\ TypedSigned'
      BY <1>1, <1>7 DEF TruncateHead, monitorVars, TypedFiles, TypedSigned, TypedAppender,
         IsWhole, Torn
    <2>3. TypedMonitor'
      BY <1>7, TypedMonitorUndisturbed DEF TruncateHead, TypedMonitor
    <2> QED
      BY <2>1, <2>2, <2>3
  <1>8. CASE WriteHead(p)
    <2>1. TypedAppenders'
      <3>1. ASSUME NEW q \in Appenders
            PROVE  TypedAppender(proc'[q])
        BY <1>1, <1>2, <1>3, <1>8 DEF WriteHead
      <3> QED
        BY <3>1 DEF TypedAppenders, TypedAppender
    <2>2. head' = Whole(SignedTreeHead(proc[p].log, Operator)) \/ head' = Torn
      BY <1>8, WrittenIs DEF WriteHead
    <2>3. head'.state \in {"torn", "whole"}
      BY <2>2 DEF Whole, Torn
    <2>4. TypedFiles' /\ TypedSigned'
      BY <1>8, <2>3 DEF WriteHead, monitorVars, TypedFiles, TypedSigned, IsWhole
    <2>5. TypedMonitor'
      BY <1>8, TypedMonitorUndisturbed DEF WriteHead, TypedMonitor
    <2> QED
      BY <2>1, <2>4, <2>5
  <1>9. CASE Crash(p)
    <2>1. TypedAppenders'
      BY <1>1, <1>2, <1>9 DEF Crash, TypedAppenders, TypedAppender
    <2>2. TypedFiles' /\ TypedSigned'
      BY <1>9 DEF Crash, fileVars, monitorVars, historyVars, TypedFiles, TypedSigned, IsWhole
    <2>3. TypedMonitor'
      BY <1>9, TypedMonitorUndisturbed DEF Crash, TypedMonitor
    <2> QED
      BY <2>1, <2>2, <2>3
  <1> QED
    BY <1>4, <1>5, <1>6, <1>7, <1>8, <1>9 DEF AppenderStep

(* Whatever a writer without a key leaves in the files is no longer.       *)
LEMMA EditTInv ==
    ASSUME IInv, TInv, Edit
    PROVE  TInv'
  <1> USE DEF TInv, IInv
  <1>1. IsSeq(file.body) /\ Len(file.body) <= MaxEntries
    BY DEF Edit, FilesOK, TypedFiles
  <1>2. ASSUME NEW raw \in EditTip(file.body), file' = Whole(raw)
        PROVE  file'.state = "whole" /\ Len(file'.body) <= MaxEntries
    <2>1. PICK e : raw = [file.body EXCEPT ![Len(file.body)] = e]
      BY <1>2 DEF EditTip
    <2>2. Len(raw) = Len(file.body)
      BY <1>1, <2>1, ExceptIsSeq
    <2> QED
      BY <1>1, <1>2, <2>2 DEF Whole
  <1>3. ASSUME NEW log, IsSeq(log), Len(log) <= MaxEntries, file' = Whole(ToJson(log))
        PROVE  file'.state = "whole" /\ Len(file'.body) <= MaxEntries
    BY <1>3, ToJsonIsSeq DEF Whole
  <1>4. ASSUME NEW log \in Rewritings(Entries(file.body))
        PROVE  IsSeq(log) /\ Len(log) <= MaxEntries
    BY <1>1, EntriesIsSeq, RewritingIsSeq, RewritingIsShort
  <1>5. file'.state \in {"absent", "torn", "whole"}
            /\ (file'.state = "whole" => Len(file'.body) <= MaxEntries)
    BY <1>1, <1>2, <1>3, <1>4 DEF Edit, FilesOK, SignedOK, TypedSigned, IsWhole
  <1>6. head' = head \/ \E sth : head' = Whole(sth)
    BY DEF Edit
  <1>7. head'.state \in {"absent", "torn", "whole"}
    BY <1>6 DEF TypedFiles, Whole
  <1>8. TypedFiles'
    BY <1>5, <1>7 DEF Edit, TypedFiles, IsWhole, monitorVars
  <1>9. TypedAppenders' /\ TypedSigned'
    BY DEF Edit, TypedAppenders, TypedAppender, TypedSigned, historyVars
  <1>10. TypedMonitor'
    BY TypedMonitorUndisturbed DEF Edit, TypedMonitor
  <1> QED
    BY <1>8, <1>9, <1>10

(* Nor is what the operator signs in their place.                          *)
LEMMA RollbackTInv ==
    ASSUME IInv, TInv, Rollback
    PROVE  TInv'
  <1> USE DEF TInv, IInv
  <1>1. PICK log \in Rewritings(Entries(file.body)) :
            /\ file' = Whole(ToJson(log))
            /\ head' = Whole(SignedTreeHead(log, Operator))
            /\ signed' = signed \cup {log}
    BY DEF Rollback
  <1>2. IsSeq(file.body) /\ Len(file.body) <= MaxEntries
    BY DEF Rollback, FilesOK, TypedFiles
  <1>3. IsSeq(log) /\ Len(log) <= MaxEntries
    BY <1>2, EntriesIsSeq, RewritingIsSeq, RewritingIsShort
  <1>4. file'.state = "whole" /\ Len(file'.body) <= MaxEntries /\ head'.state = "whole"
    BY <1>1, <1>3, ToJsonIsSeq DEF Whole
  <1>5. TypedFiles'
    BY <1>4 DEF Rollback, TypedFiles, IsWhole, monitorVars
  <1>6. TypedAppenders' /\ TypedSigned'
    BY <1>1, <1>3 DEF Rollback, TypedAppenders, TypedAppender, TypedSigned
  <1>7. TypedMonitor'
    BY TypedMonitorUndisturbed DEF Rollback, TypedMonitor
  <1> QED
    BY <1>5, <1>6, <1>7

(* A verification uses up its budget when it begins, and accepts at most   *)
(* one log when it ends.                                                   *)
LEMMA MonitorTInv ==
    ASSUME IInv, TInv, MonitorStep
    PROVE  TInv'
  <1> USE DEF TInv, IInv
  <1>1. TypedAppenders' /\ TypedSigned'
    BY DEF MonitorStep, VerifyLog, VerifyHead, VerifyConsistencyAndEmit, TypedAppenders,
       TypedAppender, TypedSigned, historyVars
  <1>2. Len(accepted) \in Nat /\ MaxVerifies \in Nat /\ IsSeq(accepted)
    BY SeqShape, BoundsAssumption DEF AcceptedOK
  <1>3. ASSUME NEW anchored \in BOOLEAN, VerifyLog(anchored)
        PROVE  TypedFiles' /\ TypedMonitor'
    <2>1. TypedFiles'
      BY <1>3 DEF VerifyLog, TypedFiles, fileVars, IsWhole
    <2>2. monitor'.at \in {"head", "proof"} /\ monitor.at = "idle" /\ accepted' = accepted
      BY <1>3 DEF VerifyLog
    <2>3. budget.verifies > 0 /\ budget' = [budget EXCEPT !.verifies = @ - 1]
      BY <1>3 DEF VerifyLog
    <2>4. TypedMonitor'
      BY <1>2, <2>2, <2>3 DEF TypedMonitor, Verifying
    <2> QED
      BY <2>1, <2>4
  <1>4. ASSUME VerifyHead
        PROVE  TypedFiles' /\ TypedMonitor'
    <2>1. TypedFiles'
      BY <1>4 DEF VerifyHead, TypedFiles, fileVars, IsWhole
    <2>2. monitor'.at \in {"idle", "proof"} /\ monitor.at # "idle"
            /\ UNCHANGED <<accepted, budget>>
      BY <1>4 DEF VerifyHead, NotVerifying, MonitorOK
    <2>3. TypedMonitor'
      BY <1>2, <2>2 DEF TypedMonitor, Verifying
    <2> QED
      BY <2>1, <2>3
  <1>5. ASSUME VerifyConsistencyAndEmit
        PROVE  TypedFiles' /\ TypedMonitor'
    <2>1. kept' = kept \/ \E proof : kept' = Whole(proof)
      BY <1>5 DEF VerifyConsistencyAndEmit
    <2>2. kept'.state \in {"absent", "torn", "whole"}
      BY <2>1 DEF TypedFiles, Whole
    <2>3. TypedFiles'
      BY <1>5, <2>2 DEF VerifyConsistencyAndEmit, TypedFiles, fileVars, IsWhole
    <2>4. accepted' = accepted \/ \E e : accepted' = Append(accepted, e)
      BY <1>5 DEF VerifyConsistencyAndEmit
    <2>5. Len(accepted') \in {Len(accepted), Len(accepted) + 1}
      BY <1>2, <2>4, AppendIsSeq
    <2>6. monitor'.at = "idle" /\ monitor.at # "idle" /\ UNCHANGED budget
      BY <1>5 DEF VerifyConsistencyAndEmit, NotVerifying
    <2>7. TypedMonitor'
      BY <1>2, <2>5, <2>6 DEF TypedMonitor, Verifying
    <2> QED
      BY <2>3, <2>7
  <1> QED
    BY <1>1, <1>3, <1>4, <1>5 DEF MonitorStep

(* Every step does.                                                        *)
LEMMA NextTInv ==
    ASSUME IInv, TInv, [Next]_vars
    PROVE  TInv'
  <1>1. CASE UNCHANGED vars
    BY <1>1 DEF vars, fileVars, monitorVars, historyVars, TInv, TypedFiles, TypedAppenders,
       TypedAppender, TypedSigned, TypedMonitor, Verifying, IsWhole
  <1> QED
    BY <1>1, AppenderTInv, EditTInv, RollbackTInv, MonitorTInv DEF Next

(* The variables keep their shape: no log outgrows the bound, and a        *)
(* monitor accepts no more logs than it verifies.                          *)
THEOREM LogIsTyped == Spec => []TypeOK
  <1>1. IInv /\ TInv => TypeOK
    <2> SUFFICES ASSUME IInv, TInv PROVE TypeOK
      OBVIOUS
    <2> USE DEF IInv, TInv
    <2>1. Len(accepted) <= MaxVerifies
      <3>1. Len(accepted) \in Nat /\ MaxVerifies \in Nat
        BY SeqShape, BoundsAssumption DEF AcceptedOK
      <3> QED
        BY <3>1 DEF TypedMonitor, Verifying
    <2> QED
      BY <2>1 DEF TypeOK, TypedFiles, TypedAppenders, TypedAppender, TypedSigned, TypedMonitor
  <1>2. Spec => []TInv
    BY InitTInv, NextTInv, AlwaysIInv, PTL DEF Spec
  <1> QED
    BY <1>1, <1>2, AlwaysIInv, PTL

-----------------------------------------------------------------------------
(* One command at a time.                                                  *)

IsPrefix(a, b) == IsSeq(a) /\ Len(a) <= Len(b) /\ SubSeq(b, 1, Len(a)) = a

\* The log file holds what was published last, or was emptied since.
FileIsPublished ==
    /\ file.state = "absent" => published = <<>>
    /\ IsWhole(file) => file.body = ToJson(published)

ReportedPublished == \A e \in reported : \E i \in 1..Len(published) : published[i] = e

\* The file stays emptied only while its log is written, or after a kill.
TornExcused ==
    /\ DOMAIN budget = {"crashes", "verifies", "edits", "rollbacks"}
    /\ budget.crashes \in Nat /\ budget.crashes <= MaxCrashes
    /\ file.state = "torn" =>
        budget.crashes < MaxCrashes \/ \E p \in Appenders : proc[p].at = "write log"

\* A command is about to publish one entry more than is published, and then
\* signs what it has published.
AheadByOne(c) ==
    /\ c.at # "idle" => ~c.raced
    /\ c.at \in {"truncate log", "write log"} =>
        Len(c.log) = Len(published) + 1 /\ IsPrefix(published, c.log)
    /\ c.at \in {"truncate head", "write head"} => c.log = published /\ Len(published) > 0

\* Inductive as long as one command runs at a time and nobody interferes.
SInv ==
    /\ IsSeq(published) /\ FileIsPublished /\ HeadDescribesPrefix /\ ReportedPublished
    /\ TornExcused
    /\ \A p \in Appenders : AheadByOne(proc[p])

\* Two states in a row of which the second is as undisturbed as the first.
SeqStep == SInv /\ IInv /\ Undisturbed /\ Undisturbed'

-----------------------------------------------------------------------------
(* Reading back what was written gives the log.                            *)
LEMMA EntriesOfToJson ==
    ASSUME NEW log, IsSeq(log)
    PROVE  Entries(ToJson(log)) = log
  <1>1. Len(ToJson(log)) = Len(log) /\ Len(log) \in Nat
    BY ToJsonIsSeq, SeqShape
  <1>2. Entries(ToJson(log)) = [i \in 1..Len(log) |-> log[i]]
    BY <1>1 DEF Entries, ToJson
  <1> QED
    BY <1>2, SeqShape

(* The prefix of a prefix, and a log as its own prefix.                    *)
LEMMA PrefixOfPrefix ==
    ASSUME NEW a, NEW b, IsPrefix(a, b), IsSeq(b), NEW n \in 0..Len(a)
    PROVE  n \in 0..Len(b) /\ SubSeq(b, 1, n) = SubSeq(a, 1, n)
  <1>1. Len(a) \in Nat /\ Len(b) \in Nat /\ IsSeq(a) /\ Len(a) <= Len(b)
    BY SeqShape DEF IsPrefix
  <1>2. n \in 0..Len(b) /\ Len(a) \in 0..Len(b)
    BY <1>1
  <1> DEFINE sa == SubSeq(a, 1, n)
             sb == SubSeq(b, 1, n)
  <1>3. IsSeq(sa) /\ Len(sa) = n /\ \A i \in 1..n : sa[i] = a[i]
    BY <1>1, PrefixIsSeq
  <1>4. IsSeq(sb) /\ Len(sb) = n /\ \A i \in 1..n : sb[i] = b[i]
    BY <1>2, PrefixIsSeq
  <1>5. \A i \in 1..n : a[i] = b[i]
    <2>1. \A i \in 1..Len(a) : SubSeq(b, 1, Len(a))[i] = b[i]
      BY <1>2, PrefixIsSeq
    <2> QED
      BY <1>1, <2>1 DEF IsPrefix
  <1>6. sa = sb
    BY <1>3, <1>4, <1>5, SeqShape
  <1> QED
    BY <1>2, <1>6

(* A log is a prefix of itself.                                            *)
LEMMA PrefixIsReflexive ==
    ASSUME NEW a, IsSeq(a)
    PROVE  SubSeq(a, 1, Len(a)) = a /\ IsPrefix(a, a)
  <1>1. Len(a) \in Nat /\ Len(a) \in 0..Len(a)
    BY SeqShape
  <1> DEFINE s == SubSeq(a, 1, Len(a))
  <1>2. IsSeq(s) /\ Len(s) = Len(a) /\ \A i \in 1..Len(a) : s[i] = a[i]
    BY <1>1, PrefixIsSeq
  <1>3. s = a
    BY <1>2, SeqShape
  <1> QED
    BY <1>1, <1>3 DEF IsPrefix

(* An entry added at the end is an extension by one.                       *)
LEMMA AppendEntryExtends ==
    ASSUME NEW log, IsSeq(log), NEW data
    PROVE  /\ Len(AppendEntry(log, data)) = Len(log) + 1
           /\ IsPrefix(log, AppendEntry(log, data))
  <1> DEFINE new == AppendEntry(log, data)
  <1>1. /\ IsSeq(new) /\ Len(new) = Len(log) + 1 /\ Len(log) \in Nat
        /\ \A i \in 1..Len(log) : new[i] = log[i]
    BY AppendIsSeq, SeqShape DEF AppendEntry
  <1> HIDE DEF new
  <1>2. Len(log) \in 0..Len(new)
    BY <1>1
  <1> DEFINE s == SubSeq(new, 1, Len(log))
  <1>3. IsSeq(s) /\ Len(s) = Len(log) /\ \A i \in 1..Len(log) : s[i] = new[i]
    BY <1>1, <1>2, PrefixIsSeq
  <1>4. s = log
    BY <1>1, <1>3, SeqShape
  <1> QED
    BY <1>1, <1>4 DEF IsPrefix, new

(* What a command loads is what was published last.                        *)
LEMMA LoadedIsPublished ==
    ASSUME SInv, IInv, NEW log \in Loaded(file)
    PROVE  log = published
  <1>1. IsWhole(file) => Entries(file.body) = published
    BY EntriesOfToJson DEF SInv, FileIsPublished
  <1> QED
    BY <1>1 DEF SInv, FileIsPublished, Loaded, IsWhole, IInv, FilesOK

(* With no other command under way, the file gets exactly the text, and no *)
(* command is overtaken.                                                   *)
LEMMA AloneIsNotRaced ==
    ASSUME SeqStep, NEW p \in Appenders, proc[p].at # "idle"
    PROVE  /\ \A text : Written(p, text) = {Whole(text)}
           /\ \A q \in Appenders \ {p} : proc[q].at = "idle"
           /\ \A q \in Appenders \ {p}, at \in {"write log", "write head"} :
                Overtake(p, at, q) = proc[q]
  BY DEF SeqStep, SInv, AheadByOne, Undisturbed, Written, Overtake

-----------------------------------------------------------------------------
(* The steps.                                                              *)
(* The initial state satisfies the invariant.                              *)
LEMMA InitSInv == Init => SInv
  <1> SUFFICES ASSUME Init PROVE SInv
    OBVIOUS
  <1>1. IsSeq(published) /\ published = <<>>
    BY EmptyIsSeq DEF Init
  <1>2. FileIsPublished /\ HeadDescribesPrefix /\ ReportedPublished
    BY DEF Init, FileIsPublished, HeadDescribesPrefix, ReportedPublished, Absent, IsWhole
  <1>3. TornExcused
    BY BoundsAssumption DEF Init, TornExcused, Absent
  <1>4. \A p \in Appenders : AheadByOne(proc[p])
    BY DEF Init, AheadByOne, Resting
  <1> QED
    BY <1>1, <1>2, <1>3, <1>4 DEF SInv

(* The log loaded is the one published, and one entry is added to it.      *)
LEMMA LoadAndAppendSInv ==
    ASSUME SeqStep, NEW p \in Appenders, LoadAndAppend(p)
    PROVE  SInv' /\ UNCHANGED <<published, file>>
  <1> USE DEF SeqStep
  <1>1. PICK log \in Loaded(file), data \in Payloads, signs \in BOOLEAN :
            proc' = [proc EXCEPT ![p] =
                       [at |-> "truncate log", log |-> AppendEntry(log, data),
                        signs |-> signs, raced |-> FALSE]]
    BY DEF LoadAndAppend
  <1>2. log = published /\ IsSeq(published)
    BY LoadedIsPublished DEF SInv
  <1>3. UNCHANGED <<file, head, published, reported, budget>>
    BY DEF LoadAndAppend, fileVars, historyVars
  <1>4. FileIsPublished' /\ HeadDescribesPrefix' /\ ReportedPublished' /\ IsSeq(published')
    BY <1>3 DEF SInv, FileIsPublished, HeadDescribesPrefix, ReportedPublished, IsWhole
  <1>5. DOMAIN proc = Appenders
    BY DEF IInv, AppendersOK
  <1>6. TornExcused'
    BY <1>1, <1>3, <1>5 DEF SInv, TornExcused, LoadAndAppend
  <1>7. AheadByOne(proc[p])'
    <2>1. proc'[p].at = "truncate log"
      BY <1>1, <1>5
    <2>2. proc'[p].log = AppendEntry(published, data)
      BY <1>1, <1>2, <1>5
    <2>3. ~proc'[p].raced
      BY <1>1, <1>5
    <2> QED
      BY <1>2, <1>3, <2>1, <2>2, <2>3, AppendEntryExtends DEF AheadByOne
  <1>8. ASSUME NEW q \in Appenders, q # p
        PROVE  AheadByOne(proc[q])'
    <2>1. proc'[q] = proc[q] /\ published' = published
      BY <1>1, <1>3, <1>5, <1>8
    <2> QED
      BY <2>1 DEF SInv, AheadByOne
  <1> QED
    BY <1>3, <1>4, <1>6, <1>7, <1>8 DEF SInv

(* The emptied file is excused by the command that is to write it.         *)
LEMMA TruncateLogSInv ==
    ASSUME SeqStep, NEW p \in Appenders, TruncateLog(p)
    PROVE  SInv' /\ UNCHANGED published /\ file' = Torn
  <1> USE DEF SeqStep
  <1>1. UNCHANGED <<head, published, reported, budget>> /\ file' = Torn
    BY DEF TruncateLog, historyVars
  <1>2. FileIsPublished' /\ HeadDescribesPrefix' /\ ReportedPublished' /\ IsSeq(published')
    BY <1>1 DEF SInv, FileIsPublished, HeadDescribesPrefix, ReportedPublished, IsWhole, Torn
  <1>3. DOMAIN proc = Appenders /\ AppenderOK(proc[p])
    BY DEF IInv, AppendersOK
  <1>4. proc'[p].at = "write log"
    BY <1>3 DEF TruncateLog, AppenderOK
  <1>5. TornExcused'
    BY <1>1, <1>4 DEF SInv, TornExcused
  <1>6. ASSUME NEW q \in Appenders
        PROVE  AheadByOne(proc[q])'
    BY <1>1, <1>3 DEF SInv, AheadByOne, TruncateLog, AppenderOK
  <1> QED
    BY <1>1, <1>2, <1>5, <1>6 DEF SInv

(* Publishing: the log grows by one entry, and the old head still          *)
(* describes a part of it.                                                 *)
LEMMA WriteLogSInv ==
    ASSUME SeqStep, NEW p \in Appenders, WriteLog(p)
    PROVE  /\ SInv' /\ file' = Whole(ToJson(published'))
           /\ Len(published') = Len(published) + 1 /\ IsPrefix(published, published')
  <1> USE DEF SeqStep
  <1>1. /\ published' = proc[p].log /\ UNCHANGED <<head, budget>>
        /\ file' = Whole(ToJson(published'))
    <2>1. Written(p, ToJson(proc[p].log)) = {Whole(ToJson(proc[p].log))}
      BY AloneIsNotRaced DEF WriteLog
    <2> QED
      BY <2>1 DEF WriteLog
  <1>2. DOMAIN proc = Appenders /\ AppenderOK(proc[p]) /\ IsSeq(published') /\ IsSeq(published)
    BY <1>1 DEF IInv, AppendersOK, AppenderOK, WriteLog, SInv
  <1>3. Len(published') = Len(published) + 1 /\ IsPrefix(published, published')
    BY <1>1 DEF SInv, AheadByOne, WriteLog
  <1>4. FileIsPublished'
    BY <1>1 DEF FileIsPublished, IsWhole, Whole
  <1>5. HeadDescribesPrefix'
    <2> SUFFICES ASSUME IsWhole(head)
                 PROVE  \E n \in 0..Len(published') :
                            head.body = SignedTreeHead(SubSeq(published', 1, n), Operator)
      BY <1>1 DEF HeadDescribesPrefix, IsWhole
    <2>1. PICK n \in 0..Len(published) :
            head.body = SignedTreeHead(SubSeq(published, 1, n), Operator)
      BY DEF SInv, HeadDescribesPrefix
    <2> QED
      BY <1>2, <1>3, <2>1, PrefixOfPrefix
  <1>6. ReportedPublished'
    <2>1. Len(published) \in Nat /\ \A i \in 1..Len(published) : published'[i] = published[i]
      <3>1. Len(published) \in Nat /\ Len(published) \in 0..Len(published')
        BY <1>2, <1>3, SeqShape
      <3>2. \A i \in 1..Len(published) : SubSeq(published', 1, Len(published))[i] = published'[i]
        BY <1>2, <3>1, PrefixIsSeq
      <3> QED
        BY <1>3, <3>1, <3>2 DEF IsPrefix
    <2>2. reported' \subseteq reported \cup {published'[Len(published')]}
      BY <1>1 DEF WriteLog
    <2>3. 1..Len(published) \subseteq 1..Len(published') /\ Len(published') \in 1..Len(published')
      BY <1>3, <2>1
    <2> QED
      BY <2>1, <2>2, <2>3 DEF SInv, ReportedPublished
  <1>7. TornExcused'
    BY <1>1 DEF SInv, TornExcused, Whole
  <1>8. ASSUME NEW q \in Appenders
        PROVE  AheadByOne(proc[q])'
    <2>1. CASE q # p
      <3>1. proc'[q] = proc[q] /\ proc[q].at = "idle"
        BY <2>1, AloneIsNotRaced DEF WriteLog
      <3> QED
        BY <3>1 DEF AheadByOne
    <2>2. CASE q = p /\ ~proc[p].signs
      BY <2>2 DEF WriteLog, AheadByOne, Resting
    <2>3. CASE q = p /\ proc[p].signs
      <3>1. proc'[p] = [proc[p] EXCEPT !.at = "truncate head", !.raced = FALSE]
        BY <2>3 DEF WriteLog
      <3>2. proc'[p].at = "truncate head" /\ proc'[p].raced = FALSE /\ proc'[p].log = published'
        BY <1>1, <1>2, <3>1 DEF AppenderOK
      <3>3. Len(published') > 0
        BY <1>2, <1>3, SeqShape
      <3> QED
        BY <2>3, <3>2, <3>3 DEF AheadByOne
    <2> QED
      BY <2>1, <2>2, <2>3
  <1> QED
    BY <1>1, <1>2, <1>3, <1>4, <1>5, <1>6, <1>7, <1>8 DEF SInv

(* An emptied head describes nothing.                                      *)
LEMMA TruncateHeadSInv ==
    ASSUME SeqStep, NEW p \in Appenders, TruncateHead(p)
    PROVE  SInv' /\ UNCHANGED <<published, file>>
  <1> USE DEF SeqStep
  <1>1. UNCHANGED <<file, published, reported, budget>> /\ head' = Torn
    BY DEF TruncateHead
  <1>2. FileIsPublished' /\ HeadDescribesPrefix' /\ ReportedPublished' /\ IsSeq(published')
    BY <1>1 DEF SInv, FileIsPublished, HeadDescribesPrefix, ReportedPublished, IsWhole, Torn
  <1>3. DOMAIN proc = Appenders /\ AppenderOK(proc[p])
    BY DEF IInv, AppendersOK
  <1>4. TornExcused'
    BY <1>1, <1>3 DEF SInv, TornExcused, TruncateHead
  <1>5. ASSUME NEW q \in Appenders
        PROVE  AheadByOne(proc[q])'
    BY <1>1, <1>3 DEF SInv, AheadByOne, TruncateHead, AppenderOK
  <1> QED
    BY <1>1, <1>2, <1>4, <1>5 DEF SInv

(* The head written is that of all that is published.                      *)
LEMMA WriteHeadSInv ==
    ASSUME SeqStep, NEW p \in Appenders, WriteHead(p)
    PROVE  SInv' /\ UNCHANGED <<published, file>>
  <1> USE DEF SeqStep
  <1>1. UNCHANGED <<file, published, budget>> /\ proc[p].log = published /\ Len(published) > 0
    BY DEF WriteHead, SInv, AheadByOne
  <1>2. head' = Whole(SignedTreeHead(published, Operator))
    BY <1>1, AloneIsNotRaced DEF WriteHead
  <1>3. IsSeq(published) /\ Len(published) \in Nat
    BY SeqShape DEF SInv
  <1>4. FileIsPublished'
    BY <1>1 DEF SInv, FileIsPublished, IsWhole
  <1>5. HeadDescribesPrefix'
    <2>1. head'.body = SignedTreeHead(SubSeq(published, 1, Len(published)), Operator)
      BY <1>2, <1>3, PrefixIsReflexive DEF Whole
    <2>2. Len(published) \in 0..Len(published)
      BY <1>3
    <2> QED
      BY <1>1, <2>1, <2>2 DEF HeadDescribesPrefix
  <1>6. ReportedPublished'
    <2>1. reported' = reported \cup {published[Len(published)]}
      BY <1>1 DEF WriteHead
    <2>2. Len(published) \in 1..Len(published)
      BY <1>1, <1>3
    <2> QED
      BY <1>1, <2>1, <2>2 DEF SInv, ReportedPublished
  <1>7. \A q \in Appenders : proc'[q] = IF q = p THEN Resting ELSE proc[q]
    BY AloneIsNotRaced DEF WriteHead
  <1>8. TornExcused'
    BY <1>1, <1>7 DEF SInv, TornExcused, WriteHead
  <1>9. ASSUME NEW q \in Appenders
        PROVE  AheadByOne(proc[q])'
    <2>1. CASE q = p
      <3>1. proc'[q] = Resting
        BY <1>7, <2>1
      <3>2. Resting.at = "idle"
        BY DEF Resting
      <3> QED
        BY <3>1, <3>2 DEF AheadByOne
    <2>2. CASE q # p
      <3>1. proc'[q] = proc[q] /\ published' = published
        BY <1>1, <1>7, <2>2
      <3> QED
        BY <3>1 DEF SInv, AheadByOne
    <2> QED
      BY <2>1, <2>2
  <1> QED
    BY <1>1, <1>3, <1>4, <1>5, <1>6, <1>8, <1>9 DEF SInv

(* A kill excuses a file that stays empty, and loses no published entry.   *)
LEMMA CrashSInv ==
    ASSUME SeqStep, NEW p \in Appenders, Crash(p)
    PROVE  SInv' /\ UNCHANGED <<published, file>>
  <1> USE DEF SeqStep
  <1>1. UNCHANGED <<file, head, published, reported>> /\ DOMAIN proc = Appenders
    BY DEF Crash, fileVars, historyVars, IInv, AppendersOK
  <1>2. FileIsPublished' /\ HeadDescribesPrefix' /\ ReportedPublished' /\ IsSeq(published')
    BY <1>1 DEF SInv, FileIsPublished, HeadDescribesPrefix, ReportedPublished, IsWhole
  <1>3. TornExcused'
    <2>1. budget.crashes \in Nat /\ budget.crashes <= MaxCrashes /\ budget.crashes > 0
              /\ DOMAIN budget = {"crashes", "verifies", "edits", "rollbacks"}
              /\ budget' = [budget EXCEPT !.crashes = @ - 1] /\ MaxCrashes \in Nat
      BY BoundsAssumption DEF SInv, TornExcused, Crash
    <2>2. budget'.crashes \in Nat /\ budget'.crashes < MaxCrashes
              /\ budget'.crashes <= MaxCrashes
              /\ DOMAIN budget' = {"crashes", "verifies", "edits", "rollbacks"}
      BY <2>1
    <2> QED
      BY <2>2 DEF TornExcused
  <1>4. ASSUME NEW q \in Appenders
        PROVE  AheadByOne(proc[q])'
    BY <1>1 DEF SInv, AheadByOne, Crash, Resting
  <1> QED
    BY <1>1, <1>2, <1>3, <1>4 DEF SInv

(* A verification writes none of the files, and nobody else writes them.   *)
LEMMA OthersSInv ==
    ASSUME SeqStep, MonitorStep \/ Edit \/ Rollback \/ UNCHANGED vars
    PROVE  SInv' /\ UNCHANGED <<published, file>>
  <1> USE DEF SeqStep
  <1>1. budget.edits = MaxEdits /\ budget.rollbacks = MaxRollbacks
            /\ budget'.edits = MaxEdits /\ budget'.rollbacks = MaxRollbacks
            /\ MaxEdits \in Nat /\ MaxRollbacks \in Nat
            /\ DOMAIN budget = {"crashes", "verifies", "edits", "rollbacks"}
    BY BoundsAssumption DEF Undisturbed, SInv, TornExcused
  <1>2. ~Edit /\ ~Rollback
    BY <1>1 DEF Edit, Rollback
  <1>3. UNCHANGED <<file, head, proc, published, reported>>
    BY <1>2 DEF MonitorStep, VerifyLog, VerifyHead, VerifyConsistencyAndEmit, vars, fileVars,
       historyVars
  <1>4. budget'.crashes = budget.crashes
            /\ DOMAIN budget' = {"crashes", "verifies", "edits", "rollbacks"}
    BY <1>1, <1>2 DEF MonitorStep, VerifyLog, VerifyHead, VerifyConsistencyAndEmit, vars
  <1> QED
    BY <1>3, <1>4 DEF SInv, FileIsPublished, HeadDescribesPrefix, ReportedPublished,
       TornExcused, AheadByOne, IsWhole

(* Every step from an undisturbed state to another keeps the invariant.    *)
LEMMA NextSInv ==
    ASSUME SeqStep, [Next]_vars
    PROVE  SInv'
  BY LoadAndAppendSInv, TruncateLogSInv, WriteLogSInv, TruncateHeadSInv, WriteHeadSInv,
     CrashSInv, OthersSInv DEF Next, AppenderStep

(* In every state of a behaviour in which one command runs at a time.      *)
LEMMA AlwaysSInv == Spec /\ []Undisturbed => []SInv
  <1>1. SInv /\ IInv /\ Undisturbed /\ Undisturbed' /\ [Next]_vars => SInv'
    BY NextSInv DEF SeqStep
  <1> QED
    BY <1>1, InitSInv, AlwaysIInv, PTL DEF Spec

(* Run one at a time, whenever they are killed and however many they are,  *)
(* transparency-append commands never leave a head of a log that was not   *)
(* published.                                                              *)
THEOREM HeadsDescribePrefixes == Spec /\ []Undisturbed => []HeadDescribesPrefix
  <1>1. SInv => HeadDescribesPrefix
    BY DEF SInv
  <1> QED
    BY <1>1, AlwaysSInv, PTL

(* Nor lose an entry they reported, nor leave the log unreadable unless    *)
(* killed.                                                                 *)
THEOREM ReportedEntriesRetained == Spec /\ []Undisturbed => []ReportedRetained
  <1>1. SInv /\ IInv => ReportedRetained
    <2> SUFFICES ASSUME SInv, IInv PROVE ReportedRetained
      OBVIOUS
    <2>1. ASSUME IsWhole(file)
          PROVE  reported \subseteq {file.body[i].entry : i \in 1..Len(file.body)}
      <3>1. file.body = ToJson(published) /\ Len(file.body) = Len(published)
        BY <2>1, ToJsonIsSeq DEF SInv, FileIsPublished
      <3>2. \A i \in 1..Len(published) : file.body[i].entry = published[i]
        BY <3>1 DEF ToJson
      <3> QED
        BY <3>1, <3>2 DEF SInv, ReportedPublished
    <2>2. budget.crashes = MaxCrashes /\ (\A p \in Appenders : proc[p].at = "idle") =>
                Readable(file)
      <3>1. MaxCrashes \in Nat /\ budget.crashes \in Nat
        BY BoundsAssumption DEF SInv, TornExcused
      <3>2. ~(budget.crashes = MaxCrashes /\ budget.crashes < MaxCrashes)
        BY <3>1
      <3> QED
        BY <3>2 DEF SInv, TornExcused, Readable
    <2> QED
      BY <2>1, <2>2 DEF ReportedRetained
  <1> QED
    BY <1>1, AlwaysSInv, AlwaysIInv, PTL

-----------------------------------------------------------------------------
(* The refinement.                                                         *)

\* The abstract log, as the mapping of Published reads it from the files.
LogBar == IF IsWhole(file) THEN Entries(file.body) ELSE published

(* What the file holds, or held, is what was published last.               *)
LEMMA LogBarIsPublished ==
    ASSUME SInv
    PROVE  LogBar = published
  BY EntriesOfToJson DEF SInv, FileIsPublished, LogBar

(* Every step publishes one entry more, interrupts a publication, or       *)
(* changes nothing a reader sees.                                          *)
LEMMA StepRefines ==
    ASSUME SeqStep, SInv', [Next]_vars
    PROVE  [Published!Next]_(<<LogBar, Readable(file)>>)
  <1>1. LogBar = published /\ LogBar' = published'
    <2>1. LogBar = published
      BY LogBarIsPublished DEF SeqStep
    <2>2. LogBar' = published'
      BY EntriesOfToJson DEF SInv, FileIsPublished, LogBar, IsWhole, Entries
    <2> QED
      BY <2>1, <2>2
  <1>2. ASSUME UNCHANGED <<published, file>>
        PROVE  UNCHANGED <<LogBar, Readable(file)>>
    BY <1>1, <1>2 DEF Readable
  <1>3. ASSUME NEW p \in Appenders, TruncateLog(p)
        PROVE  Published!Next
    BY <1>1, <1>3, TruncateLogSInv DEF Published!Next, Published!Interrupt, LogBar, Readable, Torn
  <1>4. ASSUME NEW p \in Appenders, WriteLog(p)
        PROVE  Published!Next
    <2>1. Len(published') = Len(published) + 1 /\ SubSeq(published', 1, Len(published)) = published
      BY <1>4, WriteLogSInv DEF IsPrefix
    <2>2. file' = Whole(ToJson(published'))
      BY <1>4, WriteLogSInv
    <2> QED
      BY <1>1, <2>1, <2>2 DEF Published!Next, Published!Publish, LogBar, Readable, Whole
  <1> QED
    BY <1>2, <1>3, <1>4, LoadAndAppendSInv, TruncateHeadSInv, WriteHeadSInv, CrashSInv,
       OthersSInv DEF Next, AppenderStep

(* Any number of transparency-append commands, run one at a time and       *)
(* killed at any point, publish an append-only log: a reader who finds the *)
(* log finds an extension, by whole entries, of the one found before.      *)
THEOREM AppendOnlyLogImplemented == Spec /\ []Undisturbed => ImplementsAppendOnlyLog
  <1>1. Init => Published!Init
    <2> SUFFICES ASSUME Init PROVE Published!Init
      OBVIOUS
    <2>1. LogBar = <<>> /\ Readable(file)
      BY DEF Init, LogBar, Readable, Absent, IsWhole
    <2> QED
      BY <2>1 DEF Published!Init, LogBar
  <1>2. SInv /\ SInv' /\ IInv /\ Undisturbed /\ Undisturbed' /\ [Next]_vars =>
            [Published!Next]_(<<LogBar, Readable(file)>>)
    BY StepRefines DEF SeqStep
  <1> QED
    BY <1>1, <1>2, AlwaysSInv, AlwaysIInv, PTL
    DEF Spec, ImplementsAppendOnlyLog, Published!Spec, LogBar
=============================================================================

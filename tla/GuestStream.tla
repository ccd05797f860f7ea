----------------------------- MODULE GuestStream -----------------------------
(***************************************************************************)
(* The line protocol in which a release guest streams its outputs to the   *)
(* supervisor before its container, and the tmpfs they are in, go away:    *)
(* GuestStream of validate_release.py and export_outputs of                *)
(* release_guest.py.                                                       *)
(*                                                                         *)
(* An archive is so many chunks; its digest and length match when all of   *)
(* them have arrived.  Noise is any other line on the guest's stdout.      *)
(***************************************************************************)
EXTENDS Integers, Sequences

CONSTANT Chunks   \* of an archive

ASSUME ChunksAssumption == Chunks \in Nat

ArchiveStart   == [event |-> "archive-start"]
ArchiveChunk   == [event |-> "archive-chunk"]
ArchiveEnd(ok) == [event |-> "archive-end", chunks |-> Chunks, guest_ok |-> ok]
Noise          == [event |-> "noise"]

\* The line the guest sends after so many others.
Line(sent, ok) ==
    IF sent = 0 THEN ArchiveStart
    ELSE IF sent <= Chunks THEN ArchiveChunk
    ELSE ArchiveEnd(ok)

NewStream == [started |-> FALSE, received |-> 0, ended |-> FALSE, guest_ok |-> FALSE]

\* feed raises on any line this does not hold of.
Accepts(s, line) ==
    /\ ~s.ended
    /\ \/ line.event = "archive-start" /\ ~s.started
       \/ line.event = "archive-chunk" /\ s.started
       \/ line.event = "archive-end" /\ s.started /\ line.chunks = s.received

Feed(s, line) ==
    CASE line.event = "archive-start" -> [s EXCEPT !.started = TRUE]
      [] line.event = "archive-chunk" -> [s EXCEPT !.received = @ + 1]
      [] line.event = "archive-end"   ->
            [s EXCEPT !.ended = TRUE, !.guest_ok = line.guest_ok]

\* finish raises on a stream without its end.
Complete(s) == s.started /\ s.ended
=============================================================================

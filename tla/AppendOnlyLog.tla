---------------------------- MODULE AppendOnlyLog ----------------------------
(***************************************************************************)
(* What a published append-only log promises its readers: the log only     *)
(* ever gains entries at its end.  Publication may be interrupted, and the *)
(* log is unreadable until some later publication completes, if any does.  *)
(***************************************************************************)
EXTENDS Integers, Sequences

VARIABLES log,        \* the last log published
          readable    \* whether a reader finds it

Init == log = <<>> /\ readable = TRUE

Interrupt == readable' = FALSE /\ UNCHANGED log

Publish ==
    /\ Len(log') = Len(log) + 1
    /\ SubSeq(log', 1, Len(log)) = log
    /\ readable' = TRUE

Next == Interrupt \/ Publish

Spec == Init /\ [][Next]_<<log, readable>>
=============================================================================

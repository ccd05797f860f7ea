--------------------------- MODULE MCLogProcesses ---------------------------
(***************************************************************************)
(* Instances of LogProcesses for TLC.                                      *)
(***************************************************************************)
EXTENDS LogProcesses, TLC

\* Appenders and payloads are only compared.
LogSymmetry == Permutations(Appenders) \cup Permutations(Payloads)

\* No step and no property of the tampered runs depends on these histories.
WithoutAppendHistory ==
    <<fileVars, proc, monitorVars, signed, budget>>
=============================================================================

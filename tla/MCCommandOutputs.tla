--------------------------- MODULE MCCommandOutputs ---------------------------
(***************************************************************************)
(* Instance of CommandOutputs for TLC.                                     *)
(***************************************************************************)
EXTENDS CommandOutputs, TLC

Interchangeable == Permutations(Processes)
=============================================================================

-------------------------- MODULE MCDocxContainer --------------------------
(***************************************************************************)
(* Instances of DocxContainer for TLC.                                     *)
(***************************************************************************)
EXTENDS DocxContainer, TLC

\* Slots are only compared, so permuting them changes nothing.
SlotSymmetry == Permutations(Slots)
=============================================================================

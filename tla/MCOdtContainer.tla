---------------------------- MODULE MCOdtContainer ----------------------------
(***************************************************************************)
(* Instance of OdtContainer for TLC.                                       *)
(***************************************************************************)
EXTENDS OdtContainer, TLC

\* Slots are only compared, so permuting them changes nothing.
SlotSymmetry == Permutations(Slots)

\* Once the last build has begun, nobody reads back the file there is: what it
\* may be edited to, it was edited to before.  Once it has ended, only the base
\* package is serialised and the file edited: what was asked for is read no more.
BuilderView ==
    IF builds < MaxBuilds THEN vars
    ELSE IF ~Idle THEN <<builderVars, buildVars, edits>>
    ELSE <<built, file, edits, IF shared THEN pkg ELSE NoKey>>
=============================================================================

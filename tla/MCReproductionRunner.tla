------------------------- MODULE MCReproductionRunner -------------------------
(***************************************************************************)
(* Instances of ReproductionRunner for TLC.                                *)
(***************************************************************************)
EXTENDS ReproductionRunner

TwoFiles == {1, 2}

\* The second content of file 1 reads like the first one followed by a file 2.
SomeContents == {<<"x">>, <<"x", 2, 0, "x">>}

TooLong == {}

\* No outputs, or file 1 as it may come out again.
SomeCarried == {[f \in TwoFiles |-> Absent],
                [f \in TwoFiles |-> IF f = 1 THEN <<"x">> ELSE Absent]}

\* One named output and whatever else there is; and no outputs at all.
SomeRecipes == {[literal |-> {1}, wildcard |-> TRUE],
                [literal |-> {}, wildcard |-> FALSE]}
=============================================================================

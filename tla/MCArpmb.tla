------------------------------ MODULE MCArpmb ------------------------------
(***************************************************************************)
(* Small instances of Arpmb for TLC.                                       *)
(***************************************************************************)
EXTENDS Arpmb

CONSTANTS k1, k2

MCKeys == {k1, k2}
Sizes  == {NotGiven, 0, 2}
Starts == {NotGiven, 1, 3, 4}
Counts == {NotGiven, 0, 3}
=============================================================================

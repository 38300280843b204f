------------------------------- MODULE MCRpmb -------------------------------
(***************************************************************************)
(* Small instances of Rpmb for TLC.                                        *)
(***************************************************************************)
EXTENDS Rpmb

CONSTANTS k1, k2

MCKeys       == {k1, k2}
Sizes        == {NotGiven, 1, 2}
SizesAndZero == {NotGiven, 0, 2}
AllSizes     == {NotGiven, 0, 1, 2}
Starts       == {NotGiven, 0, 2}
Counts       == {NotGiven, 0, 3}
Queries      == AllCommands \ {"WRITE_RPMB"}
=============================================================================

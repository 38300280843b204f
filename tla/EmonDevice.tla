----------------------------- MODULE EmonDevice -----------------------------
(***************************************************************************)
(* The eye monitors of one side of the link, as ufs_emon.c drives them     *)
(* through UniPro attributes: one per receive lane.  They are not part of  *)
(* the repository: this module states what the file and its comments rely  *)
(* on.                                                                     *)
(*                                                                         *)
(* Setting RX_EYEMON_Enable to 1 clears the counts.  A power mode change   *)
(* ends some time after it was asked for; then every enabled monitor       *)
(* begins a test of the point its step attributes name.  A test counts     *)
(* what it has tested and the errors it saw, and stops when either count   *)
(* is full; RX_EYEMON_Start is 1 while it goes on.                         *)
(***************************************************************************)
EXTENDS Integers

CONSTANTS
  TestCount,    \* opt->test_count, RX_EYEMON_Target_Test_Count
  ErrorLimit    \* EOM_PHY_ERROR_COUNT_THRESHOLD

ASSUME CountsAssumption == TestCount \in Nat \ {0} /\ ErrorLimit \in Nat \ {0}

Lanes == {0, 1}

VARIABLES
  on,           \* RX_EYEMON_Enable of each lane
  timing, volt, \* RX_EYEMON_Timing_Steps and _Voltage_Steps
  target,       \* RX_EYEMON_Target_Test_Count
  adapt,        \* PA_TXHSADAPTTYPE
  change,       \* a power mode change is under way
  running,      \* RX_EYEMON_Start
  tested,       \* RX_EYEMON_Tested_Count
  errors,       \* RX_EYEMON_Error_Count
  at            \* history: what the counts are about, [timing, volt, adapt]

counts  == <<running, tested, errors, at>>
devVars == <<on, timing, volt, target, adapt, change, counts>>

Adapts  == {"REFRESH_ADAPT", "INITIAL_ADAPT", "NO_ADAPT"}
Nothing == [timing |-> -1, volt |-> -1, adapt |-> "INITIAL_ADAPT"]

Cleared(l) ==
  /\ running' = [running EXCEPT ![l] = FALSE]
  /\ tested' = [tested EXCEPT ![l] = 0]
  /\ errors' = [errors EXCEPT ![l] = 0]
  /\ at' = [at EXCEPT ![l] = Nothing]

DevEnable(l) ==
  /\ on' = [on EXCEPT ![l] = TRUE]
  /\ Cleared(l)
  /\ UNCHANGED <<timing, volt, target, adapt, change>>

DevDisable(l) ==
  /\ on' = [on EXCEPT ![l] = FALSE]
  /\ running' = [running EXCEPT ![l] = FALSE]
  /\ UNCHANGED <<timing, volt, target, adapt, change, tested, errors, at>>

DevSetTiming(l, steps) ==
  /\ timing' = [timing EXCEPT ![l] = steps]
  /\ UNCHANGED <<on, volt, target, adapt, change, counts>>

DevSetVolt(l, steps) ==
  /\ volt' = [volt EXCEPT ![l] = steps]
  /\ UNCHANGED <<on, timing, target, adapt, change, counts>>

DevSetTarget(l) ==
  /\ target' = [target EXCEPT ![l] = TestCount]
  /\ UNCHANGED <<on, timing, volt, adapt, change, counts>>

DevNoAdapt ==
  /\ adapt' = "NO_ADAPT"
  /\ UNCHANGED <<on, timing, volt, target, change, counts>>

DevChange ==
  /\ change' = TRUE
  /\ UNCHANGED <<on, timing, volt, target, adapt, counts>>

\* The power mode change is done and the tests of the enabled lanes begin.
DevChangeEnds ==
  /\ change /\ change' = FALSE
  /\ running' = [l \in Lanes |-> on[l]]
  /\ tested' = [l \in Lanes |-> IF on[l] THEN 0 ELSE tested[l]]
  /\ errors' = [l \in Lanes |-> IF on[l] THEN 0 ELSE errors[l]]
  /\ at' = [l \in Lanes |->
              IF on[l] THEN [timing |-> timing[l], volt |-> volt[l], adapt |-> adapt]
                       ELSE at[l]]
  /\ UNCHANGED <<on, timing, volt, target, adapt>>

Full(l) == tested[l] >= target[l] \/ errors[l] >= ErrorLimit

DevTests(l) ==
  /\ running[l]
  /\ tested' = [tested EXCEPT ![l] = @ + 1]
  /\ \E e \in {0, 1, ErrorLimit} :
       errors' = [errors EXCEPT ![l] = IF @ + e > ErrorLimit THEN ErrorLimit ELSE @ + e]
  /\ running' = [running EXCEPT ![l] = tested'[l] < target[l] /\ errors'[l] < ErrorLimit]
  /\ UNCHANGED <<on, timing, volt, target, adapt, change, at>>

\* What earlier runs may have left, the last of them killed at any point and
\* some time ago: counts that look like those of a finished test, or a test
\* that is still going on.
DevInit ==
  /\ on \in [Lanes -> BOOLEAN]
  /\ timing = [l \in Lanes |-> 0] /\ volt = [l \in Lanes |-> 0]
  /\ target = [l \in Lanes |-> TestCount]
  /\ adapt = "INITIAL_ADAPT" /\ change = FALSE
  /\ \/ tested = [l \in Lanes |-> 0] /\ running = on
     \/ tested = [l \in Lanes |-> TestCount] /\ running = [l \in Lanes |-> FALSE]
  /\ errors = [l \in Lanes |-> 0]
  /\ at = [l \in Lanes |-> Nothing]

DevTypeOK ==
  /\ on \in [Lanes -> BOOLEAN] /\ running \in [Lanes -> BOOLEAN]
  /\ timing \in [Lanes -> Nat] /\ volt \in [Lanes -> Nat]
  /\ target \in [Lanes -> Nat]
  /\ adapt \in Adapts /\ change \in BOOLEAN
  /\ tested \in [Lanes -> Nat] /\ errors \in [Lanes -> 0 .. ErrorLimit]
  /\ at \in [Lanes -> [timing : Nat \cup {-1}, volt : Nat \cup {-1}, adapt : Adapts]]
=============================================================================

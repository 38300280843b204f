----------------------------- MODULE HmrDevice -----------------------------
(***************************************************************************)
(* The refresh operation of a UFS device, as the tool drives it through    *)
(* query requests.  The device is not part of the repository: this module  *)
(* states what ufs_hmr.c relies on.                                        *)
(*                                                                         *)
(* A cycle refreshes every unit once.  Setting fRefreshEnable refreshes    *)
(* one unit (bRefreshUnit minimum) or all that are left (full).  While a   *)
(* cycle is open dRefreshProgress is not 0; when it closes, dRefreshProg-  *)
(* ress is 0 again and dRefreshTotalCount has grown by one.  Reading       *)
(* bRefreshStatus turns a final status into Idle.                          *)
(***************************************************************************)
EXTENDS Integers

CONSTANTS
  Units,        \* how many minimum refresh units a cycle consists of
  MaxTotal      \* HMR_REFRESH_MAX_TOTCOUNT: cycles in the device's life

ASSUME UnitsAssumption    == Units \in Nat \ {0}
ASSUME MaxTotalAssumption == MaxTotal \in Nat

VARIABLES
  status,       \* bRefreshStatus
  method,       \* bRefreshMethod
  unit,         \* bRefreshUnit
  done,         \* units the open cycle has refreshed
  total,        \* dRefreshTotalCount
  used,         \* history: the methods the open cycle's units were done with
  last          \* history: the same for the cycle that closed last

devVars == <<status, method, unit, done, total, used, last>>

Methods   == {"FORCE", "SELECTIVE"}
UnitKinds == {"MIN", "FULL"}
Final     == {"ABORTED", "COMPLETED", "BUSY", "GENERAL"}
Statuses  == Final \cup {"IDLE", "IN_PROGRESS"}

Refreshing == status = "IN_PROGRESS"

\* dRefreshProgress # 0
CycleOpen == done > 0 \/ Refreshing

\* Any state an earlier use may have left.
DevInit ==
  /\ status \in Statuses
  /\ method \in Methods
  /\ unit \in UnitKinds
  /\ done \in 0 .. Units - 1
  /\ total \in 0 .. MaxTotal
  /\ CycleOpen => total < MaxTotal
  /\ used = IF done > 0 THEN {method} ELSE {}
  /\ last = {}

\* fRefreshEnable is set: a refresh begins, or is already under way.
DevEnable ==
  /\ total < MaxTotal
  /\ status' = "IN_PROGRESS"
  /\ UNCHANGED <<method, unit, done, total, used, last>>

\* The device refuses: its command queues are not empty, or its life is over.
DevRefuse ==
  /\ ~ Refreshing
  /\ status' = IF total < MaxTotal THEN "BUSY" ELSE "GENERAL"
  /\ UNCHANGED <<method, unit, done, total, used, last>>

DevWriteMethod(m) ==
  method' = m /\ UNCHANGED <<status, unit, done, total, used, last>>

DevWriteUnit(u) ==
  unit' = u /\ UNCHANGED <<status, method, done, total, used, last>>

DevReadStatus ==
  /\ status' = IF status \in Final THEN "IDLE" ELSE status
  /\ UNCHANGED <<method, unit, done, total, used, last>>

DevUnitEnds ==
  /\ Refreshing
  /\ \/ /\ done + 1 < Units
        /\ done' = done + 1
        /\ used' = used \cup {method}
        /\ status' = IF unit = "MIN" THEN "COMPLETED" ELSE status
        /\ UNCHANGED <<total, last>>
     \/ /\ done + 1 = Units
        /\ done' = 0
        /\ total' = total + 1
        /\ used' = {}
        /\ last' = used \cup {method}
        /\ status' = "COMPLETED"
  /\ UNCHANGED <<method, unit>>

\* Another host clears fRefreshEnable: the unit under way is not refreshed.
DevAbort ==
  /\ Refreshing
  /\ status' = "ABORTED"
  /\ UNCHANGED <<method, unit, done, total, used, last>>

DevTypeOK ==
  /\ status \in Statuses
  /\ method \in Methods
  /\ unit \in UnitKinds
  /\ done \in 0 .. Units - 1
  /\ total \in 0 .. MaxTotal
  /\ used \subseteq Methods
  /\ last \subseteq Methods
=============================================================================

----------------------------- MODULE Hmr_proofs -----------------------------
(***************************************************************************)
(* Theorems about Hmr for every number of units, cycles, retries, runs,    *)
(* failing queries and aborts.                                             *)
(***************************************************************************)
EXTENDS Hmr, TLAPS

\* An open cycle is not beyond the device's life.
Typed == TypeOK /\ (CycleOpen => total < MaxTotal)

Fresh == "METHOD_SET" \notin passer

\* A run that is going to open a cycle, up to the write of the method.
Opening == pc = "set_method" \/ (pc = "pre_status" /\ Fresh)

\* The method is written, or was found to be the requested one.
Set == pc \in {"set_unit", "enable", "enable_again", "enable_retry",
               "completed", "unit_progress", "full_progress", "post_progress",
               "post_status"}
         \/ (pc = "pre_status" /\ ~ Fresh)

Passed == pc \in {"close", "exit"} /\ rc = "OK"

\* The methods of the units refreshed so far.
MethodInv ==
  /\ done = 0 => used = {}
  /\ OneMethodPerCycle
  /\ pc = "run_unit" => devMethod = method
  /\ (pc \in {"run_method", "run_unit"} /\ total > health.total) => last = {method}
  /\ Opening => done = 0 /\ ~ Refreshing /\ total = totcount
  /\ Set => method = opt.method
  /\ (Set /\ total > totcount) => last = {opt.method}
  /\ health.total <= total
  /\ Passed => method = opt.method /\ VerifiedMeansRefreshed

\* Where the tool has seen that the device is not refreshing.
QuietInv ==
  /\ pc \in {"set_method", "set_unit", "unit_progress"} => ~ Refreshing
  /\ pc \in {"completed", "unit_progress"} => opt.unit = "MIN"
  /\ EnablesWhenQuiet

\* The cycles a run may spend, and has spent when the open one is over.
Allowed == (IF Fresh THEN 1 ELSE 2) + resent
Spent   == total + (IF CycleOpen THEN 1 ELSE 0)

SpendInv ==
  /\ pc \in {"run_method", "run_unit"} => Spent <= health.total + 1
  /\ pc \in Prepares => Spent <= totcount + Allowed
  /\ pc \in {"pre_status", "set_method", "set_unit"} =>
       Spent < totcount + Allowed
  /\ (pc \in {"enable", "enable_again"} \/ (pc = "enable_retry" /\ status = "BUSY")) =>
       /\ total < totcount + Allowed
       /\ Refreshing => Spent < totcount + Allowed

IInv == Typed /\ MethodInv /\ QuietInv /\ SpendInv

\* Every step keeps the types.
LEMMA TypedStep == Typed /\ [Next]_vars => Typed'
<1> SUFFICES ASSUME Typed, [Next]_vars
             PROVE  Typed'
  OBVIOUS
<1>1. CASE Open
  BY <1>1, UnitsAssumption, MaxTotalAssumption, RetryAssumption, RunsAssumption, ToolBounds
  DEF Open, Fault, Typed, TypeOK, DevTypeOK, Options, Methods, UnitKinds,
      Statuses, Final, Stages, Places, Queries, Codes, vars, devVars,
      toolVars, locals, envVars, CycleOpen, Refreshing
<1>2. CASE RunProgress
  <2>1. health' \in [open : BOOLEAN, total : 0 .. MaxTotal] /\ health'.total = total
    BY <1>2 DEF RunProgress, Health, CycleOpen, Refreshing, Typed, TypeOK, DevTypeOK
  <2>2. passer' \subseteq Stages /\ totcount' \in 0 .. MaxTotal
    BY <1>2, <2>1 DEF RunProgress, RunVerified, Typed, TypeOK, DevTypeOK
  <2>3. pc' \in Places /\ rc' \in Codes
    BY <1>2 DEF RunProgress, RunVerified, Prepared, Leave, Places, Queries,
                 Codes, Typed, TypeOK, DevTypeOK
  <2>4. UNCHANGED <<devVars, opt, cur, devMethod, exit, envVars>>
    BY <1>2 DEF RunProgress
  <2>5. QED
    BY <2>1, <2>2, <2>3, <2>4
    DEF Typed, TypeOK, DevTypeOK, devVars, envVars, CycleOpen, Refreshing
<1>3. CASE RunMethod
  BY <1>3, UnitsAssumption, MaxTotalAssumption, RetryAssumption, RunsAssumption, ToolBounds
  DEF RunMethod, Typed, TypeOK, DevTypeOK, Options, Methods, UnitKinds,
      Statuses, Final, Stages, Places, Queries, Codes, vars, devVars,
      toolVars, locals, envVars, CycleOpen, Refreshing
<1>4. CASE RunUnit
  <2>1. ResumedStages \subseteq Stages
    BY DEF ResumedStages, Stages
  <2>2. passer' \subseteq Stages /\ totcount' \in 0 .. MaxTotal
    BY <1>4, <2>1 DEF RunUnit, RunVerified, Typed, TypeOK, DevTypeOK
  <2>3. pc' \in Places /\ rc' \in Codes
    BY <1>4 DEF RunUnit, RunVerified, Prepared, Leave, Places, Queries, Codes,
                 Typed, TypeOK, DevTypeOK
  <2>4. UNCHANGED <<devVars, opt, cur, devMethod, health, exit, envVars>>
    BY <1>4 DEF RunUnit
  <2>5. QED
    BY <2>2, <2>3, <2>4
    DEF Typed, TypeOK, DevTypeOK, devVars, envVars, CycleOpen, Refreshing
<1>5. CASE PreStatus
  BY <1>5, UnitsAssumption, MaxTotalAssumption, RetryAssumption, RunsAssumption, ToolBounds
  DEF PreStatus, DevReadStatus, Prepared, PollAgain, Leave, Final, Typed,
      TypeOK, DevTypeOK, Options, Methods, UnitKinds, Statuses, Stages,
      Places, Queries, Codes, vars, devVars, toolVars, locals, envVars,
      CycleOpen, Refreshing
<1>6. CASE SetMethod
  BY <1>6, UnitsAssumption, MaxTotalAssumption, RetryAssumption, RunsAssumption, ToolBounds
  DEF SetMethod, DevWriteMethod, Fault, Leave, Typed, TypeOK, DevTypeOK,
      Options, Methods, UnitKinds, Statuses, Final, Stages, Places, Queries,
      Codes, vars, devVars, toolVars, locals, envVars, CycleOpen, Refreshing
<1>7. CASE SetUnit
  BY <1>7, UnitsAssumption, MaxTotalAssumption, RetryAssumption, RunsAssumption, ToolBounds
  DEF SetUnit, DevWriteUnit, Fault, Leave, Typed, TypeOK, DevTypeOK, Options,
      Methods, UnitKinds, Statuses, Final, Stages, Places, Queries, Codes,
      vars, devVars, toolVars, locals, envVars, CycleOpen, Refreshing
<1>8. CASE Enable
  <2>1. /\ pc' \in Places /\ cur' \in 0 .. RetryCount
        /\ faults' \in 0 .. MaxFaults /\ resent' \in 0 .. faults'
    BY <1>8, RetryAssumption, ToolBounds
    DEF Enable, Enabling, Fault, Places, Queries, Typed, TypeOK
  <2>2. /\ status' \in Statuses
        /\ status' = "IN_PROGRESS" => total < MaxTotal
    BY <1>8
    DEF Enable, Enabling, DevEnable, DevRefuse, Statuses, Final, devVars,
        Typed, TypeOK, DevTypeOK, CycleOpen, Refreshing
  <2>3. UNCHANGED <<method, unit, done, total, used, last>>
    BY <1>8 DEF Enable, DevEnable, DevRefuse, devVars
  <2>4. UNCHANGED <<opt, devMethod, passer, health, totcount, rc, exit, runs,
                    aborts, resent>>
    BY <1>8 DEF Enable
  <2>5. QED
    BY <2>1, <2>2, <2>3, <2>4
    DEF Typed, TypeOK, DevTypeOK, CycleOpen, Refreshing
<1>9. CASE EnableRetry
  <2>1. pc' \in Places /\ rc' \in Codes /\ cur' \in 0 .. RetryCount
    BY <1>9, RetryAssumption
    DEF EnableRetry, Leave, Places, Queries, Codes, Typed, TypeOK
  <2>2. /\ status' \in Statuses
        /\ status' = "IN_PROGRESS" => Refreshing
    BY <1>9
    DEF EnableRetry, DevReadStatus, Refreshing, Statuses, Final, devVars, Typed,
        TypeOK, DevTypeOK
  <2>3. UNCHANGED <<method, unit, done, total, used, last>>
    BY <1>9 DEF EnableRetry, DevReadStatus, devVars
  <2>4. UNCHANGED <<opt, devMethod, passer, health, totcount, exit, envVars>>
    BY <1>9 DEF EnableRetry
  <2>5. QED
    BY <2>1, <2>2, <2>3, <2>4
    DEF Typed, TypeOK, DevTypeOK, envVars, CycleOpen, Refreshing
<1>10. CASE UnitCompleted
  BY <1>10, UnitsAssumption, MaxTotalAssumption, RetryAssumption, RunsAssumption, ToolBounds
  DEF UnitCompleted, DevReadStatus, Ended, PollAgain, Leave, Final, Typed,
      TypeOK, DevTypeOK, Options, Methods, UnitKinds, Statuses, Stages,
      Places, Queries, Codes, vars, devVars, toolVars, locals, envVars,
      CycleOpen, Refreshing
<1>11. CASE LoopProgress
  BY <1>11, UnitsAssumption, MaxTotalAssumption, RetryAssumption, RunsAssumption, ToolBounds
  DEF LoopProgress, LoopOver, Health, Typed, TypeOK, DevTypeOK, Options,
      Methods, UnitKinds, Statuses, Final, Stages, Places, Queries, Codes,
      vars, devVars, toolVars, locals, envVars, CycleOpen, Refreshing
<1>12. CASE PostProgress
  BY <1>12, UnitsAssumption, MaxTotalAssumption, RetryAssumption, RunsAssumption, ToolBounds
  DEF PostProgress, Health, Leave, Typed, TypeOK, DevTypeOK, Options,
      Methods, UnitKinds, Statuses, Final, Stages, Places, Queries, Codes,
      vars, devVars, toolVars, locals, envVars, CycleOpen, Refreshing
<1>13. CASE PostStatus
  BY <1>13, UnitsAssumption, MaxTotalAssumption, RetryAssumption, RunsAssumption, ToolBounds
  DEF PostStatus, DevReadStatus, Ended, Grown, Leave, Final, Typed, TypeOK,
      DevTypeOK, Options, Methods, UnitKinds, Statuses, Stages, Places,
      Queries, Codes, vars, devVars, toolVars, locals, envVars, CycleOpen,
      Refreshing
<1>14. CASE Close
  BY <1>14, UnitsAssumption, MaxTotalAssumption, RetryAssumption, RunsAssumption, ToolBounds
  DEF Close, Fault, Typed, TypeOK, DevTypeOK, Options, Methods, UnitKinds,
      Statuses, Final, Stages, Places, Queries, Codes, vars, devVars,
      toolVars, locals, envVars, CycleOpen, Refreshing
<1>15. CASE StatusAnswerLost
  BY <1>15, UnitsAssumption, MaxTotalAssumption, RetryAssumption, RunsAssumption, ToolBounds
  DEF StatusAnswerLost, DevReadStatus, Fault, Leave, Final, Typed, TypeOK,
      DevTypeOK, Options, Methods, UnitKinds, Statuses, Stages, Places,
      Queries, Codes, vars, devVars, toolVars, locals, envVars, CycleOpen,
      Refreshing
<1>16. CASE \E place \in Queries : Fails(place)
  BY <1>16, UnitsAssumption, MaxTotalAssumption, RetryAssumption, RunsAssumption, ToolBounds
  DEF Queries, Fails, Fault, Leave, Typed, TypeOK, DevTypeOK, Options,
      Methods, UnitKinds, Statuses, Final, Stages, Places, Codes, vars,
      devVars, toolVars, locals, envVars, CycleOpen, Refreshing
<1>17. CASE Again
  BY <1>17, UnitsAssumption, MaxTotalAssumption, RetryAssumption, RunsAssumption, ToolBounds
  DEF Again, Unread, Typed, TypeOK, DevTypeOK, Options, Methods, UnitKinds,
      Statuses, Final, Stages, Places, Queries, Codes, vars, devVars,
      toolVars, locals, envVars, CycleOpen, Refreshing
<1>18. CASE DeviceStep
  <2>1. /\ status' \in Statuses
        /\ done' \in 0 .. Units - 1
        /\ total' \in 0 .. MaxTotal
    BY <1>18, UnitsAssumption, MaxTotalAssumption
    DEF DeviceStep, DevUnitEnds, CycleOpen, Refreshing, Statuses, Final, Typed,
        TypeOK, DevTypeOK
  <2>2. used' \subseteq Methods /\ last' \subseteq Methods
    BY <1>18 DEF DeviceStep, DevUnitEnds, Typed, TypeOK, DevTypeOK
  <2>3. CycleOpen' => total' < MaxTotal
    BY <1>18, UnitsAssumption
    DEF DeviceStep, DevUnitEnds, CycleOpen, Refreshing, Typed, TypeOK, DevTypeOK
  <2>4. UNCHANGED <<method, unit>>
    BY <1>18 DEF DeviceStep, DevUnitEnds
  <2>5. UNCHANGED <<toolVars, envVars>>
    BY <1>18 DEF DeviceStep
  <2>6. QED
    BY <2>1, <2>2, <2>3, <2>4, <2>5
    DEF Typed, TypeOK, DevTypeOK, toolVars, locals, envVars
<1>19. CASE OtherReader
  BY <1>19, UnitsAssumption, MaxTotalAssumption, RetryAssumption, RunsAssumption, ToolBounds
  DEF OtherReader, DevReadStatus, Final, Typed, TypeOK, DevTypeOK, Options,
      Methods, UnitKinds, Statuses, Stages, Places, Queries, Codes, vars,
      devVars, toolVars, locals, envVars, CycleOpen, Refreshing
<1>20. CASE OtherAborts
  BY <1>20, UnitsAssumption, MaxTotalAssumption, RetryAssumption, RunsAssumption, ToolBounds
  DEF OtherAborts, DevAbort, Typed, TypeOK, DevTypeOK, Options, Methods,
      UnitKinds, Statuses, Final, Stages, Places, Queries, Codes, vars,
      devVars, toolVars, locals, envVars, CycleOpen, Refreshing
<1>21. CASE UNCHANGED vars
  BY <1>21, UnitsAssumption, MaxTotalAssumption, RetryAssumption, RunsAssumption, ToolBounds
  DEF Typed, TypeOK, DevTypeOK, Options, Methods, UnitKinds, Statuses, Final,
      Stages, Places, Queries, Codes, vars, devVars, toolVars, locals,
      envVars, CycleOpen, Refreshing
<1>22. CASE Interrupted
  <2>1. /\ faults' \in 0 .. MaxFaults /\ resent' \in 0 .. faults'
        /\ pc' \in Places
    BY <1>22, ToolBounds
    DEF Interrupted, Enabling, Fault, Places, Queries, Typed, TypeOK
  <2>2. /\ status' \in Statuses /\ method' \in Methods /\ unit' \in UnitKinds
        /\ status' = "IN_PROGRESS" => total < MaxTotal
    BY <1>22
    DEF Interrupted, DevEnable, DevRefuse, DevWriteMethod, DevWriteUnit,
        Options, Statuses, Final, Typed, TypeOK, DevTypeOK, CycleOpen, Refreshing
  <2>3. UNCHANGED <<done, total, used, last>>
    BY <1>22
    DEF Interrupted, DevEnable, DevRefuse, DevWriteMethod, DevWriteUnit
  <2>4. UNCHANGED <<locals, rc, exit, runs, aborts>>
    BY <1>22 DEF Interrupted
  <2>5. done > 0 => total < MaxTotal
    BY DEF Typed, CycleOpen
  <2>6. QED
    BY <2>1, <2>2, <2>3, <2>4, <2>5
    DEF Typed, TypeOK, DevTypeOK, locals, CycleOpen, Refreshing
<1>23. QED
  BY <1>1, <1>2, <1>3, <1>4, <1>5, <1>6, <1>7, <1>8, <1>9, <1>10, <1>11,
     <1>12, <1>13, <1>14, <1>15, <1>16, <1>17, <1>18, <1>19, <1>20, <1>21,
     <1>22
  DEF Next, ToolNext, Terminating
\* What the types say of the numbers.
LEMMA Numbers ==
  ASSUME Typed
  PROVE  /\ total \in Nat /\ health.total \in Nat /\ totcount \in Nat
         /\ done \in 0 .. Units - 1 /\ Units \in Nat /\ Units > 0
         /\ used \subseteq Methods /\ last \subseteq Methods
         /\ method \in Methods /\ opt.method \in Methods
         /\ pc \in Places /\ resent \in Nat
<1>1. health.total \in 0 .. MaxTotal
  BY DEF Typed, TypeOK
<1>2. total \in 0 .. MaxTotal /\ totcount \in 0 .. MaxTotal /\ opt.method \in Methods
  BY DEF Typed, TypeOK, DevTypeOK, Options
<1>3. resent \in Nat
  BY DEF Typed, TypeOK
<1>4. QED
  BY <1>1, <1>2, <1>3, UnitsAssumption, MaxTotalAssumption
  DEF Typed, TypeOK, DevTypeOK

\* Every step keeps a cycle to one method.
LEMMA MethodStep == IInv /\ [Next]_vars => MethodInv'
<1> SUFFICES ASSUME IInv, [Next]_vars
             PROVE  MethodInv'
  OBVIOUS
<1>1. CASE Open
  BY <1>1, Numbers
  DEF Open, Fault, IInv, QuietInv, MethodInv, OneMethodPerCycle, Opening,
      Set, Fresh, Passed, VerifiedMeansRefreshed, vars, devVars, toolVars,
      locals, envVars, CycleOpen, Refreshing
<1>2. CASE RunProgress
  BY <1>2, Numbers
  DEF RunProgress, CleanRun, RunVerified, Exhausted, Prepared, Leave, Health,
      IInv, QuietInv, MethodInv, OneMethodPerCycle, Opening, Set, Fresh,
      Passed, VerifiedMeansRefreshed, vars, devVars, toolVars, locals,
      envVars, CycleOpen, Refreshing
<1>3. CASE RunMethod
  BY <1>3, Numbers
  DEF RunMethod, IInv, QuietInv, MethodInv, OneMethodPerCycle, Opening, Set,
      Fresh, Passed, VerifiedMeansRefreshed, vars, devVars, toolVars, locals,
      envVars, CycleOpen, Refreshing
<1>4. CASE RunUnit
  BY <1>4, Numbers
  DEF RunUnit, SameMethod, ResumedStages, RunVerified, Exhausted, Prepared,
      Leave, IInv, QuietInv, MethodInv, OneMethodPerCycle, Opening, Set,
      Fresh, Passed, VerifiedMeansRefreshed, vars, devVars, toolVars, locals,
      envVars, CycleOpen, Refreshing
<1>5. CASE PreStatus
  BY <1>5, Numbers
  DEF PreStatus, DevReadStatus, Prepared, PollAgain, Leave, Final, IInv,
      QuietInv, MethodInv, OneMethodPerCycle, Opening, Set, Fresh, Passed,
      VerifiedMeansRefreshed, vars, devVars, toolVars, locals, envVars,
      CycleOpen, Refreshing
<1>6. CASE SetMethod
  BY <1>6, Numbers
  DEF SetMethod, DevWriteMethod, Fault, Leave, IInv, QuietInv, MethodInv,
      OneMethodPerCycle, Opening, Set, Fresh, Passed, VerifiedMeansRefreshed,
      vars, devVars, toolVars, locals, envVars, CycleOpen, Refreshing
<1>7. CASE SetUnit
  BY <1>7, Numbers
  DEF SetUnit, DevWriteUnit, Fault, Leave, IInv, QuietInv, MethodInv,
      OneMethodPerCycle, Opening, Set, Fresh, Passed, VerifiedMeansRefreshed,
      vars, devVars, toolVars, locals, envVars, CycleOpen, Refreshing
<1>8. CASE Enable
  BY <1>8, Numbers
  DEF Enable, Enabling, DevEnable, DevRefuse, Fault, IInv, QuietInv, MethodInv,
      OneMethodPerCycle, Opening, Set, Fresh, Passed, VerifiedMeansRefreshed,
      vars, devVars, toolVars, locals, envVars, CycleOpen, Refreshing
<1>9. CASE EnableRetry
  BY <1>9, Numbers
  DEF EnableRetry, DevReadStatus, MayRetry, Leave, Final, IInv, QuietInv,
      MethodInv, OneMethodPerCycle, Opening, Set, Fresh, Passed,
      VerifiedMeansRefreshed, vars, devVars, toolVars, locals, envVars,
      CycleOpen, Refreshing
<1>10. CASE UnitCompleted
  BY <1>10, Numbers
  DEF UnitCompleted, DevReadStatus, Ended, PollAgain, Leave, Final, IInv,
      QuietInv, MethodInv, OneMethodPerCycle, Opening, Set, Fresh, Passed,
      VerifiedMeansRefreshed, vars, devVars, toolVars, locals, envVars,
      CycleOpen, Refreshing
<1>11. CASE LoopProgress
  BY <1>11, Numbers
  DEF LoopProgress, LoopOver, Health, IInv, QuietInv, MethodInv,
      OneMethodPerCycle, Opening, Set, Fresh, Passed, VerifiedMeansRefreshed,
      vars, devVars, toolVars, locals, envVars, CycleOpen, Refreshing
<1>12. CASE PostProgress
  BY <1>12, Numbers
  DEF PostProgress, Health, Leave, IInv, QuietInv, MethodInv,
      OneMethodPerCycle, Opening, Set, Fresh, Passed, VerifiedMeansRefreshed,
      vars, devVars, toolVars, locals, envVars, CycleOpen, Refreshing
<1>13. CASE PostStatus
  BY <1>13, Numbers
  DEF PostStatus, DevReadStatus, Ended, Grown, Leave, Final, IInv, QuietInv,
      MethodInv, OneMethodPerCycle, Opening, Set, Fresh, Passed,
      VerifiedMeansRefreshed, vars, devVars, toolVars, locals, envVars,
      CycleOpen, Refreshing
<1>14. CASE Close
  BY <1>14, Numbers
  DEF Close, Fault, IInv, QuietInv, MethodInv, OneMethodPerCycle, Opening,
      Set, Fresh, Passed, VerifiedMeansRefreshed, vars, devVars, toolVars,
      locals, envVars, CycleOpen, Refreshing
<1>15. CASE StatusAnswerLost
  BY <1>15, Numbers
  DEF StatusAnswerLost, DevReadStatus, Fault, Leave, Final, IInv, QuietInv,
      MethodInv, OneMethodPerCycle, Opening, Set, Fresh, Passed,
      VerifiedMeansRefreshed, vars, devVars, toolVars, locals, envVars,
      CycleOpen, Refreshing
<1>16. CASE \E place \in Queries : Fails(place)
  BY <1>16, Numbers
  DEF Queries, Fails, Fault, Leave, IInv, QuietInv, MethodInv,
      OneMethodPerCycle, Opening, Set, Fresh, Passed, VerifiedMeansRefreshed,
      vars, devVars, toolVars, locals, envVars, CycleOpen, Refreshing
<1>17. CASE Again
  BY <1>17, Numbers
  DEF Again, Unread, IInv, QuietInv, MethodInv, OneMethodPerCycle, Opening,
      Set, Fresh, Passed, VerifiedMeansRefreshed, vars, devVars, toolVars,
      locals, envVars, CycleOpen, Refreshing
<1>18. CASE DeviceStep
  <2> USE DEF DeviceStep, DevUnitEnds, toolVars, locals
  <2>1. used \subseteq {method} /\ method \in Methods /\ health.total <= total
    BY Numbers DEF IInv, MethodInv, OneMethodPerCycle
  <2>2. ~ Opening /\ UNCHANGED <<Opening, Set, Fresh, Passed>>
    BY <1>18 DEF IInv, MethodInv, Refreshing, Opening, Set, Fresh, Passed
  <2>3. CASE done + 1 < Units
    <3>1. UNCHANGED <<total, last>> /\ done' = done + 1
      BY <1>18, <2>3, Numbers DEF IInv
    <3>2. used' \subseteq {method}
      BY <1>18, <2>1, <2>3
    <3>3. done' # 0
      BY <3>1, Numbers DEF IInv
    <3>4. QED
      BY <1>18, <2>2, <3>1, <3>2, <3>3
      DEF IInv, MethodInv, OneMethodPerCycle, Passed, VerifiedMeansRefreshed
  <2>4. CASE done + 1 = Units
    <3>1. last' = {method} /\ used' = {} /\ UNCHANGED method
      BY <1>18, <2>1, <2>4, Numbers DEF IInv
    <3>2. total' = total + 1 /\ total' > total /\ health.total <= total'
      BY <1>18, <2>1, <2>4, Numbers DEF IInv
    <3>3. OneMethodPerCycle'
      BY <3>1, <2>1 DEF OneMethodPerCycle
    <3>4. (Passed => VerifiedMeansRefreshed)'
      BY <1>18, <2>2, <3>1, <3>2, Numbers
      DEF IInv, MethodInv, Passed, VerifiedMeansRefreshed
    <3>5. QED
      BY <1>18, <2>2, <3>1, <3>2, <3>3, <3>4 DEF IInv, MethodInv
  <2>5. QED
    BY <1>18, <2>3, <2>4
<1>19. CASE OtherReader
  BY <1>19, Numbers
  DEF OtherReader, DevReadStatus, Final, IInv, QuietInv, MethodInv,
      OneMethodPerCycle, Opening, Set, Fresh, Passed, VerifiedMeansRefreshed,
      vars, devVars, toolVars, locals, envVars, CycleOpen, Refreshing
<1>20. CASE OtherAborts
  BY <1>20, Numbers
  DEF OtherAborts, DevAbort, IInv, QuietInv, MethodInv, OneMethodPerCycle,
      Opening, Set, Fresh, Passed, VerifiedMeansRefreshed, vars, devVars,
      toolVars, locals, envVars, CycleOpen, Refreshing
<1>21. CASE UNCHANGED vars
  BY <1>21, Numbers
  DEF IInv, QuietInv, MethodInv, OneMethodPerCycle, Opening, Set, Fresh,
      Passed, VerifiedMeansRefreshed, vars, devVars, toolVars, locals,
      envVars, CycleOpen, Refreshing
<1>22. CASE Interrupted
  BY <1>22, Numbers
  DEF Interrupted, Enabling, DevEnable, DevRefuse, DevWriteMethod,
      DevWriteUnit, Fault, IInv, QuietInv, MethodInv, OneMethodPerCycle, Opening, Set, Fresh,
      Passed, VerifiedMeansRefreshed, vars, devVars, toolVars, locals,
      envVars, CycleOpen, Refreshing
<1>23. QED
  BY <1>1, <1>2, <1>3, <1>4, <1>5, <1>6, <1>7, <1>8, <1>9, <1>10, <1>11,
     <1>12, <1>13, <1>14, <1>15, <1>16, <1>17, <1>18, <1>19, <1>20, <1>21,
     <1>22
  DEF Next, ToolNext, Terminating
\* Every step keeps what the tool knows of a quiet device.
LEMMA QuietStep == IInv /\ [Next]_vars => QuietInv'
<1> SUFFICES ASSUME IInv, [Next]_vars
             PROVE  QuietInv'
  OBVIOUS
<1>1. CASE Open
  BY <1>1, Numbers
  DEF Open, Fault, IInv, MethodInv, Opening, Fresh, QuietInv,
      EnablesWhenQuiet, vars, devVars, toolVars, locals, envVars, CycleOpen,
      Refreshing
<1>2. CASE RunProgress
  BY <1>2, Numbers
  DEF RunProgress, CleanRun, RunVerified, Exhausted, Prepared, Leave, Health,
      IInv, MethodInv, Opening, Fresh, QuietInv, EnablesWhenQuiet, vars,
      devVars, toolVars, locals, envVars, CycleOpen, Refreshing
<1>3. CASE RunMethod
  BY <1>3, Numbers
  DEF RunMethod, IInv, MethodInv, Opening, Fresh, QuietInv, EnablesWhenQuiet,
      vars, devVars, toolVars, locals, envVars, CycleOpen, Refreshing
<1>4. CASE RunUnit
  BY <1>4, Numbers
  DEF RunUnit, SameMethod, ResumedStages, RunVerified, Exhausted, Prepared,
      Leave, IInv, MethodInv, Opening, Fresh, QuietInv, EnablesWhenQuiet,
      vars, devVars, toolVars, locals, envVars, CycleOpen, Refreshing
<1>5. CASE PreStatus
  BY <1>5, Numbers
  DEF PreStatus, DevReadStatus, Prepared, PollAgain, Leave, Final, IInv,
      MethodInv, Opening, Fresh, QuietInv, EnablesWhenQuiet, vars, devVars,
      toolVars, locals, envVars, CycleOpen, Refreshing
<1>6. CASE SetMethod
  BY <1>6, Numbers
  DEF SetMethod, DevWriteMethod, Fault, Leave, IInv, MethodInv, Opening,
      Fresh, QuietInv, EnablesWhenQuiet, vars, devVars, toolVars, locals,
      envVars, CycleOpen, Refreshing
<1>7. CASE SetUnit
  BY <1>7, Numbers
  DEF SetUnit, DevWriteUnit, Fault, Leave, IInv, MethodInv, Opening, Fresh,
      QuietInv, EnablesWhenQuiet, vars, devVars, toolVars, locals, envVars,
      CycleOpen, Refreshing
<1>8. CASE Enable
  BY <1>8, Numbers
  DEF Enable, Enabling, DevEnable, DevRefuse, Fault, IInv, MethodInv, Opening, Fresh,
      QuietInv, EnablesWhenQuiet, vars, devVars, toolVars, locals, envVars,
      CycleOpen, Refreshing
<1>9. CASE EnableRetry
  BY <1>9, Numbers
  DEF EnableRetry, DevReadStatus, MayRetry, Leave, Final, IInv, MethodInv,
      Opening, Fresh, QuietInv, EnablesWhenQuiet, vars, devVars, toolVars,
      locals, envVars, CycleOpen, Refreshing
<1>10. CASE UnitCompleted
  BY <1>10, Numbers
  DEF UnitCompleted, DevReadStatus, Ended, PollAgain, Leave, Final, IInv,
      MethodInv, Opening, Fresh, QuietInv, EnablesWhenQuiet, vars, devVars,
      toolVars, locals, envVars, CycleOpen, Refreshing
<1>11. CASE LoopProgress
  BY <1>11, Numbers
  DEF LoopProgress, LoopOver, Health, IInv, MethodInv, Opening, Fresh,
      QuietInv, EnablesWhenQuiet, vars, devVars, toolVars, locals, envVars,
      CycleOpen, Refreshing
<1>12. CASE PostProgress
  BY <1>12, Numbers
  DEF PostProgress, Health, Leave, IInv, MethodInv, Opening, Fresh, QuietInv,
      EnablesWhenQuiet, vars, devVars, toolVars, locals, envVars, CycleOpen,
      Refreshing
<1>13. CASE PostStatus
  BY <1>13, Numbers
  DEF PostStatus, DevReadStatus, Ended, Grown, Leave, Final, IInv, MethodInv,
      Opening, Fresh, QuietInv, EnablesWhenQuiet, vars, devVars, toolVars,
      locals, envVars, CycleOpen, Refreshing
<1>14. CASE Close
  BY <1>14, Numbers
  DEF Close, Fault, IInv, MethodInv, Opening, Fresh, QuietInv,
      EnablesWhenQuiet, vars, devVars, toolVars, locals, envVars, CycleOpen,
      Refreshing
<1>15. CASE StatusAnswerLost
  BY <1>15, Numbers
  DEF StatusAnswerLost, DevReadStatus, Fault, Leave, Final, IInv, MethodInv,
      Opening, Fresh, QuietInv, EnablesWhenQuiet, vars, devVars, toolVars,
      locals, envVars, CycleOpen, Refreshing
<1>16. CASE \E place \in Queries : Fails(place)
  BY <1>16, Numbers
  DEF Queries, Fails, Fault, Leave, IInv, MethodInv, Opening, Fresh,
      QuietInv, EnablesWhenQuiet, vars, devVars, toolVars, locals, envVars,
      CycleOpen, Refreshing
<1>17. CASE Again
  BY <1>17, Numbers
  DEF Again, Unread, IInv, MethodInv, Opening, Fresh, QuietInv,
      EnablesWhenQuiet, vars, devVars, toolVars, locals, envVars, CycleOpen,
      Refreshing
<1>18. CASE DeviceStep
  BY <1>18, Numbers
  DEF DeviceStep, DevUnitEnds, IInv, MethodInv, Opening, Fresh, QuietInv,
      EnablesWhenQuiet, vars, devVars, toolVars, locals, envVars, CycleOpen,
      Refreshing
<1>19. CASE OtherReader
  BY <1>19, Numbers
  DEF OtherReader, DevReadStatus, Final, IInv, MethodInv, Opening, Fresh,
      QuietInv, EnablesWhenQuiet, vars, devVars, toolVars, locals, envVars,
      CycleOpen, Refreshing
<1>20. CASE OtherAborts
  BY <1>20, Numbers
  DEF OtherAborts, DevAbort, IInv, MethodInv, Opening, Fresh, QuietInv,
      EnablesWhenQuiet, vars, devVars, toolVars, locals, envVars, CycleOpen,
      Refreshing
<1>21. CASE UNCHANGED vars
  BY <1>21, Numbers
  DEF IInv, MethodInv, Opening, Fresh, QuietInv, EnablesWhenQuiet, vars,
      devVars, toolVars, locals, envVars, CycleOpen, Refreshing
<1>22. CASE Interrupted
  BY <1>22, Numbers
  DEF Interrupted, Enabling, DevEnable, DevRefuse, DevWriteMethod,
      DevWriteUnit, Fault, IInv, MethodInv, Opening, Fresh, QuietInv, EnablesWhenQuiet, vars,
      devVars, toolVars, locals, envVars, CycleOpen, Refreshing
<1>23. QED
  BY <1>1, <1>2, <1>3, <1>4, <1>5, <1>6, <1>7, <1>8, <1>9, <1>10, <1>11,
     <1>12, <1>13, <1>14, <1>15, <1>16, <1>17, <1>18, <1>19, <1>20, <1>21,
     <1>22
  DEF Next, ToolNext, Terminating
\* No step spends more cycles than a run may.
LEMMA SpendStep == IInv /\ [Next]_vars => SpendInv'
<1> SUFFICES ASSUME IInv, [Next]_vars
             PROVE  SpendInv'
  OBVIOUS
<1>1. CASE Open
  BY <1>1, Numbers
  DEF Open, Fault, IInv, MethodInv, QuietInv, Opening, SpendInv, Allowed,
      Spent, Prepares, Fresh, vars, devVars, toolVars, locals, envVars,
      CycleOpen, Refreshing
<1>2. CASE RunProgress
  BY <1>2, Numbers
  DEF RunProgress, CleanRun, RunVerified, Exhausted, Prepared, Leave, Health,
      IInv, MethodInv, QuietInv, Opening, SpendInv, Allowed, Spent, Prepares,
      Fresh, vars, devVars, toolVars, locals, envVars, CycleOpen, Refreshing
<1>3. CASE RunMethod
  BY <1>3, Numbers
  DEF RunMethod, IInv, MethodInv, QuietInv, Opening, SpendInv, Allowed,
      Spent, Prepares, Fresh, vars, devVars, toolVars, locals, envVars,
      CycleOpen, Refreshing
<1>4. CASE RunUnit
  BY <1>4, Numbers
  DEF RunUnit, SameMethod, ResumedStages, RunVerified, Exhausted, Prepared,
      Leave, IInv, MethodInv, QuietInv, Opening, SpendInv, Allowed, Spent,
      Prepares, Fresh, vars, devVars, toolVars, locals, envVars, CycleOpen,
      Refreshing
<1>5. CASE PreStatus
  BY <1>5, Numbers
  DEF PreStatus, DevReadStatus, Prepared, PollAgain, Leave, Final, IInv,
      MethodInv, QuietInv, Opening, SpendInv, Allowed, Spent, Prepares,
      Fresh, vars, devVars, toolVars, locals, envVars, CycleOpen, Refreshing
<1>6. CASE SetMethod
  BY <1>6, Numbers
  DEF SetMethod, DevWriteMethod, Fault, Leave, IInv, MethodInv, QuietInv,
      Opening, SpendInv, Allowed, Spent, Prepares, Fresh, vars, devVars,
      toolVars, locals, envVars, CycleOpen, Refreshing
<1>7. CASE SetUnit
  BY <1>7, Numbers
  DEF SetUnit, DevWriteUnit, Fault, Leave, IInv, MethodInv, QuietInv,
      Opening, SpendInv, Allowed, Spent, Prepares, Fresh, vars, devVars,
      toolVars, locals, envVars, CycleOpen, Refreshing
<1>8. CASE Enable
  BY <1>8, Numbers
  DEF Enable, Enabling, DevEnable, DevRefuse, Fault, IInv, MethodInv, QuietInv,
      Opening, SpendInv, Allowed, Spent, Prepares, Fresh, vars, devVars,
      toolVars, locals, envVars, CycleOpen, Refreshing
<1>9. CASE EnableRetry
  BY <1>9, Numbers
  DEF EnableRetry, DevReadStatus, MayRetry, Leave, Final, IInv, MethodInv,
      QuietInv, Opening, SpendInv, Allowed, Spent, Prepares, Fresh, vars,
      devVars, toolVars, locals, envVars, CycleOpen, Refreshing
<1>10. CASE UnitCompleted
  BY <1>10, Numbers
  DEF UnitCompleted, DevReadStatus, Ended, PollAgain, Leave, Final, IInv,
      MethodInv, QuietInv, Opening, SpendInv, Allowed, Spent, Prepares,
      Fresh, vars, devVars, toolVars, locals, envVars, CycleOpen, Refreshing
<1>11. CASE LoopProgress
  BY <1>11, Numbers
  DEF LoopProgress, LoopOver, Health, IInv, MethodInv, QuietInv, Opening,
      SpendInv, Allowed, Spent, Prepares, Fresh, vars, devVars, toolVars,
      locals, envVars, CycleOpen, Refreshing
<1>12. CASE PostProgress
  BY <1>12, Numbers
  DEF PostProgress, Health, Leave, IInv, MethodInv, QuietInv, Opening,
      SpendInv, Allowed, Spent, Prepares, Fresh, vars, devVars, toolVars,
      locals, envVars, CycleOpen, Refreshing
<1>13. CASE PostStatus
  BY <1>13, Numbers
  DEF PostStatus, DevReadStatus, Ended, Grown, Leave, Final, IInv, MethodInv,
      QuietInv, Opening, SpendInv, Allowed, Spent, Prepares, Fresh, vars,
      devVars, toolVars, locals, envVars, CycleOpen, Refreshing
<1>14. CASE Close
  BY <1>14, Numbers
  DEF Close, Fault, IInv, MethodInv, QuietInv, Opening, SpendInv, Allowed,
      Spent, Prepares, Fresh, vars, devVars, toolVars, locals, envVars,
      CycleOpen, Refreshing
<1>15. CASE StatusAnswerLost
  BY <1>15, Numbers
  DEF StatusAnswerLost, DevReadStatus, Fault, Leave, Final, IInv, MethodInv,
      QuietInv, Opening, SpendInv, Allowed, Spent, Prepares, Fresh, vars,
      devVars, toolVars, locals, envVars, CycleOpen, Refreshing
<1>16. CASE \E place \in Queries : Fails(place)
  BY <1>16, Numbers
  DEF Queries, Fails, Fault, Leave, IInv, MethodInv, QuietInv, Opening,
      SpendInv, Allowed, Spent, Prepares, Fresh, vars, devVars, toolVars,
      locals, envVars, CycleOpen, Refreshing
<1>17. CASE Again
  BY <1>17, Numbers
  DEF Again, Unread, IInv, MethodInv, QuietInv, Opening, SpendInv, Allowed,
      Spent, Prepares, Fresh, vars, devVars, toolVars, locals, envVars,
      CycleOpen, Refreshing
<1>18. CASE DeviceStep
  BY <1>18, Numbers
  DEF DeviceStep, DevUnitEnds, IInv, MethodInv, QuietInv, Opening, SpendInv,
      Allowed, Spent, Prepares, Fresh, vars, devVars, toolVars, locals,
      envVars, CycleOpen, Refreshing
<1>19. CASE OtherReader
  BY <1>19, Numbers
  DEF OtherReader, DevReadStatus, Final, IInv, MethodInv, QuietInv, Opening,
      SpendInv, Allowed, Spent, Prepares, Fresh, vars, devVars, toolVars,
      locals, envVars, CycleOpen, Refreshing
<1>20. CASE OtherAborts
  BY <1>20, Numbers
  DEF OtherAborts, DevAbort, IInv, MethodInv, QuietInv, Opening, SpendInv,
      Allowed, Spent, Prepares, Fresh, vars, devVars, toolVars, locals,
      envVars, CycleOpen, Refreshing
<1>21. CASE UNCHANGED vars
  BY <1>21, Numbers
  DEF IInv, MethodInv, QuietInv, Opening, SpendInv, Allowed, Spent, Prepares,
      Fresh, vars, devVars, toolVars, locals, envVars, CycleOpen, Refreshing
<1>22. CASE Interrupted
  BY <1>22, Numbers
  DEF Interrupted, Enabling, DevEnable, DevRefuse, DevWriteMethod,
      DevWriteUnit, Fault, IInv, MethodInv, QuietInv, Opening, SpendInv, Allowed, Spent, Prepares,
      Fresh, vars, devVars, toolVars, locals, envVars, CycleOpen, Refreshing
<1>23. QED
  BY <1>1, <1>2, <1>3, <1>4, <1>5, <1>6, <1>7, <1>8, <1>9, <1>10, <1>11,
     <1>12, <1>13, <1>14, <1>15, <1>16, <1>17, <1>18, <1>19, <1>20, <1>21,
     <1>22
  DEF Next, ToolNext, Terminating
\* The initial states.
LEMMA Started == Init => IInv
<1> SUFFICES ASSUME Init
             PROVE  IInv
  OBVIOUS
<1>1. /\ status \in Statuses /\ method \in Methods /\ unit \in UnitKinds
      /\ done \in 0 .. Units - 1 /\ total \in 0 .. MaxTotal
      /\ used \subseteq Methods /\ last \subseteq Methods
      /\ used \subseteq {method} /\ (done = 0 => used = {})
      /\ CycleOpen => total < MaxTotal
  BY UnitsAssumption, MaxTotalAssumption DEF Init, DevInit
<1>2. /\ opt \in Options /\ devMethod \in Methods
      /\ passer = {} /\ totcount = 0 /\ cur = 0
      /\ pc = "start" /\ rc = "NONE" /\ exit = "NONE"
      /\ runs = 1 /\ faults = 0 /\ aborts = 0 /\ resent = 0
  BY DEF Init, Options
<1>3. health = [open |-> FALSE, total |-> 0]
  BY DEF Init, Unread
<1>4. health \in [open : BOOLEAN, total : 0 .. MaxTotal] /\ health.total = 0
  BY <1>3, MaxTotalAssumption
<1>5. Typed
  BY <1>1, <1>2, <1>4, MaxTotalAssumption, RetryAssumption, RunsAssumption,
     ToolBounds
  DEF Typed, TypeOK, DevTypeOK, Stages, Places, Codes
<1>6. last = {}
  BY DEF Init, DevInit
<1>7. MethodInv
  BY <1>1, <1>2, <1>4, <1>6
  DEF MethodInv, OneMethodPerCycle, Opening, Set, Passed
<1>8. QuietInv /\ SpendInv
  BY <1>2 DEF QuietInv, EnablesWhenQuiet, SpendInv, Prepares
<1>9. QED
  BY <1>5, <1>7, <1>8 DEF IInv

\* The invariant is inductive.
THEOREM Inductive == Spec => []IInv
<1>1. IInv /\ [Next]_vars => IInv'
  BY TypedStep, MethodStep, QuietStep, SpendStep DEF IInv
<1>2. QED
  BY Started, <1>1, PTL DEF Spec

\* Every variable stays in its type.
THEOREM TypeCorrect == Spec => []TypeOK
<1>1. IInv => TypeOK
  BY DEF IInv, Typed
<1>2. QED
  BY Inductive, <1>1, PTL

\* Whatever options the runs have and wherever they are killed, the units of
\* a cycle are refreshed with one method (hmr_precondition_verify_run).
THEOREM OneMethod == Spec => []OneMethodPerCycle
<1>1. IInv => OneMethodPerCycle
  BY DEF IInv, MethodInv
<1>2. QED
  BY Inductive, <1>1, PTL

\* A run that passes hmr_postcondition_verify saw a cycle of its method end.
THEOREM Verified == Spec => []VerifiedMeansRefreshed
<1>1. IInv => VerifiedMeansRefreshed
  BY DEF IInv, MethodInv, Passed, VerifiedMeansRefreshed
<1>2. QED
  BY Inductive, <1>1, PTL

\* With the minimum unit, the tool decides to set fRefreshEnable only while the
\* device is not refreshing, also after a set the transport has repeated.
THEOREM QuietWhenEnabled == Spec => []EnablesWhenQuiet
<1>1. IInv => EnablesWhenQuiet
  BY DEF IInv, QuietInv
<1>2. QED
  BY Inductive, <1>1, PTL

\* A run that opens a cycle spends one cycle of the device's life, a run that
\* continues one at most two, and one more for every set of the flag that the
\* transport repeated, whatever else fails and whoever interferes.
THEOREM Wear == Spec => []WearBound
<1>1. IInv => WearBound
  BY Numbers DEF IInv, SpendInv, Spent, Allowed, Fresh, WearBound
<1>2. QED
  BY Inductive, <1>1, PTL

-----------------------------------------------------------------------------
(* A refresh that came to its end                                          *)

\* From the loops of hmr_refresh_start to hmr_postcondition_verify.
Working == pc \in {"completed", "unit_progress", "full_progress",
                   "post_progress", "post_status"}

\* What the job has achieved when nothing failed: a cycle of this run's own
\* is open, or over.
DoneInv ==
  /\ totcount <= total
  /\ pc \in {"post_progress", "post_status"} => ~ CycleOpen
  /\ pc = "post_status" => health.total = total
  /\ (Working /\ faults = 0 /\ aborts = 0) =>
       /\ status \in {"IN_PROGRESS", "COMPLETED", "IDLE"}
       /\ CycleOpen \/ total > totcount

\* Every step keeps what the job has achieved.
LEMMA DoneStep == IInv /\ DoneInv /\ [Next]_vars => DoneInv'
<1> SUFFICES ASSUME IInv, DoneInv, [Next]_vars
             PROVE  DoneInv'
  OBVIOUS
<1>0. /\ faults \in Nat /\ aborts \in Nat /\ status \in Statuses
  BY ToolBounds DEF IInv, Typed, TypeOK, DevTypeOK
<1>1. CASE Open
  BY <1>0, <1>1, Numbers
  DEF Open, Fault, Statuses, IInv, MethodInv, DoneInv, Working, vars,
      devVars, toolVars, locals, envVars, CycleOpen, Refreshing
<1>2. CASE RunProgress
  BY <1>0, <1>2, Numbers
  DEF RunProgress, CleanRun, RunVerified, Exhausted, Prepared, Leave,
      Health, Statuses, IInv, MethodInv, DoneInv, Working, vars, devVars,
      toolVars, locals, envVars, CycleOpen, Refreshing
<1>3. CASE RunMethod
  BY <1>0, <1>3, Numbers
  DEF RunMethod, Statuses, IInv, MethodInv, DoneInv, Working, vars, devVars,
      toolVars, locals, envVars, CycleOpen, Refreshing
<1>4. CASE RunUnit
  BY <1>0, <1>4, Numbers
  DEF RunUnit, SameMethod, ResumedStages, RunVerified, Exhausted, Prepared,
      Leave, Statuses, IInv, MethodInv, DoneInv, Working, vars, devVars,
      toolVars, locals, envVars, CycleOpen, Refreshing
<1>5. CASE PreStatus
  BY <1>0, <1>5, Numbers
  DEF PreStatus, DevReadStatus, Prepared, PollAgain, Leave, Final, Statuses,
      IInv, MethodInv, DoneInv, Working, vars, devVars, toolVars, locals,
      envVars, CycleOpen, Refreshing
<1>6. CASE SetMethod
  BY <1>0, <1>6, Numbers
  DEF SetMethod, DevWriteMethod, Fault, Leave, Statuses, IInv, MethodInv,
      DoneInv, Working, vars, devVars, toolVars, locals, envVars, CycleOpen,
      Refreshing
<1>7. CASE SetUnit
  BY <1>0, <1>7, Numbers
  DEF SetUnit, DevWriteUnit, Fault, Leave, Statuses, IInv, MethodInv,
      DoneInv, Working, vars, devVars, toolVars, locals, envVars, CycleOpen,
      Refreshing
<1>8. CASE Enable
  BY <1>0, <1>8, Numbers
  DEF Enable, Enabling, DevEnable, DevRefuse, Fault, Statuses, IInv, MethodInv,
      DoneInv, Working, vars, devVars, toolVars, locals, envVars, CycleOpen,
      Refreshing
<1>9. CASE EnableRetry
  BY <1>0, <1>9, Numbers
  DEF EnableRetry, DevReadStatus, MayRetry, Leave, Final, Statuses, IInv,
      MethodInv, DoneInv, Working, vars, devVars, toolVars, locals, envVars,
      CycleOpen, Refreshing
<1>10. CASE UnitCompleted
  BY <1>0, <1>10, Numbers
  DEF UnitCompleted, DevReadStatus, Ended, PollAgain, Leave, Final,
      Statuses, IInv, MethodInv, DoneInv, Working, vars, devVars, toolVars,
      locals, envVars, CycleOpen, Refreshing
<1>11. CASE LoopProgress
  BY <1>0, <1>11, Numbers
  DEF LoopProgress, LoopOver, Health, Statuses, IInv, MethodInv, DoneInv,
      Working, vars, devVars, toolVars, locals, envVars, CycleOpen,
      Refreshing
<1>12. CASE PostProgress
  BY <1>0, <1>12, Numbers
  DEF PostProgress, Health, Leave, Statuses, IInv, MethodInv, DoneInv,
      Working, vars, devVars, toolVars, locals, envVars, CycleOpen,
      Refreshing
<1>13. CASE PostStatus
  BY <1>0, <1>13, Numbers
  DEF PostStatus, DevReadStatus, Ended, Grown, Leave, Final, Statuses, IInv,
      MethodInv, DoneInv, Working, vars, devVars, toolVars, locals, envVars,
      CycleOpen, Refreshing
<1>14. CASE Close
  BY <1>0, <1>14, Numbers
  DEF Close, Fault, Statuses, IInv, MethodInv, DoneInv, Working, vars,
      devVars, toolVars, locals, envVars, CycleOpen, Refreshing
<1>15. CASE StatusAnswerLost
  BY <1>0, <1>15, Numbers
  DEF StatusAnswerLost, DevReadStatus, Fault, Leave, Final, Statuses, IInv,
      MethodInv, DoneInv, Working, vars, devVars, toolVars, locals, envVars,
      CycleOpen, Refreshing
<1>16. CASE \E place \in Queries : Fails(place)
  BY <1>0, <1>16, Numbers
  DEF Queries, Fails, Fault, Leave, Statuses, IInv, MethodInv, DoneInv,
      Working, vars, devVars, toolVars, locals, envVars, CycleOpen,
      Refreshing
<1>17. CASE Again
  BY <1>0, <1>17, Numbers
  DEF Again, Unread, Statuses, IInv, MethodInv, DoneInv, Working, vars,
      devVars, toolVars, locals, envVars, CycleOpen, Refreshing
<1>18. CASE DeviceStep
  BY <1>0, <1>18, Numbers
  DEF DeviceStep, DevUnitEnds, Statuses, IInv, MethodInv, DoneInv, Working,
      vars, devVars, toolVars, locals, envVars, CycleOpen, Refreshing
<1>19. CASE OtherReader
  BY <1>0, <1>19, Numbers
  DEF OtherReader, DevReadStatus, Final, Statuses, IInv, MethodInv, DoneInv,
      Working, vars, devVars, toolVars, locals, envVars, CycleOpen,
      Refreshing
<1>20. CASE OtherAborts
  BY <1>0, <1>20, Numbers
  DEF OtherAborts, DevAbort, Statuses, IInv, MethodInv, DoneInv, Working,
      vars, devVars, toolVars, locals, envVars, CycleOpen, Refreshing
<1>21. CASE UNCHANGED vars
  BY <1>0, <1>21, Numbers
  DEF Statuses, IInv, MethodInv, DoneInv, Working, vars, devVars, toolVars,
      locals, envVars, CycleOpen, Refreshing
<1>22. CASE Interrupted
  BY <1>0, <1>22, Numbers
  DEF Interrupted, Enabling, DevEnable, DevRefuse, DevWriteMethod,
      DevWriteUnit, Fault, Statuses, IInv, MethodInv, DoneInv, Working, vars, devVars, toolVars,
      locals, envVars, CycleOpen, Refreshing
<1>23. QED
  BY <1>1, <1>2, <1>3, <1>4, <1>5, <1>6, <1>7, <1>8, <1>9, <1>10, <1>11,
     <1>12, <1>13, <1>14, <1>15, <1>16, <1>17, <1>18, <1>19, <1>20, <1>21,
     <1>22
  DEF Next, ToolNext, Terminating

\* A run begins with nothing achieved.
LEMMA DoneStarted == Init => DoneInv
<1> SUFFICES ASSUME Init PROVE DoneInv
  OBVIOUS
<1>1. totcount = 0 /\ pc = "start" /\ total \in Nat
  BY MaxTotalAssumption DEF Init, DevInit
<1>2. QED
  BY <1>1 DEF DoneInv, Working

\* Whatever order the device, the tool and other readers take: a run whose
\* refresh job came to its end passes hmr_postcondition_verify.
THEOREM Passes == Spec => PassesWhenDone
<1> DEFINE Ok == (pc \in {"post_progress", "post_status"} /\ pc' = "close" /\
                  faults' = 0 /\ aborts = 0) => rc' = "OK"
<1>1. Init => IInv /\ DoneInv
  BY Started, DoneStarted
<1>2. IInv /\ DoneInv /\ [Next]_vars => IInv' /\ DoneInv'
  BY TypedStep, MethodStep, QuietStep, SpendStep, DoneStep DEF IInv
<1>3. IInv /\ DoneInv /\ [Next]_vars => [Ok]_vars
  <2> SUFFICES ASSUME IInv, DoneInv, Next,
                      pc \in {"post_progress", "post_status"}, pc' = "close",
                      faults' = 0, aborts = 0
               PROVE  rc' = "OK"
    OBVIOUS
  <2>0. /\ faults \in Nat /\ total \in Nat /\ totcount \in Nat
        /\ status \in Statuses
    BY Numbers, ToolBounds DEF IInv, Typed, TypeOK, DevTypeOK
  <2>1. ~ CycleOpen /\ totcount <= total
    BY DEF DoneInv
  <2>2. CASE PostProgress
    BY <2>1, <2>2 DEF PostProgress
  <2>3. CASE PostStatus
    <3>1. faults = 0 /\ pc = "post_status"
      BY <2>3 DEF PostStatus, envVars
    <3>2. /\ total > totcount /\ health.total = total
          /\ status \in {"IN_PROGRESS", "COMPLETED", "IDLE"}
      BY <2>1, <3>1 DEF DoneInv, Working
    <3>3. QED
      BY <2>0, <2>1, <2>3, <3>2
      DEF PostStatus, Ended, Grown, Leave, CycleOpen, Refreshing
  <2>4. CASE StatusAnswerLost \/ \E place \in Queries : Fails(place)
    BY <2>0, <2>4 DEF StatusAnswerLost, Fails, Fault
  <2>5. CASE LoopProgress \/ DeviceStep \/ OtherReader \/ OtherAborts \/ Again
    BY <2>5
    DEF LoopProgress, DeviceStep, OtherReader, OtherAborts, Again, toolVars
  <2>6. QED
    BY <2>2, <2>3, <2>4, <2>5
    DEF Next, ToolNext, Terminating, Open, RunProgress, RunMethod, RunUnit,
        PreStatus, SetMethod, SetUnit, Enable, Enabling, EnableRetry,
        Interrupted, UnitCompleted, Close
<1>4. QED
  BY <1>1, <1>2, <1>3, PTL DEF Spec, PassesWhenDone
=============================================================================
